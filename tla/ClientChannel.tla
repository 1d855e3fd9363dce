---------------------------- MODULE ClientChannel ----------------------------
(***************************************************************************)
(* TcpClientSocket and ProtoClientSocket: each channel has a thread that   *)
(* connects, announces the connection, runs BasicChannel::do_message_loop  *)
(* until the connection ends, and connects again; its owner may destroy it *)
(* at any moment.  One event of the loop is one action (a pass that finds  *)
(* the socket readable and writable handles the two events in turn: the    *)
(* kernel and the owner may move between them); the destructor runs in the *)
(* owner's thread and interleaves with it.                                 *)
(*                                                                         *)
(* A TcpClientSocket counts what it has sent and read in members; every    *)
(* ProtoClientSocket uses the same static counters, one set for all.       *)
(* Data is counted in units, as in TcpServer; ProtoFraming models the      *)
(* bytes of one framed connection.                                         *)
(***************************************************************************)
EXTENDS Integers, Sequences, MessageQueue

CONSTANTS Chans,        \* the channels of the pool that are TCP clients
          Kinds,        \* the kinds a channel may be of: "tcp", "proto"
          Statics,      \* the static counters of ProtoClientSocket
          None,         \* no packet
          PacketLen,    \* units in an outgoing packet
          SndBuf,       \* units a socket send buffer holds
          MsgLen,       \* units in an incoming message of a framed channel
          OutTypes,     \* message types the application puts on outQueue
          CmdTypes,     \* message types the application puts on outCmdQueue
          MaxConns,     \* bound on the connections one channel makes
          MaxRequests,  \* bound on the application's requests to one channel
          MaxRx,        \* bound on the units received over one connection
          MaxIn         \* bound on the messages waiting in inQueue

MessageType == {"DATA", "OPEN", "CLOSE", "ZIPPED"}
DataTypes   == {"DATA", "ZIPPED"}

Request == [id : 1..MaxRequests, type : MessageType]

ASSUME ClientAssumption ==
    /\ Statics \notin Chans
    /\ None \notin Request
    /\ Kinds \subseteq {"tcp", "proto"}
    /\ PacketLen \in Nat \ {0}
    /\ SndBuf \in Nat \ {0}
    /\ MsgLen \in Nat \ {0}
    /\ OutTypes \subseteq MessageType
    /\ CmdTypes \subseteq MessageType
    /\ MaxConns \in Nat
    /\ MaxRequests \in Nat
    /\ MaxRx \in Nat
    /\ MaxIn \in Nat \ {0}

VARIABLES
    chan,        \* chan[ch]: the object and its thread
    bytesSent,   \* per counter: units sent of the packet being sent
    bytesRecvd,  \* per counter: units read of the message being read
    queues,      \* queues[ch]: its four message queues
    app,         \* app[ch]: what the application knows and has taken
    sock         \* sock[ch]: its latest connection

vars == <<chan, bytesSent, bytesRecvd, queues, app, sock>>

Framed(ch) == chan[ch].kind = "proto"
Counter(ch) == IF Framed(ch) THEN Statics ELSE ch
Lesser(a, b) == IF a <= b THEN a ELSE b

Channel == [kind : Kinds,
            pc : {"top", "connecting", "connected", "loop", "cleanup", "exited"},
            owner : {"alive", "exit", "busy", "closing", "join", "joined"},
            exit : BOOLEAN, busy : BOOLEAN,
            epollOpen : BOOLEAN,             \* epollFD is not closed yet
            outQueueWatched : BOOLEAN, epollOut : BOOLEAN,
            packToSend : Request \cup {None},
            rcvState : {"IO_START", "IO_CONTINUE"}]

Announcement == [type : {"OPEN", "CLOSE"}, conn : 1..MaxConns]
\* The first unit is where the counter says the message began, which is wrong
\* when another channel has counted in between.
Received == [conn : 1..MaxConns, from : Int, upto : Nat]

Socket == [n : 0..MaxConns,                  \* number of the connection
           remote : {"live", "gone"}, rxSent : 0..MaxRx, rxRead : Nat,
           room : 0..SndBuf, wire : Seq([id : 1..MaxRequests, n : Nat])]

NewSocket(n) == [n |-> n, remote |-> "live", rxSent |-> 0, rxRead |-> 0,
                 room |-> SndBuf, wire |-> <<>>]

Init ==
    /\ \E kind \in [Chans -> Kinds] : chan = [ch \in Chans |->
          [kind |-> kind[ch], pc |-> "top", owner |-> "alive",
           exit |-> FALSE, busy |-> FALSE,
           epollOpen |-> TRUE, outQueueWatched |-> FALSE, epollOut |-> FALSE,
           packToSend |-> None, rcvState |-> "IO_START"]]
    /\ bytesSent = [x \in Chans \cup {Statics} |-> 0]
    /\ bytesRecvd = [x \in Chans \cup {Statics} |-> 0]
    /\ queues = [ch \in Chans |-> [in |-> NewQueue, out |-> NewQueue,
                                   inCmd |-> NewQueue, outCmd |-> NewQueue]]
    /\ app = [ch \in Chans |-> [view |-> 0, nextId |-> 1,
                                got |-> [n \in 1..MaxConns |-> 0]]]
    /\ sock = [ch \in Chans |-> NewSocket(0)]

-----------------------------------------------------------------------------
(* thread_run: while(!exit) connect, do_message_loop, close.                *)

Goto(ch, from, to) ==
    /\ chan[ch].pc = from
    /\ chan' = [chan EXCEPT ![ch].pc = to]

StartConnect(ch) ==
    /\ ~chan[ch].exit
    /\ Goto(ch, "top", "connecting")
    /\ UNCHANGED <<bytesSent, bytesRecvd, queues, app, sock>>

\* The connection is refused, or select() times out after 10 seconds.
ConnectFails(ch) ==
    /\ Goto(ch, "connecting", "top")
    /\ UNCHANGED <<bytesSent, bytesRecvd, queues, app, sock>>

Connected(ch) ==
    /\ chan[ch].pc = "connecting"
    /\ sock[ch].n < MaxConns
    /\ chan' = [chan EXCEPT ![ch].pc = "connected", ![ch].busy = TRUE]
    /\ sock' = [sock EXCEPT ![ch] = NewSocket(sock[ch].n + 1)]
    /\ UNCHANGED <<bytesSent, bytesRecvd, queues, app>>

\* Mutation: OPEN is pushed without forceStart.
OpenMessageIfStarted(ch) ==
    queues' = [queues EXCEPT ![ch].inCmd =
                   Push(@, [type |-> "OPEN", conn |-> sock[ch].n], FALSE)]

OpenMessage(ch) ==
    queues' = [queues EXCEPT ![ch].inCmd =
                   Push(@, [type |-> "OPEN", conn |-> sock[ch].n], TRUE)]

\* do_message_loop up to while(busy).
EnterLoop(ch) ==
    /\ chan[ch].pc = "connected"
    /\ OpenMessage(ch)
    /\ chan' = [chan EXCEPT ![ch].pc = "loop", ![ch].outQueueWatched = TRUE,
                            ![ch].epollOut = FALSE, ![ch].packToSend = None,
                            ![ch].rcvState = "IO_START"]
    /\ UNCHANGED <<bytesSent, bytesRecvd, app, sock>>

ThreadExit(ch) ==
    /\ chan[ch].exit
    /\ Goto(ch, "top", "exited")
    /\ UNCHANGED <<bytesSent, bytesRecvd, queues, app, sock>>

-----------------------------------------------------------------------------
(* do_message_loop: one action per event.                                   *)

Polling(ch) == chan[ch].pc = "loop" /\ chan[ch].busy /\ chan[ch].epollOpen

\* What a wire w has carried after n more units of packet p.
Sent(w, p, n) ==
    IF w # <<>> /\ w[Len(w)].id = p.id
    THEN [w EXCEPT ![Len(w)].n = @ + n]
    ELSE Append(w, [id |-> p.id, n |-> n])

PutOnWire(ch, p, n) ==
    sock' = [sock EXCEPT ![ch].room = @ - n, ![ch].wire = Sent(@, p, n)]

\* Mutation: outQueue stays watched while the packet is unfinished.
StartedKeepsTaking(ch, p, n) ==
    chan' = [chan EXCEPT ![ch].packToSend = p, ![ch].epollOut = n < PacketLen]

\* n units of p are sent; if that is not all, EPOLLOUT is waited for and
\* outQueue is not.
Started(ch, p, n) ==
    chan' = [chan EXCEPT ![ch].packToSend = p, ![ch].epollOut = n < PacketLen,
                         ![ch].outQueueWatched = n = PacketLen]

OutQueueEvent(ch) ==
    /\ Polling(ch)
    /\ chan[ch].outQueueWatched
    /\ QueueReadable(queues[ch].out)
    /\ queues' = [queues EXCEPT ![ch].out = Pop(@)]

SendStart(ch) ==
    /\ OutQueueEvent(ch)
    /\ LET p == Head(queues[ch].out.items)
           n == Lesser(sock[ch].room, PacketLen)
       IN /\ p.type \in DataTypes
          /\ PutOnWire(ch, p, n)
          /\ bytesSent' = [bytesSent EXCEPT ![Counter(ch)] = n]
          /\ Started(ch, p, n)
    /\ UNCHANGED <<bytesRecvd, app>>

UnknownPacketType(ch) ==
    /\ OutQueueEvent(ch)
    /\ LET p == Head(queues[ch].out.items) IN
       /\ p.type \notin DataTypes
       /\ chan' = [chan EXCEPT ![ch].packToSend = p]
    /\ UNCHANGED <<bytesSent, bytesRecvd, app, sock>>

\* Only CLOSE is obeyed: busy = 0 and the loop is left.
TakeCommand(ch) ==
    /\ Polling(ch)
    /\ QueueReadable(queues[ch].outCmd)
    /\ queues' = [queues EXCEPT ![ch].outCmd = Pop(@)]
    /\ chan' = [chan EXCEPT ![ch].busy = Head(queues[ch].outCmd.items).type # "CLOSE"]
    /\ UNCHANGED <<bytesSent, bytesRecvd, app, sock>>

Unread(ch) == sock[ch].rxSent - sock[ch].rxRead

\* Mutation: a new message does not start the count again.
ReadBeforeKept(ch) == bytesRecvd[Counter(ch)]

\* Units of the current message read before this call of recv_packet.
ReadBefore(ch) ==
    IF Framed(ch) /\ chan[ch].rcvState = "IO_CONTINUE" THEN bytesRecvd[Counter(ch)] ELSE 0

Taken(ch) ==
    IF Framed(ch) THEN Lesser(Unread(ch), MsgLen - ReadBefore(ch)) ELSE Unread(ch)

\* recv_packet returns 0.  A raw channel that meets the end of the stream
\* returns -2 instead, whatever it had read before.
Completes(ch) ==
    IF Framed(ch) THEN ReadBefore(ch) + Taken(ch) = MsgLen ELSE sock[ch].remote = "live"

RecvPacket(ch) ==
    /\ Polling(ch)
    /\ Taken(ch) > 0
    /\ Len(queues[ch].in.items) < MaxIn
    /\ bytesRecvd' = [bytesRecvd EXCEPT ![Counter(ch)] = ReadBefore(ch) + Taken(ch)]
    /\ sock' = [sock EXCEPT ![ch].rxRead = @ + Taken(ch)]
    /\ IF Completes(ch)
       THEN /\ queues' = [queues EXCEPT ![ch].in =
                   Push(@, [conn |-> sock[ch].n,
                            from |-> (sock[ch].rxRead + 1) - ReadBefore(ch),
                            upto |-> sock[ch].rxRead + Taken(ch)], TRUE)]
            /\ chan' = [chan EXCEPT ![ch].rcvState = "IO_START"]
       ELSE /\ sock[ch].remote = "live"
            /\ chan' = [chan EXCEPT ![ch].rcvState = "IO_CONTINUE"]
            /\ UNCHANGED queues
    /\ UNCHANGED <<bytesSent, app>>

\* Mutation: what was sent before is not subtracted.
WholePacket(ch) == PacketLen

RestToSend(ch) == PacketLen - bytesSent[Counter(ch)]

\* Mutation: EPOLLOUT is disarmed and outQueue is not watched again.
ContinuedForgetsQueue(ch, done) ==
    chan' = [chan EXCEPT ![ch].epollOut = ~done]

\* When the packet is done outQueue is watched again and EPOLLOUT is not.
Continued(ch, done) ==
    chan' = [chan EXCEPT ![ch].epollOut = ~done, ![ch].outQueueWatched = done]

SendContinue(ch) ==
    /\ Polling(ch)
    /\ chan[ch].epollOut
    /\ sock[ch].room > 0
    /\ LET n == Lesser(sock[ch].room, RestToSend(ch)) IN
       /\ PutOnWire(ch, chan[ch].packToSend, n)
       /\ bytesSent' = [bytesSent EXCEPT ![Counter(ch)] = @ + n]
       /\ Continued(ch, n = RestToSend(ch))
    /\ UNCHANGED <<bytesRecvd, queues, app>>

\* recv() of no bytes at all returns 0, and recv_packet takes that for the end
\* of the stream: the counter says the message is complete already.
ReadsNothing(ch) ==
    Framed(ch) /\ chan[ch].epollOpen /\ Unread(ch) > 0 /\ Taken(ch) = 0

\* while(busy) ends, epoll_wait fails on a closed epollFD, or recv_packet or
\* send_packet fails.
LeaveLoop(ch) ==
    /\ chan[ch].pc = "loop"
    /\ \/ ~chan[ch].busy
       \/ ~chan[ch].epollOpen
       \/ sock[ch].remote = "gone"
       \/ ReadsNothing(ch)
    /\ chan' = [chan EXCEPT ![ch].pc = "cleanup"]
    /\ queues' = [queues EXCEPT ![ch].inCmd =
                      Push(@, [type |-> "CLOSE", conn |-> sock[ch].n], FALSE)]
    /\ UNCHANGED <<bytesSent, bytesRecvd, app, sock>>

\* The rest of do_message_loop, whose locals end with it, and of the pass of
\* thread_run, which closes the socket.
Cleanup(ch) ==
    /\ chan[ch].pc = "cleanup"
    /\ chan' = [chan EXCEPT ![ch].pc = "top", ![ch].busy = FALSE,
                            ![ch].outQueueWatched = FALSE, ![ch].epollOut = FALSE,
                            ![ch].packToSend = None, ![ch].rcvState = "IO_START"]
    /\ queues' = [queues EXCEPT ![ch].out = StopAndClear(@), ![ch].outCmd = StopAndClear(@)]
    /\ sock' = [sock EXCEPT ![ch] = NewSocket(sock[ch].n)]
    /\ UNCHANGED <<bytesSent, bytesRecvd, app>>

LoopEvent(ch) ==
    \/ SendStart(ch)
    \/ UnknownPacketType(ch)
    \/ TakeCommand(ch)
    \/ RecvPacket(ch)
    \/ SendContinue(ch)
    \/ LeaveLoop(ch)

Thread(ch) ==
    \/ StartConnect(ch)
    \/ ConnectFails(ch)
    \/ Connected(ch)
    \/ EnterLoop(ch)
    \/ ThreadExit(ch)
    \/ LoopEvent(ch)
    \/ Cleanup(ch)

-----------------------------------------------------------------------------
(* ~TcpClientSocket, then ~BasicChannel, in the owner's thread.             *)

\* exit = 1
DestroyBegins(ch) ==
    /\ chan[ch].owner = "alive"
    /\ chan' = [chan EXCEPT ![ch].owner = "exit", ![ch].exit = TRUE]
    /\ UNCHANGED <<bytesSent, bytesRecvd, queues, app, sock>>

\* clear_and_close(): busy = 0
ClearAndClose(ch) ==
    /\ chan[ch].owner = "exit"
    /\ chan' = [chan EXCEPT ![ch].owner = "busy", ![ch].busy = FALSE]
    /\ UNCHANGED <<bytesSent, bytesRecvd, queues, app, sock>>

\* Mutation: epollFD is left open.
CloseEpollNot(ch) ==
    chan' = [chan EXCEPT ![ch].owner = "closing", ![ch].outQueueWatched = FALSE]

CloseEpoll(ch) ==
    chan' = [chan EXCEPT ![ch].owner = "closing", ![ch].outQueueWatched = FALSE,
                         ![ch].epollOpen = FALSE]

\* delete_wait of everything, stop_and_clear of the in queues, close(epollFD)
StopWaiting(ch) ==
    /\ chan[ch].owner = "busy"
    /\ CloseEpoll(ch)
    /\ queues' = [queues EXCEPT ![ch].in = StopAndClear(@), ![ch].inCmd = StopAndClear(@)]
    /\ UNCHANGED <<bytesSent, bytesRecvd, app, sock>>

\* busy = 0; exit = 1
LastFlags(ch) ==
    /\ chan[ch].owner = "closing"
    /\ chan' = [chan EXCEPT ![ch].owner = "join", ![ch].busy = FALSE, ![ch].exit = TRUE]
    /\ UNCHANGED <<bytesSent, bytesRecvd, queues, app, sock>>

Join(ch) ==
    /\ chan[ch].owner = "join"
    /\ chan[ch].pc = "exited"
    /\ chan' = [chan EXCEPT ![ch].owner = "joined"]
    /\ UNCHANGED <<bytesSent, bytesRecvd, queues, app, sock>>

DestructorRuns(ch) ==
    \/ ClearAndClose(ch)
    \/ StopWaiting(ch)
    \/ LastFlags(ch)
    \/ Join(ch)

-----------------------------------------------------------------------------
(* The application, while it owns the channel.                              *)

AppStep(ch) ==
    /\ chan[ch].owner = "alive"
    /\ UNCHANGED <<chan, bytesSent, bytesRecvd, sock>>

AppLearn(ch) ==
    /\ AppStep(ch)
    /\ QueueReadable(queues[ch].inCmd)
    /\ LET m == Head(queues[ch].inCmd.items) IN
       app' = [app EXCEPT ![ch].view = IF m.type = "OPEN" THEN m.conn ELSE 0]
    /\ queues' = [queues EXCEPT ![ch].inCmd = Pop(@)]

AppReceive(ch) ==
    /\ AppStep(ch)
    /\ QueueReadable(queues[ch].in)
    /\ LET m == Head(queues[ch].in.items) IN
       app' = [app EXCEPT ![ch].got[m.conn] = m.upto]
    /\ queues' = [queues EXCEPT ![ch].in = Pop(@)]

\* A request to a channel the application believes connected.
AppRequest(ch) ==
    /\ AppStep(ch)
    /\ app[ch].view # 0
    /\ app[ch].nextId <= MaxRequests
    /\ app' = [app EXCEPT ![ch].nextId = @ + 1]

NewRequest(ch, type) == [id |-> app[ch].nextId, type |-> type]

AppSend(ch, type, forceStart) ==
    /\ AppRequest(ch)
    /\ queues' = [queues EXCEPT ![ch].out = Push(@, NewRequest(ch, type), forceStart)]

AppCommand(ch, type, forceStart) ==
    /\ AppRequest(ch)
    /\ queues' = [queues EXCEPT ![ch].outCmd = Push(@, NewRequest(ch, type), forceStart)]

App(ch) ==
    \/ AppLearn(ch)
    \/ AppReceive(ch)
    \/ \E type \in OutTypes, force \in BOOLEAN : AppSend(ch, type, force)
    \/ \E type \in CmdTypes, force \in BOOLEAN : AppCommand(ch, type, force)

-----------------------------------------------------------------------------
(* The server at the other end, and the kernel.                             *)

NetStep(ch) ==
    /\ chan[ch].pc \in {"connected", "loop"}
    /\ sock[ch].remote = "live"
    /\ UNCHANGED <<chan, bytesSent, bytesRecvd, queues, app>>

RemoteSend(ch) ==
    /\ NetStep(ch)
    /\ sock[ch].rxSent < MaxRx
    /\ sock' = [sock EXCEPT ![ch].rxSent = @ + 1]

RemoteDrain(ch) ==
    /\ NetStep(ch)
    /\ sock[ch].room < SndBuf
    /\ sock' = [sock EXCEPT ![ch].room = @ + 1]

RemoteClose(ch) ==
    /\ NetStep(ch)
    /\ sock' = [sock EXCEPT ![ch].remote = "gone"]

Network(ch) == RemoteSend(ch) \/ RemoteDrain(ch) \/ RemoteClose(ch)

Next ==
    \E ch \in Chans :
        \/ Thread(ch)
        \/ DestroyBegins(ch)
        \/ DestructorRuns(ch)
        \/ App(ch)
        \/ Network(ch)

(* Both threads run; connect and select end within 10 seconds, one way or   *)
(* the other; epoll_wait serves the ready sources in rotation, and the      *)
(* server keeps reading.                                                    *)
Fairness ==
    \A ch \in Chans :
        /\ WF_vars(StartConnect(ch)) /\ WF_vars(ConnectFails(ch) \/ Connected(ch))
        /\ WF_vars(EnterLoop(ch)) /\ WF_vars(ThreadExit(ch)) /\ WF_vars(Cleanup(ch))
        /\ WF_vars(SendStart(ch) \/ UnknownPacketType(ch)) /\ WF_vars(TakeCommand(ch))
        /\ WF_vars(RecvPacket(ch)) /\ WF_vars(SendContinue(ch)) /\ WF_vars(LeaveLoop(ch))
        /\ WF_vars(DestructorRuns(ch))
        /\ WF_vars(RemoteDrain(ch))

Spec == Init /\ [][Next]_vars
FairSpec == Spec /\ Fairness

-----------------------------------------------------------------------------
(* Properties.                                                              *)

TypeOK ==
    /\ chan \in [Chans -> Channel]
    /\ bytesSent \in [Chans \cup {Statics} -> 0..PacketLen]
    /\ bytesRecvd \in [Chans \cup {Statics} -> Nat]
    /\ queues \in [Chans -> [in : QueueOf(Received), out : QueueOf(Request),
                             inCmd : QueueOf(Announcement), outCmd : QueueOf(Request)]]
    /\ app \in [Chans -> [view : 0..MaxConns, nextId : 1..(MaxRequests + 1),
                          got : [1..MaxConns -> Nat]]]
    /\ sock \in [Chans -> Socket]

(* While the channel is in use, the loop that does not watch outQueue       *)
(* waits for EPOLLOUT with a packet to finish: output cannot stop for good. *)
OutQueueNotStuck ==
    \A ch \in Chans :
        Polling(ch) /\ chan[ch].owner = "alive" /\ ~chan[ch].outQueueWatched =>
            chan[ch].epollOut /\ chan[ch].packToSend # None

(* Every packet but the last on a connection is sent whole: the rest of a   *)
(* packet is sent from where it stopped, before the next one is begun.      *)
PacketsSentWhole ==
    \A ch \in Chans : \A i \in 1..(Len(sock[ch].wire) - 1) :
        sock[ch].wire[i].n = PacketLen

\* Units of its connection the application has before the ith message of s.
Before(s, i, got) ==
    IF i > 1 /\ s[i-1].conn = s[i].conn THEN s[i-1].upto ELSE got[s[i].conn]

(* What the application got from a connection and what waits in inQueue is  *)
(* the server's stream from its first unit on, connection by connection and *)
(* message after message, without a gap, a repetition or a change of order. *)
ReceivedGapless ==
    \A ch \in Chans : chan[ch].owner = "alive" =>
        LET s == queues[ch].in.items
        IN /\ \A i, j \in 1..Len(s) : i < j => s[i].conn <= s[j].conn
           /\ \A i \in 1..Len(s) :
                  /\ s[i].from = Before(s, i, app[ch].got) + 1
                  /\ Framed(ch) => s[i].upto = Before(s, i, app[ch].got) + MsgLen

(* The announcements still to be read bring the application's view to the   *)
(* connection the loop is serving, or to none when it serves none.          *)
ViewConverges ==
    \A ch \in Chans :
        LET feed == queues[ch].inCmd.items
            final == IF feed = <<>> THEN app[ch].view
                     ELSE IF feed[Len(feed)].type = "OPEN" THEN feed[Len(feed)].conn
                     ELSE 0
        IN chan[ch].owner = "alive" =>
               final = IF chan[ch].pc = "loop" THEN sock[ch].n ELSE 0

(* Destroying a channel ends: whatever its thread was doing, and even if it *)
(* sets busy after the destructor cleared it, the thread leaves and is      *)
(* joined.                                                                  *)
DestroyJoins == \A ch \in Chans : chan[ch].owner = "exit" ~> chan[ch].owner = "joined"

(* A packet pushed while the loop serves is taken off outQueue, to be sent  *)
(* or with the clean-up.                                                    *)
OutQueueServed ==
    \A ch \in Chans, id \in 1..MaxRequests :
        LET waiting == \E i \in 1..Len(queues[ch].out.items) : queues[ch].out.items[i].id = id
        IN chan[ch].pc = "loop" /\ waiting ~> ~waiting
=============================================================================
