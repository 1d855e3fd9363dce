---------------------------- MODULE DeviceChannel ----------------------------
(***************************************************************************)
(* The channels that serve no connection: UdpClientSocket (a datagram      *)
(* socket), COMPort (a serial port) and VirtualChannel (a callback of the  *)
(* application, set while the thread already runs).  thread_run opens what *)
(* it serves, runs the message loop, and does so again until exit; a       *)
(* virtual channel opens a socket nobody uses, once.  The owner destroys   *)
(* the channel from another thread: none of the three has a destructor of  *)
(* its own that does anything.                                             *)
(*                                                                         *)
(* The offset at which a packet is continued is a static variable of each  *)
(* send_packet: all serial ports share one, all UDP channels another, and  *)
(* nothing protects it.  The other channels of this one's kind appear here *)
(* by what their calls do to it.                                           *)
(*                                                                         *)
(* One event of the loop is one action, as in ClientChannel, except that   *)
(* send_packet of a port or a UDP channel is cut where it reads or stores  *)
(* the static offset, and no one is kept out meanwhile.  Calls to open the *)
(* device that fail and are tried again change nothing and have no action. *)
(***************************************************************************)
EXTENDS Naturals, Sequences, MessageQueue

CONSTANTS Kinds,        \* of "udp", "com", "virtual"
          None,         \* no packet
          PacketLen,    \* units in an outgoing packet
          SndBuf,       \* units the output buffer of a port holds
          OutTypes,     \* message types the application puts on outQueue
          CmdTypes,     \* message types the application puts on outCmdQueue
          Siblings,     \* other channels of the kind that there may be
          Crowded,      \* the kinds of which there may be others
          OtherLen,     \* units in a packet of theirs
          MaxStores,    \* bound on the times they store to bytesSent
          MaxRequests,  \* bound on the application's requests
          MaxRx,        \* bound on the units or datagrams received
          MaxIn,        \* bound on the packets waiting in inQueue
          MaxFeed       \* bound on the announcements the application is behind

MessageType == {"DATA", "OPEN", "CLOSE", "ZIPPED"}
DataTypes   == {"DATA", "ZIPPED"}

Request == [id : 1..MaxRequests, type : MessageType]

\* What recv_packet leaves in recvPacket: units from..upto, or no buffer.
Received == [from : 1..MaxRx, upto : 1..MaxRx]
NullPacket == [from |-> 0, upto |-> 0]

ASSUME DeviceAssumption ==
    /\ Kinds \subseteq {"udp", "com", "virtual"}
    /\ Crowded \subseteq Kinds \ {"virtual"}
    /\ None \notin Request
    /\ PacketLen \in Nat \ {0}
    /\ SndBuf \in Nat \ {0}
    /\ OtherLen \in Nat \ {0}
    /\ OutTypes \subseteq MessageType
    /\ CmdTypes \subseteq MessageType
    /\ {MaxRequests, MaxRx, MaxStores} \subseteq Nat
    /\ {MaxIn, MaxFeed} \subseteq Nat \ {0}

VARIABLES
    chan,    \* the object, its thread and its owner
    queues,  \* its four message queues
    app,     \* what the application knows, asked for and has taken
    dev,     \* the socket, the port or the callback, and the other end
    static   \* bytesSent of send_packet, and the other channels that use it

vars == <<chan, queues, app, dev, static>>

Channel == [kind : Kinds,
            pc : {"start", "top", "opened", "loop", "turn", "sending", "counted",
                  "returning", "failed", "cleanup", "exited"},
            owner : {"alive", "closing", "idle", "join", "joined"},
            exit : BOOLEAN, busy : BOOLEAN,
            epollOpen : BOOLEAN,             \* epollFD is not closed yet
            outQueueWatched : BOOLEAN, epollOut : BOOLEAN,
            packToSend : Request \cup {None},
            at : Nat,                        \* where sendto or write sends from, or 0
            callback : BOOLEAN,              \* the callback is set
            pool : BOOLEAN]                  \* chp can be locked

Device == [open : BOOLEAN,                   \* clientfd is open
           hungUp : BOOLEAN,                 \* the port is gone
           rxSent : 0..MaxRx, rxRead : 0..MaxRx,
           room : 0..SndBuf,
           wire : Seq([id : 1..MaxRequests, from : 0..PacketLen, upto : 0..PacketLen])]

\* others send through the same send_packet, each from at[s] while it does.
Static == [others : SUBSET Siblings, bytesSent : Nat,
           at : [Siblings -> 0..(OtherLen - 1) \cup {None}], stores : 0..MaxStores]

\* This channel is the only one of its kind.
Alone == static.others = {}

Init ==
    /\ \E kind \in Kinds :
           chan = [kind |-> kind, pc |-> IF kind = "udp" THEN "top" ELSE "start",
                   owner |-> "alive", exit |-> FALSE, busy |-> FALSE,
                   epollOpen |-> TRUE, outQueueWatched |-> FALSE, epollOut |-> FALSE,
                   packToSend |-> None, at |-> 0, callback |-> FALSE, pool |-> TRUE]
    /\ queues = [in |-> NewQueue, out |-> NewQueue, inCmd |-> NewQueue, outCmd |-> NewQueue]
    /\ app = [view |-> "CLOSE", nextId |-> 1, got |-> 0]
    /\ dev = [open |-> FALSE, hungUp |-> FALSE, rxSent |-> 0, rxRead |-> 0,
              room |-> SndBuf, wire |-> <<>>]
    /\ \E others \in SUBSET Siblings :
           /\ chan.kind \notin Crowded => others = {}
           /\ static = [others |-> others, bytesSent |-> 0,
                        at |-> [s \in Siblings |-> None], stores |-> 0]

-----------------------------------------------------------------------------
(* thread_run.                                                              *)

\* A port and a virtual channel set busy here, once for all passes.
Start ==
    /\ chan.pc = "start"
    /\ chan' = [chan EXCEPT !.pc = "top", !.busy = TRUE]
    /\ UNCHANGED <<queues, app, dev, static>>

\* socket, bind or listen of a virtual channel fails: the thread ends.
StartFails ==
    /\ chan.pc = "start"
    /\ chan.kind = "virtual"
    /\ chan' = [chan EXCEPT !.pc = "exited"]
    /\ UNCHANGED <<queues, app, dev, static>>

ThreadExit ==
    /\ chan.pc = "top"
    /\ chan.exit
    /\ chan' = [chan EXCEPT !.pc = "exited"]
    /\ UNCHANGED <<queues, app, dev, static>>

\* A UDP socket sets busy here, in every pass.
OpenSocket ==
    /\ chan.kind = "udp"
    /\ chan.pc = "top" /\ ~chan.exit
    /\ chan' = [chan EXCEPT !.pc = "opened", !.busy = TRUE]
    /\ dev' = [dev EXCEPT !.open = TRUE]
    /\ UNCHANGED <<queues, app, static>>

\* The descriptor of the pass before, if any, stays open too, and what the
\* line has delivered stays readable; a port that was gone is there again.
OpenPort ==
    /\ chan.kind = "com"
    /\ chan.pc = "top" /\ ~chan.exit
    /\ chan' = [chan EXCEPT !.pc = "opened"]
    /\ dev' = [dev EXCEPT !.open = TRUE, !.hungUp = FALSE]
    /\ UNCHANGED <<queues, app, static>>

\* Mutation: the announcement is made without forceStart.
OpenMessageIfStarted == queues' = [queues EXCEPT !.inCmd = Push(@, "OPEN", FALSE)]

OpenMessage == queues' = [queues EXCEPT !.inCmd = Push(@, "OPEN", TRUE)]

\* do_message_loop up to while(busy).  What is announced to a channel under
\* destruction nobody reads, and is left out.
EnterLoop ==
    /\ \/ chan.pc = "opened"
       \/ chan.kind = "virtual" /\ chan.pc = "top" /\ ~chan.exit
    /\ IF chan.owner = "alive"
       THEN Len(queues.inCmd.items) < MaxFeed /\ OpenMessage
       ELSE UNCHANGED queues
    /\ chan' = [chan EXCEPT !.pc = "loop", !.outQueueWatched = TRUE, !.epollOut = FALSE,
                            !.packToSend = None]
    /\ dev' = [dev EXCEPT !.wire = <<>>]
    /\ UNCHANGED <<app, static>>

-----------------------------------------------------------------------------
(* do_message_loop: sending.                                                *)

\* A virtual channel locks chp in every turn; the thread of a port or of a
\* UDP channel holds the pool as long as it runs.
Polling == chan.pc = "loop" /\ chan.busy /\ chan.pool /\ chan.epollOpen

NextPacket == Head(queues.out.items)

OutQueueEvent(types) ==
    /\ Polling
    /\ chan.outQueueWatched
    /\ QueueReadable(queues.out)
    /\ NextPacket.type \in types
    /\ queues' = [queues EXCEPT !.out = Pop(@)]
    /\ UNCHANGED app

UnknownPacketType ==
    /\ OutQueueEvent(MessageType \ DataTypes)
    /\ chan' = [chan EXCEPT !.packToSend = NextPacket]
    /\ UNCHANGED <<dev, static>>

\* VirtualChannel::send_packet: the callback, if there is one.
HandlePacket ==
    /\ chan.kind = "virtual"
    /\ OutQueueEvent(DataTypes)
    /\ chan' = [chan EXCEPT !.packToSend = NextPacket]
    /\ dev' = IF chan.callback
              THEN [dev EXCEPT !.wire = Append(@, [id |-> NextPacket.id, from |-> 0,
                                                   upto |-> PacketLen])]
              ELSE dev
    /\ UNCHANGED static

\* send_packet up to its loop.
Entered(p) == chan' = [chan EXCEPT !.pc = "turn", !.packToSend = p]

\* IO_START
Started == static' = [static EXCEPT !.bytesSent = 0] /\ Entered(NextPacket)

BeginSend ==
    /\ chan.kind # "virtual"
    /\ OutQueueEvent(DataTypes)
    /\ Started
    /\ UNCHANGED dev

\* Mutation: the packet is begun again.
ResumeFromStart == static' = [static EXCEPT !.bytesSent = 0] /\ Entered(chan.packToSend)

\* IO_CONTINUE: wherever the last call of any channel left bytesSent.
Resume == UNCHANGED static /\ Entered(chan.packToSend)

ContinueSend ==
    /\ Polling
    /\ chan.epollOut
    /\ chan.kind = "com" => dev.room > 0 \/ dev.hungUp
    /\ Resume
    /\ UNCHANGED <<queues, app, dev>>

\* EPOLLOUT is waited for, if clientfd is still open, and outQueue is not.
Unfinished ==
    chan' = [chan EXCEPT !.pc = "loop", !.outQueueWatched = FALSE, !.epollOut = dev.open]

\* Mutation: outQueue is not watched again.
FinishedForgetsQueue == chan' = [chan EXCEPT !.pc = "loop", !.epollOut = FALSE]

\* outQueue is watched, EPOLLOUT is not.
Finished ==
    chan' = [chan EXCEPT !.pc = "loop", !.outQueueWatched = TRUE, !.epollOut = FALSE]

Failed == chan' = [chan EXCEPT !.pc = "failed", !.at = 0]

\* What the loop does with bytesToSend - bytesSent.
Return(b) ==
    \/ b = PacketLen /\ Finished
    \/ b < PacketLen /\ Unfinished
    \/ b > PacketLen /\ Failed

\* return bytesToSend - bytesSent
ReturnLeft ==
    /\ chan.pc = "returning"
    /\ Return(static.bytesSent)
    /\ UNCHANGED <<queues, app, dev, static>>

\* bytesSent += n.  What another thread stores between the load and the
\* store is lost.
Count(n) ==
    /\ \E loaded \in {static.bytesSent, chan.at} :
           static' = [static EXCEPT !.bytesSent = loaded + n]
    /\ chan' = [chan EXCEPT !.pc = "counted", !.at = 0]

\* while(bytesSent < bytesToSend)
AnotherTurn ==
    /\ chan.pc = "counted"
    /\ chan' = [chan EXCEPT !.pc = IF static.bytesSent < PacketLen THEN "turn"
                                  ELSE "returning"]
    /\ UNCHANGED <<queues, app, dev, static>>

\* A turn sends from wherever bytesSent is now (its two reads, for the offset
\* and the length, are one here); a UDP channel opens a socket to send from.
BeginTurn ==
    /\ chan.pc = "turn"
    /\ chan' = [chan EXCEPT !.pc = "sending", !.at = static.bytesSent]
    /\ UNCHANGED <<queues, app, dev, static>>

\* Without that socket, the one to receive on is closed.
NoSendSocket ==
    /\ chan.kind = "udp"
    /\ chan.pc = "turn"
    /\ chan' = [chan EXCEPT !.pc = "returning"]
    /\ dev' = [dev EXCEPT !.open = FALSE, !.rxSent = dev.rxRead]
    /\ UNCHANGED <<queues, app, static>>

\* Mutation: the whole length, wherever the call begins.
WholeLength == PacketLen

Rest == PacketLen - chan.at

\* A call has packLen - bytesSent >= 0 units to send.
InPacket == chan.pc = "sending" /\ chan.at <= PacketLen

\* write() or sendto() fails, as it must on a port that is gone and with a
\* negative length, or select is interrupted.
SendFails ==
    /\ chan.pc = "sending"
    /\ Failed
    /\ UNCHANGED <<queues, app, dev, static>>

\* EAGAIN
SendWaits ==
    /\ InPacket
    /\ ~dev.hungUp
    /\ chan' = [chan EXCEPT !.pc = "returning", !.at = 0]
    /\ UNCHANGED <<queues, app, dev, static>>

Part(n) == [id |-> chan.packToSend.id, from |-> chan.at, upto |-> chan.at + n]

DatagramSent ==
    /\ chan.kind = "udp"
    /\ InPacket
    /\ dev' = [dev EXCEPT !.wire = Append(@, Part(Rest))]
    /\ Count(Rest)
    /\ UNCHANGED <<queues, app>>

Lesser(a, b) == IF a <= b THEN a ELSE b

\* What a line w has carried after part q: it does not keep writes apart.
Sent(w, q) ==
    IF q.from = q.upto THEN w
    ELSE IF w # <<>> /\ w[Len(w)].id = q.id /\ w[Len(w)].upto = q.from
    THEN [w EXCEPT ![Len(w)].upto = q.upto]
    ELSE Append(w, q)

\* COMPort::send_packet: select finds room and write() takes what fits.
WriteChunk ==
    /\ chan.kind = "com"
    /\ InPacket
    /\ ~dev.hungUp
    /\ dev.room > 0
    /\ LET n == Lesser(dev.room, Rest)
       IN /\ dev' = [dev EXCEPT !.room = @ - n, !.wire = Sent(@, Part(n))]
          /\ Count(n)
    /\ UNCHANGED <<queues, app>>

\* select finds no room for a second.
WriteTimesOut ==
    /\ chan.kind = "com"
    /\ chan.pc = "sending"
    /\ ~dev.hungUp
    /\ dev.room = 0
    /\ Count(0)
    /\ UNCHANGED <<queues, app, dev>>

-----------------------------------------------------------------------------
(* do_message_loop: commands, reception, the end.                           *)

\* Only CLOSE is obeyed.
TakeCommand ==
    /\ Polling
    /\ QueueReadable(queues.outCmd)
    /\ queues' = [queues EXCEPT !.outCmd = Pop(@)]
    /\ chan' = [chan EXCEPT !.busy = Head(queues.outCmd.items) # "CLOSE"]
    /\ UNCHANGED <<app, dev, static>>

Unread == dev.rxSent - dev.rxRead

Deliver(packet) == queues' = [queues EXCEPT !.in = Push(@, packet, TRUE)]

\* Mutation: recvfrom is called once more after the packet is made.
KeptOf(k) == IF k < Unread THEN k + 1 ELSE k

\* k units or datagrams are read.
TakenOf(k) == k

\* Reading stops when nothing is left, or after an empty datagram.
RecvPacket ==
    /\ Polling
    /\ dev.open /\ ~dev.hungUp
    /\ Len(queues.in.items) < MaxIn
    /\ \E k \in 1..Unread :
           /\ chan.kind = "com" => k = Unread
           /\ Deliver([from |-> dev.rxRead + 1, upto |-> dev.rxRead + k])
           /\ dev' = [dev EXCEPT !.rxRead = @ + TakenOf(k)]
    /\ UNCHANGED <<chan, app, static>>

\* A port that is gone is always readable and read() returns 0: recv_packet
\* makes no packet and returns 0, and the loop pushes what it has.
RecvNothing ==
    /\ chan.kind = "com"
    /\ Polling
    /\ dev.hungUp
    /\ Len(queues.in.items) < MaxIn
    /\ Deliver(NullPacket)
    /\ UNCHANGED <<chan, app, dev, static>>

\* recvfrom or read fails, and the k units read before in this call are lost.
RecvFails ==
    /\ chan.kind # "virtual"
    /\ Polling
    /\ dev.open
    /\ \E k \in 0..Unread : dev' = [dev EXCEPT !.rxSent = @ - k]
    /\ chan' = [chan EXCEPT !.pc = "failed"]
    /\ UNCHANGED <<queues, app, static>>

\* A virtual channel whose pool is gone returns at once: no CLOSE is pushed,
\* nothing is unwatched or cleared, and thread_run enters the loop again.
PoolLost ==
    /\ chan.pc = "loop"
    /\ chan.busy
    /\ ~chan.pool
    /\ chan' = [chan EXCEPT !.pc = "top"]
    /\ UNCHANGED <<queues, app, dev, static>>

\* while(busy) ends, epoll_wait fails on a closed epollFD, or send_packet or
\* recv_packet fails.
LeaveLoop ==
    /\ \/ chan.pc = "failed"
       \/ chan.pc = "loop" /\ ~chan.busy
       \/ chan.pc = "loop" /\ chan.pool /\ ~chan.epollOpen
    /\ chan' = [chan EXCEPT !.pc = "cleanup"]
    /\ queues' = [queues EXCEPT !.inCmd = Push(@, "CLOSE", FALSE)]
    /\ UNCHANGED <<app, dev, static>>

\* Mutation: the packets nobody has sent stay.
ClearOutQueueNot == queues' = [queues EXCEPT !.outCmd = StopAndClear(@)]

ClearOutQueues ==
    queues' = [queues EXCEPT !.out = StopAndClear(@), !.outCmd = StopAndClear(@)]

\* The rest of do_message_loop and of the pass of thread_run: only a UDP
\* socket is closed, with what it holds, and clears busy.
Cleanup ==
    /\ chan.pc = "cleanup"
    /\ chan' = [chan EXCEPT !.pc = "top", !.outQueueWatched = FALSE, !.epollOut = FALSE,
                            !.busy = @ /\ chan.kind # "udp"]
    /\ ClearOutQueues
    /\ dev' = IF chan.kind = "udp"
              THEN [dev EXCEPT !.open = FALSE, !.rxSent = dev.rxRead]
              ELSE dev
    /\ UNCHANGED <<app, static>>

Thread ==
    \/ Start \/ StartFails \/ ThreadExit
    \/ OpenSocket \/ OpenPort \/ EnterLoop
    \/ UnknownPacketType
    \/ HandlePacket
    \/ BeginSend \/ ContinueSend
    \/ BeginTurn \/ NoSendSocket
    \/ SendFails \/ SendWaits \/ DatagramSent \/ WriteChunk \/ WriteTimesOut
    \/ AnotherTurn \/ ReturnLeft
    \/ TakeCommand
    \/ RecvPacket \/ RecvNothing \/ RecvFails
    \/ PoolLost \/ LeaveLoop \/ Cleanup

-----------------------------------------------------------------------------
(* ~BasicChannel, in the owner's thread.                                    *)

\* Mutation: epollFD is left open.
CloseEpollNot ==
    chan' = [chan EXCEPT !.owner = "closing", !.outQueueWatched = FALSE, !.epollOut = FALSE]

CloseEpoll ==
    chan' = [chan EXCEPT !.owner = "closing", !.outQueueWatched = FALSE, !.epollOut = FALSE,
                         !.epollOpen = FALSE]

\* delete_wait of everything, stop_and_clear of the in queues, close(epollFD)
DestroyBegins ==
    /\ chan.owner = "alive"
    /\ CloseEpoll
    /\ queues' = [queues EXCEPT !.in = StopAndClear(@), !.inCmd = StopAndClear(@)]
    /\ UNCHANGED <<app, dev, static>>

ClearBusy ==
    /\ chan.owner = "closing"
    /\ chan' = [chan EXCEPT !.owner = "idle", !.busy = FALSE]
    /\ UNCHANGED <<queues, app, dev, static>>

SetExit ==
    /\ chan.owner = "idle"
    /\ chan' = [chan EXCEPT !.owner = "join", !.exit = TRUE]
    /\ UNCHANGED <<queues, app, dev, static>>

Join ==
    /\ chan.owner = "join"
    /\ chan.pc = "exited"
    /\ chan' = [chan EXCEPT !.owner = "joined"]
    /\ UNCHANGED <<queues, app, dev, static>>

Destructor == ClearBusy \/ SetExit \/ Join

-----------------------------------------------------------------------------
(* The application, while it owns the channel.                              *)

AppStep ==
    /\ chan.owner = "alive"
    /\ UNCHANGED <<dev, static>>

SetCallback ==
    /\ AppStep
    /\ chan.kind = "virtual"
    /\ ~chan.callback
    /\ chan' = [chan EXCEPT !.callback = TRUE]
    /\ UNCHANGED <<queues, app>>

AppLearn ==
    /\ AppStep
    /\ QueueReadable(queues.inCmd)
    /\ app' = [app EXCEPT !.view = Head(queues.inCmd.items)]
    /\ queues' = [queues EXCEPT !.inCmd = Pop(@)]
    /\ UNCHANGED chan

AppReceive ==
    /\ AppStep
    /\ QueueReadable(queues.in)
    /\ LET m == Head(queues.in.items) IN
       app' = IF m = NullPacket THEN app ELSE [app EXCEPT !.got = m.upto]
    /\ queues' = [queues EXCEPT !.in = Pop(@)]
    /\ UNCHANGED chan

AppRequest ==
    /\ AppStep
    /\ app.view = "OPEN"
    /\ app.nextId <= MaxRequests
    /\ app' = [app EXCEPT !.nextId = @ + 1]
    /\ UNCHANGED chan

AppSend(type, forceStart) ==
    /\ AppRequest
    /\ queues' = [queues EXCEPT !.out = Push(@, [id |-> app.nextId, type |-> type], forceStart)]

AppCommand(type, forceStart) ==
    /\ AppRequest
    /\ queues' = [queues EXCEPT !.outCmd = Push(@, type, forceStart)]

App ==
    \/ SetCallback
    \/ AppLearn
    \/ AppReceive
    \/ \E type \in OutTypes, force \in BOOLEAN : AppSend(type, force)
    \/ \E type \in CmdTypes, force \in BOOLEAN : AppCommand(type, force)

-----------------------------------------------------------------------------
(* The network or the line.                                                 *)

OutsideStep ==
    /\ chan.kind # "virtual"
    /\ dev.open
    /\ ~dev.hungUp
    /\ UNCHANGED <<chan, queues, app, static>>

RemoteSend ==
    /\ OutsideStep
    /\ dev.rxSent < MaxRx
    /\ dev' = [dev EXCEPT !.rxSent = @ + 1]

RemoteDrain ==
    /\ OutsideStep
    /\ dev.room < SndBuf
    /\ dev' = [dev EXCEPT !.room = @ + 1]

\* The port is unplugged, and what it held is gone.
HangUp ==
    /\ OutsideStep
    /\ chan.kind = "com"
    /\ dev' = [dev EXCEPT !.hungUp = TRUE, !.rxSent = dev.rxRead, !.room = SndBuf]

\* The last owner of the pool lets it go while this channel is still held.
PoolGoes ==
    /\ chan.kind = "virtual"
    /\ chan.pool
    /\ chan' = [chan EXCEPT !.pool = FALSE]
    /\ UNCHANGED <<queues, app, dev, static>>

Outside == RemoteSend \/ RemoteDrain \/ HangUp \/ PoolGoes

-----------------------------------------------------------------------------
(* send_packet of the other channels of the kind, in their threads.         *)

OtherStep == UNCHANGED <<chan, queues, app, dev>>

OtherStarts(s) ==
    /\ OtherStep
    /\ static.at[s] = None
    /\ static.stores < MaxStores
    /\ static' = [static EXCEPT !.bytesSent = 0, !.at[s] = 0, !.stores = @ + 1]

\* n units are sent; none is a wait, or EAGAIN and the call that continues.  A
\* datagram is sent with all the rest of its packet.
OtherSends(s) ==
    /\ OtherStep
    /\ static.at[s] # None
    /\ static.stores < MaxStores
    /\ \E n \in 0..(OtherLen - static.at[s]), loaded \in {static.bytesSent, static.at[s]} :
           LET b == loaded + n IN
           /\ chan.kind = "udp" => n \in {0, OtherLen - static.at[s]}
           /\ static' = [static EXCEPT !.bytesSent = b, !.stores = @ + 1,
                                       !.at[s] = IF b < OtherLen THEN b ELSE None]

OtherFails(s) ==
    /\ OtherStep
    /\ static.at[s] # None
    /\ static' = [static EXCEPT !.at[s] = None]

Others == \E s \in static.others : OtherStarts(s) \/ OtherSends(s) \/ OtherFails(s)

Next == Thread \/ DestroyBegins \/ Destructor \/ App \/ Outside \/ Others

Spec == Init /\ [][Next]_vars

(* Both threads run; opening ends one way or the other; epoll_wait serves   *)
(* its sources in rotation; a port drains, or is gone, and does not answer  *)
(* EAGAIN for ever when select said it has room; a datagram does not find   *)
(* the network full for ever; the application reads its announcements.      *)
(* Nothing is supposed of the other channels.                               *)
MustFail ==
    \/ dev.hungUp
    \/ chan.at > PacketLen /\ (chan.kind = "udp" \/ dev.room > 0)

\* Steps at places where the thread has no other: one condition for all is
\* the same as one for each.
GoesOn ==
    \/ Start \/ StartFails \/ ThreadExit \/ OpenSocket \/ OpenPort \/ EnterLoop
    \/ BeginTurn \/ NoSendSocket \/ AnotherTurn \/ ReturnLeft
    \/ PoolLost \/ LeaveLoop \/ Cleanup

Fairness ==
    /\ WF_vars(GoesOn)
    /\ WF_vars(UnknownPacketType \/ HandlePacket \/ BeginSend)
    /\ WF_vars(ContinueSend) /\ WF_vars(TakeCommand)
    /\ WF_vars(MustFail /\ SendFails)
    /\ SF_vars(DatagramSent) /\ SF_vars(WriteChunk)
    /\ WF_vars(Destructor)
    /\ WF_vars(AppLearn)
    /\ WF_vars(RemoteDrain)

FairSpec == Spec /\ Fairness

-----------------------------------------------------------------------------
(* Properties.                                                              *)

TypeOK ==
    /\ chan \in Channel
    /\ queues \in [in : QueueOf(Received \cup {NullPacket}), out : QueueOf(Request),
                   inCmd : QueueOf({"OPEN", "CLOSE"}), outCmd : QueueOf(MessageType)]
    /\ app \in [view : {"OPEN", "CLOSE"}, nextId : 1..(MaxRequests + 1), got : 0..MaxRx]
    /\ dev \in Device
    /\ static \in Static
    /\ Alone => chan.at \in 0..PacketLen /\ static.bytesSent \in 0..PacketLen

InLoop == chan.pc \in {"loop", "turn", "sending", "counted", "returning",
                      "failed"}

(* While the pool is there, the announcements still to be read leave the    *)
(* application believing the channel open exactly while a pass of the loop  *)
(* is under way, however often the passes end and begin again.              *)
ViewConverges ==
    chan.owner = "alive" /\ chan.pool =>
        LET feed == queues.inCmd.items
        IN InLoop = ((IF feed = <<>> THEN app.view ELSE feed[Len(feed)]) = "OPEN")

\* A UDP channel has closed clientfd and goes on.
SelfClosed == chan.kind = "udp" /\ InLoop /\ ~dev.open

(* While the channel is in use, the loop that does not watch outQueue waits *)
(* for room with a packet to finish, unless it closed its own socket.       *)
OutQueueNotStuck ==
    chan.owner = "alive" /\ Polling /\ ~chan.outQueueWatched =>
        (chan.epollOut /\ chan.packToSend # None) \/ SelfClosed

(* The same without the exception: an unfinished packet is waiting for room *)
(* in a socket.                                                             *)
WaitsForRoom ==
    chan.owner = "alive" /\ Polling /\ ~chan.outQueueWatched => chan.epollOut

Whole(q) == q.from = 0 /\ q.upto = PacketLen

(* Between two openings, packets go out in the order they were pushed,      *)
(* whatever other channels do to bytesSent.  A channel that is alone sends  *)
(* none twice, and each but the last whole: a port continues a packet where *)
(* it stopped, and a datagram that found no room is not sent twice.         *)
SentWholeInOrder ==
    \A i \in 1..(Len(dev.wire) - 1) :
        LET this == dev.wire[i]
            next == dev.wire[i+1]
        IN /\ this.id <= next.id
           /\ Alone => Whole(this) /\ this.id < next.id

(* The loop turns to the next packet of outQueue when the one before was    *)
(* sent: a packet that another follows is on the wire whole, in one piece.  *)
NextAfterWhole ==
    \A i \in 1..(Len(dev.wire) - 1) :
        dev.wire[i].id # dev.wire[i+1].id => Whole(dev.wire[i])

(* What the application took and what waits in inQueue, null packets left   *)
(* out, is what the socket or the line delivered and no failed call lost:   *)
(* the packets waiting are in order and repeat nothing, and every unit read *)
(* since what the application took is in one of them.                       *)
ReceivedGapless ==
    LET s == queues.in.items
        packets == {i \in 1..Len(s) : s[i] # NullPacket}
    IN chan.owner = "alive" =>
           /\ \A i \in packets : /\ app.got < s[i].from /\ s[i].from <= s[i].upto
                                 /\ s[i].upto <= dev.rxRead
           /\ \A i, j \in packets : i < j => s[i].upto < s[j].from
           /\ \A unit \in (app.got + 1)..dev.rxRead :
                  \E i \in packets : unit \in s[i].from..s[i].upto

(* The other channels of the kind send no more from some time on.  Supposed *)
(* below: one that begins packet after packet while a call of this channel  *)
(* goes round can reset bytesSent for ever.                                 *)
OthersRest == <>[](\A s \in static.others : static.at[s] = None)

(* Destroying the channel ends, even when the thread sets busy after the    *)
(* destructor cleared it, or sits in a send to a port that takes its time.  *)
DestroyJoins == OthersRest => (chan.owner = "closing" ~> chan.owner = "joined")

(* Every packet on outQueue leaves it: it is sent, handled, or cleared at   *)
(* the end of a pass; unless the channel closed its own socket or the pool  *)
(* is gone.                                                                 *)
OutQueueServed ==
    OthersRest =>
        \A id \in 1..MaxRequests :
            LET waiting == \E i \in 1..Len(queues.out.items) : queues.out.items[i].id = id
            IN waiting ~> \/ ~waiting \/ chan.pc = "exited" \/ chan.owner # "alive"
                          \/ SelfClosed \/ ~chan.pool

(* OPEN tells the application that the channel is established: it is        *)
(* announced only by a pass that serves.                                    *)
OpenWhenServing ==
    [][chan.owner = "alive" /\ chan.pc # "loop" /\ EnterLoop => chan.busy]_vars
=============================================================================
