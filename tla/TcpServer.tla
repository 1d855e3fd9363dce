------------------------------ MODULE TcpServer ------------------------------
(***************************************************************************)
(* TcpServerSocket (and ProtoServerSocket, which shares its loop): one     *)
(* thread, one epoll set, up to MaxPeers clients, four message queues to   *)
(* the application.  Each pass of do_message_loop handles one epoll event  *)
(* and is one action here; the application, the remote clients and the     *)
(* kernel are the environment.                                             *)
(*                                                                         *)
(* Data is abstracted to units: a packet of the application is PacketLen   *)
(* units long, a socket send buffer holds SndBuf units.  What a client     *)
(* sends is counted, unit after unit; a framed server (Framed, the Proto   *)
(* one) cuts it into messages of MsgLen units, a raw one takes whatever    *)
(* has arrived.                                                            *)
(***************************************************************************)
EXTENDS Naturals, Sequences, FiniteSets, MessageQueue

CONSTANTS Fds,          \* descriptors accept() can return
          Conns,        \* connections the clients make, each used once
          None,         \* no connection, no peer, no packet
          MaxPeers,     \* TcpServerSocket::MaxPeers
          PacketLen,    \* units in an outgoing packet
          SndBuf,       \* units a socket send buffer holds
          Framed,       \* TRUE: ProtoPeerSocket, FALSE: TcpPeerSocket
          MsgLen,       \* units in an incoming message of a framed channel
          OutTypes,     \* message types the application puts on outQueue
          CmdTypes,     \* message types the application puts on outCmdQueue
          MaxRequests,  \* bound on the application's requests
          MaxRx         \* bound on the units one client sends

MessageType == {"DATA", "OPEN", "CLOSE", "ZIPPED"}
DataTypes   == {"DATA", "ZIPPED"}

\* A packet or a command of the application: the connection it is meant for,
\* dest, is known to the application only; the message holds the descriptor.
Request == [id : 1..MaxRequests, type : MessageType, fd : Fds, dest : Conns]
Announcement == [type : {"OPEN", "CLOSE"}, fd : Fds, conn : Conns]
Received == [fd : Fds, conn : Conns, seqnum : Nat, from : Nat, upto : Nat]

Peer == [conn : Conns,                        \* the connection of clientfd
         packToSend : Request \cup {None},
         bytesSent : 0..PacketLen,            \* units of packToSend sent
         bytesRecvd : Nat,                    \* units of recvPacket read
         seqnum : Nat,                        \* packets received so far
         epollOut : BOOLEAN]                  \* EPOLLOUT is in its wait mask

Connection == [link : {"idle", "backlog", "open", "closed"},
               remote : {"live", "gone"},     \* gone: closed by the client
               rxSent : 0..MaxRx,             \* units the client sent
               rxRead : Nat,                  \* units the server read
               room : 0..SndBuf,              \* free units of the send buffer
               wire : Seq([id : 1..MaxRequests, dest : Conns, n : Nat])]
                                              \* packets sent, n units of each

ASSUME ServerAssumption ==
    /\ IsFiniteSet(Fds)
    /\ MaxPeers \in Nat \ {0}
    /\ PacketLen \in Nat \ {0}
    /\ SndBuf \in Nat \ {0}
    /\ Framed \in BOOLEAN
    /\ MsgLen \in Nat \ {0}
    /\ OutTypes \subseteq MessageType
    /\ CmdTypes \subseteq MessageType
    /\ MaxRequests \in Nat
    /\ MaxRx \in Nat

ASSUME NoneAssumption == None \notin Conns /\ None \notin Request /\ None \notin Peer

VARIABLES
    pc,               \* "setup", "loop", "closing", "exited", "crashed"
    exit,             \* BasicChannel::exit
    outQueueWatched,  \* outQueue is in the epoll set
    peers,            \* peers[fd]: the entry of the map, or None
    inQueue, outQueue, inCmdQueue, outCmdQueue,
    view,             \* view[fd]: the connection the application believes is there
    nextId,           \* the application's next request number
    got,              \* got[c]: units of c it has taken from inQueue
    net               \* net[c]: the connection in the kernel and at the client

queueVars == <<inQueue, outQueue, inCmdQueue, outCmdQueue>>
appVars   == <<view, nextId, got>>
vars      == <<pc, exit, outQueueWatched, peers, queueVars, appVars, net>>

Lesser(a, b) == IF a <= b THEN a ELSE b
IsLive(fd) == peers[fd] # None
Live == {fd \in Fds : IsLive(fd)}

NewPeer(c) ==
    [conn |-> c, packToSend |-> None, bytesSent |-> 0, bytesRecvd |-> 0,
     seqnum |-> 0, epollOut |-> FALSE]

Init ==
    /\ pc = "setup"
    /\ exit = FALSE
    /\ outQueueWatched = FALSE
    /\ peers = [fd \in Fds |-> None]
    /\ inQueue = NewQueue
    /\ outQueue = NewQueue
    /\ inCmdQueue = NewQueue
    /\ outCmdQueue = NewQueue
    /\ view = [fd \in Fds |-> None]
    /\ nextId = 1
    /\ got = [c \in Conns |-> 0]
    /\ net = [c \in Conns |-> [link |-> "idle", remote |-> "live", rxSent |-> 0,
                               rxRead |-> 0, room |-> SndBuf, wire |-> <<>>]]

-----------------------------------------------------------------------------
(* thread_run: the listen socket and the start of do_message_loop.          *)

\* socket, bind and listen succeeded; the failures retry and change nothing.
Setup ==
    /\ pc = "setup"
    /\ ~exit
    /\ pc' = "loop"
    /\ outQueueWatched' = TRUE
    /\ UNCHANGED <<exit, peers, queueVars, appVars, net>>

\* while(!exit) of thread_run ends.
ThreadExit ==
    /\ pc = "setup"
    /\ exit
    /\ pc' = "exited"
    /\ UNCHANGED <<exit, outQueueWatched, peers, queueVars, appVars, net>>

\* The loop is about to wait for an event.
Serving == pc = "loop" /\ ~exit

-----------------------------------------------------------------------------
(* Helpers of the event handlers.                                           *)

\* inCmdQueue.push(..., true)
Announce(type, fd, c) ==
    inCmdQueue' = Push(inCmdQueue, [type |-> type, fd |-> fd, conn |-> c], TRUE)

\* The map entry is erased; the destructor of the peer closes its socket.
ErasePeer(fd) ==
    /\ peers' = [peers EXCEPT ![fd] = None]
    /\ net' = [net EXCEPT ![peers[fd].conn].link = "closed"]

\* Mutation: outQueue is not watched again.
DropPeerKeepsWaits(fd) ==
    /\ Announce("CLOSE", fd, peers[fd].conn)
    /\ ErasePeer(fd)
    /\ UNCHANGED <<outQueueWatched, inQueue>>

\* The four places of the loop that close one client: leave epoll, announce,
\* erase, and watch outQueue again in case this client had a packet unfinished.
DropPeer(fd) ==
    /\ Announce("CLOSE", fd, peers[fd].conn)
    /\ ErasePeer(fd)
    /\ outQueueWatched' = TRUE
    /\ UNCHANGED inQueue

\* What a wire w has carried after n more units of packet p.
Sent(w, p, n) ==
    IF w # <<>> /\ w[Len(w)].id = p.id
    THEN [w EXCEPT ![Len(w)].n = @ + n]
    ELSE Append(w, [id |-> p.id, dest |-> p.dest, n |-> n])

\* n more units of packet p reach connection c.
PutOnWire(c, p, n) ==
    net' = [net EXCEPT ![c].room = @ - n, ![c].wire = Sent(@, p, n)]

-----------------------------------------------------------------------------
(* Event on listfd.                                                         *)

\* Mutation: > instead of >=.
OneTooManyPeers == Cardinality(Live) > MaxPeers

TooManyPeers == Cardinality(Live) >= MaxPeers

AcceptPeer(fd, c) ==
    /\ Serving
    /\ net[c].link = "backlog"
    /\ ~IsLive(fd)
    /\ ~TooManyPeers
    /\ Announce("OPEN", fd, c)
    /\ peers' = [peers EXCEPT ![fd] = NewPeer(c)]
    /\ net' = [net EXCEPT ![c].link = "open"]
    /\ UNCHANGED <<pc, exit, outQueueWatched, inQueue, outQueue, outCmdQueue, appVars>>

\* Too many peers: the new peer object dies at once.
RefusePeer(c) ==
    /\ Serving
    /\ net[c].link = "backlog"
    /\ TooManyPeers
    /\ net' = [net EXCEPT ![c].link = "closed"]
    /\ UNCHANGED <<pc, exit, outQueueWatched, peers, queueVars, appVars>>

-----------------------------------------------------------------------------
(* Event on outQueue: pop a packet and start sending it.                    *)

OutQueueEvent ==
    /\ Serving
    /\ outQueueWatched
    /\ QueueReadable(outQueue)
    /\ outQueue' = Pop(outQueue)
    /\ UNCHANGED <<pc, exit, outCmdQueue, appVars>>

NoSuchPeer ==
    /\ OutQueueEvent
    /\ ~IsLive(Head(outQueue.items).fd)
    /\ UNCHANGED <<outQueueWatched, peers, inQueue, inCmdQueue, net>>

UnknownPacketType ==
    /\ OutQueueEvent
    /\ LET p == Head(outQueue.items) IN
       /\ IsLive(p.fd)
       /\ p.type \notin DataTypes
       /\ peers' = [peers EXCEPT ![p.fd].packToSend = p]
    /\ UNCHANGED <<outQueueWatched, inQueue, inCmdQueue, net>>

\* Mutation: outQueue stays watched while the packet is unfinished.
StartedKeepsTaking(p, n) ==
    /\ peers' = [peers EXCEPT ![p.fd].bytesSent = n,
                              ![p.fd].packToSend = IF n = PacketLen THEN None ELSE p,
                              ![p.fd].epollOut = @ \/ n < PacketLen]
    /\ UNCHANGED outQueueWatched

\* Mutation: a packet the peer has not finished yet is kept and sent later.
StartedKeepsUnfinished(p, n) ==
    IF n = PacketLen
    THEN UNCHANGED <<peers, outQueueWatched>>
    ELSE /\ peers' = [peers EXCEPT ![p.fd].bytesSent = n,
                                   ![p.fd].packToSend = IF @ = None THEN p ELSE @,
                                   ![p.fd].epollOut = TRUE]
         /\ outQueueWatched' = FALSE

\* n units of p are sent: p is done, or its rest waits for EPOLLOUT and
\* outQueue is not watched meanwhile.
Started(p, n) ==
    IF n = PacketLen
    THEN /\ peers' = [peers EXCEPT ![p.fd].bytesSent = n, ![p.fd].packToSend = None]
         /\ UNCHANGED outQueueWatched
    ELSE /\ peers' = [peers EXCEPT ![p.fd].bytesSent = n, ![p.fd].packToSend = p,
                                   ![p.fd].epollOut = TRUE]
         /\ outQueueWatched' = FALSE

\* send_packet(IO_START) takes what the send buffer has room for.
SendStart ==
    /\ OutQueueEvent
    /\ LET p == Head(outQueue.items)
           c == peers[p.fd].conn
           n == Lesser(net[c].room, PacketLen)
       IN /\ IsLive(p.fd)
          /\ p.type \in DataTypes
          /\ PutOnWire(c, p, n)
          /\ Started(p, n)
    /\ UNCHANGED <<inQueue, inCmdQueue>>

\* send_packet(IO_START) returns -1: the client is gone.
SendStartFails ==
    /\ OutQueueEvent
    /\ LET p == Head(outQueue.items) IN
       /\ IsLive(p.fd)
       /\ p.type \in DataTypes
       /\ net[peers[p.fd].conn].remote = "gone"
       /\ DropPeer(p.fd)

TakeOutQueue ==
    NoSuchPeer \/ UnknownPacketType \/ SendStart \/ SendStartFails

-----------------------------------------------------------------------------
(* Event on outCmdQueue.                                                    *)

TakeCommand ==
    /\ Serving
    /\ QueueReadable(outCmdQueue)
    /\ outCmdQueue' = Pop(outCmdQueue)
    /\ LET p == Head(outCmdQueue.items) IN
       IF IsLive(p.fd) /\ p.type = "CLOSE"
       THEN DropPeer(p.fd)
       ELSE UNCHANGED <<outQueueWatched, peers, inQueue, inCmdQueue, net>>
    /\ UNCHANGED <<pc, exit, outQueue, appVars>>

-----------------------------------------------------------------------------
(* Event on a client's socket.  EPOLLIN is looked at before EPOLLOUT.       *)

Conn(fd) == net[peers[fd].conn]
Unread(fd) == Conn(fd).rxSent - Conn(fd).rxRead
Readable(fd) == Unread(fd) > 0 \/ Conn(fd).remote = "gone"

\* What one recv_packet takes: all that has arrived, or, framed, no more than
\* the rest of the current message.
Taken(fd) ==
    IF Framed THEN Lesser(Unread(fd), MsgLen - peers[fd].bytesRecvd) ELSE Unread(fd)

\* recv_packet returns 0.  A raw channel that meets the end of the stream
\* returns -2 instead, whatever it had read before.
Completes(fd) ==
    /\ Taken(fd) > 0
    /\ IF Framed
       THEN peers[fd].bytesRecvd + Taken(fd) = MsgLen
       ELSE Conn(fd).remote = "live"

\* inQueue.push(..., true)
Deliver(m) == inQueue' = Push(inQueue, m, TRUE)

RecvPacket(fd) ==
    /\ Serving
    /\ IsLive(fd)
    /\ Completes(fd)
    /\ Deliver([fd |-> fd, conn |-> peers[fd].conn, seqnum |-> peers[fd].seqnum,
                from |-> Conn(fd).rxRead - peers[fd].bytesRecvd + 1,
                upto |-> Conn(fd).rxRead + Taken(fd)])
    /\ net' = [net EXCEPT ![peers[fd].conn].rxRead = @ + Taken(fd)]
    /\ peers' = [peers EXCEPT ![fd].seqnum = @ + 1, ![fd].bytesRecvd = 0]
    /\ UNCHANGED <<pc, exit, outQueueWatched, outQueue, inCmdQueue, outCmdQueue, appVars>>

\* Mutation: rcvState stays IO_START, so the next call forgets this part.
ForgetPart(fd) == UNCHANGED peers

\* rcvState becomes IO_CONTINUE.
KeepPart(fd) == peers' = [peers EXCEPT ![fd].bytesRecvd = @ + Taken(fd)]

\* recv_packet returns a positive number.
RecvPart(fd) ==
    /\ Serving
    /\ IsLive(fd)
    /\ Framed
    /\ Taken(fd) > 0
    /\ ~Completes(fd)
    /\ Conn(fd).remote = "live"
    /\ KeepPart(fd)
    /\ net' = [net EXCEPT ![peers[fd].conn].rxRead = @ + Taken(fd)]
    /\ UNCHANGED <<pc, exit, outQueueWatched, queueVars, appVars>>

\* recv_packet returns -1 or -2, or send_packet(IO_CONTINUE) returns -1.  A
\* reset also discards complete messages the server has not read yet.
PeerFails(fd) ==
    /\ Serving
    /\ IsLive(fd)
    /\ Conn(fd).remote = "gone"
    /\ DropPeer(fd)
    /\ UNCHANGED <<pc, exit, outQueue, outCmdQueue, appVars>>

\* EPOLLOUT without EPOLLIN.
Writable(fd) ==
    /\ Serving
    /\ IsLive(fd)
    /\ peers[fd].epollOut
    /\ ~Readable(fd)
    /\ Conn(fd).room > 0

\* Mutation: what was sent before is not subtracted.
WholePacket(fd) == PacketLen

RestToSend(fd) == PacketLen - peers[fd].bytesSent

\* Mutation: EPOLLOUT stays in the wait mask after the packet is sent.
ContinuedStaysArmed(fd, n) ==
    IF peers[fd].bytesSent + n = PacketLen
    THEN /\ peers' = [peers EXCEPT ![fd].bytesSent = PacketLen, ![fd].packToSend = None]
         /\ outQueueWatched' = TRUE
    ELSE /\ peers' = [peers EXCEPT ![fd].bytesSent = @ + n]
         /\ UNCHANGED outQueueWatched

\* n more units are sent: when they are the last ones, outQueue is watched
\* again and EPOLLOUT is not.
Continued(fd, n) ==
    IF peers[fd].bytesSent + n = PacketLen
    THEN /\ peers' = [peers EXCEPT ![fd].bytesSent = PacketLen,
                                   ![fd].packToSend = None, ![fd].epollOut = FALSE]
         /\ outQueueWatched' = TRUE
    ELSE /\ peers' = [peers EXCEPT ![fd].bytesSent = @ + n]
         /\ UNCHANGED outQueueWatched

\* send_packet(IO_CONTINUE): the rest of the packet.
SendContinue(fd) ==
    /\ Writable(fd)
    /\ peers[fd].packToSend # None
    /\ LET n == Lesser(Conn(fd).room, RestToSend(fd)) IN
       /\ PutOnWire(peers[fd].conn, peers[fd].packToSend, n)
       /\ Continued(fd, n)
    /\ UNCHANGED <<pc, exit, queueVars, appVars>>

\* The same with packToSend null: packet->Length() reads through a null pointer.
SendContinueNull(fd) ==
    /\ Writable(fd)
    /\ peers[fd].packToSend = None
    /\ pc' = "crashed"
    /\ UNCHANGED <<exit, outQueueWatched, peers, queueVars, appVars, net>>

PeerEvent(fd) ==
    \/ RecvPacket(fd)
    \/ RecvPart(fd)
    \/ PeerFails(fd)
    \/ SendContinue(fd)
    \/ SendContinueNull(fd)

-----------------------------------------------------------------------------
(* The code after the loop: reached by exit, or by break when accept or     *)
(* epoll_wait fails; thread_run then starts again unless exit is set.       *)

\* close(listfd) resets the connections nobody has accepted.
LeaveLoop ==
    /\ pc = "loop"
    /\ exit \/ \E c \in Conns : net[c].link = "backlog"
    /\ pc' = "closing"
    /\ outQueueWatched' = FALSE
    /\ outQueue' = StopAndClear(outQueue)
    /\ outCmdQueue' = StopAndClear(outCmdQueue)
    /\ net' = [c \in Conns |-> IF net[c].link = "backlog"
                               THEN [net[c] EXCEPT !.link = "closed"]
                               ELSE net[c]]
    /\ UNCHANGED <<exit, peers, inQueue, inCmdQueue, appVars>>

\* Mutation: the clean-up does not announce the clients it drops.
ClosePeerSilently(fd) ==
    /\ pc = "closing"
    /\ IsLive(fd)
    /\ ErasePeer(fd)
    /\ UNCHANGED <<pc, exit, outQueueWatched, queueVars, appVars>>

ClosePeer(fd) ==
    /\ pc = "closing"
    /\ IsLive(fd)
    /\ Announce("CLOSE", fd, peers[fd].conn)
    /\ ErasePeer(fd)
    /\ UNCHANGED <<pc, exit, outQueueWatched, inQueue, outQueue, outCmdQueue, appVars>>

LoopDone ==
    /\ pc = "closing"
    /\ Live = {}
    /\ pc' = "setup"
    /\ UNCHANGED <<exit, outQueueWatched, peers, queueVars, appVars, net>>

Server ==
    \/ Setup
    \/ ThreadExit
    \/ \E fd \in Fds, c \in Conns : AcceptPeer(fd, c)
    \/ \E c \in Conns : RefusePeer(c)
    \/ TakeOutQueue
    \/ TakeCommand
    \/ \E fd \in Fds : PeerEvent(fd)
    \/ LeaveLoop
    \/ \E fd \in Fds : ClosePeer(fd)
    \/ LoopDone

-----------------------------------------------------------------------------
(* The application: it answers the clients it has been told about.          *)

AppLearn ==
    /\ QueueReadable(inCmdQueue)
    /\ LET m == Head(inCmdQueue.items) IN
       view' = [view EXCEPT ![m.fd] = IF m.type = "OPEN" THEN m.conn ELSE None]
    /\ inCmdQueue' = Pop(inCmdQueue)
    /\ UNCHANGED <<pc, exit, outQueueWatched, peers, inQueue, outQueue,
                   outCmdQueue, nextId, got, net>>

AppReceive ==
    /\ QueueReadable(inQueue)
    /\ got' = [got EXCEPT ![Head(inQueue.items).conn] = Head(inQueue.items).upto]
    /\ inQueue' = Pop(inQueue)
    /\ UNCHANGED <<pc, exit, outQueueWatched, peers, outQueue, inCmdQueue,
                   outCmdQueue, view, nextId, net>>

NewRequest(type, fd) == [id |-> nextId, type |-> type, fd |-> fd, dest |-> view[fd]]

\* A request to a client the application knows, on outQueue or outCmdQueue.
AppRequest(fd) ==
    /\ nextId <= MaxRequests
    /\ view[fd] # None
    /\ nextId' = nextId + 1
    /\ UNCHANGED <<pc, exit, outQueueWatched, peers, inQueue, inCmdQueue, view, got, net>>

AppSend(fd, type, forceStart) ==
    /\ AppRequest(fd)
    /\ outQueue' = Push(outQueue, NewRequest(type, fd), forceStart)
    /\ UNCHANGED outCmdQueue

AppCommand(fd, type, forceStart) ==
    /\ AppRequest(fd)
    /\ outCmdQueue' = Push(outCmdQueue, NewRequest(type, fd), forceStart)
    /\ UNCHANGED outQueue

\* exit is a public field: its owner sets it and lets the thread end.
RequestExit ==
    /\ ~exit
    /\ exit' = TRUE
    /\ UNCHANGED <<pc, outQueueWatched, peers, queueVars, appVars, net>>

App ==
    \/ AppLearn
    \/ AppReceive
    \/ \E fd \in Fds, type \in OutTypes, force \in BOOLEAN : AppSend(fd, type, force)
    \/ \E fd \in Fds, type \in CmdTypes, force \in BOOLEAN : AppCommand(fd, type, force)
    \/ RequestExit

-----------------------------------------------------------------------------
(* The clients and the kernel.                                              *)

NetStep == UNCHANGED <<pc, exit, outQueueWatched, peers, queueVars, appVars>>

Connect(c) ==
    /\ NetStep
    /\ pc = "loop"
    /\ net[c].link = "idle"
    /\ net' = [net EXCEPT ![c].link = "backlog"]

RemoteSend(c) ==
    /\ NetStep
    /\ net[c].link \in {"backlog", "open"}
    /\ net[c].remote = "live"
    /\ net[c].rxSent < MaxRx
    /\ net' = [net EXCEPT ![c].rxSent = @ + 1]

RemoteDrain(c) ==
    /\ NetStep
    /\ net[c].link = "open"
    /\ net[c].remote = "live"
    /\ net[c].room < SndBuf
    /\ net' = [net EXCEPT ![c].room = @ + 1]

RemoteClose(c) ==
    /\ NetStep
    /\ net[c].link \in {"backlog", "open"}
    /\ net[c].remote = "live"
    /\ net' = [net EXCEPT ![c].remote = "gone"]

Network ==
    \E c \in Conns : Connect(c) \/ RemoteSend(c) \/ RemoteDrain(c) \/ RemoteClose(c)

Next == Server \/ App \/ Network

(* epoll_wait(..., 1, 10) returns one ready descriptor at a time and the    *)
(* kernel rotates its ready list, so each event source that stays ready is  *)
(* served: weak fairness per source.  Clients keep reading, and the         *)
(* application keeps reading its command queue.                             *)
Fairness ==
    /\ WF_vars(Setup) /\ WF_vars(ThreadExit)
    /\ WF_vars(TakeOutQueue) /\ WF_vars(TakeCommand)
    /\ \A fd \in Fds : WF_vars(PeerEvent(fd)) /\ WF_vars(ClosePeer(fd))
    /\ WF_vars(LeaveLoop /\ exit) /\ WF_vars(LoopDone)
    /\ WF_vars(AppLearn)
    /\ \A c \in Conns : WF_vars(RemoteDrain(c))

Spec == Init /\ [][Next]_vars
FairSpec == Spec /\ Fairness

-----------------------------------------------------------------------------
(* Properties.                                                              *)

TypeOK ==
    /\ pc \in {"setup", "loop", "closing", "exited", "crashed"}
    /\ exit \in BOOLEAN
    /\ outQueueWatched \in BOOLEAN
    /\ peers \in [Fds -> Peer \cup {None}]
    /\ inQueue \in QueueOf(Received)
    /\ outQueue \in QueueOf(Request)
    /\ inCmdQueue \in QueueOf(Announcement)
    /\ outCmdQueue \in QueueOf(Request)
    /\ view \in [Fds -> Conns \cup {None}]
    /\ nextId \in 1..(MaxRequests + 1)
    /\ got \in [Conns -> Nat]
    /\ net \in [Conns -> Connection]

(* Output cannot stop for good: whenever the serving loop does not watch    *)
(* outQueue, some client is watched for EPOLLOUT with a packet to finish,   *)
(* so either it drains or it is dropped, and both watch outQueue again.     *)
OutQueueNotStuck ==
    pc = "loop" /\ ~outQueueWatched =>
        \E fd \in Fds : IsLive(fd) /\ peers[fd].epollOut /\ peers[fd].packToSend # None

(* No client receives part of a packet followed by another packet: a packet *)
(* taken off outQueue for a client is sent whole before the next is begun.  *)
PacketsSentWhole ==
    \A c \in Conns : \A i \in 1..(Len(net[c].wire) - 1) : net[c].wire[i].n = PacketLen

(* The thread never continues a send without a packet to continue.          *)
ContinuesAPacket == pc # "crashed"

(* No packet reaches a client twice or after a later one.                   *)
SentInOrder ==
    \A c \in Conns : \A i, j \in 1..Len(net[c].wire) :
        i < j => net[c].wire[i].id < net[c].wire[j].id

(* A packet reaches only the connection the application addressed.          *)
SentToAddressee ==
    \A c \in Conns : \A i \in 1..Len(net[c].wire) : net[c].wire[i].dest = c

\* Place i of the messages s is of connection c (place 0 stands for what the
\* application took before), and the next place of c is j.
Adjacent(s, c, i, j) ==
    /\ i = 0 \/ s[i].conn = c
    /\ \A k \in (i + 1)..(j - 1) : s[k].conn # c

\* The units of a connection the application has after place i, having n now.
UpTo(s, n, i) == IF i = 0 THEN n ELSE s[i].upto

\* In s each message of c goes on where the one before it ended.
Gapless(s, c, n) ==
    \A i \in 0..Len(s) : \A j \in (i + 1)..Len(s) :
        s[j].conn = c /\ Adjacent(s, c, i, j) =>
            /\ s[j].from = UpTo(s, n, i) + 1
            /\ s[j].upto >= s[j].from
            /\ i # 0 => s[j].seqnum = s[i].seqnum + 1

\* The last message of c in s ends at unit u.
EndsAt(s, c, n, u) ==
    \A i \in 0..Len(s) : Adjacent(s, c, i, Len(s) + 1) => UpTo(s, n, i) = u

(* What the application got from a connection, followed by what waits in    *)
(* inQueue, is the client's stream from its first unit on, without a gap,   *)
(* a repetition or a change of order, up to what the server has read; the   *)
(* packet numbers follow each other too.                                    *)
ReceivedGapless ==
    /\ \A c \in Conns : Gapless(inQueue.items, c, got[c])
    /\ \A fd \in Live : LET c == peers[fd].conn IN
           EndsAt(inQueue.items, c, got[c], net[c].rxRead - peers[fd].bytesRecvd)

(* The server keeps the promises of PeerRegistry: alternating OPEN and      *)
(* CLOSE per descriptor, in the order of the changes, never lost.           *)
Registry == INSTANCE PeerRegistry WITH
                live <- [fd \in Fds |-> IF IsLive(fd) THEN peers[fd].conn ELSE None],
                feed <- inCmdQueue.items
RefinesRegistry == Registry!RegistrySafety

(* What the application still has to read from inCmdQueue brings its view   *)
(* of each descriptor to the server's own map, in spite of reuse.           *)
ViewConverges == Registry!ViewConverges

(* If from some moment on no client comes or goes, the application knows    *)
(* for good who is connected: no announcement is lost or left unread.       *)
QuietConverges == Registry!QuietConverges

(* The clients send no more from some time on.  Supposed below: EPOLLOUT is *)
(* served in an event without EPOLLIN only, so a client that keeps sending  *)
(* keeps its own packet, and outQueue behind it, waiting for ever.          *)
ClientsFallSilent == <>[][\A c \in Conns : net'[c].rxSent = net[c].rxSent]_net

(* Every packet on outQueue is taken off it, by the loop or by the clean-up *)
(* when the channel goes down, provided the clients read what they are sent *)
(* and stop sending.                                                        *)
OutQueueServed ==
    ClientsFallSilent =>
        \A id \in 1..MaxRequests :
            LET waiting == \E i \in 1..Len(outQueue.items) : outQueue.items[i].id = id
            IN waiting ~> (~waiting \/ pc = "exited")

(* After a request to exit the thread ends and the application learns that  *)
(* every client is gone.                                                    *)
ExitDisconnectsAll ==
    exit ~> (pc = "exited" /\ view = [fd \in Fds |-> None])
=============================================================================
