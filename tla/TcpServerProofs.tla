--------------------------- MODULE TcpServerProofs ---------------------------
(***************************************************************************)
(* What holds of the TCP server for every number of descriptors, clients   *)
(* and requests, every packet length and every buffer size: its variables  *)
(* keep their types, its output cannot stop for good, it implements        *)
(* PeerRegistry, what clients send arrives without a gap, and packets go   *)
(* out in order and never twice; and, when it serves one client at a time, *)
(* whole.                                                                  *)
(***************************************************************************)
EXTENDS TcpServer, MessageQueueProofs, FiniteSetTheorems

-----------------------------------------------------------------------------
(* Types, and the lemmas about the actions that the other proofs use too.   *)

(* A message is never counted as longer than what has been read.            *)
RecvBounded ==
    \A fd \in Fds : IsLive(fd) => peers[fd].bytesRecvd <= net[peers[fd].conn].rxRead

TInv == TypeOK /\ RecvBounded

LEMMA LesserType ==
    ASSUME NEW a \in Nat, NEW b \in Nat
    PROVE  Lesser(a, b) \in Nat /\ Lesser(a, b) <= a /\ Lesser(a, b) <= b
  BY DEF Lesser

LEMMA LiveIsPeer ==
    ASSUME TypeOK, NEW fd \in Fds, IsLive(fd)
    PROVE  peers[fd] \in Peer /\ peers[fd].conn \in Conns /\ Conn(fd) \in Connection
  BY DEF TypeOK, IsLive, Peer, Conn

(* Announcing keeps the command queue of announcements.                     *)
LEMMA AnnounceType ==
    ASSUME TypeOK, NEW t \in {"OPEN", "CLOSE"}, NEW fd \in Fds, NEW c \in Conns,
           Announce(t, fd, c)
    PROVE  inCmdQueue' \in QueueOf(Announcement)
<1>1. [type |-> t, fd |-> fd, conn |-> c] \in Announcement
  BY DEF Announcement
<1> QED
  BY <1>1, PushType DEF Announce, TypeOK

(* Erasing a peer closes its connection and changes no counter.             *)
LEMMA ErasePeerType ==
    ASSUME TypeOK, NEW fd \in Fds, IsLive(fd), ErasePeer(fd)
    PROVE  /\ peers' \in [Fds -> Peer \cup {None}]
           /\ net' \in [Conns -> Connection]
           /\ \A c \in Conns : net'[c].rxRead = net[c].rxRead
           /\ peers'[fd] = None
           /\ \A f \in Fds \ {fd} : peers'[f] = peers[f]
  BY LiveIsPeer, ZenonT(60) DEF ErasePeer, TypeOK, Connection

LEMMA DropPeerType ==
    ASSUME TypeOK, NEW fd \in Fds, IsLive(fd), DropPeer(fd)
    PROVE  /\ peers' \in [Fds -> Peer \cup {None}]
           /\ net' \in [Conns -> Connection]
           /\ \A c \in Conns : net'[c].rxRead = net[c].rxRead
           /\ peers'[fd] = None
           /\ \A f \in Fds \ {fd} : peers'[f] = peers[f]
           /\ outQueueWatched' = TRUE
           /\ inQueue' = inQueue
           /\ inCmdQueue' \in QueueOf(Announcement)
<1>1. peers[fd].conn \in Conns
  BY LiveIsPeer
<1> QED
  BY <1>1, AnnounceType, ErasePeerType DEF DropPeer

(* Sending keeps the counters of a connection in range.                     *)
LEMMA PutOnWireType ==
    ASSUME TypeOK, NEW c \in Conns, NEW p \in Request,
           NEW n \in Nat, n <= net[c].room, PutOnWire(c, p, n)
    PROVE  /\ net' \in [Conns -> Connection]
           /\ \A d \in Conns : net'[d].rxRead = net[d].rxRead
<1> DEFINE Sending == [id : 1..MaxRequests, dest : Conns, n : Nat]
           w == net[c].wire
<1>1. net[c] \in Connection /\ w \in Seq(Sending)
  BY DEF TypeOK, Connection
<1>2. Sent(w, p, n) \in Seq(Sending)
  <2>1. CASE w # <<>> /\ w[Len(w)].id = p.id
    <3>0. Len(w) \in Nat \ {0}
      BY <1>1, <2>1, EmptySeq
    <3>1. w[Len(w)] \in Sending
      <4>1. Len(w) \in 1..Len(w)
        BY <3>0
      <4> HIDE DEF w, Sending
      <4> QED
        BY <1>1, <4>1, ElementOfSeq
    <3>2. [w[Len(w)] EXCEPT !.n = @ + n] \in Sending
      BY <3>1
    <3>3. Sent(w, p, n) = [w EXCEPT ![Len(w)] = [w[Len(w)] EXCEPT !.n = @ + n]]
      BY <2>1 DEF Sent
    <3>4. Len(w) \in 1..Len(w)
      BY <3>0
    <3> QED
      BY <1>1, <3>2, <3>3, <3>4, ExceptSeq
  <2>2. CASE ~(w # <<>> /\ w[Len(w)].id = p.id)
    <3>1. [id |-> p.id, dest |-> p.dest, n |-> n] \in Sending
      BY DEF Request
    <3> QED
      BY <1>1, <2>2, <3>1, AppendProperties DEF Sent
  <2> QED
    BY <2>1, <2>2
<1>3. net[c].room - n \in 0..SndBuf
  BY <1>1, ServerAssumption DEF Connection
<1>4. net' = [net EXCEPT ![c] = [net[c] EXCEPT !.room = @ - n, !.wire = Sent(w, p, n)]]
  BY DEF PutOnWire
<1>5. [net[c] EXCEPT !.room = @ - n, !.wire = Sent(w, p, n)] \in Connection
  BY <1>1, <1>2, <1>3 DEF Connection
<1> QED
  BY <1>4, <1>5 DEF TypeOK

(* Types, and RecvBounded, which the types of inQueue need: each action of  *)
(* the server, the application and the network preserves them.              *)
LEMMA TInvInit == Init => TInv
<1> SUFFICES ASSUME Init
             PROVE  TInv
  OBVIOUS
<1>1. NewQueue \in QueueOf(Received) /\ NewQueue \in QueueOf(Request)
  BY EmptyQueueType
<1>2. NewQueue \in QueueOf(Announcement)
  BY EmptyQueueType
<1>3. net \in [Conns -> Connection]
  BY EmptySeq, ServerAssumption DEF Init, Connection
<1>4. nextId \in 1..(MaxRequests + 1)
  BY ServerAssumption DEF Init
<1>5. TypeOK
  BY <1>1, <1>2, <1>3, <1>4 DEF Init, TypeOK
<1>6. RecvBounded
  BY DEF Init, RecvBounded, IsLive
<1> QED
  BY <1>5, <1>6 DEF TInv

(* A peer that stays as it was, or is erased, stays within what was read.   *)
LEMMA KeepsRecvBounded ==
    ASSUME TInv,
           \A f \in Fds : peers'[f] = peers[f] \/ peers'[f] = None,
           \A c \in Conns : net'[c].rxRead = net[c].rxRead
    PROVE  RecvBounded'
  BY LiveIsPeer DEF TInv, RecvBounded, IsLive

(* Closing one client, wherever the loop does it.                           *)
LEMMA DropPeerTInv ==
    ASSUME TInv, NEW fd \in Fds, IsLive(fd), DropPeer(fd),
           outQueue' \in QueueOf(Request), outCmdQueue' \in QueueOf(Request),
           UNCHANGED <<pc, exit, appVars>>
    PROVE  TInv'
<1>1. TypeOK'
  BY DropPeerType DEF TInv, TypeOK, appVars
<1>2. RecvBounded'
  BY DropPeerType, KeepsRecvBounded DEF TInv
<1> QED
  BY <1>1, <1>2 DEF TInv

(* The head of outQueue is a request, and popping it keeps the rest.        *)
LEMMA OutQueueEventType ==
    ASSUME TInv, OutQueueEvent
    PROVE  Head(outQueue.items) \in Request /\ outQueue' \in QueueOf(Request)
  BY PopType DEF TInv, TypeOK, OutQueueEvent

LEMMA AcceptPeerTInv ==
    ASSUME TInv, NEW fd \in Fds, NEW c \in Conns, AcceptPeer(fd, c)
    PROVE  TInv'
<1> USE DEF TInv
<1>1. inCmdQueue' \in QueueOf(Announcement)
  BY AnnounceType DEF AcceptPeer
<1>2. NewPeer(c) \in Peer /\ NewPeer(c).bytesRecvd = 0 /\ NewPeer(c).conn = c
  BY ServerAssumption DEF NewPeer, Peer
<1>3. /\ peers' \in [Fds -> Peer \cup {None}]
      /\ peers'[fd] = NewPeer(c)
      /\ \A f \in Fds \ {fd} : peers'[f] = peers[f]
  BY <1>2 DEF AcceptPeer, TypeOK
<1>4. net' \in [Conns -> Connection] /\ \A d \in Conns : net'[d].rxRead = net[d].rxRead
  BY ZenonT(60) DEF AcceptPeer, TypeOK, Connection
<1>5. TypeOK'
  BY <1>1, <1>3, <1>4 DEF AcceptPeer, TypeOK, appVars
<1>6. RecvBounded'
  <2> SUFFICES ASSUME NEW f \in Fds, peers'[f] # None
               PROVE  peers'[f].bytesRecvd <= net'[peers'[f].conn].rxRead
    BY DEF RecvBounded, IsLive
  <2>1. CASE f = fd
    BY <1>2, <1>3, <1>4, <2>1 DEF Connection
  <2>2. CASE f # fd
    BY <1>3, <1>4, <2>2, LiveIsPeer DEF RecvBounded, IsLive
  <2> QED
    BY <2>1, <2>2
<1> QED
  BY <1>5, <1>6

(* The packet SendStart takes, the connection it goes to, and what the send *)
(* buffer takes of it.                                                      *)
NextPacket == Head(outQueue.items)
NextConn == peers[NextPacket.fd].conn
FirstPart == Lesser(net[NextConn].room, PacketLen)

(* Starting a packet: what it does to the peer it is for.                   *)
LEMMA SendStartPeer ==
    ASSUME TInv, SendStart
    PROVE  /\ NextPacket \in Request /\ NextPacket.fd \in Fds /\ IsLive(NextPacket.fd)
           /\ NextConn \in Conns /\ PutOnWire(NextConn, NextPacket, FirstPart)
           /\ FirstPart \in 0..PacketLen /\ FirstPart <= net[NextConn].room
           /\ \E q \in Peer :
                 /\ q.conn = NextConn
                 /\ q.bytesRecvd = peers[NextPacket.fd].bytesRecvd
                 /\ peers' = [peers EXCEPT ![NextPacket.fd] = q]
                 /\ \/ UNCHANGED outQueueWatched
                    \/ /\ q.epollOut
                       /\ q.packToSend = NextPacket
                       /\ outQueueWatched' = FALSE
<1> USE DEF TInv
<1>1. NextPacket \in Request /\ NextPacket.fd \in Fds
  BY OutQueueEventType DEF SendStart, Request, NextPacket
<1>2. /\ IsLive(NextPacket.fd) /\ Started(NextPacket, FirstPart)
      /\ PutOnWire(NextConn, NextPacket, FirstPart)
  BY DEF SendStart, NextPacket, NextConn, FirstPart
<1>3. NextConn \in Conns /\ net[NextConn] \in Connection /\ peers[NextPacket.fd] \in Peer
  BY <1>1, <1>2, LiveIsPeer DEF Conn, NextConn
<1>4. FirstPart \in Nat /\ FirstPart <= net[NextConn].room /\ FirstPart \in 0..PacketLen
  <2>1. net[NextConn].room \in Nat /\ PacketLen \in Nat
    BY <1>3, ServerAssumption DEF Connection
  <2>2. FirstPart \in Nat /\ FirstPart <= net[NextConn].room /\ FirstPart <= PacketLen
    BY <2>1, LesserType DEF FirstPart
  <2> QED
    BY <2>1, <2>2
<1>5. CASE FirstPart = PacketLen
  <2> DEFINE q == [peers[NextPacket.fd] EXCEPT !.bytesSent = FirstPart, !.packToSend = None]
  <2>1. q \in Peer /\ q.conn = NextConn /\ q.bytesRecvd = peers[NextPacket.fd].bytesRecvd
    BY <1>3, <1>4 DEF Peer, NextConn
  <2>2. peers' = [peers EXCEPT ![NextPacket.fd] = q] /\ UNCHANGED outQueueWatched
    BY <1>2, <1>5 DEF Started
  <2> QED
    BY <1>1, <1>2, <1>3, <1>4, <2>1, <2>2
<1>6. CASE FirstPart # PacketLen
  <2> DEFINE q == [peers[NextPacket.fd] EXCEPT !.bytesSent = FirstPart,
                                               !.packToSend = NextPacket, !.epollOut = TRUE]
  <2>1. /\ q \in Peer /\ q.conn = NextConn
        /\ q.bytesRecvd = peers[NextPacket.fd].bytesRecvd
        /\ q.epollOut /\ q.packToSend = NextPacket
    BY <1>1, <1>3, <1>4 DEF Peer, NextConn
  <2>2. peers' = [peers EXCEPT ![NextPacket.fd] = q] /\ outQueueWatched' = FALSE
    BY <1>2, <1>6 DEF Started
  <2> HIDE DEF q
  <2> QED
    BY <1>1, <1>2, <1>3, <1>4, <2>1, <2>2
<1> QED
  BY <1>5, <1>6

LEMMA SendStartTInv ==
    ASSUME TInv, SendStart
    PROVE  TInv'
<1> USE DEF TInv
<1>1. outQueue' \in QueueOf(Request)
  BY OutQueueEventType DEF SendStart
<1>2. PICK q \in Peer :
         /\ q.conn = NextConn
         /\ q.bytesRecvd = peers[NextPacket.fd].bytesRecvd
         /\ peers' = [peers EXCEPT ![NextPacket.fd] = q]
         /\ \/ UNCHANGED outQueueWatched
            \/ /\ q.epollOut
               /\ q.packToSend = NextPacket
               /\ outQueueWatched' = FALSE
  BY SendStartPeer
<1>3. NextPacket.fd \in Fds /\ IsLive(NextPacket.fd) /\ NextConn \in Conns
  BY SendStartPeer
<1>4. net' \in [Conns -> Connection] /\ \A d \in Conns : net'[d].rxRead = net[d].rxRead
  <2>1. FirstPart \in Nat /\ FirstPart <= net[NextConn].room
    BY SendStartPeer, ServerAssumption
  <2> QED
    BY <2>1, SendStartPeer, PutOnWireType
<1>5. /\ peers' \in [Fds -> Peer \cup {None}]
      /\ peers'[NextPacket.fd] = q
      /\ \A f \in Fds \ {NextPacket.fd} : peers'[f] = peers[f]
  BY <1>2, <1>3 DEF TypeOK
<1>6. TypeOK'
  BY <1>1, <1>2, <1>4, <1>5 DEF SendStart, OutQueueEvent, TypeOK, appVars
<1>7. RecvBounded'
  BY <1>2, <1>3, <1>4, <1>5, LiveIsPeer DEF RecvBounded, IsLive, NextConn
<1> QED
  BY <1>6, <1>7

LEMMA TakeOutQueueTInv ==
    ASSUME TInv, TakeOutQueue
    PROVE  TInv'
<1> USE DEF TInv
<1> DEFINE p == Head(outQueue.items)
<1>0. p \in Request /\ p.fd \in Fds /\ outQueue' \in QueueOf(Request)
  BY OutQueueEventType DEF TakeOutQueue, NoSuchPeer, UnknownPacketType, SendStart,
                           SendStartFails, Request
<1>1. CASE NoSuchPeer
  <2>1. TypeOK'
    BY <1>0, <1>1 DEF NoSuchPeer, OutQueueEvent, TypeOK, appVars
  <2> QED
    BY <1>1, <2>1, KeepsRecvBounded DEF NoSuchPeer
<1>2. CASE UnknownPacketType
  <2>1. peers[p.fd] \in Peer /\ peers' = [peers EXCEPT ![p.fd].packToSend = p]
    BY <1>0, <1>2, LiveIsPeer DEF UnknownPacketType
  <2>2. /\ peers' \in [Fds -> Peer \cup {None}]
        /\ \A f \in Fds \ {p.fd} : peers'[f] = peers[f]
        /\ peers'[p.fd].conn = peers[p.fd].conn
        /\ peers'[p.fd].bytesRecvd = peers[p.fd].bytesRecvd
    BY <1>0, <2>1 DEF TypeOK, Peer
  <2>3. TypeOK'
    BY <1>0, <1>2, <2>2 DEF UnknownPacketType, OutQueueEvent, TypeOK, appVars
  <2>4. RecvBounded'
    BY <1>0, <1>2, <2>2 DEF UnknownPacketType, RecvBounded, IsLive
  <2> QED
    BY <2>3, <2>4
<1>3. CASE SendStart
  BY <1>3, SendStartTInv
<1>4. CASE SendStartFails
  BY <1>0, <1>4, DropPeerTInv DEF SendStartFails, OutQueueEvent, TypeOK, appVars
<1> QED
  BY <1>1, <1>2, <1>3, <1>4 DEF TakeOutQueue

LEMMA TakeCommandTInv ==
    ASSUME TInv, TakeCommand
    PROVE  TInv'
<1> USE DEF TInv
<1> DEFINE p == Head(outCmdQueue.items)
<1>1. p \in Request /\ p.fd \in Fds /\ outCmdQueue' \in QueueOf(Request)
  <2>1. outCmdQueue \in QueueOf(Request) /\ QueueReadable(outCmdQueue)
    BY DEF TakeCommand, TypeOK
  <2>2. p \in Request /\ Pop(outCmdQueue) \in QueueOf(Request)
    BY <2>1, PopType
  <2> QED
    BY <2>2 DEF TakeCommand, Request
<1>2. CASE IsLive(p.fd) /\ p.type = "CLOSE"
  BY <1>1, <1>2, DropPeerTInv DEF TakeCommand, TypeOK, appVars
<1>3. CASE ~(IsLive(p.fd) /\ p.type = "CLOSE")
  <2>1. TypeOK'
    BY <1>1, <1>3 DEF TakeCommand, TypeOK, appVars
  <2> QED
    BY <1>3, <2>1, KeepsRecvBounded DEF TakeCommand
<1> QED
  BY <1>2, <1>3

(* A connection whose counter moves within its range.                       *)
LEMMA CountersType ==
    ASSUME NEW k \in Connection
    PROVE  /\ \A x \in Nat : /\ [k EXCEPT !.rxRead = x] \in Connection
                            /\ [k EXCEPT !.rxRead = x].rxRead = x
           /\ \A x \in 0..MaxRx : [k EXCEPT !.rxSent = x] \in Connection
           /\ \A x \in 0..SndBuf : [k EXCEPT !.room = x] \in Connection
  BY DEF Connection

(* What recv_packet takes is a number of units, and fits the message.       *)
LEMMA TakenType ==
    ASSUME TypeOK, NEW fd \in Fds, IsLive(fd), Taken(fd) > 0
    PROVE  /\ Taken(fd) \in Nat
           /\ Conn(fd).rxRead \in Nat
           /\ peers[fd].bytesRecvd \in Nat
<1>1. peers[fd].bytesRecvd \in Nat /\ Conn(fd).rxRead \in Nat /\ Conn(fd).rxSent \in Nat
  BY LiveIsPeer, ServerAssumption DEF Peer, Connection
<1>2. Taken(fd) \in Int
  BY <1>1, ServerAssumption DEF Taken, Unread, Lesser
<1> QED
  BY <1>1, <1>2

(* Reading moves on the count of one connection and of the peer it serves.  *)
LEMMA ReadTInv ==
    ASSUME TInv, NEW fd \in Fds, IsLive(fd), NEW k \in Nat, NEW q \in Peer,
           net' = [net EXCEPT ![peers[fd].conn].rxRead = @ + k],
           peers' = [peers EXCEPT ![fd] = q],
           q.conn = peers[fd].conn,
           q.bytesRecvd <= peers[fd].bytesRecvd + k,
           inQueue' \in QueueOf(Received),
           UNCHANGED <<pc, exit, outQueueWatched, outQueue, inCmdQueue, outCmdQueue, appVars>>
    PROVE  TInv'
<1> USE DEF TInv
<1> DEFINE c == peers[fd].conn
<1>1. c \in Conns /\ net[c] \in Connection /\ peers[fd] \in Peer
  BY LiveIsPeer DEF Conn
<1>2. net' = [net EXCEPT ![c] = [net[c] EXCEPT !.rxRead = net[c].rxRead + k]]
  OBVIOUS
<1> HIDE DEF c
<1>3. /\ [net[c] EXCEPT !.rxRead = net[c].rxRead + k] \in Connection
      /\ [net[c] EXCEPT !.rxRead = net[c].rxRead + k].rxRead = net[c].rxRead + k
  <2>1. net[c].rxRead + k \in Nat
    BY <1>1 DEF Connection
  <2> QED
    BY <1>1, <2>1, CountersType
<1>4. /\ net' \in [Conns -> Connection]
      /\ \A d \in Conns \ {c} : net'[d] = net[d]
      /\ net'[c].rxRead = net[c].rxRead + k
  BY <1>1, <1>2, <1>3 DEF TypeOK
<1>5. /\ peers' \in [Fds -> Peer \cup {None}]
      /\ peers'[fd] = q
      /\ \A f \in Fds \ {fd} : peers'[f] = peers[f]
  BY DEF TypeOK
<1>6. TypeOK'
  BY <1>4, <1>5 DEF TypeOK, appVars
<1>7. RecvBounded'
  <2> SUFFICES ASSUME NEW f \in Fds, peers'[f] # None
               PROVE  peers'[f].bytesRecvd <= net'[peers'[f].conn].rxRead
    BY DEF RecvBounded, IsLive
  <2>1. \A d \in Conns : net[d].rxRead \in Nat /\ net'[d].rxRead \in Nat
    BY <1>4 DEF TypeOK, Connection
  <2>2. \A d \in Conns : net'[d].rxRead >= net[d].rxRead
    BY <1>4, <2>1
  <2>3. peers[fd].bytesRecvd \in Nat /\ q.bytesRecvd \in Nat
    BY <1>1 DEF Peer
  <2>4. CASE f = fd
    <3>1. peers[fd].bytesRecvd <= net[c].rxRead
      BY DEF RecvBounded, IsLive, c
    <3>2. /\ peers'[f].conn = c
          /\ peers'[f].bytesRecvd = q.bytesRecvd
          /\ net'[c].rxRead = net[c].rxRead + k
      BY <1>4, <1>5, <2>4 DEF c
    <3> QED
      BY <1>1, <2>1, <2>3, <3>1, <3>2
  <2>5. CASE f # fd
    <3>1. /\ peers'[f] = peers[f]
          /\ peers[f].bytesRecvd <= net[peers[f].conn].rxRead
          /\ peers[f].conn \in Conns
          /\ peers[f].bytesRecvd \in Nat
      BY <1>5, <2>5, LiveIsPeer DEF RecvBounded, IsLive, Peer
    <3> QED
      BY <2>1, <2>2, <3>1
  <2> QED
    BY <2>4, <2>5
<1> QED
  BY <1>6, <1>7

LEMMA RecvPacketTInv ==
    ASSUME TInv, NEW fd \in Fds, RecvPacket(fd)
    PROVE  TInv'
<1> USE DEF TInv
<1>1. IsLive(fd) /\ Completes(fd)
  BY DEF RecvPacket
<1>2. /\ Taken(fd) \in Nat /\ Taken(fd) > 0
      /\ Conn(fd).rxRead \in Nat /\ peers[fd].bytesRecvd \in Nat
  BY <1>1, TakenType DEF Completes
<1>3. peers[fd] \in Peer /\ peers[fd].conn \in Conns
  BY <1>1, LiveIsPeer
<1> DEFINE m == [fd |-> fd, conn |-> peers[fd].conn, seqnum |-> peers[fd].seqnum,
                 from |-> Conn(fd).rxRead - peers[fd].bytesRecvd + 1,
                 upto |-> Conn(fd).rxRead + Taken(fd)]
           q == [peers[fd] EXCEPT !.seqnum = @ + 1, !.bytesRecvd = 0]
<1>4. Conn(fd).rxRead - peers[fd].bytesRecvd \in Nat
  BY <1>1, <1>2 DEF RecvBounded, Conn
<1>5. m \in Received
  BY <1>2, <1>3, <1>4 DEF Received, Peer
<1>6. inQueue' \in QueueOf(Received)
  <2>1. inQueue' = Push(inQueue, m, TRUE) /\ inQueue \in QueueOf(Received)
    BY DEF RecvPacket, Deliver, TypeOK
  <2> HIDE DEF m
  <2> QED
    BY <1>5, <2>1, PushType
<1>7. /\ q \in Peer
      /\ q.conn = peers[fd].conn
      /\ q.bytesRecvd <= peers[fd].bytesRecvd + Taken(fd)
  <2>0. peers[fd].seqnum + 1 \in Nat
    BY <1>3 DEF Peer
  <2>1. q \in Peer /\ q.conn = peers[fd].conn /\ q.bytesRecvd = 0
    BY <1>3, <2>0 DEF Peer
  <2> QED
    BY <1>2, <2>1
<1>8. /\ net' = [net EXCEPT ![peers[fd].conn].rxRead = @ + Taken(fd)]
      /\ peers' = [peers EXCEPT ![fd] = q]
      /\ UNCHANGED <<pc, exit, outQueueWatched, outQueue, inCmdQueue, outCmdQueue, appVars>>
  BY DEF RecvPacket
<1> HIDE DEF q
<1> QED
  BY <1>1, <1>2, <1>6, <1>7, <1>8, ReadTInv

LEMMA RecvPartTInv ==
    ASSUME TInv, NEW fd \in Fds, RecvPart(fd)
    PROVE  TInv'
<1> USE DEF TInv
<1>1. IsLive(fd)
  BY DEF RecvPart
<1>2. Taken(fd) \in Nat /\ peers[fd].bytesRecvd \in Nat
  BY <1>1, TakenType DEF RecvPart
<1>3. peers[fd] \in Peer
  BY <1>1, LiveIsPeer
<1> DEFINE q == [peers[fd] EXCEPT !.bytesRecvd = @ + Taken(fd)]
<1>4. /\ q \in Peer
      /\ q.conn = peers[fd].conn
      /\ q.bytesRecvd <= peers[fd].bytesRecvd + Taken(fd)
  BY <1>2, <1>3 DEF Peer
<1>5. /\ net' = [net EXCEPT ![peers[fd].conn].rxRead = @ + Taken(fd)]
      /\ peers' = [peers EXCEPT ![fd] = q]
      /\ inQueue' \in QueueOf(Received)
      /\ UNCHANGED <<pc, exit, outQueueWatched, outQueue, inCmdQueue, outCmdQueue, appVars>>
  BY DEF RecvPart, KeepPart, queueVars, TypeOK
<1> HIDE DEF q
<1> QED
  BY <1>1, <1>2, <1>4, <1>5, ReadTInv

(* Continuing a packet: what it does to the peer it is for.                 *)
LEMMA SendContinuePeer ==
    ASSUME TInv, NEW fd \in Fds, SendContinue(fd),
           NEW c, c = peers[fd].conn, NEW n, n = Lesser(net[c].room, RestToSend(fd))
    PROVE  /\ IsLive(fd) /\ peers[fd].packToSend \in Request
           /\ c \in Conns /\ n \in Nat /\ n <= net[c].room
           /\ \E q \in Peer : /\ q.conn = c
                              /\ q.bytesRecvd = peers[fd].bytesRecvd
                              /\ peers' = [peers EXCEPT ![fd] = q]
<1> USE DEF TInv
<1>1. IsLive(fd) /\ peers[fd].packToSend # None /\ Continued(fd, n)
  BY DEF SendContinue, Writable, Conn
<1>2. /\ c \in Conns /\ net[c] \in Connection /\ peers[fd] \in Peer
      /\ peers[fd].packToSend \in Request
  BY <1>1, LiveIsPeer DEF Conn, Peer
<1>3. n \in Nat /\ n <= net[c].room /\ peers[fd].bytesSent + n \in 0..PacketLen
  <2>1. net[c].room \in Nat
    BY <1>2, ServerAssumption DEF Connection
  <2>2. peers[fd].bytesSent \in 0..PacketLen /\ PacketLen \in Nat
    BY <1>2, ServerAssumption DEF Peer
  <2>3. RestToSend(fd) \in Nat
    BY <2>2 DEF RestToSend
  <2>4. n \in Nat /\ n <= net[c].room /\ n <= RestToSend(fd)
    BY <2>1, <2>3, LesserType
  <2> QED
    BY <2>2, <2>4 DEF RestToSend
<1>4. CASE peers[fd].bytesSent + n = PacketLen
  <2> DEFINE q == [peers[fd] EXCEPT !.bytesSent = PacketLen, !.packToSend = None,
                                    !.epollOut = FALSE]
  <2>1. PacketLen \in 0..PacketLen
    BY ServerAssumption
  <2>2. q \in Peer /\ q.conn = c /\ q.bytesRecvd = peers[fd].bytesRecvd
    BY <1>2, <2>1 DEF Peer
  <2>3. peers' = [peers EXCEPT ![fd] = q]
    BY <1>1, <1>4 DEF Continued
  <2> QED
    BY <1>1, <1>2, <1>3, <2>2, <2>3
<1>5. CASE peers[fd].bytesSent + n # PacketLen
  <2> DEFINE q == [peers[fd] EXCEPT !.bytesSent = peers[fd].bytesSent + n]
  <2>1. q \in Peer /\ q.conn = c /\ q.bytesRecvd = peers[fd].bytesRecvd
    BY <1>2, <1>3 DEF Peer
  <2>2. peers' = [peers EXCEPT ![fd] = q]
    BY <1>1, <1>5 DEF Continued
  <2> QED
    BY <1>1, <1>2, <1>3, <2>1, <2>2
<1> QED
  BY <1>4, <1>5

LEMMA SendContinueTInv ==
    ASSUME TInv, NEW fd \in Fds, SendContinue(fd)
    PROVE  TInv'
<1> USE DEF TInv
<1> DEFINE p == peers[fd].packToSend
           c == peers[fd].conn
           n == Lesser(net[c].room, RestToSend(fd))
<1>1. PutOnWire(c, p, n) /\ Continued(fd, n)
  BY DEF SendContinue, Conn
<1> HIDE DEF n, c
<1>2. IsLive(fd) /\ p \in Request /\ c \in Conns /\ n \in Nat /\ n <= net[c].room
  BY SendContinuePeer DEF c, n
<1>3. PICK q \in Peer : /\ q.conn = c
                        /\ q.bytesRecvd = peers[fd].bytesRecvd
                        /\ peers' = [peers EXCEPT ![fd] = q]
  BY SendContinuePeer DEF c, n
<1>4. net' \in [Conns -> Connection] /\ \A d \in Conns : net'[d].rxRead = net[d].rxRead
  BY <1>1, <1>2, PutOnWireType
<1>5. /\ peers' \in [Fds -> Peer \cup {None}]
      /\ peers'[fd] = q
      /\ \A f \in Fds \ {fd} : peers'[f] = peers[f]
  BY <1>3 DEF TypeOK
<1>6. outQueueWatched' \in BOOLEAN
  BY <1>1 DEF Continued, TypeOK
<1>7. TypeOK'
  BY <1>4, <1>5, <1>6 DEF SendContinue, Writable, TypeOK, queueVars, appVars
<1>8. RecvBounded'
  BY <1>2, <1>3, <1>4, <1>5, LiveIsPeer DEF RecvBounded, IsLive, c
<1> QED
  BY <1>7, <1>8

LEMMA PeerEventTInv ==
    ASSUME TInv, NEW fd \in Fds, PeerEvent(fd)
    PROVE  TInv'
<1> USE DEF TInv
<1>1. CASE RecvPacket(fd)
  BY <1>1, RecvPacketTInv
<1>2. CASE RecvPart(fd)
  BY <1>2, RecvPartTInv
<1>3. CASE PeerFails(fd)
  BY <1>3, DropPeerTInv DEF PeerFails, TypeOK
<1>4. CASE SendContinue(fd)
  BY <1>4, SendContinueTInv
<1>5. CASE SendContinueNull(fd)
  <2>1. TypeOK'
    BY <1>5 DEF SendContinueNull, TypeOK, queueVars, appVars
  <2> QED
    BY <1>5, <2>1, KeepsRecvBounded DEF SendContinueNull
<1> QED
  BY <1>1, <1>2, <1>3, <1>4, <1>5 DEF PeerEvent

(* The code after the loop.                                                 *)
LEMMA ClosingTInv ==
    ASSUME TInv, LeaveLoop \/ (\E fd \in Fds : ClosePeer(fd)) \/ LoopDone
    PROVE  TInv'
<1> USE DEF TInv
<1>1. CASE LeaveLoop
  <2>1. /\ net' \in [Conns -> Connection]
        /\ \A d \in Conns : net'[d].rxRead = net[d].rxRead
    BY <1>1, ZenonT(60) DEF LeaveLoop, TypeOK, Connection
  <2>2. outQueue' \in QueueOf(Request) /\ outCmdQueue' \in QueueOf(Request)
    BY <1>1, EmptyQueueType DEF LeaveLoop
  <2>3. TypeOK'
    BY <1>1, <2>1, <2>2 DEF LeaveLoop, TypeOK, appVars
  <2> QED
    BY <1>1, <2>1, <2>3, KeepsRecvBounded DEF LeaveLoop
<1>2. CASE \E fd \in Fds : ClosePeer(fd)
  <2> PICK fd \in Fds : ClosePeer(fd)
    BY <1>2
  <2>1. IsLive(fd) /\ peers[fd].conn \in Conns
    BY LiveIsPeer DEF ClosePeer
  <2>2. inCmdQueue' \in QueueOf(Announcement)
    BY <2>1, AnnounceType DEF ClosePeer
  <2>3. /\ peers' \in [Fds -> Peer \cup {None}]
        /\ net' \in [Conns -> Connection]
        /\ \A c \in Conns : net'[c].rxRead = net[c].rxRead
        /\ \A f \in Fds : peers'[f] = peers[f] \/ peers'[f] = None
    BY <2>1, ErasePeerType DEF ClosePeer
  <2>4. TypeOK'
    BY <2>2, <2>3 DEF ClosePeer, TypeOK, appVars
  <2> QED
    BY <2>3, <2>4, KeepsRecvBounded
<1>3. CASE LoopDone
  <2>1. TypeOK'
    BY <1>3 DEF LoopDone, TypeOK, queueVars, appVars
  <2> QED
    BY <1>3, <2>1, KeepsRecvBounded DEF LoopDone
<1> QED
  BY <1>1, <1>2, <1>3

(* What the application does leaves the server's map and the network alone. *)
LEMMA AppTInv ==
    ASSUME TInv, App
    PROVE  TInv'
<1> USE DEF TInv
<1>1. UNCHANGED <<peers, net, pc, outQueueWatched>>
  BY DEF App, AppLearn, AppReceive, AppSend, AppCommand, AppRequest, RequestExit
<1>2. RecvBounded'
  BY <1>1, KeepsRecvBounded
<1>3. CASE AppLearn
  <2>1. inCmdQueue \in QueueOf(Announcement) /\ QueueReadable(inCmdQueue)
    BY <1>3 DEF AppLearn, TypeOK
  <2>2. /\ Head(inCmdQueue.items) \in Announcement
        /\ Pop(inCmdQueue) \in QueueOf(Announcement)
    BY <2>1, PopType
  <2>3. view' \in [Fds -> Conns \cup {None}]
    BY <1>3, <2>2 DEF AppLearn, TypeOK, Announcement
  <2> QED
    BY <1>2, <1>3, <2>2, <2>3 DEF AppLearn, TypeOK
<1>4. CASE AppReceive
  <2>1. inQueue \in QueueOf(Received) /\ QueueReadable(inQueue)
    BY <1>4 DEF AppReceive, TypeOK
  <2>2. Head(inQueue.items) \in Received /\ Pop(inQueue) \in QueueOf(Received)
    BY <2>1, PopType
  <2>3. got' \in [Conns -> Nat]
    BY <1>4, <2>2 DEF AppReceive, TypeOK, Received
  <2> QED
    BY <1>2, <1>4, <2>2, <2>3 DEF AppReceive, TypeOK
<1>5. ASSUME NEW fd \in Fds, NEW t \in MessageType, AppRequest(fd)
      PROVE  NewRequest(t, fd) \in Request /\ nextId' \in 1..(MaxRequests + 1)
  <2>1. view[fd] \in Conns /\ nextId \in 1..MaxRequests
    BY <1>5, ServerAssumption DEF AppRequest, TypeOK
  <2> QED
    BY <1>5, <2>1, ServerAssumption DEF AppRequest, NewRequest, Request
<1>6. CASE \E fd \in Fds, type \in OutTypes, force \in BOOLEAN : AppSend(fd, type, force)
  <2> PICK fd \in Fds, type \in OutTypes, force \in BOOLEAN : AppSend(fd, type, force)
    BY <1>6
  <2>1. NewRequest(type, fd) \in Request /\ nextId' \in 1..(MaxRequests + 1)
    BY <1>5, ServerAssumption DEF AppSend
  <2>2. outQueue' \in QueueOf(Request)
    BY <2>1, PushType DEF AppSend, TypeOK
  <2> QED
    BY <1>2, <2>1, <2>2 DEF AppSend, AppRequest, TypeOK
<1>7. CASE \E fd \in Fds, type \in CmdTypes, force \in BOOLEAN : AppCommand(fd, type, force)
  <2> PICK fd \in Fds, type \in CmdTypes, force \in BOOLEAN : AppCommand(fd, type, force)
    BY <1>7
  <2>1. NewRequest(type, fd) \in Request /\ nextId' \in 1..(MaxRequests + 1)
    BY <1>5, ServerAssumption DEF AppCommand
  <2>2. outCmdQueue' \in QueueOf(Request)
    BY <2>1, PushType DEF AppCommand, TypeOK
  <2> QED
    BY <1>2, <2>1, <2>2 DEF AppCommand, AppRequest, TypeOK
<1>8. CASE RequestExit
  BY <1>2, <1>8 DEF RequestExit, TypeOK, queueVars, appVars
<1> QED
  BY <1>3, <1>4, <1>6, <1>7, <1>8 DEF App

LEMMA NetworkTInv ==
    ASSUME TInv, Network
    PROVE  TInv'
<1> USE DEF TInv
<1>1. UNCHANGED <<pc, exit, outQueueWatched, peers, queueVars, appVars>>
  BY DEF Network, NetStep, Connect, RemoteSend, RemoteDrain, RemoteClose
<1>2. /\ net' \in [Conns -> Connection]
      /\ \A d \in Conns : net'[d].rxRead = net[d].rxRead
  <2> PICK c \in Conns : Connect(c) \/ RemoteSend(c) \/ RemoteDrain(c) \/ RemoteClose(c)
    BY DEF Network
  <2>1. net \in [Conns -> Connection] /\ net[c] \in Connection
    BY DEF TypeOK
  <2>2. \E k \in Connection : k.rxRead = net[c].rxRead /\ net' = [net EXCEPT ![c] = k]
    <3>1. CASE Connect(c)
      <4>1. [net[c] EXCEPT !.link = "backlog"] \in Connection
        BY <2>1 DEF Connection
      <4> QED
        BY <2>1, <3>1, <4>1 DEF Connect, Connection
    <3>2. CASE RemoteSend(c)
      <4>1. [net[c] EXCEPT !.rxSent = @ + 1] \in Connection
        <5>1. net[c].rxSent + 1 \in 0..MaxRx
          BY <2>1, <3>2, ServerAssumption DEF RemoteSend, Connection
        <5> QED
          BY <2>1, <5>1, CountersType
      <4> QED
        BY <2>1, <3>2, <4>1 DEF RemoteSend, Connection
    <3>3. CASE RemoteDrain(c)
      <4>1. [net[c] EXCEPT !.room = @ + 1] \in Connection
        <5>1. net[c].room + 1 \in 0..SndBuf
          BY <2>1, <3>3, ServerAssumption DEF RemoteDrain, Connection
        <5> QED
          BY <2>1, <5>1, CountersType
      <4> QED
        BY <2>1, <3>3, <4>1 DEF RemoteDrain, Connection
    <3>4. CASE RemoteClose(c)
      <4>1. [net[c] EXCEPT !.remote = "gone"] \in Connection
        BY <2>1 DEF Connection
      <4> QED
        BY <2>1, <3>4, <4>1 DEF RemoteClose, Connection
    <3> QED
      BY <3>1, <3>2, <3>3, <3>4
  <2> QED
    BY <2>1, <2>2
<1>3. TypeOK'
  BY <1>1, <1>2 DEF TypeOK, queueVars, appVars
<1> QED
  BY <1>1, <1>2, <1>3, KeepsRecvBounded

(* TInv is inductive.                                                       *)
LEMMA TInvStep == TInv /\ [Next]_vars => TInv'
<1> SUFFICES ASSUME TInv, [Next]_vars
             PROVE  TInv'
  OBVIOUS
<1>1. CASE Setup
  BY <1>1, KeepsRecvBounded DEF Setup, TInv, TypeOK, queueVars, appVars
<1>2. CASE ThreadExit
  BY <1>2, KeepsRecvBounded DEF ThreadExit, TInv, TypeOK, queueVars, appVars
<1>3. CASE \E fd \in Fds, c \in Conns : AcceptPeer(fd, c)
  BY <1>3, AcceptPeerTInv
<1>4. CASE \E c \in Conns : RefusePeer(c)
  <2> PICK c \in Conns : RefusePeer(c)
    BY <1>4
  <2>1. net' \in [Conns -> Connection] /\ \A d \in Conns : net'[d].rxRead = net[d].rxRead
    <3> DEFINE k == [net[c] EXCEPT !.link = "closed"]
    <3>1. net \in [Conns -> Connection] /\ net[c] \in Connection
      BY DEF TInv, TypeOK
    <3>2. net' = [net EXCEPT ![c] = k]
      BY Zenon DEF RefusePeer
    <3>3. k \in Connection /\ k.rxRead = net[c].rxRead
      BY <3>1, ZenonT(60) DEF Connection
    <3> HIDE DEF k
    <3> QED
      BY <3>1, <3>2, <3>3, Zenon
  <2> QED
    BY <2>1, KeepsRecvBounded DEF RefusePeer, TInv, TypeOK, queueVars, appVars
<1>5. CASE TakeOutQueue
  BY <1>5, TakeOutQueueTInv
<1>6. CASE TakeCommand
  BY <1>6, TakeCommandTInv
<1>7. CASE \E fd \in Fds : PeerEvent(fd)
  BY <1>7, PeerEventTInv
<1>8. CASE LeaveLoop \/ (\E fd \in Fds : ClosePeer(fd)) \/ LoopDone
  BY <1>8, ClosingTInv
<1>9. CASE App
  BY <1>9, AppTInv
<1>10. CASE Network
  BY <1>10, NetworkTInv
<1>11. CASE UNCHANGED vars
  BY <1>11, KeepsRecvBounded DEF vars, TInv, TypeOK, queueVars, appVars
<1> QED
  BY <1>1, <1>2, <1>3, <1>4, <1>5, <1>6, <1>7, <1>8, <1>9, <1>10, <1>11 DEF Next, Server

LEMMA TInvAlways == Spec => []TInv
  BY TInvInit, TInvStep, PTL DEF Spec

(* Every variable of the server keeps its type, whatever the thread, the    *)
(* application and the clients do.                                          *)
THEOREM ServerTypes == Spec => []TypeOK
<1>1. TInv => TypeOK
  BY DEF TInv
<1> QED
  BY <1>1, TInvAlways, PTL

-----------------------------------------------------------------------------
(* Output cannot stop for good.  The property is inductive given the types: *)
(* the client that made the loop stop watching outQueue keeps its unfinished*)
(* packet and its EPOLLOUT until the loop watches outQueue again.           *)

LEMMA KeepsUnfinished ==
    ASSUME OutQueueNotStuck,
           outQueueWatched' = outQueueWatched,
           pc' = pc \/ pc' # "loop",
           \A f \in Fds : IsLive(f) =>
               /\ peers'[f] # None
               /\ peers'[f].epollOut = peers[f].epollOut
               /\ peers'[f].packToSend = peers[f].packToSend
    PROVE  OutQueueNotStuck'
  BY DEF OutQueueNotStuck, IsLive

LEMMA TakeOutQueueNotStuck ==
    ASSUME TInv, OutQueueNotStuck, TakeOutQueue
    PROVE  OutQueueNotStuck'
<1> USE DEF TInv
<1> DEFINE p == Head(outQueue.items)
<1>0. OutQueueEvent /\ outQueueWatched
  BY DEF TakeOutQueue, NoSuchPeer, UnknownPacketType, SendStart, SendStartFails, OutQueueEvent
<1>1. CASE NoSuchPeer \/ UnknownPacketType
  BY <1>0, <1>1 DEF NoSuchPeer, UnknownPacketType, OutQueueNotStuck
<1>2. CASE SendStartFails
  BY <1>2 DEF SendStartFails, DropPeer, OutQueueNotStuck
<1>3. CASE SendStart
  <2>1. PICK q \in Peer :
           /\ q.conn = NextConn
           /\ q.bytesRecvd = peers[NextPacket.fd].bytesRecvd
           /\ peers' = [peers EXCEPT ![NextPacket.fd] = q]
           /\ \/ UNCHANGED outQueueWatched
              \/ /\ q.epollOut
                 /\ q.packToSend = NextPacket
                 /\ outQueueWatched' = FALSE
    BY <1>3, SendStartPeer
  <2>2. NextPacket \in Request /\ NextPacket.fd \in Fds
    BY <1>3, SendStartPeer
  <2>3. peers'[NextPacket.fd] = q /\ q # None /\ NextPacket # None
    BY <2>1, <2>2, NoneAssumption DEF TypeOK
  <2> QED
    BY <1>0, <2>1, <2>2, <2>3 DEF OutQueueNotStuck, IsLive
<1> QED
  BY <1>1, <1>2, <1>3 DEF TakeOutQueue

LEMMA PeerEventNotStuck ==
    ASSUME TInv, OutQueueNotStuck, NEW fd \in Fds, PeerEvent(fd)
    PROVE  OutQueueNotStuck'
<1> USE DEF TInv
<1>0. IsLive(fd) /\ peers[fd] \in Peer /\ peers \in [Fds -> Peer \cup {None}]
  BY LiveIsPeer DEF PeerEvent, RecvPacket, RecvPart, PeerFails, SendContinue,
                    SendContinueNull, Writable, TypeOK
<1>1. ASSUME NEW q \in Peer, q.epollOut = peers[fd].epollOut,
             q.packToSend = peers[fd].packToSend,
             peers' = [peers EXCEPT ![fd] = q], UNCHANGED <<pc, outQueueWatched>>
      PROVE  OutQueueNotStuck'
  <2>1. q # None
    BY NoneAssumption
  <2> QED
    BY <1>0, <1>1, <2>1, KeepsUnfinished DEF IsLive
<1>2. TypeOK'
  BY PeerEventTInv
<1>3. CASE RecvPacket(fd)
  <2> DEFINE q == [peers[fd] EXCEPT !.seqnum = @ + 1, !.bytesRecvd = 0]
  <2>1. peers[fd].seqnum + 1 \in Nat
    BY <1>0 DEF Peer
  <2>2. q \in Peer /\ q.epollOut = peers[fd].epollOut /\ q.packToSend = peers[fd].packToSend
    BY <1>0, <2>1 DEF Peer
  <2>3. peers' = [peers EXCEPT ![fd] = q] /\ UNCHANGED <<pc, outQueueWatched>>
    BY <1>3 DEF RecvPacket
  <2> HIDE DEF q
  <2> QED
    BY <1>1, <2>2, <2>3
<1>4. CASE RecvPart(fd)
  <2> DEFINE q == [peers[fd] EXCEPT !.bytesRecvd = @ + Taken(fd)]
  <2>1. peers[fd].bytesRecvd + Taken(fd) \in Nat
    BY <1>0, <1>4, TakenType DEF RecvPart
  <2>2. q \in Peer /\ q.epollOut = peers[fd].epollOut /\ q.packToSend = peers[fd].packToSend
    BY <1>0, <2>1 DEF Peer
  <2>3. peers' = [peers EXCEPT ![fd] = q] /\ UNCHANGED <<pc, outQueueWatched>>
    BY <1>4 DEF RecvPart, KeepPart
  <2> HIDE DEF q
  <2> QED
    BY <1>1, <2>2, <2>3
<1>5. CASE PeerFails(fd)
  BY <1>5 DEF PeerFails, DropPeer, OutQueueNotStuck
<1>6. CASE SendContinue(fd)
  <2> DEFINE n == Lesser(Conn(fd).room, RestToSend(fd))
             q == [peers[fd] EXCEPT !.bytesSent = peers[fd].bytesSent + n]
  <2>1. Continued(fd, n) /\ UNCHANGED pc
    BY <1>6 DEF SendContinue
  <2>2. CASE peers[fd].bytesSent + n = PacketLen
    BY <2>1, <2>2 DEF Continued, OutQueueNotStuck
  <2>3. CASE peers[fd].bytesSent + n # PacketLen
    <3>1. peers' = [peers EXCEPT ![fd] = q] /\ UNCHANGED outQueueWatched
      BY <2>1, <2>3 DEF Continued
    <3>2. q.epollOut = peers[fd].epollOut /\ q.packToSend = peers[fd].packToSend
      BY <1>0 DEF Peer
    <3>3. q # None
      <4>1. peers'[fd] = q
        BY <1>0, <3>1
      <4>2. \E r \in Peer : peers' = [peers EXCEPT ![fd] = r]
        BY <1>6, SendContinuePeer
      <4> HIDE DEF q
      <4> QED
        BY <1>0, <4>1, <4>2, NoneAssumption
    <3> HIDE DEF q
    <3> QED
      BY <1>0, <2>1, <3>1, <3>2, <3>3, KeepsUnfinished DEF IsLive
  <2> QED
    BY <2>2, <2>3
<1>7. CASE SendContinueNull(fd)
  BY <1>7 DEF SendContinueNull, OutQueueNotStuck
<1> QED
  BY <1>3, <1>4, <1>5, <1>6, <1>7 DEF PeerEvent

LEMMA NotStuckStep == TInv /\ OutQueueNotStuck /\ [Next]_vars => OutQueueNotStuck'
<1> SUFFICES ASSUME TInv, OutQueueNotStuck, [Next]_vars
             PROVE  OutQueueNotStuck'
  OBVIOUS
<1> USE DEF TInv
<1>1. CASE Setup
  BY <1>1 DEF Setup, OutQueueNotStuck
<1>2. CASE ThreadExit
  BY <1>2 DEF ThreadExit, OutQueueNotStuck
<1>3. CASE \E fd \in Fds, c \in Conns : AcceptPeer(fd, c)
  BY <1>3, KeepsUnfinished DEF AcceptPeer, IsLive, TypeOK
<1>4. CASE \E c \in Conns : RefusePeer(c)
  BY <1>4, KeepsUnfinished DEF RefusePeer, IsLive
<1>5. CASE TakeOutQueue
  BY <1>5, TakeOutQueueNotStuck
<1>6. CASE TakeCommand
  <2>1. CASE UNCHANGED <<outQueueWatched, peers>>
    BY <1>6, <2>1, KeepsUnfinished DEF TakeCommand, IsLive
  <2>2. CASE ~UNCHANGED <<outQueueWatched, peers>>
    <3>1. outQueueWatched' = TRUE
      BY <1>6, <2>2 DEF TakeCommand, DropPeer
    <3> QED
      BY <3>1 DEF OutQueueNotStuck
  <2> QED
    BY <2>1, <2>2
<1>7. CASE \E fd \in Fds : PeerEvent(fd)
  BY <1>7, PeerEventNotStuck
<1>8. CASE LeaveLoop \/ (\E fd \in Fds : ClosePeer(fd)) \/ LoopDone
  BY <1>8 DEF LeaveLoop, ClosePeer, LoopDone, OutQueueNotStuck
<1>9. CASE App \/ Network \/ UNCHANGED vars
  <2>1. UNCHANGED <<pc, outQueueWatched, peers>>
    BY <1>9 DEF App, AppLearn, AppReceive, AppSend, AppCommand, AppRequest, RequestExit,
                Network, NetStep, Connect, RemoteSend, RemoteDrain, RemoteClose, vars
  <2> QED
    BY <2>1, KeepsUnfinished DEF IsLive
<1> QED
  BY <1>1, <1>2, <1>3, <1>4, <1>5, <1>6, <1>7, <1>8, <1>9 DEF Next, Server

(* The loop never stops watching outQueue without a client whose EPOLLOUT   *)
(* will make it watch outQueue again: however many clients there are and    *)
(* however they come and go.                                                *)
THEOREM OutputNotStuck == Spec => []OutQueueNotStuck
<1>1. Init => OutQueueNotStuck
  BY DEF Init, OutQueueNotStuck
<1> QED
  BY <1>1, NotStuckStep, TInvAlways, PTL DEF Spec

-----------------------------------------------------------------------------
(* The server implements PeerRegistry: opening, closing and learning are    *)
(* its only steps that touch the map, the feed or the view.                 *)

(* The server's map as the registry sees it.                                *)
LiveMap == [fd \in Fds |-> IF IsLive(fd) THEN peers[fd].conn ELSE None]

LEMMA LiveMapOf ==
    ASSUME TypeOK
    PROVE  /\ \A fd \in Fds : LiveMap[fd] = None <=> ~IsLive(fd)
           /\ \A fd \in Fds : IsLive(fd) => LiveMap[fd] = peers[fd].conn
           /\ {f \in Fds : LiveMap[f] # None} = Live
           /\ Cardinality(Live) \in Nat
<1>1. \A fd \in Fds : IsLive(fd) => peers[fd].conn \in Conns
  BY LiveIsPeer
<1>2. Cardinality(Live) \in Nat
  BY ServerAssumption, FS_Subset, FS_CardinalityType DEF Live
<1> QED
  BY <1>1, <1>2, NoneAssumption DEF LiveMap, Live

(* Peers that stay, in a step that leaves the feed and the view alone.      *)
LEMMA RegistryStutters ==
    ASSUME TypeOK, UNCHANGED <<inCmdQueue, view>>,
           \A f \in Fds : /\ IsLive(f) <=> peers'[f] # None
                          /\ IsLive(f) => peers'[f].conn = peers[f].conn
    PROVE  UNCHANGED Registry!registryVars
<1>1. LiveMap' = LiveMap
  BY DEF LiveMap, IsLive
<1> QED
  BY <1>1 DEF Registry!registryVars, LiveMap

LEMMA ErasePeerCloses ==
    ASSUME TypeOK, NEW fd \in Fds, IsLive(fd), ErasePeer(fd),
           Announce("CLOSE", fd, peers[fd].conn), UNCHANGED view
    PROVE  Registry!Close(fd)
<1>1. LiveMap[fd] = peers[fd].conn /\ LiveMap[fd] # None
  BY LiveMapOf
<1>2. LiveMap' = [LiveMap EXCEPT ![fd] = None]
  BY ErasePeerType DEF LiveMap, IsLive
<1>3. inCmdQueue'.items = Append(inCmdQueue.items,
                                 [type |-> "CLOSE", fd |-> fd, conn |-> LiveMap[fd]])
  BY <1>1, ForcedPush DEF Announce, TypeOK
<1> QED
  BY <1>1, <1>2, <1>3 DEF Registry!Close, LiveMap

(* PeerRegistry counts with the same Cardinality.                           *)
LEMMA SameCardinality == \A S : Registry!Cardinality(S) = Cardinality(S)
  BY DEF Registry!Cardinality, Cardinality

LEMMA AcceptPeerOpens ==
    ASSUME TypeOK, NEW fd \in Fds, NEW c \in Conns, AcceptPeer(fd, c)
    PROVE  Registry!Open(fd, c)
<1>1. LiveMap[fd] = None /\ Cardinality({f \in Fds : LiveMap[f] # None}) < MaxPeers
  <2>1. Cardinality(Live) < MaxPeers
    <3>1. Cardinality(Live) \in Nat /\ MaxPeers \in Nat
      BY LiveMapOf, ServerAssumption
    <3> QED
      BY <3>1 DEF AcceptPeer, TooManyPeers
  <2>2. {f \in Fds : LiveMap[f] # None} = Live
    BY LiveMapOf
  <2> QED
    BY <2>1, <2>2, LiveMapOf DEF AcceptPeer
<1>2. NewPeer(c) # None /\ NewPeer(c).conn = c
  <2>1. NewPeer(c) \in Peer
    BY ServerAssumption DEF NewPeer, Peer
  <2> QED
    BY <2>1, NoneAssumption DEF NewPeer
<1>3. LiveMap' = [LiveMap EXCEPT ![fd] = c]
  BY <1>2 DEF LiveMap, IsLive, AcceptPeer, TypeOK
<1>4. inCmdQueue'.items = Append(inCmdQueue.items,
                                 [type |-> "OPEN", fd |-> fd, conn |-> c])
  BY ForcedPush DEF AcceptPeer, Announce, TypeOK
<1>5. view' = view
  BY DEF AcceptPeer, appVars
<1> QED
  BY <1>1, <1>3, <1>4, <1>5, SameCardinality, Zenon DEF Registry!Open, LiveMap

LEMMA AppLearnLearns ==
    ASSUME TypeOK, AppLearn
    PROVE  Registry!Learn
<1>1. inCmdQueue.items # <<>> /\ inCmdQueue'.items = Tail(inCmdQueue.items)
  BY PopType DEF AppLearn, TypeOK
<1>2. LiveMap' = LiveMap
  BY DEF AppLearn, LiveMap, IsLive
<1> QED
  BY <1>1, <1>2 DEF AppLearn, Registry!Learn, Registry!Effect, LiveMap

LEMMA RegistryStart == Init => Registry!RegistryInit
  BY DEF Init, Registry!RegistryInit, IsLive, NewQueue

LEMMA PeerEventRegistry ==
    ASSUME TInv, NEW fd \in Fds, PeerEvent(fd)
    PROVE  Registry!Close(fd) \/ UNCHANGED Registry!registryVars
<1> USE DEF TInv
<1>0. IsLive(fd) /\ peers[fd] \in Peer /\ peers \in [Fds -> Peer \cup {None}]
  BY LiveIsPeer DEF PeerEvent, RecvPacket, RecvPart, PeerFails, SendContinue,
                    SendContinueNull, Writable, TypeOK
<1>1. CASE PeerFails(fd)
  BY <1>0, <1>1, ErasePeerCloses DEF PeerFails, DropPeer, appVars
<1>2. ASSUME NEW q \in Peer, q.conn = peers[fd].conn,
             peers' = [peers EXCEPT ![fd] = q], UNCHANGED <<inCmdQueue, view>>
      PROVE  UNCHANGED Registry!registryVars
  <2>1. q # None
    BY NoneAssumption
  <2> QED
    BY <1>0, <1>2, <2>1, RegistryStutters DEF IsLive
<1>3. CASE RecvPacket(fd)
  <2> DEFINE q == [peers[fd] EXCEPT !.seqnum = @ + 1, !.bytesRecvd = 0]
  <2>1. peers[fd].seqnum + 1 \in Nat
    BY <1>0 DEF Peer
  <2>2. q \in Peer /\ q.conn = peers[fd].conn
    BY <1>0, <2>1 DEF Peer
  <2>3. peers' = [peers EXCEPT ![fd] = q] /\ UNCHANGED <<inCmdQueue, view>>
    BY <1>3 DEF RecvPacket, appVars
  <2> HIDE DEF q
  <2> QED
    BY <1>2, <2>2, <2>3
<1>4. CASE RecvPart(fd)
  <2> DEFINE q == [peers[fd] EXCEPT !.bytesRecvd = @ + Taken(fd)]
  <2>1. peers[fd].bytesRecvd + Taken(fd) \in Nat
    BY <1>0, <1>4, TakenType DEF RecvPart
  <2>2. q \in Peer /\ q.conn = peers[fd].conn
    BY <1>0, <2>1 DEF Peer
  <2>3. peers' = [peers EXCEPT ![fd] = q] /\ UNCHANGED <<inCmdQueue, view>>
    BY <1>4 DEF RecvPart, KeepPart, appVars, queueVars
  <2> HIDE DEF q
  <2> QED
    BY <1>2, <2>2, <2>3
<1>5. CASE SendContinue(fd)
  <2>1. \E q \in Peer : /\ q.conn = peers[fd].conn
                        /\ q.bytesRecvd = peers[fd].bytesRecvd
                        /\ peers' = [peers EXCEPT ![fd] = q]
    BY <1>5, SendContinuePeer
  <2>2. UNCHANGED <<inCmdQueue, view>>
    BY <1>5 DEF SendContinue, queueVars, appVars
  <2> QED
    BY <1>2, <2>1, <2>2
<1>6. CASE SendContinueNull(fd)
  BY <1>6, RegistryStutters DEF SendContinueNull, IsLive, queueVars, appVars
<1> QED
  BY <1>1, <1>3, <1>4, <1>5, <1>6 DEF PeerEvent

LEMMA TakeOutQueueRegistry ==
    ASSUME TInv, TakeOutQueue
    PROVE  (\E fd \in Fds : Registry!Close(fd)) \/ UNCHANGED Registry!registryVars
<1> USE DEF TInv
<1> DEFINE p == Head(outQueue.items)
<1>0. p \in Request /\ p.fd \in Fds /\ UNCHANGED view
  BY OutQueueEventType DEF TakeOutQueue, NoSuchPeer, UnknownPacketType, SendStart,
                           SendStartFails, Request, OutQueueEvent, appVars
<1>1. CASE NoSuchPeer
  BY <1>0, <1>1, RegistryStutters DEF NoSuchPeer, IsLive
<1>2. ASSUME NEW f \in Fds, IsLive(f), NEW q \in Peer, q.conn = peers[f].conn,
             peers' = [peers EXCEPT ![f] = q], UNCHANGED inCmdQueue
      PROVE  UNCHANGED Registry!registryVars
  <2>1. q # None /\ peers \in [Fds -> Peer \cup {None}]
    BY NoneAssumption DEF TypeOK
  <2> QED
    BY <1>0, <1>2, <2>1, RegistryStutters DEF IsLive
<1>3. CASE UnknownPacketType
  <2> DEFINE q == [peers[p.fd] EXCEPT !.packToSend = p]
  <2>1. IsLive(p.fd) /\ peers' = [peers EXCEPT ![p.fd] = q] /\ UNCHANGED inCmdQueue
    BY <1>3 DEF UnknownPacketType
  <2>2. q \in Peer /\ q.conn = peers[p.fd].conn
    BY <1>0, <2>1, LiveIsPeer DEF Peer
  <2> HIDE DEF q
  <2> QED
    BY <1>0, <1>2, <2>1, <2>2
<1>4. CASE SendStart
  <2>1. PICK q \in Peer :
           /\ q.conn = NextConn
           /\ q.bytesRecvd = peers[NextPacket.fd].bytesRecvd
           /\ peers' = [peers EXCEPT ![NextPacket.fd] = q]
           /\ \/ UNCHANGED outQueueWatched
              \/ /\ q.epollOut
                 /\ q.packToSend = NextPacket
                 /\ outQueueWatched' = FALSE
    BY <1>4, SendStartPeer
  <2>2. NextPacket.fd \in Fds /\ IsLive(NextPacket.fd)
    BY <1>4, SendStartPeer
  <2>3. UNCHANGED inCmdQueue
    BY <1>4 DEF SendStart
  <2> QED
    BY <1>2, <2>1, <2>2, <2>3 DEF NextConn
<1>5. CASE SendStartFails
  <2>1. IsLive(p.fd) /\ DropPeer(p.fd)
    BY <1>5 DEF SendStartFails
  <2> QED
    BY <1>0, <2>1, ErasePeerCloses DEF DropPeer
<1> QED
  BY <1>1, <1>3, <1>4, <1>5 DEF TakeOutQueue

LEMMA RegistryStep ==
    TInv /\ [Next]_vars => [Registry!RegistryNext]_(Registry!registryVars)
<1> SUFFICES ASSUME TInv, [Next]_vars
             PROVE  Registry!RegistryNext \/ UNCHANGED Registry!registryVars
  OBVIOUS
<1> USE DEF TInv
<1>0. ASSUME UNCHANGED <<inCmdQueue, view, peers>>
      PROVE  UNCHANGED Registry!registryVars
  BY <1>0, RegistryStutters DEF IsLive
<1>1. CASE \E fd \in Fds, c \in Conns : AcceptPeer(fd, c)
  BY <1>1, AcceptPeerOpens DEF Registry!RegistryNext
<1>2. CASE TakeOutQueue
  BY <1>2, TakeOutQueueRegistry DEF Registry!RegistryNext
<1>3. CASE TakeCommand
  <2> DEFINE p == Head(outCmdQueue.items)
  <2>1. p.fd \in Fds /\ UNCHANGED view
    <3>1. outCmdQueue \in QueueOf(Request) /\ QueueReadable(outCmdQueue)
      BY <1>3 DEF TakeCommand, TypeOK
    <3>2. p \in Request
      BY <3>1, PopType
    <3> QED
      BY <1>3, <3>2 DEF TakeCommand, Request, appVars
  <2>2. CASE IsLive(p.fd) /\ p.type = "CLOSE"
    <3>1. DropPeer(p.fd)
      BY <1>3, <2>2 DEF TakeCommand
    <3> QED
      BY <2>1, <2>2, <3>1, ErasePeerCloses DEF DropPeer, Registry!RegistryNext
  <2>3. CASE ~(IsLive(p.fd) /\ p.type = "CLOSE")
    BY <1>0, <1>3, <2>1, <2>3 DEF TakeCommand
  <2> QED
    BY <2>2, <2>3
<1>4. CASE \E fd \in Fds : PeerEvent(fd)
  BY <1>4, PeerEventRegistry DEF Registry!RegistryNext
<1>5. CASE \E fd \in Fds : ClosePeer(fd)
  <2> PICK fd \in Fds : ClosePeer(fd)
    BY <1>5
  <2>1. Registry!Close(fd)
    BY ErasePeerCloses DEF ClosePeer, appVars
  <2> QED
    BY <2>1 DEF Registry!RegistryNext
<1>6. CASE AppLearn
  BY <1>6, AppLearnLearns DEF Registry!RegistryNext
<1>7. CASE Setup \/ ThreadExit \/ (\E c \in Conns : RefusePeer(c)) \/ LeaveLoop \/ LoopDone
  BY <1>0, <1>7 DEF Setup, ThreadExit, RefusePeer, LeaveLoop, LoopDone, queueVars, appVars
<1>8. CASE (App /\ ~AppLearn) \/ Network \/ UNCHANGED vars
  <2>1. UNCHANGED <<inCmdQueue, view, peers>>
    BY <1>8 DEF App, AppReceive, AppSend, AppCommand, AppRequest, RequestExit, Network,
                NetStep, Connect, RemoteSend, RemoteDrain, RemoteClose, vars, queueVars,
                appVars
  <2> QED
    BY <1>0, <2>1
<1> QED
  BY <1>1, <1>2, <1>3, <1>4, <1>5, <1>6, <1>7, <1>8 DEF Next, Server

(* Every behaviour of the server is one of the registry: each change of its *)
(* map is announced once, in order, never lost, and no more than MaxPeers   *)
(* clients are ever served.                                                 *)
THEOREM ServerRefinesRegistry == Spec => RefinesRegistry
  BY RegistryStart, RegistryStep, TInvAlways, PTL
  DEF Spec, RefinesRegistry, Registry!RegistrySafety

(* The registry's own theorem, for the server's map and feed.               *)
RegistryFacts == INSTANCE PeerRegistryProofs WITH
                     live <- [fd \in Fds |-> IF IsLive(fd) THEN peers[fd].conn ELSE None],
                     feed <- inCmdQueue.items

(* The announcements bring the application's view to the server's map, with *)
(* any number of clients and any reuse of descriptors.                      *)
THEOREM ServerViewConverges == Spec => []ViewConverges
<1>1. RegistryFacts!RegistrySafety => []RegistryFacts!ViewConverges
  <2>1. RegistryFacts!IsFiniteSet(Fds)
    BY ServerAssumption DEF RegistryFacts!IsFiniteSet, IsFiniteSet
  <2> QED
    BY <2>1, RegistryFacts!RegistryConverges, ServerAssumption, NoneAssumption
<1>2. Registry!RegistryInit => RegistryFacts!RegistryInit
  BY DEF Registry!RegistryInit, RegistryFacts!RegistryInit
<1>3. [Registry!RegistryNext]_(Registry!registryVars)
          => [RegistryFacts!RegistryNext]_(RegistryFacts!registryVars)
  <2>1. \A S : Registry!Cardinality(S) = RegistryFacts!Cardinality(S)
    BY DEF Registry!Cardinality, RegistryFacts!Cardinality
  <2> QED
    BY <2>1, Zenon
    DEF Registry!RegistryNext, Registry!Open, Registry!Close, Registry!Learn, Registry!Effect,
        Registry!registryVars, RegistryFacts!RegistryNext, RegistryFacts!Open,
        RegistryFacts!Close, RegistryFacts!Learn, RegistryFacts!Effect,
        RegistryFacts!registryVars
<1>4. RegistryFacts!ViewConverges => ViewConverges
  BY DEF ViewConverges, Registry!ViewConverges, RegistryFacts!ViewConverges,
         Registry!Effect, RegistryFacts!Effect
<1> QED
  BY <1>1, <1>2, <1>3, <1>4, ServerRefinesRegistry, PTL
  DEF RefinesRegistry, Registry!RegistrySafety, RegistryFacts!RegistrySafety

-----------------------------------------------------------------------------
(* The messages of one connection among those that wait in inQueue.         *)

\* The last message of c in s has number q - 1.
NumberedTo(s, c, q) ==
    \A i \in 0..Len(s) : Adjacent(s, c, i, Len(s) + 1) => i = 0 \/ s[i].seqnum + 1 = q

\* No message of c waits in s.
NoneOf(s, c) == \A i \in 1..Len(s) : s[i].conn # c

LEMMA PushedAt ==
  ASSUME NEW s \in Seq(Received), NEW m \in Received
  PROVE  /\ Append(s, m) \in Seq(Received)
         /\ Len(Append(s, m)) = Len(s) + 1 /\ Len(s) \in Nat
         /\ \A i \in 1..Len(s) : Append(s, m)[i] = s[i]
         /\ Append(s, m)[Len(s) + 1] = m
  BY AppendProperties

LEMMA TakenAt ==
  ASSUME NEW s \in Seq(Received), s # <<>>
  PROVE  /\ Len(s) \in Nat \ {0} /\ Len(Tail(s)) = Len(s) - 1
         /\ \A i \in 1..Len(Tail(s)) : Tail(s)[i] = s[i + 1]
         /\ Head(s) = s[1]
  BY HeadTailProperties, EmptySeq

LEMMA PushedAdjacent ==
  ASSUME NEW s \in Seq(Received), NEW m \in Received, NEW c,
         NEW i \in 0..Len(s), NEW j \in (i + 1)..(Len(s) + 1),
         Adjacent(Append(s, m), c, i, j)
  PROVE  Adjacent(s, c, i, j)
<1> DEFINE v == Append(s, m)
<1>1. Len(s) \in Nat /\ \A k \in 1..Len(s) : v[k] = s[k]
  BY PushedAt
<1>2. i = 0 \/ i \in 1..Len(s)
  BY <1>1
<1>3. \A k \in (i + 1)..(j - 1) : k \in 1..Len(s)
  BY <1>1
<1>4. (i = 0 \/ v[i].conn = c) /\ \A k \in (i + 1)..(j - 1) : v[k].conn # c
  BY Zenon DEF Adjacent
<1> HIDE DEF v
<1>5. i = 0 \/ s[i].conn = c
  BY <1>1, <1>2, <1>4, Zenon
<1>6. \A k \in (i + 1)..(j - 1) : s[k].conn # c
  BY <1>1, <1>3, <1>4, Zenon
<1> QED BY <1>5, <1>6, Zenon DEF Adjacent

\* What ends the messages of c when m is put behind s.
LEMMA PushedEnd ==
  ASSUME NEW s \in Seq(Received), NEW m \in Received, NEW c,
         NEW i \in 0..(Len(s) + 1), Adjacent(Append(s, m), c, i, Len(s) + 2)
  PROVE  IF m.conn = c THEN i = Len(s) + 1
                       ELSE i \in 0..Len(s) /\ Adjacent(s, c, i, Len(s) + 1)
<1> DEFINE v == Append(s, m)
           l == Len(s)
<1>1. l \in Nat /\ v[l + 1] = m
  BY PushedAt
<1>2. (i = 0 \/ v[i].conn = c) /\ \A k \in (i + 1)..((l + 2) - 1) : v[k].conn # c
  BY Zenon DEF Adjacent
<1> HIDE DEF v
<1>3. CASE m.conn = c
  <2> SUFFICES ASSUME i # l + 1 PROVE FALSE
    BY <1>3
  <2>1. l + 1 \in (i + 1)..((l + 2) - 1)
    BY <1>1
  <2> QED BY <1>1, <1>2, <1>3, <2>1, Zenon
<1>4. CASE m.conn # c
  <2>1. i # l + 1
    <3>1. l + 1 # 0
      BY <1>1
    <3> QED BY <1>1, <1>2, <1>4, <3>1, Zenon
  <2>2. i \in 0..l /\ l + 1 \in (i + 1)..(l + 1)
    BY <1>1, <2>1
  <2>3. \A k \in (i + 1)..((l + 1) - 1) : v[k].conn # c
    <3>1. \A k \in (i + 1)..((l + 1) - 1) : k \in (i + 1)..((l + 2) - 1)
      BY <1>1
    <3> QED BY <1>2, <3>1, Zenon
  <2>4. Adjacent(v, c, i, l + 1)
    BY <1>2, <2>3, Zenon DEF Adjacent
  <2>5. Adjacent(s, c, i, l + 1)
    BY <2>2, <2>4, PushedAdjacent, Zenon DEF v
  <2> QED BY <1>4, <2>2, <2>5
<1> QED BY <1>3, <1>4

\* Message m of c goes on where the messages of c in s ended.
Continues(m, u, q) == m.from = u + 1 /\ m.upto >= m.from /\ m.seqnum = q

LEMMA PushedGapless ==
  ASSUME NEW s \in Seq(Received), NEW m \in Received, NEW c, NEW n,
         Gapless(s, c, n),
         m.conn = c => \E u, q : /\ EndsAt(s, c, n, u) /\ NumberedTo(s, c, q)
                                 /\ Continues(m, u, q)
  PROVE  Gapless(Append(s, m), c, n)
<1> DEFINE v == Append(s, m)
           l == Len(s)
<1>1. Len(v) = l + 1 /\ l \in Nat /\ v[l + 1] = m /\ \A k \in 1..l : v[k] = s[k]
  BY PushedAt
<1> SUFFICES ASSUME NEW i \in 0..Len(v), NEW j \in (i + 1)..Len(v),
                    v[j].conn = c, Adjacent(v, c, i, j)
             PROVE  /\ v[j].from = UpTo(v, n, i) + 1
                    /\ v[j].upto >= v[j].from
                    /\ i # 0 => v[j].seqnum = v[i].seqnum + 1
  BY Zenon DEF Gapless
<1>2. i \in 0..l /\ j \in (i + 1)..(l + 1) /\ (i = 0 \/ i \in 1..l)
  BY <1>1
<1>3. Adjacent(s, c, i, j)
  BY <1>2, PushedAdjacent, Zenon
<1> HIDE DEF v
<1>4. UpTo(v, n, i) = UpTo(s, n, i) /\ (i # 0 => v[i].seqnum = s[i].seqnum)
  BY <1>1, <1>2, Zenon DEF UpTo
<1>5. CASE j = l + 1
  <2>1. v[j] = m /\ m.conn = c
    BY <1>1, <1>5
  <2>2. PICK u, q : EndsAt(s, c, n, u) /\ NumberedTo(s, c, q) /\ Continues(m, u, q)
    BY <2>1
  <2>3. Adjacent(s, c, i, Len(s) + 1)
    BY <1>3, <1>5
  <2>4. UpTo(s, n, i) = u /\ (i # 0 => s[i].seqnum + 1 = q)
    BY <1>2, <2>2, <2>3, Zenon DEF EndsAt, NumberedTo
  <2> QED BY <1>4, <2>1, <2>2, <2>4, Zenon DEF Continues
<1>6. CASE j # l + 1
  <2>1. j \in (i + 1)..l /\ j \in 1..l
    BY <1>1, <1>2, <1>6
  <2>2. v[j] = s[j]
    BY <1>1, <2>1
  <2> QED BY <1>2, <1>3, <1>4, <2>1, <2>2, Zenon DEF Gapless
<1> QED BY <1>5, <1>6

LEMMA PushedEnds ==
  ASSUME NEW s \in Seq(Received), NEW m \in Received, NEW c, NEW n, NEW u, NEW q \in Nat,
         m.conn # c => EndsAt(s, c, n, u) /\ NumberedTo(s, c, q),
         m.conn = c => u = m.upto /\ q = m.seqnum + 1
  PROVE  EndsAt(Append(s, m), c, n, u) /\ NumberedTo(Append(s, m), c, q)
<1> DEFINE v == Append(s, m)
           l == Len(s)
<1>1. Len(v) = l + 1 /\ l \in Nat /\ v[l + 1] = m /\ (\A k \in 1..l : v[k] = s[k])
      /\ Len(v) + 1 = l + 2
  BY PushedAt
<1> SUFFICES ASSUME NEW i \in 0..Len(v), Adjacent(v, c, i, Len(v) + 1)
             PROVE  UpTo(v, n, i) = u /\ (i = 0 \/ v[i].seqnum + 1 = q)
  BY Zenon DEF EndsAt, NumberedTo
<1>2. IF m.conn = c THEN i = l + 1 ELSE i \in 0..l /\ Adjacent(s, c, i, l + 1)
  BY <1>1, PushedEnd, Zenon
<1> HIDE DEF v
<1>3. CASE m.conn = c
  <2>1. i = l + 1 /\ i # 0 /\ v[i] = m
    BY <1>1, <1>2, <1>3
  <2> QED BY <1>3, <2>1, Zenon DEF UpTo
<1>4. CASE m.conn # c
  <2>1. i \in 0..l /\ Adjacent(s, c, i, l + 1) /\ (i = 0 \/ i \in 1..l)
    BY <1>1, <1>2, <1>4
  <2>2. UpTo(v, n, i) = UpTo(s, n, i) /\ (i = 0 \/ v[i] = s[i])
    BY <1>1, <2>1, Zenon DEF UpTo
  <2>3. UpTo(s, n, i) = u /\ (i = 0 \/ s[i].seqnum + 1 = q)
    BY <1>4, <2>1, Zenon DEF EndsAt, NumberedTo
  <2> QED BY <2>2, <2>3, Zenon
<1> QED BY <1>3, <1>4

\* What the application has of c after it takes the first message of s.
AfterFirst(s, c, n) == IF s[1].conn = c THEN s[1].upto ELSE n

\* In s, of which v is the tail, place k of c is next to place j, as i is in v.
NextTo(s, v, c, n, i, j, k) ==
    /\ j \in (k + 1)..(Len(s) + 1) /\ Adjacent(s, c, k, j)
    /\ UpTo(s, n, k) = UpTo(v, AfterFirst(s, c, n), i)
    /\ i # 0 => k # 0 /\ v[i] = s[k]

LEMMA TakenAdjacent ==
  ASSUME NEW s \in Seq(Received), s # <<>>, NEW c, NEW n,
         NEW i \in 0..Len(Tail(s)), NEW j \in (i + 1)..(Len(Tail(s)) + 1),
         Adjacent(Tail(s), c, i, j)
  PROVE  \E k \in 0..Len(s) : NextTo(s, Tail(s), c, n, i, j + 1, k)
<1> DEFINE v == Tail(s)
           l == Len(s)
<1>1. l \in Nat \ {0} /\ Len(v) = l - 1 /\ \A k \in 1..Len(v) : v[k] = s[k + 1]
  BY TakenAt
<1>2. (i = 0 \/ v[i].conn = c) /\ \A k \in (i + 1)..(j - 1) : v[k].conn # c
  BY Zenon DEF Adjacent
<1> HIDE DEF v
<1>3. \A k \in (i + 2)..((j + 1) - 1) : s[k].conn # c
  <2> SUFFICES ASSUME NEW k \in (i + 2)..((j + 1) - 1) PROVE s[k].conn # c
    BY Zenon
  <2>1. k - 1 \in (i + 1)..(j - 1) /\ k - 1 \in 1..Len(v) /\ (k - 1) + 1 = k
    BY <1>1 DEF v
  <2> QED BY <1>1, <1>2, <2>1, Zenon
<1>4. i + 1 \in 0..l /\ j + 1 \in ((i + 1) + 1)..(l + 1) /\ (i + 1) + 1 = i + 2 /\ i + 1 # 0
  BY <1>1 DEF v
<1>5. CASE i # 0
  <2>1. v[i] = s[i + 1]
    BY <1>1, <1>5 DEF v
  <2>2. Adjacent(s, c, i + 1, j + 1)
    BY <1>2, <1>3, <1>4, <1>5, <2>1, Zenon DEF Adjacent
  <2>3. UpTo(s, n, i + 1) = UpTo(v, AfterFirst(s, c, n), i)
    BY <1>4, <1>5, <2>1, Zenon DEF UpTo
  <2> QED BY <1>4, <2>1, <2>2, <2>3, Zenon DEF v, NextTo
<1>6. CASE i = 0 /\ s[1].conn = c
  <2>1. 1 \in 0..l /\ j + 1 \in (1 + 1)..(l + 1) /\ 1 + 1 = i + 2 /\ 1 # 0
    BY <1>1, <1>6 DEF v
  <2>2. Adjacent(s, c, 1, j + 1)
    BY <1>3, <1>6, <2>1, Zenon DEF Adjacent
  <2>3. UpTo(s, n, 1) = UpTo(v, AfterFirst(s, c, n), i)
    BY <1>6, <2>1, Zenon DEF UpTo, AfterFirst
  <2> QED BY <1>6, <2>1, <2>2, <2>3, Zenon DEF v, NextTo
<1>7. CASE i = 0 /\ s[1].conn # c
  <2>1. 0 \in 0..l /\ j + 1 \in (0 + 1)..(l + 1)
    BY <1>1, <1>7 DEF v
  <2>2. \A k \in (0 + 1)..((j + 1) - 1) : s[k].conn # c
    <3>1. \A k \in (0 + 1)..((j + 1) - 1) : k = 1 \/ k \in (i + 2)..((j + 1) - 1)
      BY <1>7
    <3> QED BY <1>3, <1>7, <3>1, Zenon
  <2>3. Adjacent(s, c, 0, j + 1)
    BY <2>2, Zenon DEF Adjacent
  <2>4. UpTo(s, n, 0) = UpTo(v, AfterFirst(s, c, n), i)
    BY <1>7, Zenon DEF UpTo, AfterFirst
  <2> QED BY <1>7, <2>1, <2>3, <2>4, Zenon DEF v, NextTo
<1> QED BY <1>5, <1>6, <1>7

LEMMA TakenGapless ==
  ASSUME NEW s \in Seq(Received), s # <<>>, NEW c, NEW n, Gapless(s, c, n)
  PROVE  Gapless(Tail(s), c, AfterFirst(s, c, n))
<1> DEFINE v == Tail(s)
           l == Len(s)
           a == AfterFirst(s, c, n)
<1>1. l \in Nat \ {0} /\ Len(v) = l - 1 /\ \A k \in 1..Len(v) : v[k] = s[k + 1]
  BY TakenAt
<1> HIDE DEF a
<1> SUFFICES ASSUME NEW i \in 0..Len(v), NEW j \in (i + 1)..Len(v),
                    v[j].conn = c, Adjacent(v, c, i, j)
             PROVE  /\ v[j].from = UpTo(v, a, i) + 1
                    /\ v[j].upto >= v[j].from
                    /\ i # 0 => v[j].seqnum = v[i].seqnum + 1
  BY Zenon DEF Gapless, a
<1>2. j \in (i + 1)..(Len(v) + 1) /\ j \in 1..Len(v)
  BY <1>1
<1>3. PICK k \in 0..l : NextTo(s, v, c, n, i, j + 1, k)
  BY <1>2, TakenAdjacent, Zenon
<1>6. /\ j + 1 \in (k + 1)..(l + 1) /\ Adjacent(s, c, k, j + 1)
      /\ UpTo(s, n, k) = UpTo(v, a, i)
      /\ i # 0 => k # 0 /\ v[i] = s[k]
  BY <1>3, Zenon DEF NextTo, a
<1> HIDE DEF v
<1>4. v[j] = s[j + 1] /\ j + 1 \in (k + 1)..l
  BY <1>1, <1>2, <1>6
<1>5. /\ s[j + 1].from = UpTo(s, n, k) + 1
      /\ s[j + 1].upto >= s[j + 1].from
      /\ k # 0 => s[j + 1].seqnum = s[k].seqnum + 1
  BY <1>4, <1>6, Zenon DEF Gapless
<1> QED BY <1>4, <1>5, <1>6, Zenon

LEMMA TakenEnds ==
  ASSUME NEW s \in Seq(Received), s # <<>>, NEW c, NEW n
  PROVE  /\ \A u : EndsAt(s, c, n, u) => EndsAt(Tail(s), c, AfterFirst(s, c, n), u)
         /\ \A q : NumberedTo(s, c, q) => NumberedTo(Tail(s), c, q)
<1> DEFINE v == Tail(s)
           l == Len(s)
           a == AfterFirst(s, c, n)
<1>1. l \in Nat \ {0} /\ Len(v) = l - 1 /\ (Len(v) + 1) + 1 = l + 1
      /\ \A i \in 0..Len(v) : Len(v) + 1 \in (i + 1)..(Len(v) + 1)
  BY TakenAt
<1> HIDE DEF a
<1>2. ASSUME NEW i \in 0..Len(v), Adjacent(v, c, i, Len(v) + 1)
      PROVE  \E k \in 0..l : /\ Adjacent(s, c, k, l + 1) /\ UpTo(s, n, k) = UpTo(v, a, i)
                             /\ i # 0 => k # 0 /\ v[i] = s[k]
  <2>1. PICK k \in 0..l : NextTo(s, v, c, n, i, (Len(v) + 1) + 1, k)
    BY <1>1, <1>2, TakenAdjacent, Zenon
  <2> QED BY <1>1, <2>1, Zenon DEF NextTo, a
<1> HIDE DEF v
<1>3. ASSUME NEW u, EndsAt(s, c, n, u) PROVE EndsAt(v, c, a, u)
  BY <1>2, <1>3, Zenon DEF EndsAt
<1>4. ASSUME NEW q, NumberedTo(s, c, q) PROVE NumberedTo(v, c, q)
  BY <1>2, <1>4, Zenon DEF NumberedTo
<1> QED BY <1>3, <1>4, Zenon DEF v, a

-----------------------------------------------------------------------------
(* Peers and connections.                                                   *)

\* Every peer has an open connection of its own.
Owned ==
    /\ \A f, g \in Fds : IsLive(f) /\ IsLive(g) /\ peers[f].conn = peers[g].conn => f = g
    /\ \A f \in Fds : IsLive(f) => net[peers[f].conn].link = "open"

\* Nothing has passed over a connection that was not accepted yet.
Untouched ==
    \A c \in Conns : net[c].link \in {"idle", "backlog"} =>
        /\ net[c].rxRead = 0 /\ got[c] = 0 /\ net[c].wire = <<>>
        /\ NoneOf(inQueue.items, c)

ConnInv == TInv /\ Owned /\ Untouched

(* What a step does to the peers and the connections.  Most steps only drop *)
(* peers, open or close connections, and move no data.                      *)

Calm ==
    /\ \A f \in Fds : peers'[f] = None \/ peers'[f] = peers[f]
    /\ \A c \in Conns : /\ net'[c].wire = net[c].wire
                        /\ net'[c].rxRead = net[c].rxRead
    /\ \A c \in Conns :
           \/ net'[c].link = net[c].link
           \/ net[c].link = "idle" /\ net'[c].link = "backlog"
           \/ /\ net'[c].link = "closed"
              /\ \A f \in Fds : peers'[f] # None => peers'[f].conn # c

\* Peer fd becomes q and its connection becomes k.
Serves(fd, q, k) ==
    /\ IsLive(fd)
    /\ q \in Peer /\ q.conn = peers[fd].conn
    /\ k \in Connection /\ k.link = net[q.conn].link
    /\ peers' = [peers EXCEPT ![fd] = q]
    /\ net' = [net EXCEPT ![q.conn] = k]

SameSending(fd, q, k) ==
    /\ q.packToSend = peers[fd].packToSend /\ q.bytesSent = peers[fd].bytesSent
    /\ q.epollOut = peers[fd].epollOut
    /\ k.wire = net[q.conn].wire

SameReceiving(fd, q, k) ==
    /\ q.bytesRecvd = peers[fd].bytesRecvd /\ q.seqnum = peers[fd].seqnum
    /\ k.rxRead = net[q.conn].rxRead

\* The unit up to which peer fd's complete messages have been read.
ReadUpTo(fd) == net[peers[fd].conn].rxRead - peers[fd].bytesRecvd

LEMMA ServesAt ==
  ASSUME TInv, NEW fd \in Fds, NEW q, NEW k, Serves(fd, q, k)
  PROVE  /\ peers'[fd] = q /\ q # None /\ q.conn \in Conns /\ q.conn = peers[fd].conn
         /\ \A f \in Fds : f # fd => peers'[f] = peers[f]
         /\ net'[q.conn] = k
         /\ \A c \in Conns : c # q.conn => net'[c] = net[c]
<1>1. q \in Peer /\ q # None /\ q.conn \in Conns
  BY NoneAssumption DEF Serves, Peer
<1>2. peers \in [Fds -> Peer \cup {None}] /\ net \in [Conns -> Connection]
  BY DEF TInv, TypeOK
<1> QED BY <1>1, <1>2, Zenon DEF Serves

LEMMA DropIsCalm ==
  ASSUME ConnInv, NEW fd \in Fds, IsLive(fd), ErasePeer(fd)
  PROVE  Calm
<1> DEFINE c == peers[fd].conn
<1>1. peers \in [Fds -> Peer \cup {None}] /\ net \in [Conns -> Connection] /\ c \in Conns
  BY LiveIsPeer DEF ConnInv, TInv, TypeOK
<1>2. peers'[fd] = None /\ \A f \in Fds : f # fd => peers'[f] = peers[f]
  BY <1>1, Zenon DEF ErasePeer
<1>3. /\ net'[c].wire = net[c].wire /\ net'[c].rxRead = net[c].rxRead
      /\ net'[c].link = "closed"
      /\ \A d \in Conns : d # c => net'[d] = net[d]
  <2>1. net[c] \in Connection /\ net' = [net EXCEPT ![c] = [net[c] EXCEPT !.link = "closed"]]
    BY <1>1, Zenon DEF ErasePeer
  <2> DEFINE k == [net[c] EXCEPT !.link = "closed"]
  <2>2. k.wire = net[c].wire /\ k.rxRead = net[c].rxRead /\ k.link = "closed"
    BY <2>1, Zenon DEF Connection
  <2> HIDE DEF k, c
  <2> QED BY <1>1, <2>1, <2>2, Zenon DEF k
<1>4. \A f \in Fds : peers'[f] # None => peers'[f].conn # c
  BY <1>2, Zenon DEF ConnInv, Owned, IsLive
<1> HIDE DEF c
<1> QED BY <1>2, <1>3, <1>4, Zenon DEF Calm

\* Closing connections that no peer has.
LEMMA BacklogIsCalm ==
  ASSUME ConnInv, UNCHANGED peers, NEW S,
         \A c \in S : net[c].link = "backlog",
         net' = [c \in Conns |-> IF c \in S THEN [net[c] EXCEPT !.link = "closed"] ELSE net[c]]
  PROVE  Calm
<1>1. net \in [Conns -> Connection]
  BY DEF ConnInv, TInv, TypeOK
<1> SUFFICES ASSUME NEW c \in Conns
             PROVE  /\ net'[c].wire = net[c].wire /\ net'[c].rxRead = net[c].rxRead
                    /\ \/ net'[c].link = net[c].link
                       \/ /\ net'[c].link = "closed"
                          /\ \A f \in Fds : peers'[f] # None => peers'[f].conn # c
  BY Zenon DEF Calm
<1>2. CASE c \in S
  <2>1. net[c] \in Connection /\ net'[c] = [net[c] EXCEPT !.link = "closed"]
    BY <1>1, <1>2, Zenon
  <2>2. net'[c].wire = net[c].wire /\ net'[c].rxRead = net[c].rxRead /\ net'[c].link = "closed"
    BY <2>1, Zenon DEF Connection
  <2>3. \A f \in Fds : peers'[f] # None => peers'[f].conn # c
    <3>1. net[c].link # "open"
      BY <1>2
    <3> QED BY <3>1, Zenon DEF ConnInv, Owned, IsLive
  <2> QED BY <2>2, <2>3, Zenon
<1>3. CASE c \notin S
  BY <1>3, Zenon
<1> QED BY <1>2, <1>3

LEMMA NetworkIsCalm ==
  ASSUME ConnInv, Network
  PROVE  Calm
<1> PICK c \in Conns : Connect(c) \/ RemoteSend(c) \/ RemoteDrain(c) \/ RemoteClose(c)
  BY DEF Network
<1>1. net \in [Conns -> Connection] /\ net[c] \in Connection /\ UNCHANGED peers
  BY DEF ConnInv, TInv, TypeOK, NetStep, Connect, RemoteSend, RemoteDrain, RemoteClose
<1>2. /\ net'[c].wire = net[c].wire /\ net'[c].rxRead = net[c].rxRead
      /\ net'[c].link = net[c].link \/ (net[c].link = "idle" /\ net'[c].link = "backlog")
      /\ \A d \in Conns : d # c => net'[d] = net[d]
  <2>1. CASE Connect(c)
    BY <1>1, <2>1, Zenon DEF Connect, Connection
  <2>2. CASE RemoteSend(c)
    BY <1>1, <2>2, Zenon DEF RemoteSend, Connection
  <2>3. CASE RemoteDrain(c)
    BY <1>1, <2>3, Zenon DEF RemoteDrain, Connection
  <2>4. CASE RemoteClose(c)
    BY <1>1, <2>4, Zenon DEF RemoteClose, Connection
  <2> QED BY <2>1, <2>2, <2>3, <2>4
<1> QED BY <1>1, <1>2, Zenon DEF Calm

LEMMA StillIsCalm ==
  ASSUME UNCHANGED <<peers, net>>
  PROVE  Calm
  BY Zenon DEF Calm

\* The steps that move data or let a peer in; the others are calm.
MovesData ==
    \/ \E fd \in Fds, c \in Conns : AcceptPeer(fd, c)
    \/ UnknownPacketType
    \/ SendStart
    \/ \E fd \in Fds : RecvPacket(fd) \/ RecvPart(fd) \/ SendContinue(fd)

LEMMA OtherStepsCalm ==
  ASSUME ConnInv, [Next]_vars, ~MovesData
  PROVE  Calm /\ (UNCHANGED <<inQueue, got>> \/ AppReceive)
<1>1. CASE Setup \/ ThreadExit \/ LoopDone \/ UNCHANGED vars
  BY <1>1, StillIsCalm, Zenon DEF Setup, ThreadExit, LoopDone, vars, queueVars, appVars
<1>2. CASE \E c \in Conns : RefusePeer(c)
  <2> PICK c \in Conns : RefusePeer(c)
    BY <1>2
  <2>1. net[c].link = "backlog" /\ UNCHANGED <<peers, inQueue, got>>
        /\ net' = [net EXCEPT ![c].link = "closed"]
    BY Zenon DEF RefusePeer, queueVars, appVars
  <2>2. net \in [Conns -> Connection]
    BY DEF ConnInv, TInv, TypeOK
  <2>3. net' = [d \in Conns |-> IF d \in {c} THEN [net[d] EXCEPT !.link = "closed"] ELSE net[d]]
    BY <2>1, <2>2
  <2>4. \A d \in {c} : net[d].link = "backlog"
    BY <2>1
  <2> QED BY <2>1, <2>3, <2>4, BacklogIsCalm, Zenon
<1>3. CASE TakeOutQueue
  <2>0. ~UnknownPacketType /\ ~SendStart
    BY Zenon DEF MovesData
  <2>1. CASE NoSuchPeer
    BY <2>1, StillIsCalm, Zenon DEF NoSuchPeer, OutQueueEvent, appVars
  <2>2. CASE SendStartFails
    <3> DEFINE fd == Head(outQueue.items).fd
    <3>1. fd \in Fds /\ IsLive(fd) /\ ErasePeer(fd) /\ UNCHANGED <<inQueue, got>>
      BY <2>2, OutQueueEventType DEF SendStartFails, DropPeer, OutQueueEvent, appVars,
                                     ConnInv, Request
    <3> QED BY <3>1, DropIsCalm, Zenon
  <2> QED BY <1>3, <2>0, <2>1, <2>2, Zenon DEF TakeOutQueue
<1>4. CASE TakeCommand
  <2> DEFINE p == Head(outCmdQueue.items)
  <2>1. CASE IsLive(p.fd) /\ p.type = "CLOSE"
    <3>1. ErasePeer(p.fd) /\ UNCHANGED <<inQueue, got>>
      BY <1>4, <2>1, Zenon DEF TakeCommand, DropPeer, appVars
    <3>2. outCmdQueue \in QueueOf(Request) /\ QueueReadable(outCmdQueue)
      BY <1>4 DEF TakeCommand, ConnInv, TInv, TypeOK
    <3>3. p \in Request
      BY <3>2, PopType, Zenon
    <3>4. p.fd \in Fds
      BY <3>3 DEF Request
    <3> QED BY <2>1, <3>1, <3>4, DropIsCalm, Zenon
  <2>2. CASE ~(IsLive(p.fd) /\ p.type = "CLOSE")
    BY <1>4, <2>2, StillIsCalm, Zenon DEF TakeCommand, appVars
  <2> QED BY <2>1, <2>2
<1>5. CASE \E fd \in Fds : PeerEvent(fd)
  <2> PICK fd \in Fds : PeerEvent(fd)
    BY <1>5
  <2>1. CASE PeerFails(fd)
    BY <2>1, DropIsCalm, Zenon DEF PeerFails, DropPeer, appVars
  <2>2. CASE SendContinueNull(fd)
    BY <2>2, StillIsCalm, Zenon DEF SendContinueNull, queueVars, appVars
  <2> QED BY <2>1, <2>2, Zenon DEF PeerEvent, MovesData
<1>6. CASE LeaveLoop
  <2> DEFINE S == {c \in Conns : net[c].link = "backlog"}
  <2>1. UNCHANGED <<peers, inQueue, got>>
        /\ net' = [c \in Conns |-> IF c \in S THEN [net[c] EXCEPT !.link = "closed"] ELSE net[c]]
    BY <1>6 DEF LeaveLoop, appVars
  <2>2. \A c \in S : net[c].link = "backlog"
    OBVIOUS
  <2> HIDE DEF S
  <2> QED BY <2>1, <2>2, BacklogIsCalm, Zenon
<1>7. CASE \E fd \in Fds : ClosePeer(fd)
  BY <1>7, DropIsCalm, Zenon DEF ClosePeer, appVars
<1>8. CASE App
  <2>1. UNCHANGED <<peers, net>>
    BY <1>8, Zenon DEF App, AppLearn, AppReceive, AppSend, AppCommand, AppRequest, RequestExit
  <2>2. UNCHANGED <<inQueue, got>> \/ AppReceive
    BY <1>8, Zenon DEF App, AppLearn, AppSend, AppCommand, AppRequest, RequestExit,
                       queueVars, appVars
  <2> QED BY <2>1, <2>2, StillIsCalm, Zenon
<1>9. CASE Network
  <2>1. UNCHANGED <<inQueue, got>>
    BY <1>9, Zenon DEF Network, NetStep, Connect, RemoteSend, RemoteDrain, RemoteClose,
                       queueVars, appVars
  <2> QED BY <1>9, <2>1, NetworkIsCalm, Zenon
<1> QED
  BY <1>1, <1>2, <1>3, <1>4, <1>5, <1>6, <1>7, <1>8, <1>9, Zenon DEF Next, Server, MovesData

(* The steps that move data: which peer they serve, and how.                *)

\* q and k are peer fd and its connection after message m is read.
ReadsMessage(fd, q, k, m) ==
    /\ Serves(fd, q, k) /\ SameSending(fd, q, k)
    /\ m \in Received /\ m.conn = q.conn
    /\ Continues(m, ReadUpTo(fd), peers[fd].seqnum)
    /\ m.upto = k.rxRead - q.bytesRecvd /\ q.seqnum = m.seqnum + 1
    /\ inQueue'.items = Append(inQueue.items, m)

LEMMA RecvPacketReads ==
  ASSUME ConnInv, NEW fd \in Fds, RecvPacket(fd)
  PROVE  \E q, k, m : ReadsMessage(fd, q, k, m) /\ UNCHANGED got
<1> DEFINE c == peers[fd].conn
           t == Taken(fd)
           m == [fd |-> fd, conn |-> c, seqnum |-> peers[fd].seqnum,
                 from |-> Conn(fd).rxRead - peers[fd].bytesRecvd + 1,
                 upto |-> Conn(fd).rxRead + t]
           q == [peers[fd] EXCEPT !.seqnum = @ + 1, !.bytesRecvd = 0]
           k == [net[c] EXCEPT !.rxRead = @ + t]
<1>1. IsLive(fd) /\ Completes(fd) /\ TypeOK /\ RecvBounded
  BY DEF RecvPacket, ConnInv, TInv
<1>2. peers[fd] \in Peer /\ c \in Conns /\ net[c] \in Connection
  BY <1>1, LiveIsPeer DEF Conn
<1>3. /\ t \in Nat /\ t > 0 /\ net[c].rxRead \in Nat /\ peers[fd].bytesRecvd \in Nat
      /\ peers[fd].bytesRecvd <= net[c].rxRead /\ peers[fd].seqnum \in Nat
  BY <1>1, <1>2, TakenType DEF Completes, RecvBounded, Conn, Peer
<1>4. /\ peers' = [peers EXCEPT ![fd] = q] /\ net' = [net EXCEPT ![c] = k]
      /\ inQueue' = Push(inQueue, m, TRUE) /\ UNCHANGED got
  BY Zenon DEF RecvPacket, Deliver, appVars
<1> HIDE DEF t
<1>5. /\ m.conn = c /\ m.seqnum = peers[fd].seqnum /\ m.upto = net[c].rxRead + t
      /\ m.from = (net[c].rxRead - peers[fd].bytesRecvd) + 1
  BY DEF Conn
<1>6. m \in Received
  BY <1>2, <1>3 DEF Received, Conn
<1> HIDE DEF m, c
<1>7. q \in Peer /\ q.conn = c /\ q.bytesRecvd = 0 /\ q.seqnum = peers[fd].seqnum + 1
      /\ q.packToSend = peers[fd].packToSend /\ q.bytesSent = peers[fd].bytesSent
      /\ q.epollOut = peers[fd].epollOut
  <2>1. peers[fd].seqnum + 1 \in Nat /\ 0 \in Nat
    BY <1>3
  <2> QED BY <1>2, <2>1, Zenon DEF Peer, c
<1>8. k \in Connection /\ k.rxRead = net[c].rxRead + t /\ k.wire = net[c].wire
      /\ k.link = net[c].link
  <2>1. net[c].rxRead + t \in Nat
    BY <1>3
  <2> QED BY <1>2, <2>1, Zenon DEF Connection
<1> HIDE DEF q, k
<1>9. inQueue'.items = Append(inQueue.items, m)
  <2>1. inQueue \in QueueOf(Received)
    BY <1>1 DEF TypeOK
  <2> QED BY <1>4, <2>1, ForcedPush, Zenon
<1>10. m.upto >= m.from /\ m.upto = k.rxRead - q.bytesRecvd
  BY <1>3, <1>5, <1>7, <1>8
<1>11. Continues(m, ReadUpTo(fd), peers[fd].seqnum)
  BY <1>5, <1>10 DEF Continues, ReadUpTo, c
<1>12. Serves(fd, q, k) /\ SameSending(fd, q, k)
  BY <1>1, <1>4, <1>7, <1>8, Zenon DEF Serves, SameSending, c
<1>13. ReadsMessage(fd, q, k, m)
  BY <1>5, <1>6, <1>7, <1>9, <1>10, <1>11, <1>12, Zenon DEF ReadsMessage
<1> QED BY <1>4, <1>13, Zenon

\* q and k are peer fd and its connection after part of a message is read.
ReadsPart(fd, q, k) ==
    /\ Serves(fd, q, k) /\ SameSending(fd, q, k)
    /\ q.seqnum = peers[fd].seqnum
    /\ k.rxRead - q.bytesRecvd = ReadUpTo(fd)

LEMMA RecvPartReads ==
  ASSUME ConnInv, NEW fd \in Fds, RecvPart(fd)
  PROVE  UNCHANGED <<inQueue, got>> /\ \E q, k : ReadsPart(fd, q, k)
<1> DEFINE c == peers[fd].conn
           t == Taken(fd)
           q == [peers[fd] EXCEPT !.bytesRecvd = @ + t]
           k == [net[c] EXCEPT !.rxRead = @ + t]
<1>1. IsLive(fd) /\ t > 0 /\ TypeOK /\ RecvBounded
  BY DEF RecvPart, ConnInv, TInv
<1>2. peers[fd] \in Peer /\ c \in Conns /\ net[c] \in Connection
  BY <1>1, LiveIsPeer DEF Conn
<1>3. t \in Nat /\ net[c].rxRead \in Nat /\ peers[fd].bytesRecvd \in Nat
  BY <1>1, TakenType DEF Conn
<1>4. /\ peers' = [peers EXCEPT ![fd] = q] /\ net' = [net EXCEPT ![c] = k]
      /\ UNCHANGED <<inQueue, got>>
  BY Zenon DEF RecvPart, KeepPart, queueVars, appVars
<1> HIDE DEF t, c
<1>5. q \in Peer /\ q.conn = c /\ q.bytesRecvd = peers[fd].bytesRecvd + t
      /\ q.seqnum = peers[fd].seqnum
      /\ q.packToSend = peers[fd].packToSend /\ q.bytesSent = peers[fd].bytesSent
      /\ q.epollOut = peers[fd].epollOut
  BY <1>2, <1>3 DEF Peer, c
<1>6. k \in Connection /\ k.rxRead = net[c].rxRead + t /\ k.wire = net[c].wire
      /\ k.link = net[c].link
  <2>1. net[c].rxRead + t \in Nat
    BY <1>3
  <2> QED BY <1>2, <2>1, Zenon DEF Connection
<1> HIDE DEF q, k
<1>7. k.rxRead - q.bytesRecvd = ReadUpTo(fd)
  BY <1>3, <1>5, <1>6 DEF ReadUpTo, c
<1>8. Serves(fd, q, k) /\ SameSending(fd, q, k)
  BY <1>1, <1>4, <1>5, <1>6, Zenon DEF Serves, SameSending, c
<1> QED BY <1>4, <1>5, <1>7, <1>8, Zenon DEF ReadsPart

LEMMA UnknownTypeServes ==
  ASSUME ConnInv, UnknownPacketType
  PROVE  /\ NextPacket \in Request /\ NextPacket.fd \in Fds
         /\ UNCHANGED <<inQueue, got, net, outQueueWatched, pc>>
         /\ \E q : /\ Serves(NextPacket.fd, q, net[q.conn])
                   /\ SameReceiving(NextPacket.fd, q, net[q.conn])
                   /\ q.packToSend = NextPacket /\ q.bytesSent = peers[NextPacket.fd].bytesSent
                   /\ q.epollOut = peers[NextPacket.fd].epollOut
<1> DEFINE p == NextPacket
           q == [peers[p.fd] EXCEPT !.packToSend = p]
<1>1. p \in Request /\ p.fd \in Fds
  BY OutQueueEventType DEF UnknownPacketType, Request, NextPacket, ConnInv
<1>2. IsLive(p.fd) /\ TypeOK /\ peers' = [peers EXCEPT ![p.fd] = q]
      /\ UNCHANGED <<inQueue, got, net, outQueueWatched, pc>>
  BY Zenon DEF UnknownPacketType, NextPacket, OutQueueEvent, appVars, ConnInv, TInv
<1>3. peers[p.fd] \in Peer /\ peers[p.fd].conn \in Conns /\ net[peers[p.fd].conn] \in Connection
  BY <1>1, <1>2, LiveIsPeer DEF Conn
<1> HIDE DEF p
<1>4. /\ q \in Peer /\ q.conn = peers[p.fd].conn /\ q.packToSend = p
      /\ q.bytesRecvd = peers[p.fd].bytesRecvd /\ q.seqnum = peers[p.fd].seqnum
      /\ q.bytesSent = peers[p.fd].bytesSent /\ q.epollOut = peers[p.fd].epollOut
  BY <1>1, <1>3 DEF Peer
<1> HIDE DEF q
<1>5. net' = [net EXCEPT ![q.conn] = net[q.conn]]
  <2>1. net \in [Conns -> Connection]
    BY <1>2 DEF TypeOK
  <2> QED BY <1>2, <2>1
<1>6. Serves(p.fd, q, net[q.conn]) /\ SameReceiving(p.fd, q, net[q.conn])
  BY <1>2, <1>3, <1>4, <1>5, Zenon DEF Serves, SameReceiving
<1> QED BY <1>1, <1>2, <1>4, <1>6, Zenon DEF p

\* q and k are peer fd and its connection after n more units of packet p are
\* sent, which makes s units of it.
Sends(fd, q, k, p, n, s) ==
    /\ Serves(fd, q, k) /\ SameReceiving(fd, q, k)
    /\ p \in Request /\ n \in Nat /\ s \in 0..PacketLen
    /\ k.wire = Sent(net[q.conn].wire, p, n)
    /\ q.bytesSent = s
    /\ q.packToSend = IF s = PacketLen THEN None ELSE p

LEMMA SentConnection ==
  ASSUME TypeOK, NEW c \in Conns, NEW p \in Request, NEW n \in Nat, n <= net[c].room,
         PutOnWire(c, p, n)
  PROVE  \E k \in Connection : /\ net' = [net EXCEPT ![c] = k] /\ k.link = net[c].link
                               /\ k.rxRead = net[c].rxRead
                               /\ k.wire = Sent(net[c].wire, p, n)
<1> DEFINE k == [net[c] EXCEPT !.room = @ - n, !.wire = Sent(net[c].wire, p, n)]
<1>1. net \in [Conns -> Connection] /\ net[c] \in Connection
  BY DEF TypeOK
<1>2. net' = [net EXCEPT ![c] = k]
  BY Zenon DEF PutOnWire
<1>3. k.link = net[c].link /\ k.rxRead = net[c].rxRead /\ k.wire = Sent(net[c].wire, p, n)
  BY <1>1, Zenon DEF Connection
<1> HIDE DEF k
<1>4. net' \in [Conns -> Connection]
  BY PutOnWireType
<1>5. k \in Connection
  BY <1>1, <1>2, <1>4, Zenon
<1> QED BY <1>2, <1>3, <1>5, Zenon

LEMMA SendStartSends ==
  ASSUME ConnInv, SendStart
  PROVE  /\ NextPacket.fd \in Fds /\ UNCHANGED <<inQueue, got, pc>>
         /\ \E q, k : /\ Sends(NextPacket.fd, q, k, NextPacket, FirstPart, FirstPart)
                      /\ q.epollOut = (peers[NextPacket.fd].epollOut \/ FirstPart # PacketLen)
                      /\ outQueueWatched' = (outQueueWatched /\ FirstPart = PacketLen)
<1> DEFINE p == NextPacket
           n == FirstPart
           c == NextConn
<1>1. /\ p \in Request /\ p.fd \in Fds /\ IsLive(p.fd) /\ c \in Conns
      /\ PutOnWire(c, p, n) /\ n \in 0..PacketLen /\ n <= net[c].room /\ TypeOK
  BY SendStartPeer DEF ConnInv, TInv
<1>2. Started(p, n) /\ UNCHANGED <<inQueue, got, pc>> /\ outQueueWatched
  BY Zenon DEF SendStart, NextPacket, NextConn, FirstPart, OutQueueEvent, appVars
<1>3. peers[p.fd] \in Peer /\ c = peers[p.fd].conn /\ n \in Nat
  BY <1>1, LiveIsPeer, ServerAssumption DEF NextConn
<1> HIDE DEF p, n, c
<1>4. PICK k \in Connection : /\ net' = [net EXCEPT ![c] = k] /\ k.link = net[c].link
                              /\ k.rxRead = net[c].rxRead
                              /\ k.wire = Sent(net[c].wire, p, n)
  BY <1>1, <1>3, SentConnection, Zenon
<1> DEFINE q == IF n = PacketLen
                THEN [peers[p.fd] EXCEPT !.bytesSent = n, !.packToSend = None]
                ELSE [peers[p.fd] EXCEPT !.bytesSent = n, !.packToSend = p, !.epollOut = TRUE]
<1>5. peers' = [peers EXCEPT ![p.fd] = q] /\ outQueueWatched' = (outQueueWatched /\ n = PacketLen)
  BY <1>2 DEF Started
<1>6. /\ q \in Peer /\ q.conn = c /\ q.bytesSent = n
      /\ q.packToSend = (IF n = PacketLen THEN None ELSE p)
      /\ q.bytesRecvd = peers[p.fd].bytesRecvd /\ q.seqnum = peers[p.fd].seqnum
      /\ q.epollOut = (peers[p.fd].epollOut \/ n # PacketLen)
  BY <1>1, <1>3 DEF Peer
<1> HIDE DEF q
<1>7. Serves(p.fd, q, k) /\ SameReceiving(p.fd, q, k)
  BY <1>1, <1>3, <1>4, <1>5, <1>6, Zenon DEF Serves, SameReceiving
<1>8. Sends(p.fd, q, k, p, n, n)
  BY <1>1, <1>3, <1>4, <1>6, <1>7, Zenon DEF Sends
<1> QED BY <1>1, <1>2, <1>5, <1>6, <1>8, Zenon DEF p, n

\* What send_packet(IO_CONTINUE) sends of peer fd's packet.
NextPart(fd) == Lesser(Conn(fd).room, RestToSend(fd))

LEMMA SendContinueSends ==
  ASSUME ConnInv, NEW fd \in Fds, SendContinue(fd)
  PROVE  LET s == peers[fd].bytesSent + NextPart(fd)
         IN  /\ UNCHANGED <<queueVars, got, nextId, pc>> /\ peers[fd].epollOut
             /\ \E q, k : /\ Sends(fd, q, k, peers[fd].packToSend, NextPart(fd), s)
                          /\ q.epollOut = (s # PacketLen)
                          /\ outQueueWatched' = (outQueueWatched \/ s = PacketLen)
<1> DEFINE p == peers[fd].packToSend
           c == peers[fd].conn
           n == NextPart(fd)
           s == peers[fd].bytesSent + n
<1>1. /\ IsLive(fd) /\ p # None /\ PutOnWire(c, p, n) /\ Continued(fd, n) /\ TypeOK
      /\ UNCHANGED <<queueVars, got, nextId, pc>> /\ peers[fd].epollOut
  BY Zenon DEF SendContinue, Writable, NextPart, appVars, ConnInv, TInv
<1>2. /\ c \in Conns /\ p \in Request /\ n \in Nat /\ n <= net[c].room /\ peers[fd] \in Peer
      /\ net[c] \in Connection
  BY <1>1, SendContinuePeer, LiveIsPeer DEF NextPart, Conn, ConnInv
<1>3. s \in 0..PacketLen
  <2>1. peers[fd].bytesSent \in 0..PacketLen /\ PacketLen \in Nat /\ net[c].room \in Nat
    BY <1>2, ServerAssumption DEF Peer, Connection
  <2>2. RestToSend(fd) \in Nat /\ RestToSend(fd) = PacketLen - peers[fd].bytesSent
    BY <2>1 DEF RestToSend
  <2>3. n <= RestToSend(fd)
    BY <2>1, <2>2, LesserType, Zenon DEF NextPart, Conn
  <2> QED BY <1>2, <2>1, <2>2, <2>3
<1>4. PICK k \in Connection : /\ net' = [net EXCEPT ![c] = k] /\ k.link = net[c].link
                              /\ k.rxRead = net[c].rxRead
                              /\ k.wire = Sent(net[c].wire, p, n)
  BY <1>1, <1>2, SentConnection, Zenon
<1> HIDE DEF n
<1> DEFINE q == IF s = PacketLen
                THEN [peers[fd] EXCEPT !.bytesSent = PacketLen, !.packToSend = None,
                                       !.epollOut = FALSE]
                ELSE [peers[fd] EXCEPT !.bytesSent = @ + n]
<1>5. peers' = [peers EXCEPT ![fd] = q] /\ outQueueWatched' = (outQueueWatched \/ s = PacketLen)
  <2>1. outQueueWatched \in BOOLEAN
    BY <1>1 DEF TypeOK
  <2> QED BY <1>1, <2>1 DEF Continued
<1>6. /\ q \in Peer /\ q.conn = c /\ q.bytesSent = s
      /\ q.packToSend = (IF s = PacketLen THEN None ELSE p)
      /\ q.bytesRecvd = peers[fd].bytesRecvd /\ q.seqnum = peers[fd].seqnum
      /\ q.epollOut = (s # PacketLen)
  BY <1>1, <1>2, <1>3 DEF Peer
<1> HIDE DEF q, s
<1>7. Serves(fd, q, k) /\ SameReceiving(fd, q, k)
  BY <1>1, <1>2, <1>4, <1>5, <1>6, Zenon DEF Serves, SameReceiving
<1>8. Sends(fd, q, k, p, n, s)
  BY <1>2, <1>3, <1>4, <1>6, <1>7, Zenon DEF Sends
<1> QED BY <1>1, <1>5, <1>6, <1>8, Zenon DEF n, s

(* ConnInv is inductive.                                                    *)

LEMMA AcceptAt ==
  ASSUME ConnInv, NEW fd \in Fds, NEW c \in Conns, AcceptPeer(fd, c)
  PROVE  /\ peers'[fd] = NewPeer(c) /\ ~IsLive(fd)
         /\ \A f \in Fds : f # fd => peers'[f] = peers[f]
         /\ net[c].link = "backlog" /\ net'[c].link = "open"
         /\ net'[c].rxRead = net[c].rxRead /\ net'[c].wire = net[c].wire
         /\ \A d \in Conns : d # c => net'[d] = net[d]
         /\ UNCHANGED <<inQueue, got, pc, outQueueWatched>>
<1>1. /\ peers \in [Fds -> Peer \cup {None}] /\ net \in [Conns -> Connection]
      /\ net[c] \in Connection
  BY DEF ConnInv, TInv, TypeOK
<1>2. net' = [net EXCEPT ![c] = [net[c] EXCEPT !.link = "open"]]
  BY Zenon DEF AcceptPeer
<1> DEFINE k == [net[c] EXCEPT !.link = "open"]
<1>3. k.link = "open" /\ k.rxRead = net[c].rxRead /\ k.wire = net[c].wire
  BY <1>1, Zenon DEF Connection
<1> HIDE DEF k
<1>4. net'[c] = k /\ \A d \in Conns : d # c => net'[d] = net[d]
  BY <1>1, <1>2, Zenon DEF k
<1> QED BY <1>1, <1>3, <1>4, Zenon DEF AcceptPeer, appVars

LEMMA OwnedStep ==
  ASSUME ConnInv, [Next]_vars
  PROVE  Owned'
<1>1. /\ \A f, g \in Fds : IsLive(f) /\ IsLive(g) /\ peers[f].conn = peers[g].conn => f = g
      /\ \A f \in Fds : IsLive(f) => /\ net[peers[f].conn].link = "open"
                                     /\ peers[f].conn \in Conns
  BY LiveIsPeer DEF ConnInv, Owned, TInv
<1>2. CASE Calm
  <2>1. \A f \in Fds : peers'[f] # None => /\ peers'[f] = peers[f]
                                           /\ net'[peers[f].conn].link = "open"
    <3> SUFFICES ASSUME NEW f \in Fds, peers'[f] # None
                 PROVE  peers'[f] = peers[f] /\ net'[peers[f].conn].link = "open"
      BY Zenon
    <3>1. peers'[f] = peers[f] /\ IsLive(f)
      BY <1>2, Zenon DEF Calm, IsLive
    <3>2. net[peers[f].conn].link = "open" /\ peers[f].conn \in Conns
      BY <1>1, <3>1, Zenon
    <3>3. net[peers[f].conn].link # "idle"
      BY <3>2
    <3> QED BY <1>2, <3>1, <3>2, <3>3, Zenon DEF Calm
  <2> QED BY <1>1, <2>1, Zenon DEF Owned, IsLive
<1>3. ASSUME NEW fd \in Fds, NEW q, NEW k, Serves(fd, q, k)
      PROVE  Owned'
  <2>1. /\ peers'[fd] = q /\ q # None /\ q.conn \in Conns /\ q.conn = peers[fd].conn
        /\ \A f \in Fds : f # fd => peers'[f] = peers[f]
        /\ net'[q.conn] = k
        /\ \A c \in Conns : c # q.conn => net'[c] = net[c]
    BY <1>3, ServesAt, Zenon DEF ConnInv
  <2>2. IsLive(fd) /\ k.link = net[q.conn].link
    BY <1>3, Zenon DEF Serves
  <2>3. \A f \in Fds : peers'[f] # None => IsLive(f) /\ peers'[f].conn = peers[f].conn
    BY <2>1, <2>2, Zenon DEF IsLive
  <2>4. \A c \in Conns : net'[c].link = net[c].link
    BY <2>1, <2>2, Zenon
  <2> QED BY <1>1, <2>3, <2>4, Zenon DEF Owned, IsLive
<1>4. ASSUME NEW fd \in Fds, NEW c \in Conns, AcceptPeer(fd, c)
      PROVE  Owned'
  <2>1. /\ peers'[fd] = NewPeer(c)
        /\ \A f \in Fds : f # fd => peers'[f] = peers[f]
        /\ net[c].link = "backlog" /\ net'[c].link = "open"
        /\ \A d \in Conns : d # c => net'[d] = net[d]
    BY <1>4, AcceptAt, Zenon
  <2>2. NewPeer(c).conn = c
    BY DEF NewPeer
  <2>3. \A f \in Fds : IsLive(f) => peers[f].conn # c
    <3>1. net[c].link # "open"
      BY <2>1
    <3> QED BY <1>1, <3>1, Zenon
  <2> HIDE DEF NewPeer
  <2>4. \A f \in Fds : peers'[f] # None =>
            IF f = fd THEN peers'[f].conn = c
                      ELSE IsLive(f) /\ peers'[f] = peers[f] /\ peers'[f].conn # c
    BY <2>1, <2>2, <2>3, Zenon DEF IsLive
  <2>5. ASSUME NEW f \in Fds, NEW g \in Fds, peers'[f] # None, peers'[g] # None,
               peers'[f].conn = peers'[g].conn
        PROVE  f = g
    BY <1>1, <2>4, <2>5, Zenon
  <2>6. ASSUME NEW f \in Fds, peers'[f] # None
        PROVE  net'[peers'[f].conn].link = "open"
    <3>1. CASE f = fd
      BY <2>1, <2>4, <2>6, <3>1, Zenon
    <3>2. CASE f # fd
      <4>1. IsLive(f) /\ peers'[f] = peers[f] /\ peers[f].conn # c
        BY <2>4, <2>6, <3>2, Zenon
      <4>2. net[peers[f].conn].link = "open" /\ peers[f].conn \in Conns
        BY <1>1, <4>1, Zenon
      <4> QED BY <2>1, <4>1, <4>2, Zenon
    <3> QED BY <3>1, <3>2
  <2> QED BY <2>5, <2>6, Zenon DEF Owned, IsLive
<1>5. CASE UnknownPacketType
  BY <1>3, <1>5, UnknownTypeServes, Zenon
<1>6. CASE SendStart
  BY <1>3, <1>6, SendStartSends, Zenon DEF Sends
<1>7. CASE \E fd \in Fds : RecvPacket(fd) \/ RecvPart(fd) \/ SendContinue(fd)
  <2> PICK fd \in Fds : RecvPacket(fd) \/ RecvPart(fd) \/ SendContinue(fd)
    BY <1>7
  <2>1. CASE RecvPacket(fd)
    BY <1>3, <2>1, RecvPacketReads, Zenon DEF ReadsMessage
  <2>2. CASE RecvPart(fd)
    BY <1>3, <2>2, RecvPartReads, Zenon DEF ReadsPart
  <2>3. CASE SendContinue(fd)
    BY <1>3, <2>3, SendContinueSends, Zenon DEF Sends
  <2> QED BY <2>1, <2>2, <2>3
<1> QED BY <1>2, <1>4, <1>5, <1>6, <1>7, OtherStepsCalm, Zenon DEF MovesData

LEMMA AppReceiveTakes ==
  ASSUME TInv, AppReceive
  PROVE  /\ inQueue.items \in Seq(Received) /\ inQueue.items # <<>>
         /\ inQueue'.items = Tail(inQueue.items)
         /\ \A c \in Conns : got'[c] = AfterFirst(inQueue.items, c, got[c])
<1>1. inQueue \in QueueOf(Received) /\ QueueReadable(inQueue) /\ got \in [Conns -> Nat]
  BY DEF TInv, TypeOK, AppReceive
<1>2. /\ inQueue.items \in Seq(Received) /\ inQueue.items # <<>>
      /\ Pop(inQueue).items = Tail(inQueue.items) /\ Head(inQueue.items) = inQueue.items[1]
  BY <1>1, PopType, TakenAt
<1>3. got' = [got EXCEPT ![inQueue.items[1].conn] = inQueue.items[1].upto]
  BY <1>2, Zenon DEF AppReceive
<1>4. inQueue'.items = Tail(inQueue.items)
  BY <1>2, Zenon DEF AppReceive
<1> QED BY <1>1, <1>2, <1>3, <1>4, Zenon DEF AfterFirst

LEMMA ItemsType ==
  ASSUME TInv
  PROVE  inQueue.items \in Seq(Received) /\ outQueue.items \in Seq(Request)
  BY DEF TInv, TypeOK, QueueOf

\* A message of another connection leaves c without messages.
LEMMA PushedNone ==
  ASSUME NEW s \in Seq(Received), NEW m \in Received, NEW c, m.conn # c, NoneOf(s, c)
  PROVE  NoneOf(Append(s, m), c)
<1> DEFINE v == Append(s, m)
           l == Len(s)
<1>1. Len(v) = l + 1 /\ l \in Nat /\ v[l + 1] = m /\ \A i \in 1..l : v[i] = s[i]
  BY PushedAt
<1>2. \A i \in 1..Len(v) : i \in 1..l \/ i = l + 1
  BY <1>1
<1> HIDE DEF v
<1>3. \A i \in 1..Len(v) : v[i].conn # c
  BY <1>1, <1>2, Zenon DEF NoneOf
<1> QED BY <1>3, Zenon DEF NoneOf, v

LEMMA TakenNone ==
  ASSUME NEW s \in Seq(Received), s # <<>>, NEW c, NEW n, NoneOf(s, c)
  PROVE  NoneOf(Tail(s), c) /\ AfterFirst(s, c, n) = n
<1>1. /\ \A i \in 1..Len(Tail(s)) : Tail(s)[i] = s[i + 1] /\ i + 1 \in 1..Len(s)
      /\ 1 \in 1..Len(s)
  BY TakenAt
<1> QED BY <1>1, Zenon DEF NoneOf, AfterFirst

LEMMA UntouchedStep ==
  ASSUME ConnInv, [Next]_vars
  PROVE  Untouched'
<1> DEFINE Idle(c) == net[c].link \in {"idle", "backlog"}
           Fresh(c) == /\ net[c].rxRead = 0 /\ got[c] = 0 /\ net[c].wire = <<>>
                       /\ NoneOf(inQueue.items, c)
<1>1. \A c \in Conns : Idle(c) => Fresh(c)
  BY Zenon DEF ConnInv, Untouched
<1>2. ASSUME \A c \in Conns : Idle(c)' => /\ Idle(c) /\ net'[c].rxRead = net[c].rxRead
                                          /\ net'[c].wire = net[c].wire,
             \A c \in Conns : Fresh(c) /\ Idle(c)' => got'[c] = 0 /\ NoneOf(inQueue'.items, c)
      PROVE  Untouched'
  BY <1>1, <1>2, Zenon DEF Untouched
<1>3. CASE Calm /\ (UNCHANGED <<inQueue, got>> \/ AppReceive)
  <2>1. \A c \in Conns : Idle(c)' => Idle(c)
    <3> SUFFICES ASSUME NEW c \in Conns, Idle(c)' PROVE Idle(c)
      BY Zenon
    <3>1. net'[c].link # "closed"
      OBVIOUS
    <3> QED BY <1>3, <3>1, Zenon DEF Calm
  <2>2. \A c \in Conns : Fresh(c) => got'[c] = 0 /\ NoneOf(inQueue'.items, c)
    <3>1. CASE AppReceive
      BY <3>1, AppReceiveTakes, TakenNone, Zenon DEF ConnInv
    <3>2. CASE UNCHANGED <<inQueue, got>>
      BY <3>2, Zenon
    <3> QED BY <1>3, <3>1, <3>2
  <2> QED BY <1>2, <1>3, <2>1, <2>2, Zenon DEF Calm
<1>4. ASSUME NEW fd \in Fds, NEW q, NEW k, Serves(fd, q, k), UNCHANGED got,
             \/ UNCHANGED inQueue
             \/ \E m \in Received : m.conn = q.conn /\ inQueue'.items = Append(inQueue.items, m)
      PROVE  Untouched'
  <2>0. IsLive(fd) /\ k.link = net[q.conn].link
    BY <1>4, Zenon DEF Serves
  <2>1. /\ peers'[fd] = q /\ q # None /\ q.conn \in Conns /\ q.conn = peers[fd].conn
        /\ \A f \in Fds : f # fd => peers'[f] = peers[f]
        /\ net'[q.conn] = k
        /\ \A c \in Conns : c # q.conn => net'[c] = net[c]
    BY <1>4, ServesAt, Zenon DEF ConnInv
  <2>2. k.link = "open"
    BY <2>0, <2>1, Zenon DEF ConnInv, Owned
  <2>3. \A c \in Conns : Idle(c)' => c # q.conn
    BY <2>1, <2>2
  <2>4. \A c \in Conns : Idle(c)' => /\ Idle(c) /\ net'[c].rxRead = net[c].rxRead
                                     /\ net'[c].wire = net[c].wire
    BY <2>1, <2>3, Zenon
  <2>5. \A c \in Conns : Fresh(c) /\ Idle(c)' => got'[c] = 0 /\ NoneOf(inQueue'.items, c)
    <3>1. inQueue.items \in Seq(Received)
      BY ItemsType DEF ConnInv
    <3> QED BY <1>4, <2>3, <3>1, PushedNone, Zenon
  <2> QED BY <1>2, <2>4, <2>5, Zenon
<1>5. ASSUME NEW fd \in Fds, NEW c \in Conns, AcceptPeer(fd, c)
      PROVE  Untouched'
  <2>1. /\ net'[c].link = "open" /\ \A d \in Conns : d # c => net'[d] = net[d]
        /\ UNCHANGED <<inQueue, got>>
    BY <1>5, AcceptAt, Zenon
  <2>2. \A d \in Conns : Idle(d)' => d # c
    BY <2>1
  <2>3. \A d \in Conns : Idle(d)' => /\ Idle(d) /\ net'[d].rxRead = net[d].rxRead
                                     /\ net'[d].wire = net[d].wire
    BY <2>1, <2>2, Zenon
  <2>4. \A d \in Conns : Fresh(d) /\ Idle(d)' => got'[d] = 0 /\ NoneOf(inQueue'.items, d)
    BY <2>1, Zenon
  <2> QED BY <1>2, <2>3, <2>4, Zenon
<1> HIDE DEF Idle, Fresh
<1>6. CASE UnknownPacketType
  BY <1>4, <1>6, UnknownTypeServes, Zenon
<1>7. CASE SendStart
  BY <1>4, <1>7, SendStartSends, Zenon DEF Sends
<1>8. CASE \E fd \in Fds : RecvPacket(fd) \/ RecvPart(fd) \/ SendContinue(fd)
  <2> PICK fd \in Fds : RecvPacket(fd) \/ RecvPart(fd) \/ SendContinue(fd)
    BY <1>8
  <2>1. CASE RecvPacket(fd)
    BY <1>4, <2>1, RecvPacketReads, Zenon DEF ReadsMessage
  <2>2. CASE RecvPart(fd)
    BY <1>4, <2>2, RecvPartReads, Zenon DEF ReadsPart
  <2>3. CASE SendContinue(fd)
    BY <1>4, <2>3, SendContinueSends, Zenon DEF Sends, queueVars
  <2> QED BY <2>1, <2>2, <2>3
<1> QED BY <1>3, <1>5, <1>6, <1>7, <1>8, OtherStepsCalm, Zenon DEF MovesData

LEMMA ConnInvInit == Init => ConnInv
<1> SUFFICES ASSUME Init PROVE ConnInv
  OBVIOUS
<1>1. Owned
  BY Zenon DEF Init, Owned, IsLive
<1>2. ASSUME NEW c \in Conns
      PROVE  net[c].rxRead = 0 /\ got[c] = 0 /\ net[c].wire = <<>> /\ NoneOf(inQueue.items, c)
  <2>1. net[c].rxRead = 0 /\ got[c] = 0 /\ net[c].wire = <<>> /\ inQueue.items = <<>>
    BY DEF Init, NewQueue
  <2>2. \A i \in 1..Len(inQueue.items) : FALSE
    BY <2>1
  <2> QED BY <2>1, <2>2, Zenon DEF NoneOf
<1> QED BY <1>1, <1>2, TInvInit, Zenon DEF ConnInv, Untouched

LEMMA ConnInvStep == ConnInv /\ [Next]_vars => ConnInv'
  BY OwnedStep, UntouchedStep, TInvStep DEF ConnInv

LEMMA ConnInvAlways == Spec => []ConnInv
  BY ConnInvInit, ConnInvStep, PTL DEF Spec

-----------------------------------------------------------------------------
(* Received streams: ReceivedGapless and, for the numbers to follow each    *)
(* other, where each peer's numbering stands.                               *)

Numbered ==
    \A fd \in Fds : IsLive(fd) => NumberedTo(inQueue.items, peers[fd].conn, peers[fd].seqnum)

RecvInv == ReceivedGapless /\ Numbered

\* The same with the peers spelled out.
Streams(s, n) == \A c \in Conns : Gapless(s, c, n[c])
AtPeer(s, n, fd) ==
    /\ EndsAt(s, peers[fd].conn, n[peers[fd].conn], ReadUpTo(fd))
    /\ NumberedTo(s, peers[fd].conn, peers[fd].seqnum)

LEMMA RecvInvIs ==
  RecvInv <=> /\ Streams(inQueue.items, got)
              /\ \A fd \in Fds : IsLive(fd) => AtPeer(inQueue.items, got, fd)
  BY Zenon DEF RecvInv, ReceivedGapless, Numbered, Streams, AtPeer, ReadUpTo, Live

LEMMA RecvInvNext ==
  ASSUME Streams(inQueue.items, got)',
         \A fd \in Fds : IsLive(fd)' => AtPeer(inQueue.items, got, fd)'
  PROVE  RecvInv'
<1>1. (RecvInv <=> /\ Streams(inQueue.items, got)
                   /\ \A fd \in Fds : IsLive(fd) => AtPeer(inQueue.items, got, fd))'
  BY RecvInvIs, PTL
<1> QED BY <1>1, Zenon

\* Peer fd stands where it stood.
Stands(fd) ==
    /\ IsLive(fd) /\ peers'[fd].conn = peers[fd].conn
    /\ peers'[fd].seqnum = peers[fd].seqnum /\ ReadUpTo(fd)' = ReadUpTo(fd)

LEMMA StandingKept ==
  ASSUME RecvInv, UNCHANGED <<inQueue, got>>,
         \A fd \in Fds : peers'[fd] # None => Stands(fd) \/ AtPeer(inQueue.items, got, fd)'
  PROVE  RecvInv'
<1>1. Streams(inQueue.items, got) /\ \A fd \in Fds : IsLive(fd) => AtPeer(inQueue.items, got, fd)
  BY RecvInvIs, Zenon
<1>2. Streams(inQueue.items, got)'
  BY <1>1, Zenon DEF Streams
<1>3. ASSUME NEW fd \in Fds, peers'[fd] # None, Stands(fd)
      PROVE  AtPeer(inQueue.items, got, fd)'
  <2>1. AtPeer(inQueue.items, got, fd)
    BY <1>1, <1>3, Zenon DEF Stands
  <2> QED BY <1>3, <2>1, Zenon DEF Stands, AtPeer
<1>4. \A fd \in Fds : IsLive(fd)' => AtPeer(inQueue.items, got, fd)'
  BY <1>3, Zenon DEF IsLive
<1> QED BY <1>2, <1>4, RecvInvNext, Zenon

LEMMA RecvInvCalm ==
  ASSUME ConnInv, RecvInv, Calm, UNCHANGED <<inQueue, got>>
  PROVE  RecvInv'
<1> SUFFICES ASSUME NEW fd \in Fds, peers'[fd] # None PROVE Stands(fd)
  BY StandingKept, Zenon
<1>1. peers'[fd] = peers[fd] /\ IsLive(fd)
  BY Zenon DEF Calm, IsLive
<1>2. peers[fd].conn \in Conns
  BY <1>1, LiveIsPeer DEF ConnInv, TInv
<1>3. net'[peers[fd].conn].rxRead = net[peers[fd].conn].rxRead
  BY <1>2, Zenon DEF Calm
<1> QED BY <1>1, <1>3, Zenon DEF Stands, ReadUpTo

LEMMA RecvInvAccept ==
  ASSUME ConnInv, RecvInv, NEW fd \in Fds, NEW c \in Conns, AcceptPeer(fd, c)
  PROVE  RecvInv'
<1>1. /\ peers'[fd] = NewPeer(c)
      /\ \A f \in Fds : f # fd => peers'[f] = peers[f]
      /\ net[c].link = "backlog"
      /\ \A d \in Conns : d # c => net'[d] = net[d]
      /\ UNCHANGED <<inQueue, got>> /\ net'[c].rxRead = net[c].rxRead
  BY AcceptAt, Zenon
<1>2. NewPeer(c).conn = c /\ NewPeer(c).bytesRecvd = 0 /\ NewPeer(c).seqnum = 0
  BY DEF NewPeer
<1> HIDE DEF NewPeer
<1>3. net[c].rxRead = 0 /\ got[c] = 0 /\ NoneOf(inQueue.items, c)
  BY <1>1, Zenon DEF ConnInv, Untouched
<1>4. AtPeer(inQueue.items, got, fd)'
  <2> DEFINE s == inQueue.items
  <2>1. ReadUpTo(fd)' = 0
    <3>1. ReadUpTo(fd)' = 0 - 0
      BY <1>1, <1>2, <1>3, Zenon DEF ReadUpTo
    <3> QED BY <3>1
  <2>2. ASSUME NEW i \in 0..Len(s), Adjacent(s, c, i, Len(s) + 1) PROVE i = 0
    <3>1. i = 0 \/ i \in 1..Len(s)
      <4>1. Len(s) \in Nat
        BY ItemsType, LenProperties DEF ConnInv
      <4> QED BY <4>1
    <3> QED BY <1>3, <2>2, <3>1, Zenon DEF Adjacent, NoneOf
  <2> HIDE DEF s
  <2>3. EndsAt(s, c, 0, 0) /\ NumberedTo(s, c, 0)
    BY <2>2, Zenon DEF EndsAt, NumberedTo, UpTo
  <2>4. peers'[fd].conn = c /\ peers'[fd].seqnum = 0 /\ got'[c] = 0 /\ inQueue'.items = s
    BY <1>1, <1>2, <1>3, Zenon DEF s
  <2> QED BY <2>1, <2>3, <2>4, Zenon DEF AtPeer
<1> SUFFICES ASSUME NEW f \in Fds, peers'[f] # None, f # fd PROVE Stands(f)
  BY <1>1, <1>4, StandingKept, Zenon
<1>5. IsLive(f) /\ peers'[f] = peers[f]
  BY <1>1, Zenon DEF IsLive
<1>6. peers[f].conn # c /\ peers[f].conn \in Conns
  <2>1. peers[f].conn \in Conns /\ net[peers[f].conn].link = "open"
    BY <1>5, LiveIsPeer DEF ConnInv, TInv, Owned
  <2> QED BY <1>1, <2>1
<1>7. net'[peers[f].conn] = net[peers[f].conn]
  BY <1>1, <1>6, Zenon
<1> QED BY <1>5, <1>7, Zenon DEF Stands, ReadUpTo

LEMMA ServesOthers ==
  ASSUME ConnInv, NEW fd \in Fds, NEW q, NEW k, Serves(fd, q, k), NEW f \in Fds,
         peers'[f] # None, f # fd
  PROVE  /\ IsLive(f) /\ peers'[f] = peers[f] /\ peers[f].conn # q.conn
         /\ peers[f].conn \in Conns /\ net'[peers[f].conn] = net[peers[f].conn]
         /\ Stands(f)
<1>1. /\ peers'[fd] = q /\ q # None /\ q.conn \in Conns /\ q.conn = peers[fd].conn
      /\ \A g \in Fds : g # fd => peers'[g] = peers[g]
      /\ net'[q.conn] = k
      /\ \A c \in Conns : c # q.conn => net'[c] = net[c]
  BY ServesAt, Zenon DEF ConnInv
<1>2. IsLive(f) /\ IsLive(fd) /\ peers'[f] = peers[f]
  BY <1>1, Zenon DEF IsLive, Serves
<1>3. peers[f].conn \in Conns
  BY <1>2, LiveIsPeer DEF ConnInv, TInv
<1>4. peers[f].conn # q.conn
  BY <1>1, <1>2, Zenon DEF ConnInv, Owned
<1>5. net'[peers[f].conn] = net[peers[f].conn]
  BY <1>1, <1>3, <1>4, Zenon
<1> QED BY <1>2, <1>3, <1>4, <1>5, Zenon DEF Stands, ReadUpTo

\* Steps that serve one peer and deliver nothing.
LEMMA RecvInvServes ==
  ASSUME ConnInv, RecvInv, NEW fd \in Fds, NEW q, NEW k, Serves(fd, q, k),
         UNCHANGED <<inQueue, got>>, q.seqnum = peers[fd].seqnum,
         k.rxRead - q.bytesRecvd = ReadUpTo(fd)
  PROVE  RecvInv'
<1>1. /\ peers'[fd] = q /\ q # None /\ q.conn \in Conns /\ q.conn = peers[fd].conn
      /\ \A f \in Fds : f # fd => peers'[f] = peers[f]
      /\ net'[q.conn] = k
      /\ \A c \in Conns : c # q.conn => net'[c] = net[c]
  BY ServesAt, Zenon DEF ConnInv
<1>2. Stands(fd)
  BY <1>1, Zenon DEF Stands, Serves, ReadUpTo
<1>3. \A f \in Fds : peers'[f] # None /\ f # fd => Stands(f)
  BY ServesOthers, Zenon
<1> QED BY <1>2, <1>3, StandingKept, Zenon

LEMMA RecvInvMessage ==
  ASSUME ConnInv, RecvInv, NEW fd \in Fds, NEW q, NEW k, NEW m, ReadsMessage(fd, q, k, m),
         UNCHANGED got
  PROVE  RecvInv'
<1> DEFINE s == inQueue.items
           v == Append(s, m)
<1>1. /\ Serves(fd, q, k) /\ m \in Received /\ m.conn = q.conn
      /\ Continues(m, ReadUpTo(fd), peers[fd].seqnum)
      /\ m.upto = k.rxRead - q.bytesRecvd /\ q.seqnum = m.seqnum + 1
      /\ inQueue'.items = v /\ s \in Seq(Received)
  BY ItemsType, Zenon DEF ReadsMessage, ConnInv
<1>2. /\ peers'[fd] = q /\ q # None /\ q.conn \in Conns /\ q.conn = peers[fd].conn
      /\ \A f \in Fds : f # fd => peers'[f] = peers[f]
      /\ net'[q.conn] = k
      /\ \A c \in Conns : c # q.conn => net'[c] = net[c]
  BY <1>1, ServesAt, Zenon DEF ConnInv
<1>3. IsLive(fd)
  BY <1>1, Zenon DEF Serves
<1>4. Streams(s, got) /\ \A f \in Fds : IsLive(f) => AtPeer(s, got, f)
  BY RecvInvIs, Zenon
<1> HIDE DEF v, s
<1>5. Streams(v, got)
  <2> SUFFICES ASSUME NEW c \in Conns PROVE Gapless(v, c, got[c])
    BY Zenon DEF Streams
  <2>1. Gapless(s, c, got[c])
    BY <1>4, Zenon DEF Streams
  <2>2. m.conn = c => /\ EndsAt(s, c, got[c], ReadUpTo(fd))
                      /\ NumberedTo(s, c, peers[fd].seqnum)
    BY <1>1, <1>2, <1>3, <1>4, Zenon DEF AtPeer
  <2> QED BY <1>1, <2>1, <2>2, PushedGapless, Zenon DEF v
<1>6. ASSUME NEW f \in Fds, peers'[f] # None
      PROVE  AtPeer(inQueue.items, got, f)'
  <2>1. CASE f = fd
    <3>1. peers'[f].conn = q.conn /\ peers'[f].seqnum = q.seqnum /\ ReadUpTo(f)' = m.upto
      BY <1>1, <1>2, <2>1, Zenon DEF ReadUpTo
    <3>2. q.seqnum \in Nat
      BY <1>1 DEF Serves, Peer
    <3>3. EndsAt(v, q.conn, got[q.conn], m.upto) /\ NumberedTo(v, q.conn, q.seqnum)
      BY <1>1, <3>2, PushedEnds, Zenon DEF v
    <3> QED BY <1>1, <3>1, <3>3, Zenon DEF AtPeer
  <2>2. CASE f # fd
    <3>1. IsLive(f) /\ peers[f].conn # q.conn /\ Stands(f) /\ peers[f].conn \in Conns
      BY <1>1, <1>6, <2>2, ServesOthers, ZenonT(60)
    <3>2. peers[f].seqnum \in Nat
      BY <3>1, LiveIsPeer DEF ConnInv, TInv, Peer
    <3>3. AtPeer(s, got, f)
      BY <1>4, <3>1, Zenon
    <3>4. AtPeer(v, got, f)
      BY <1>1, <3>1, <3>2, <3>3, PushedEnds, Zenon DEF AtPeer, v
    <3> QED BY <1>1, <3>1, <3>4, Zenon DEF AtPeer, Stands
  <2> QED BY <2>1, <2>2
<1>7. Streams(inQueue.items, got)'
  BY <1>1, <1>5, Zenon DEF Streams
<1>8. \A f \in Fds : IsLive(f)' => AtPeer(inQueue.items, got, f)'
  BY <1>6, Zenon DEF IsLive
<1> QED BY <1>7, <1>8, RecvInvNext, Zenon

LEMMA RecvInvTaken ==
  ASSUME ConnInv, RecvInv, Calm, AppReceive
  PROVE  RecvInv'
<1> DEFINE s == inQueue.items
<1>1. /\ s \in Seq(Received) /\ s # <<>> /\ inQueue'.items = Tail(s)
      /\ \A c \in Conns : got'[c] = AfterFirst(s, c, got[c])
  BY AppReceiveTakes, Zenon DEF ConnInv
<1>2. Streams(s, got) /\ \A f \in Fds : IsLive(f) => AtPeer(s, got, f)
  BY RecvInvIs, Zenon
<1> HIDE DEF s
<1>3. Streams(inQueue.items, got)'
  BY <1>1, <1>2, TakenGapless, Zenon DEF Streams
<1>4. ASSUME NEW f \in Fds, peers'[f] # None
      PROVE  AtPeer(inQueue.items, got, f)'
  <2>1. UNCHANGED <<peers, net>> /\ IsLive(f)
    BY <1>4, Zenon DEF AppReceive, IsLive
  <2>2. peers[f].conn \in Conns
    BY <2>1, LiveIsPeer DEF ConnInv, TInv
  <2>3. AtPeer(s, got, f)
    BY <1>2, <2>1, Zenon
  <2>4. /\ EndsAt(Tail(s), peers[f].conn, AfterFirst(s, peers[f].conn, got[peers[f].conn]),
                  ReadUpTo(f))
        /\ NumberedTo(Tail(s), peers[f].conn, peers[f].seqnum)
    BY <1>1, <2>3, TakenEnds, Zenon DEF AtPeer
  <2>5. ReadUpTo(f)' = ReadUpTo(f)
    BY <2>1, Zenon DEF ReadUpTo
  <2> QED BY <1>1, <2>1, <2>2, <2>4, <2>5, Zenon DEF AtPeer
<1>5. \A f \in Fds : IsLive(f)' => AtPeer(inQueue.items, got, f)'
  BY <1>4, Zenon DEF IsLive
<1> QED BY <1>3, <1>5, RecvInvNext, Zenon

LEMMA RecvInvStep ==
  ASSUME ConnInv, RecvInv, [Next]_vars
  PROVE  RecvInv'
<1>1. ASSUME NEW fd \in Fds, NEW q, NEW k, Serves(fd, q, k), SameReceiving(fd, q, k),
             UNCHANGED <<inQueue, got>>
      PROVE  RecvInv'
  <2>1. q.seqnum = peers[fd].seqnum /\ k.rxRead - q.bytesRecvd = ReadUpTo(fd)
    BY <1>1, Zenon DEF Serves, SameReceiving, ReadUpTo
  <2> QED BY <1>1, <2>1, RecvInvServes, Zenon
<1>2. CASE UnknownPacketType
  BY <1>1, <1>2, UnknownTypeServes, Zenon
<1>3. CASE SendStart
  BY <1>1, <1>3, SendStartSends, Zenon DEF Sends
<1>4. CASE \E fd \in Fds : RecvPacket(fd) \/ RecvPart(fd) \/ SendContinue(fd)
  <2> PICK fd \in Fds : RecvPacket(fd) \/ RecvPart(fd) \/ SendContinue(fd)
    BY <1>4
  <2>1. CASE RecvPacket(fd)
    <3> PICK q, k, m : ReadsMessage(fd, q, k, m) /\ UNCHANGED got
      BY <2>1, RecvPacketReads, Zenon
    <3> QED BY RecvInvMessage, Zenon
  <2>2. CASE RecvPart(fd)
    <3>1. UNCHANGED <<inQueue, got>>
      BY <2>2, RecvPartReads, Zenon
    <3> PICK q, k : ReadsPart(fd, q, k)
      BY <2>2, RecvPartReads, Zenon
    <3>2. /\ Serves(fd, q, k) /\ q.seqnum = peers[fd].seqnum
          /\ k.rxRead - q.bytesRecvd = ReadUpTo(fd)
      BY Zenon DEF ReadsPart
    <3> QED BY <3>1, <3>2, RecvInvServes, Zenon
  <2>3. CASE SendContinue(fd)
    BY <1>1, <2>3, SendContinueSends, Zenon DEF Sends, queueVars
  <2> QED BY <2>1, <2>2, <2>3
<1>5. CASE \E fd \in Fds, c \in Conns : AcceptPeer(fd, c)
  BY <1>5, RecvInvAccept, Zenon
<1>6. CASE ~MovesData
  BY <1>6, OtherStepsCalm, RecvInvCalm, RecvInvTaken, Zenon
<1> QED BY <1>2, <1>3, <1>4, <1>5, <1>6, Zenon DEF MovesData

LEMMA RecvInvInit == Init => RecvInv
<1> SUFFICES ASSUME Init PROVE RecvInv
  OBVIOUS
<1>1. inQueue.items = <<>> /\ \A f \in Fds : ~IsLive(f)
  BY DEF Init, NewQueue, IsLive
<1>2. ASSUME NEW c \in Conns PROVE Gapless(inQueue.items, c, got[c])
  <2>1. \A i \in 0..Len(inQueue.items) : \A j \in (i + 1)..Len(inQueue.items) : FALSE
    BY <1>1
  <2> QED BY <2>1, Zenon DEF Gapless
<1> QED BY <1>1, <1>2, RecvInvIs, Zenon DEF Streams

(* The application gets each client's stream without a gap, a repetition or *)
(* a change of order, whatever the other clients do and however often       *)
(* clients come, go and reuse descriptors.                                  *)
THEOREM ServerReceivedGapless == Spec => []ReceivedGapless
<1>1. ConnInv /\ RecvInv /\ [Next]_vars => RecvInv'
  BY RecvInvStep
<1>2. RecvInv => ReceivedGapless
  BY DEF RecvInv
<1> QED BY <1>1, <1>2, RecvInvInit, ConnInvAlways, PTL DEF Spec

-----------------------------------------------------------------------------
(* Packets sent: SentInOrder, from the order of the requests in outQueue.   *)

Sending == [id : 1..MaxRequests, dest : Conns, n : Nat]

\* The packets of s, a queue or a wire, are in the order of the requests.
Ordered(s) == \A i, j \in 1..Len(s) : i < j => s[i].id < s[j].id

\* Nothing after id was sent on wire w.
SentUpTo(w, id) == \A i \in 1..Len(w) : w[i].id <= id

\* Packet id was requested before all that wait in s and before request n.
Before(id, s, n) == id < n /\ \A i \in 1..Len(s) : id < s[i].id

AllBefore(w, s, n) == \A i \in 1..Len(w) : Before(w[i].id, s, n)

LEMMA WireIds ==
  ASSUME NEW w \in Seq(Sending), NEW i \in 1..Len(w)
  PROVE  w[i] \in Sending /\ w[i].id \in Nat
<1>1. w[i] \in Sending
  BY ElementOfSeq
<1>2. w[i].id \in 1..MaxRequests
  BY <1>1 DEF Sending
<1> QED BY <1>1, <1>2

LEMMA WireType ==
  ASSUME TypeOK, NEW c \in Conns
  PROVE  net[c].wire \in Seq(Sending)
  BY DEF TypeOK, Connection, Sending

LEMMA RequestIds ==
  ASSUME NEW s \in Seq(Request), NEW i \in 1..Len(s)
  PROVE  s[i] \in Request /\ s[i].id \in Nat
<1>1. s[i] \in Request
  BY ElementOfSeq
<1>2. s[i].id \in 1..MaxRequests
  BY <1>1 DEF Request
<1> QED BY <1>1, <1>2

LEMMA RequestTaken ==
  ASSUME NEW s \in Seq(Request), s # <<>>
  PROVE  /\ Len(s) \in Nat \ {0} /\ Len(Tail(s)) = Len(s) - 1 /\ Head(s) = s[1]
         /\ \A i \in 1..Len(Tail(s)) : Tail(s)[i] = s[i + 1] /\ i + 1 \in 2..Len(s)
         /\ 1 \in 1..Len(s)
  BY HeadTailProperties, EmptySeq

\* Sending more of packet p, not before anything w has carried, keeps the order.
LEMMA SentOrdered ==
  ASSUME NEW w \in Seq(Sending), NEW p \in Request, NEW n \in Nat,
         Ordered(w), SentUpTo(w, p.id)
  PROVE  /\ Sent(w, p, n) # <<>> /\ Sent(w, p, n)[Len(Sent(w, p, n))].id = p.id
         /\ Ordered(Sent(w, p, n)) /\ SentUpTo(Sent(w, p, n), p.id)
<1> DEFINE l == Len(w)
           v == Sent(w, p, n)
<1>1. /\ l \in Nat /\ p.id \in Nat /\ (w # <<>> => l \in 1..l)
      /\ \A i \in 1..l : w[i] \in Sending /\ w[i].id \in Nat
  BY WireIds, EmptySeq DEF Request
<1>2. CASE w # <<>> /\ w[l].id = p.id
  <2>1. v = [w EXCEPT ![l] = [w[l] EXCEPT !.n = @ + n]]
    BY <1>2, Zenon DEF Sent
  <2>2. [w[l] EXCEPT !.n = @ + n].id = p.id
    BY <1>1, <1>2, Zenon DEF Sending
  <2>3. v # <<>> /\ Len(v) = l /\ \A i \in 1..l : v[i].id = w[i].id
    <3> DEFINE e == [w[l] EXCEPT !.n = @ + n]
    <3>1. e.id = w[l].id
      BY <1>2, <2>2
    <3> HIDE DEF e
    <3>2. v = [w EXCEPT ![l] = e]
      BY <2>1, Zenon DEF e
    <3>3. Len(v) = l /\ \A i \in 1..l : v[i] = IF i = l THEN e ELSE w[i]
      BY <1>1, <1>2, <3>2
    <3>4. v # <<>>
      BY <1>1, <1>2, <3>3
    <3> QED BY <3>1, <3>3, <3>4
  <2> HIDE DEF v
  <2>4. Ordered(v)
    <3> SUFFICES ASSUME NEW i \in 1..l, NEW j \in 1..l, i < j PROVE v[i].id < v[j].id
      BY <2>3, Zenon DEF Ordered
    <3>1. w[i].id < w[j].id
      BY Zenon DEF Ordered
    <3> QED BY <2>3, <3>1
  <2>5. SentUpTo(v, p.id)
    BY <2>3, Zenon DEF SentUpTo
  <2> QED BY <1>1, <1>2, <2>3, <2>4, <2>5, Zenon DEF v
<1>3. CASE ~(w # <<>> /\ w[l].id = p.id)
  <2> DEFINE e == [id |-> p.id, dest |-> p.dest, n |-> n]
  <2>1. v = Append(w, e)
    BY <1>3, Zenon DEF Sent
  <2>2. e.id = p.id
    OBVIOUS
  <2> HIDE DEF v, e
  <2>3. Len(v) = l + 1 /\ v[l + 1] = e /\ \A i \in 1..l : v[i] = w[i]
    BY <2>1
  <2>4. \A i \in 1..l : w[i].id < p.id
    <3> SUFFICES ASSUME NEW i \in 1..l PROVE w[i].id < p.id
      OBVIOUS
    <3>1. w # <<>> /\ l \in 1..l /\ w[l].id # p.id
      <4>1. w # <<>>
        BY EmptySeq
      <4> QED BY <1>1, <1>3, <4>1, Zenon
    <3>2. w[l].id <= p.id /\ w[i].id <= p.id
      BY <3>1, Zenon DEF SentUpTo
    <3>3. i < l => w[i].id < w[l].id
      BY <3>1, Zenon DEF Ordered
    <3>4. i = l \/ i < l
      BY <1>1
    <3>5. w[i].id \in Nat /\ w[l].id \in Nat
      BY <1>1, <3>1, Zenon
    <3>6. CASE i = l
      BY <1>1, <3>1, <3>2, <3>5, <3>6
    <3>7. CASE i < l
      <4> DEFINE a == w[i].id
                 b == w[l].id
      <4> HIDE DEF a, b
      <4>1. a < b /\ b <= p.id /\ a \in Nat /\ b \in Nat
        BY <3>2, <3>3, <3>5, <3>7 DEF a, b
      <4>2. a < p.id
        BY <1>1, <4>1
      <4> QED BY <4>2 DEF a
    <3> QED BY <3>4, <3>6, <3>7
  <2>5. \A i \in 1..Len(v) : i \in 1..l \/ i = l + 1
    BY <1>1, <2>3
  <2>6. ASSUME NEW i \in 1..Len(v), NEW j \in 1..Len(v), i < j PROVE v[i].id < v[j].id
    <3>1. i \in 1..l
      BY <1>1, <2>3, <2>6
    <3>2. CASE j \in 1..l
      <4>1. w[i].id < w[j].id
        BY <2>6, <3>1, <3>2, Zenon DEF Ordered
      <4> QED BY <2>3, <3>1, <3>2, <4>1
    <3>3. CASE j = l + 1
      BY <2>2, <2>3, <2>4, <3>1, <3>3
    <3> QED BY <2>5, <3>2, <3>3
  <2>7. ASSUME NEW i \in 1..Len(v) PROVE v[i].id <= p.id
    <3>1. CASE i \in 1..l
      BY <2>3, <3>1, Zenon DEF SentUpTo
    <3>2. CASE i = l + 1
      BY <1>1, <2>2, <2>3, <3>2
    <3> QED BY <2>5, <3>1, <3>2
  <2>8. v # <<>> /\ v[Len(v)].id = p.id
    BY <1>1, <2>2, <2>3
  <2> QED BY <2>6, <2>7, <2>8, Zenon DEF Ordered, SentUpTo, v
<1> QED BY <1>2, <1>3

\* What a step does to outQueue and to the number of the next request.
QueueMoves ==
    \/ nextId' \in {nextId, nextId + 1} /\ outQueue'.items = outQueue.items
    \/ nextId' = nextId /\ outQueue'.items = <<>>
    \/ /\ nextId' = nextId
       /\ outQueue.items # <<>> /\ outQueue'.items = Tail(outQueue.items)
    \/ /\ nextId' = nextId + 1
       /\ \E r \in Request : r.id = nextId /\ outQueue'.items = Append(outQueue.items, r)

Queued ==
    /\ Ordered(outQueue.items)
    /\ \A i \in 1..Len(outQueue.items) : outQueue.items[i].id < nextId

LEMMA BeforeKept ==
  ASSUME TInv, QueueMoves, NEW id \in Nat, Before(id, outQueue.items, nextId)
  PROVE  Before(id, outQueue'.items, nextId')
<1> DEFINE s == outQueue.items
           v == outQueue'.items
<1>1. s \in Seq(Request) /\ nextId \in Nat
  BY ItemsType DEF TInv, TypeOK
<1>2. id < nextId /\ \A i \in 1..Len(s) : id < s[i].id
  BY Zenon DEF Before
<1> HIDE DEF s, v
<1>3. id < nextId'
  <2>1. nextId' = nextId \/ nextId' = nextId + 1
    BY Zenon DEF QueueMoves
  <2> QED BY <1>1, <1>2, <2>1
<1>4. ASSUME NEW i \in 1..Len(v) PROVE id < v[i].id
  <2>1. CASE v = s
    BY <1>2, <1>4, <2>1
  <2>2. CASE v = <<>>
    BY <1>4, <2>2
  <2>3. CASE s # <<>> /\ v = Tail(s)
    <3>1. v[i] = s[i + 1] /\ i + 1 \in 1..Len(s)
      BY <1>1, <1>4, <2>3, RequestTaken
    <3> QED BY <1>2, <3>1, Zenon
  <2>4. ASSUME NEW r \in Request, r.id = nextId, v = Append(s, r) PROVE id < v[i].id
    <3>1. Len(v) = Len(s) + 1 /\ v[Len(s) + 1] = r /\ \A j \in 1..Len(s) : v[j] = s[j]
      BY <1>1, <2>4
    <3>2. Len(s) \in Nat
      BY <1>1
    <3>3. i \in 1..Len(s) \/ i = Len(s) + 1
      BY <1>4, <3>1, <3>2
    <3> QED BY <1>2, <2>4, <3>1, <3>3, Zenon
  <2> QED BY <2>1, <2>2, <2>3, <2>4, Zenon DEF QueueMoves, s, v
<1> QED BY <1>3, <1>4, Zenon DEF Before, v

\* The packet taken off outQueue comes before all that stay in it.
LEMMA HeadBefore ==
  ASSUME TInv, Queued, outQueue.items # <<>>, outQueue'.items = Tail(outQueue.items),
         nextId' = nextId
  PROVE  Before(NextPacket.id, outQueue'.items, nextId')
<1> DEFINE s == outQueue.items
<1>1. s \in Seq(Request)
  BY ItemsType
<1> HIDE DEF s
<1>2. /\ Head(s) = s[1] /\ 1 \in 1..Len(s)
      /\ \A i \in 1..Len(Tail(s)) : /\ Tail(s)[i] = s[i + 1] /\ i + 1 \in 1..Len(s)
                                    /\ 1 < i + 1
  BY <1>1, RequestTaken DEF s
<1>3. /\ \A i, j \in 1..Len(s) : i < j => s[i].id < s[j].id
      /\ \A i \in 1..Len(s) : s[i].id < nextId
  BY Zenon DEF Queued, Ordered, s
<1>4. Before(s[1].id, Tail(s), nextId)
  BY <1>2, <1>3, Zenon DEF Before
<1> QED BY <1>2, <1>4, Zenon DEF NextPacket, s

LEMMA QueuedStep ==
  ASSUME TInv, Queued, QueueMoves
  PROVE  Queued'
<1> DEFINE s == outQueue.items
           v == outQueue'.items
<1>1. s \in Seq(Request) /\ nextId \in Nat /\ Len(s) \in Nat
  BY ItemsType DEF TInv, TypeOK
<1>2. /\ \A i, j \in 1..Len(s) : i < j => s[i].id < s[j].id
      /\ \A i \in 1..Len(s) : s[i].id < nextId /\ s[i].id \in Nat
  BY <1>1, RequestIds, Zenon DEF Queued, Ordered
<1> HIDE DEF s, v
<1>3. nextId' = nextId \/ nextId' = nextId + 1
  BY Zenon DEF QueueMoves
<1>4. \A i \in 1..Len(s) : s[i].id < nextId'
  <2> SUFFICES ASSUME NEW i \in 1..Len(s) PROVE s[i].id < nextId'
    OBVIOUS
  <2>1. s[i].id < nextId /\ s[i].id \in Nat
    BY <1>2, Zenon
  <2> QED BY <1>1, <1>3, <2>1
<1>5. (\A i, j \in 1..Len(v) : i < j => v[i].id < v[j].id) /\ \A i \in 1..Len(v) : v[i].id < nextId'
  <2>1. CASE v = s
    BY <1>2, <1>4, <2>1, Zenon
  <2>2. CASE v = <<>>
    BY <2>2
  <2>3. CASE s # <<>> /\ v = Tail(s)
    <3>1. \A i \in 1..Len(v) : v[i] = s[i + 1] /\ i + 1 \in 1..Len(s)
      BY <1>1, <2>3, RequestTaken
    <3>2. \A i, j \in 1..Len(v) : i < j => i + 1 < j + 1
      OBVIOUS
    <3> QED BY <1>2, <1>4, <3>1, <3>2, Zenon
  <2>4. ASSUME NEW r \in Request, r.id = nextId, nextId' = nextId + 1, v = Append(s, r)
        PROVE  (\A i, j \in 1..Len(v) : i < j => v[i].id < v[j].id)
               /\ \A i \in 1..Len(v) : v[i].id < nextId'
    <3>1. Len(v) = Len(s) + 1 /\ v[Len(s) + 1] = r /\ \A j \in 1..Len(s) : v[j] = s[j]
      BY <1>1, <2>4
    <3>2. \A i \in 1..Len(v) : i \in 1..Len(s) \/ i = Len(s) + 1
      BY <1>1, <3>1
    <3>3. \A i, j \in 1..Len(v) : i < j => i \in 1..Len(s)
      BY <1>1, <3>1
    <3>4. nextId < nextId'
      BY <1>1, <2>4
    <3>5. \A i, j \in 1..Len(v) : i < j => v[i].id < v[j].id
      BY <1>2, <2>4, <3>1, <3>2, <3>3, Zenon
    <3>6. \A i \in 1..Len(v) : v[i].id < nextId'
      BY <1>4, <2>4, <3>1, <3>2, <3>4, Zenon
    <3> QED BY <3>5, <3>6
  <2> QED BY <2>1, <2>2, <2>3, <2>4, Zenon DEF QueueMoves, s, v
<1> QED BY <1>5, Zenon DEF Queued, Ordered, v

LEMMA QueueMovesAlways ==
  ASSUME TInv, [Next]_vars
  PROVE  QueueMoves
<1>1. outQueue \in QueueOf(Request) /\ outQueue.items \in Seq(Request)
  BY ItemsType DEF TInv, TypeOK
<1>2. CASE UNCHANGED <<outQueue, nextId>>
  BY <1>2, Zenon DEF QueueMoves
<1>3. CASE OutQueueEvent
  <2>1. QueueReadable(outQueue) /\ outQueue' = Pop(outQueue) /\ nextId' = nextId
    BY <1>3, Zenon DEF OutQueueEvent, appVars
  <2>2. outQueue.items # <<>> /\ outQueue'.items = Tail(outQueue.items)
    BY <1>1, <2>1, PopType, Zenon
  <2> QED BY <2>1, <2>2, Zenon DEF QueueMoves
<1>4. CASE LeaveLoop
  <2>1. outQueue'.items = <<>> /\ nextId' = nextId
    BY <1>4 DEF LeaveLoop, appVars, StopAndClear
  <2> QED BY <2>1, Zenon DEF QueueMoves
<1>5. ASSUME NEW fd \in Fds, AppRequest(fd), UNCHANGED outQueue PROVE QueueMoves
  <2>1. nextId' \in {nextId, nextId + 1}
    BY <1>5 DEF AppRequest
  <2> QED BY <1>5, <2>1, Zenon DEF QueueMoves
<1>6. ASSUME NEW fd \in Fds, NEW type \in OutTypes, NEW force \in BOOLEAN,
             AppSend(fd, type, force)
      PROVE  QueueMoves
  <2> DEFINE r == NewRequest(type, fd)
  <2>1. /\ nextId' = nextId + 1 /\ outQueue' = Push(outQueue, r, force)
        /\ view[fd] # None /\ nextId <= MaxRequests
    BY <1>6, Zenon DEF AppSend, AppRequest
  <2>2. r \in Request /\ r.id = nextId
    <3>1. view[fd] \in Conns /\ nextId \in 1..MaxRequests /\ type \in MessageType
      BY <2>1, ServerAssumption DEF TInv, TypeOK
    <3> QED BY <3>1 DEF NewRequest, Request
  <2> HIDE DEF r
  <2>3. outQueue'.items = outQueue.items \/ outQueue'.items = Append(outQueue.items, r)
    BY <2>1 DEF Push
  <2> QED BY <2>1, <2>2, <2>3, Zenon DEF QueueMoves
<1>7. CASE Server
  <2>1. CASE TakeOutQueue
    BY <1>3, <2>1, Zenon DEF TakeOutQueue, NoSuchPeer, UnknownPacketType, SendStart, SendStartFails
  <2>2. CASE \E fd \in Fds : PeerEvent(fd)
    BY <1>2, <2>2, Zenon DEF PeerEvent, RecvPacket, RecvPart, PeerFails, SendContinue,
                             SendContinueNull, queueVars, appVars
  <2> QED
    BY <1>2, <1>4, <1>7, <2>1, <2>2, Zenon
    DEF Server, Setup, ThreadExit, AcceptPeer, RefusePeer, TakeCommand, ClosePeer, LoopDone,
        queueVars, appVars
<1>8. CASE App
  <2>1. CASE \E fd \in Fds, type \in CmdTypes, force \in BOOLEAN : AppCommand(fd, type, force)
    BY <1>5, <2>1, Zenon DEF AppCommand
  <2> QED BY <1>2, <1>6, <1>8, <2>1, Zenon DEF App, AppLearn, AppReceive, RequestExit, queueVars, appVars
<1>9. CASE Network \/ UNCHANGED vars
  BY <1>2, <1>9, Zenon DEF Network, NetStep, Connect, RemoteSend, RemoteDrain, RemoteClose,
                           vars, queueVars, appVars
<1> QED BY <1>7, <1>8, <1>9, Zenon DEF Next

\* What wire w has carried, and packet p that peers may go on with there, come
\* before all that waits in s and all requests from n on.
Resumes(w, p, s, n) == Before(p.id, s, n) /\ SentUpTo(w, p.id)

WiresOrdered ==
    \A c \in Conns : /\ Ordered(net[c].wire)
                     /\ AllBefore(net[c].wire, outQueue.items, nextId)

Unfinished ==
    \A fd \in Fds : IsLive(fd) /\ peers[fd].packToSend # None =>
        Resumes(net[peers[fd].conn].wire, peers[fd].packToSend, outQueue.items, nextId)

OrderInv == Queued /\ WiresOrdered /\ Unfinished

LEMMA AllBeforeKept ==
  ASSUME TInv, QueueMoves, NEW w \in Seq(Sending), AllBefore(w, outQueue.items, nextId)
  PROVE  AllBefore(w, outQueue'.items, nextId')
  BY BeforeKept, WireIds, Zenon DEF AllBefore

LEMMA ResumesKept ==
  ASSUME TInv, QueueMoves, NEW w, NEW p \in Request, Resumes(w, p, outQueue.items, nextId)
  PROVE  Resumes(w, p, outQueue'.items, nextId')
<1>1. p.id \in Nat
  BY DEF Request
<1> QED BY <1>1, BeforeKept, Zenon DEF Resumes

\* The wires stay; what each peer resumes is what it was, or is behind its wire.
LEMMA OrderKept ==
  ASSUME ConnInv, OrderInv, QueueMoves,
         \A c \in Conns : net'[c].wire = net[c].wire,
         \A f \in Fds : peers'[f] # None =>
             peers'[f].packToSend = None \/ (IsLive(f) /\ peers'[f] = peers[f])
  PROVE  OrderInv'
<1>1. TInv /\ TypeOK
  BY DEF ConnInv, TInv
<1>2. Queued'
  BY <1>1, QueuedStep, Zenon DEF OrderInv
<1>3. WiresOrdered'
  <2> SUFFICES ASSUME NEW c \in Conns
               PROVE  Ordered(net'[c].wire) /\ AllBefore(net'[c].wire, outQueue'.items, nextId')
    BY Zenon DEF WiresOrdered
  <2> QED BY <1>1, WireType, AllBeforeKept, Zenon DEF OrderInv, WiresOrdered
<1>4. Unfinished'
  <2> SUFFICES ASSUME NEW f \in Fds, peers'[f] # None, peers'[f].packToSend # None
               PROVE  Resumes(net'[peers'[f].conn].wire, peers'[f].packToSend,
                              outQueue'.items, nextId')
    BY Zenon DEF Unfinished, IsLive
  <2>1. IsLive(f) /\ peers'[f] = peers[f]
    BY Zenon
  <2>2. peers[f].conn \in Conns /\ peers[f].packToSend \in Request
    <3>1. peers[f] \in Peer
      BY <1>1, <2>1, LiveIsPeer
    <3> QED BY <2>1, <3>1 DEF Peer
  <2>3. Resumes(net[peers[f].conn].wire, peers[f].packToSend, outQueue.items, nextId)
    BY <2>1, Zenon DEF OrderInv, Unfinished
  <2>4. Resumes(net[peers[f].conn].wire, peers[f].packToSend, outQueue'.items, nextId')
    BY <1>1, <2>2, <2>3, ResumesKept, Zenon
  <2> QED BY <2>1, <2>2, <2>4, Zenon
<1> QED BY <1>2, <1>3, <1>4, Zenon DEF OrderInv

LEMMA OrderServes ==
  ASSUME ConnInv, OrderInv, QueueMoves, NEW fd \in Fds, NEW q, NEW k, Serves(fd, q, k),
         Ordered(k.wire), AllBefore(k.wire, outQueue'.items, nextId'),
         q.packToSend # None => Resumes(k.wire, q.packToSend, outQueue'.items, nextId')
  PROVE  OrderInv'
<1>1. TInv /\ TypeOK
  BY DEF ConnInv, TInv
<1>2. /\ peers'[fd] = q /\ q # None /\ q.conn \in Conns /\ q.conn = peers[fd].conn
      /\ \A f \in Fds : f # fd => peers'[f] = peers[f]
      /\ net'[q.conn] = k
      /\ \A c \in Conns : c # q.conn => net'[c] = net[c]
  BY ServesAt, Zenon DEF ConnInv
<1>3. Queued'
  BY <1>1, QueuedStep, Zenon DEF OrderInv
<1>4. WiresOrdered'
  <2> SUFFICES ASSUME NEW c \in Conns
               PROVE  Ordered(net'[c].wire) /\ AllBefore(net'[c].wire, outQueue'.items, nextId')
    BY Zenon DEF WiresOrdered
  <2>1. CASE c = q.conn
    BY <1>2, <2>1, Zenon
  <2>2. CASE c # q.conn
    <3>1. Ordered(net[c].wire) /\ AllBefore(net[c].wire, outQueue.items, nextId)
      BY Zenon DEF OrderInv, WiresOrdered
    <3>2. AllBefore(net[c].wire, outQueue'.items, nextId')
      BY <1>1, <3>1, WireType, AllBeforeKept, Zenon
    <3> QED BY <1>2, <2>2, <3>1, <3>2, Zenon
  <2> QED BY <2>1, <2>2
<1>5. Unfinished'
  <2> SUFFICES ASSUME NEW f \in Fds, peers'[f] # None, peers'[f].packToSend # None
               PROVE  Resumes(net'[peers'[f].conn].wire, peers'[f].packToSend,
                              outQueue'.items, nextId')
    BY Zenon DEF Unfinished, IsLive
  <2>1. CASE f = fd
    BY <1>2, <2>1, Zenon
  <2>2. CASE f # fd
    <3>1. /\ IsLive(f) /\ peers'[f] = peers[f] /\ peers[f].conn \in Conns
          /\ net'[peers[f].conn] = net[peers[f].conn]
      BY <2>2, ServesOthers, Zenon
    <3>2. peers[f].packToSend \in Request
      <4>1. peers[f] \in Peer
        BY <1>1, <3>1, LiveIsPeer
      <4> QED BY <3>1, <4>1 DEF Peer
    <3>3. Resumes(net[peers[f].conn].wire, peers[f].packToSend, outQueue.items, nextId)
      BY <3>1, Zenon DEF OrderInv, Unfinished
    <3>4. Resumes(net[peers[f].conn].wire, peers[f].packToSend, outQueue'.items, nextId')
      BY <1>1, <3>2, <3>3, ResumesKept, Zenon
    <3> QED BY <3>1, <3>4, Zenon
  <2> QED BY <2>1, <2>2
<1> QED BY <1>3, <1>4, <1>5, Zenon DEF OrderInv

\* More of packet p reaches the wire, behind all the wire has carried.
LEMMA OrderSends ==
  ASSUME ConnInv, OrderInv, QueueMoves, TypeOK',
         NEW fd \in Fds, NEW q, NEW k, NEW p, NEW n, NEW s,
         Sends(fd, q, k, p, n, s),
         Resumes(net[peers[fd].conn].wire, p, outQueue'.items, nextId')
  PROVE  OrderInv'
<1> DEFINE w == net[q.conn].wire
<1>1. /\ Serves(fd, q, k) /\ p \in Request /\ n \in Nat /\ k.wire = Sent(w, p, n)
      /\ q.packToSend = None \/ q.packToSend = p
      /\ IsLive(fd) /\ q.conn = peers[fd].conn /\ k \in Connection
  BY Zenon DEF Sends, Serves
<1>2. q.conn \in Conns /\ TypeOK
  BY <1>1, LiveIsPeer DEF ConnInv, TInv
<1>3. w \in Seq(Sending) /\ Ordered(w) /\ SentUpTo(w, p.id)
  BY <1>1, <1>2, WireType, Zenon DEF OrderInv, WiresOrdered, Resumes
<1> HIDE DEF w
<1>4. Ordered(k.wire) /\ SentUpTo(k.wire, p.id)
  BY <1>1, <1>3, SentOrdered, Zenon
<1>5. AllBefore(k.wire, outQueue'.items, nextId')
  <2> SUFFICES ASSUME NEW i \in 1..Len(k.wire)
               PROVE  Before(k.wire[i].id, outQueue'.items, nextId')
    BY Zenon DEF AllBefore
  <2> DEFINE id == k.wire[i].id
             v == outQueue'.items
  <2>1. k.wire \in Seq(Sending)
    BY <1>1 DEF Connection, Sending
  <2>2. id \in Nat /\ p.id \in Nat /\ id <= p.id
    <3>1. id \in Nat
      BY <2>1, WireIds
    <3>2. p.id \in Nat
      BY <1>1 DEF Request
    <3>3. id <= p.id
      BY <1>4, Zenon DEF SentUpTo
    <3> QED BY <3>1, <3>2, <3>3
  <2>3. p.id < nextId' /\ \A j \in 1..Len(v) : p.id < v[j].id
    BY Zenon DEF Resumes, Before
  <2>4. v \in Seq(Request) /\ nextId' \in Nat
    BY DEF TypeOK, QueueOf
  <2>5. \A j \in 1..Len(v) : v[j].id \in Nat
    BY <2>4, RequestIds, Zenon
  <2> HIDE DEF id, v
  <2>6. id < nextId'
    BY <2>2, <2>3, <2>4
  <2>7. \A j \in 1..Len(v) : id < v[j].id
    <3> SUFFICES ASSUME NEW j \in 1..Len(v) PROVE id < v[j].id
      OBVIOUS
    <3> DEFINE r == v[j].id
    <3>1. r \in Nat /\ p.id < r
      BY <2>3, <2>5, Zenon
    <3> HIDE DEF r
    <3>2. id < r
      BY <2>2, <3>1
    <3> QED BY <3>2 DEF r
  <2> QED BY <2>6, <2>7, Zenon DEF Before, id, v
<1> QED BY <1>1, <1>4, <1>5, OrderServes, Zenon DEF Resumes

LEMMA OrderStep ==
  ASSUME ConnInv, OrderInv, [Next]_vars
  PROVE  OrderInv'
<1>1. QueueMoves /\ TInv /\ TypeOK /\ TypeOK'
  <2>1. TInv'
    BY TInvStep DEF ConnInv
  <2> QED BY <2>1, QueueMovesAlways, Zenon DEF ConnInv, TInv
<1>2. ASSUME NEW fd \in Fds, NEW q, NEW k, Serves(fd, q, k), SameSending(fd, q, k)
      PROVE  OrderInv'
  <2>1. /\ q.packToSend = peers[fd].packToSend /\ k.wire = net[q.conn].wire
        /\ q.conn = peers[fd].conn /\ IsLive(fd)
    BY <1>2, Zenon DEF SameSending, Serves
  <2>2. q.conn \in Conns /\ peers[fd] \in Peer
    BY <1>1, <2>1, LiveIsPeer
  <2>3. Ordered(k.wire) /\ AllBefore(k.wire, outQueue'.items, nextId')
    BY <1>1, <2>1, <2>2, WireType, AllBeforeKept, Zenon DEF OrderInv, WiresOrdered
  <2>4. ASSUME q.packToSend # None
        PROVE  Resumes(k.wire, q.packToSend, outQueue'.items, nextId')
    <3>1. q.packToSend \in Request
      BY <2>1, <2>2, <2>4 DEF Peer
    <3>2. Resumes(k.wire, q.packToSend, outQueue.items, nextId)
      BY <2>1, <2>4, Zenon DEF OrderInv, Unfinished
    <3> QED BY <1>1, <3>1, <3>2, ResumesKept, Zenon
  <2> QED BY <1>1, <1>2, <2>3, <2>4, OrderServes, Zenon
<1>3. ASSUME OutQueueEvent
      PROVE  /\ NextPacket \in Request
             /\ \A c \in Conns : Resumes(net[c].wire, NextPacket, outQueue'.items, nextId')
  <2> DEFINE p == NextPacket
  <2>0. p \in Request
    BY <1>1, <1>3, OutQueueEventType DEF NextPacket
  <2>1. Before(p.id, outQueue'.items, nextId') /\ outQueue.items # <<>> /\ p = outQueue.items[1]
    <3>1. nextId' = nextId /\ outQueue \in QueueOf(Request) /\ QueueReadable(outQueue)
          /\ outQueue' = Pop(outQueue)
      BY <1>1, <1>3, Zenon DEF OutQueueEvent, appVars, TypeOK
    <3>2. outQueue.items # <<>> /\ outQueue'.items = Tail(outQueue.items)
      BY <3>1, PopType, Zenon
    <3>3. p = outQueue.items[1]
      BY <1>1, <3>2, ItemsType, RequestTaken DEF NextPacket
    <3> QED BY <1>1, <3>1, <3>2, <3>3, HeadBefore, Zenon DEF OrderInv
  <2>2. 1 \in 1..Len(outQueue.items)
    BY <1>1, <2>1, ItemsType, RequestTaken
  <2>3. ASSUME NEW c \in Conns PROVE SentUpTo(net[c].wire, p.id)
    <3> DEFINE w == net[c].wire
    <3> SUFFICES ASSUME NEW i \in 1..Len(w) PROVE w[i].id <= p.id
      BY Zenon DEF SentUpTo
    <3>1. w \in Seq(Sending)
      BY <1>1, WireType
    <3>2. w[i].id < p.id
      BY <2>1, <2>2, Zenon DEF OrderInv, WiresOrdered, AllBefore, Before
    <3>3. w[i].id \in Nat /\ p.id \in Nat
      <4>1. p.id \in Nat
        BY <2>0 DEF Request
      <4> QED BY <3>1, <4>1, WireIds
    <3> QED BY <3>2, <3>3
  <2> QED BY <2>0, <2>1, <2>3, Zenon DEF Resumes
<1>4. CASE UnknownPacketType
  <2> DEFINE p == NextPacket
  <2>1. OutQueueEvent /\ p.fd \in Fds
    BY <1>4, UnknownTypeServes, Zenon DEF UnknownPacketType
  <2> PICK q : Serves(p.fd, q, net[q.conn]) /\ q.packToSend = p
    BY <1>4, UnknownTypeServes, Zenon
  <2> DEFINE w == net[q.conn].wire
  <2>2. q.conn \in Conns
    BY ServesAt, <1>1, <2>1, Zenon
  <2>3. Ordered(w) /\ AllBefore(w, outQueue'.items, nextId')
    BY <1>1, <2>2, WireType, AllBeforeKept, Zenon DEF OrderInv, WiresOrdered
  <2>4. Resumes(w, p, outQueue'.items, nextId')
    BY <1>3, <2>1, <2>2, Zenon
  <2> HIDE DEF p
  <2> QED BY <1>1, <2>1, <2>3, <2>4, OrderServes, Zenon
<1>5. CASE SendStart
  <2> DEFINE p == NextPacket
  <2>1. OutQueueEvent /\ p.fd \in Fds
    BY <1>5, SendStartSends, Zenon DEF SendStart
  <2> PICK q, k : Sends(p.fd, q, k, p, FirstPart, FirstPart)
    BY <1>5, SendStartSends, Zenon
  <2>2. peers[p.fd].conn \in Conns
    <3>1. IsLive(p.fd)
      BY Zenon DEF Sends, Serves
    <3> QED BY <1>1, <2>1, <3>1, LiveIsPeer
  <2>3. Resumes(net[peers[p.fd].conn].wire, p, outQueue'.items, nextId')
    BY <1>3, <2>1, <2>2, Zenon
  <2> HIDE DEF p
  <2> QED BY <1>1, <2>1, <2>3, OrderSends, Zenon
<1>6. CASE \E fd \in Fds : RecvPacket(fd) \/ RecvPart(fd) \/ SendContinue(fd)
  <2> PICK fd \in Fds : RecvPacket(fd) \/ RecvPart(fd) \/ SendContinue(fd)
    BY <1>6
  <2>1. CASE RecvPacket(fd)
    BY <1>2, <2>1, RecvPacketReads, Zenon DEF ReadsMessage
  <2>2. CASE RecvPart(fd)
    BY <1>2, <2>2, RecvPartReads, Zenon DEF ReadsPart
  <2>3. CASE SendContinue(fd)
    <3> DEFINE p == peers[fd].packToSend
               n == NextPart(fd)
               s == peers[fd].bytesSent + n
    <3>1. \E q, k : Sends(fd, q, k, p, n, s)
      BY <2>3, SendContinueSends, Zenon
    <3>2. p # None /\ IsLive(fd)
      BY <2>3, Zenon DEF SendContinue, Writable
    <3>3. p \in Request
      <4>1. peers[fd] \in Peer
        BY <1>1, <3>2, LiveIsPeer
      <4> QED BY <3>2, <4>1 DEF Peer
    <3>4. Resumes(net[peers[fd].conn].wire, p, outQueue'.items, nextId')
      BY <1>1, <3>2, <3>3, ResumesKept, Zenon DEF OrderInv, Unfinished
    <3> HIDE DEF p, n, s
    <3> QED BY <1>1, <3>1, <3>4, OrderSends, Zenon
  <2> QED BY <2>1, <2>2, <2>3
<1>7. CASE \E fd \in Fds, c \in Conns : AcceptPeer(fd, c)
  <2> PICK fd \in Fds, c \in Conns : AcceptPeer(fd, c)
    BY <1>7
  <2>1. /\ peers'[fd] = NewPeer(c)
        /\ \A f \in Fds : f # fd => peers'[f] = peers[f]
        /\ net'[c].wire = net[c].wire
        /\ \A d \in Conns : d # c => net'[d] = net[d]
    BY AcceptAt, Zenon
  <2>2. NewPeer(c).packToSend = None
    BY DEF NewPeer
  <2>3. \A d \in Conns : net'[d].wire = net[d].wire
    BY <2>1, Zenon
  <2>4. \A f \in Fds : peers'[f] # None =>
            peers'[f].packToSend = None \/ (IsLive(f) /\ peers'[f] = peers[f])
    BY <2>1, <2>2, Zenon DEF IsLive
  <2> QED BY <1>1, <2>3, <2>4, OrderKept, Zenon
<1>8. CASE ~MovesData
  <2>1. Calm
    BY <1>8, OtherStepsCalm, Zenon
  <2>2. \A f \in Fds : peers'[f] # None => IsLive(f) /\ peers'[f] = peers[f]
    BY <2>1, Zenon DEF Calm, IsLive
  <2> QED BY <1>1, <2>1, <2>2, OrderKept, Zenon DEF Calm
<1> QED BY <1>4, <1>5, <1>6, <1>7, <1>8, Zenon DEF MovesData

LEMMA OrderInit == Init => OrderInv
<1> SUFFICES ASSUME Init PROVE OrderInv
  OBVIOUS
<1>1. outQueue.items = <<>> /\ \A c \in Conns : net[c].wire = <<>>
  BY DEF Init, NewQueue
<1>2. Queued
  <2>1. \A i \in 1..Len(outQueue.items) : FALSE
    BY <1>1
  <2> QED BY <2>1, Zenon DEF Queued, Ordered
<1>3. WiresOrdered
  <2>1. \A c \in Conns : \A i \in 1..Len(net[c].wire) : FALSE
    BY <1>1
  <2> QED BY <2>1, Zenon DEF WiresOrdered, Ordered, AllBefore
<1>4. Unfinished
  BY Zenon DEF Init, Unfinished, IsLive
<1> QED BY <1>2, <1>3, <1>4, Zenon DEF OrderInv

LEMMA OrderAlways == Spec => []OrderInv
  BY OrderInit, OrderStep, ConnInvAlways, PTL DEF Spec

(* Every client gets its packets in the order the application asked for     *)
(* them, none twice, however many clients share outQueue and however their  *)
(* unfinished packets displace each other.                                  *)
THEOREM ServerSentInOrder == Spec => []SentInOrder
<1>1. OrderInv => SentInOrder
  BY Zenon DEF OrderInv, WiresOrdered, Ordered, SentInOrder
<1> QED BY <1>1, OrderAlways, PTL

-----------------------------------------------------------------------------
(* A server of one client: PacketsSentWhole and ContinuesAPacket.           *)

LastId(w) == IF w = <<>> THEN 0 ELSE w[Len(w)].id

\* Every packet on wire w is whole, but for the last if it is open: of that
\* one s units are sent.
WireWhole(w, open, s) ==
    \A i \in 1..Len(w) : w[i].n = IF i = Len(w) /\ open THEN s ELSE PacketLen

AllButLastWhole(w) == \A i \in 1..(Len(w) - 1) : w[i].n = PacketLen

\* Peer p, whose wire is w, waits for EPOLLOUT with the last packet of w to
\* finish and outQueue unwatched, or has sent whole packets only.
PeerWhole(p, w, watched) ==
    /\ WireWhole(w, p.epollOut, p.bytesSent)
    /\ p.epollOut => /\ ~watched /\ p.packToSend # None
                     /\ w # <<>> /\ LastId(w) = p.packToSend.id

Alone ==
    /\ \A f, g \in Fds : IsLive(f) /\ IsLive(g) => f = g
    /\ pc \in {"setup", "exited"} => \A f \in Fds : ~IsLive(f)

WholeInv ==
    /\ Alone /\ PacketsSentWhole /\ ContinuesAPacket
    /\ \A fd \in Fds : IsLive(fd) =>
           PeerWhole(peers[fd], net[peers[fd].conn].wire, outQueueWatched)

LEMMA ClosedAllButLast ==
  ASSUME NEW w \in Seq(Sending), NEW open, NEW s, WireWhole(w, open, s)
  PROVE  AllButLastWhole(w)
<1> SUFFICES ASSUME NEW i \in 1..(Len(w) - 1) PROVE w[i].n = PacketLen
  BY Zenon DEF AllButLastWhole
<1>1. i \in 1..Len(w) /\ i # Len(w)
  BY LenProperties
<1> QED BY <1>1, Zenon DEF WireWhole

\* The first n units of packet p, of a later request than all w has carried.
LEMMA StartedWhole ==
  ASSUME NEW w \in Seq(Sending), NEW p \in Request, NEW n \in Nat, NEW s,
         WireWhole(w, FALSE, s), \A i \in 1..Len(w) : w[i].id < p.id,
         NEW open \in BOOLEAN, open \/ n = PacketLen
  PROVE  WireWhole(Sent(w, p, n), open, n)
<1> DEFINE x == [id |-> p.id, dest |-> p.dest, n |-> n]
           v == Append(w, x)
<1>1. Sent(w, p, n) = v
  <2>1. w # <<>> => w[Len(w)].id # p.id
    <3>1. CASE w # <<>>
      <4>1. Len(w) \in 1..Len(w)
        BY <3>1, EmptySeq
      <4>2. w[Len(w)].id < p.id /\ w[Len(w)].id \in Nat
        BY <4>1, WireIds, Zenon
      <4> QED BY <4>2
    <3> QED BY <3>1
  <2> QED BY <2>1, Zenon DEF Sent
<1>2. /\ Len(v) = Len(w) + 1 /\ v[Len(w) + 1] = x
      /\ \A i \in 1..Len(w) : v[i] = w[i]
      /\ Len(w) \in Nat
  BY AppendProperties
<1>3. x.n = n
  OBVIOUS
<1> HIDE DEF v, x
<1>4. ASSUME NEW i \in 1..Len(v)
      PROVE  v[i].n = IF i = Len(v) /\ open THEN n ELSE PacketLen
  <2>1. CASE i = Len(v)
    BY <1>2, <1>3, <2>1
  <2>2. CASE i # Len(v)
    <3>1. i \in 1..Len(w)
      BY <1>2, <2>2
    <3>2. w[i].n = PacketLen
      BY <3>1, Zenon DEF WireWhole
    <3> QED BY <1>2, <2>2, <3>1, <3>2
  <2> QED BY <2>1, <2>2
<1> QED BY <1>1, <1>4, Zenon DEF WireWhole

LEMMA ContinuedWhole ==
  ASSUME NEW w \in Seq(Sending), NEW p \in Request, NEW n \in Nat, NEW s \in Nat,
         WireWhole(w, TRUE, s), w # <<>>, LastId(w) = p.id,
         NEW open \in BOOLEAN, open \/ s + n = PacketLen
  PROVE  WireWhole(Sent(w, p, n), open, s + n)
<1> DEFINE l == Len(w)
           x == [w[l] EXCEPT !.n = w[l].n + n]
           v == [w EXCEPT ![l] = x]
<1>1. l \in 1..l /\ l \in Nat
  BY EmptySeq
<1>2. w[l] \in Sending /\ w[l].id = p.id /\ w[l].n = s
  BY <1>1, WireIds, Zenon DEF LastId, WireWhole
<1>3. Sent(w, p, n) = v
  BY <1>2, Zenon DEF Sent
<1>4. x.n = s + n
  BY <1>2, Zenon DEF Sending
<1> HIDE DEF x
<1>5. Len(v) = l /\ v[l] = x /\ (\A i \in 1..l : i # l => v[i] = w[i])
  BY <1>1
<1>6. ASSUME NEW i \in 1..Len(v)
      PROVE  v[i].n = IF i = Len(v) /\ open THEN s + n ELSE PacketLen
  <2>1. CASE i = l
    BY <1>4, <1>5, <2>1, Zenon
  <2>2. CASE i # l
    <3>1. w[i].n = PacketLen
      BY <1>5, <2>2, Zenon DEF WireWhole
    <3> QED BY <1>5, <2>2, <3>1
  <2> QED BY <2>1, <2>2
<1> QED BY <1>3, <1>6, Zenon DEF WireWhole

\* Steps that leave the wires alone and bring no peer.
LEMMA WholeCalm ==
  ASSUME ConnInv, WholeInv, Calm, pc' # "crashed",
         pc' \in {"setup", "exited"} => \A f \in Fds : peers'[f] = None,
         (\A f \in Fds : peers'[f] = None) \/ (outQueueWatched' => outQueueWatched)
  PROVE  WholeInv'
<1>1. \A f \in Fds : peers'[f] # None => IsLive(f) /\ peers'[f] = peers[f]
  BY Zenon DEF Calm, IsLive
<1>2. \A c \in Conns : net'[c].wire = net[c].wire
  BY Zenon DEF Calm
<1>3. Alone'
  <2>1. \A f, g \in Fds : peers'[f] # None /\ peers'[g] # None => f = g
    BY <1>1, Zenon DEF WholeInv, Alone
  <2> QED BY <2>1, Zenon DEF Alone, IsLive
<1>4. PacketsSentWhole'
  BY <1>2, Zenon DEF WholeInv, PacketsSentWhole
<1>5. ASSUME NEW f \in Fds, peers'[f] # None
      PROVE  PeerWhole(peers'[f], net'[peers'[f].conn].wire, outQueueWatched')
  <2>1. IsLive(f) /\ peers'[f] = peers[f] /\ (outQueueWatched' => outQueueWatched)
    BY <1>1, <1>5, Zenon
  <2>2. peers[f].conn \in Conns
    BY <2>1, LiveIsPeer DEF ConnInv, TInv
  <2>3. PeerWhole(peers[f], net[peers[f].conn].wire, outQueueWatched)
    BY <2>1, Zenon DEF WholeInv
  <2> QED BY <1>2, <2>1, <2>2, <2>3, Zenon DEF PeerWhole
<1> QED BY <1>3, <1>4, <1>5, Zenon DEF WholeInv, ContinuesAPacket, IsLive

LEMMA WholeServes ==
  ASSUME ConnInv, WholeInv, UNCHANGED pc, NEW fd \in Fds, NEW q, NEW k, Serves(fd, q, k),
         PeerWhole(q, k.wire, outQueueWatched')
  PROVE  WholeInv'
<1>1. /\ peers'[fd] = q /\ q # None /\ q.conn \in Conns /\ q.conn = peers[fd].conn
      /\ \A f \in Fds : f # fd => peers'[f] = peers[f]
      /\ net'[q.conn] = k
      /\ \A c \in Conns : c # q.conn => net'[c] = net[c]
  BY ServesAt, Zenon DEF ConnInv
<1>2. IsLive(fd) /\ k \in Connection
  BY Zenon DEF Serves
<1>3. \A f \in Fds : peers'[f] # None => f = fd
  BY <1>1, <1>2, Zenon DEF WholeInv, Alone, IsLive
<1>4. Alone'
  BY <1>2, <1>3, Zenon DEF WholeInv, Alone, IsLive
<1>5. AllButLastWhole(k.wire)
  <2>1. k.wire \in Seq(Sending)
    BY <1>2 DEF Connection, Sending
  <2> QED BY <2>1, ClosedAllButLast, Zenon DEF PeerWhole
<1>6. PacketsSentWhole'
  <2>1. ASSUME NEW c \in Conns PROVE AllButLastWhole(net'[c].wire)
    <3>1. AllButLastWhole(net[c].wire)
      BY Zenon DEF WholeInv, PacketsSentWhole, AllButLastWhole
    <3>2. CASE c = q.conn
      BY <1>1, <1>5, <3>2, Zenon
    <3>3. CASE c # q.conn
      BY <1>1, <3>1, <3>3, Zenon
    <3> QED BY <3>2, <3>3
  <2> QED BY <2>1, Zenon DEF PacketsSentWhole, AllButLastWhole
<1>7. \A f \in Fds : peers'[f] # None =>
          PeerWhole(peers'[f], net'[peers'[f].conn].wire, outQueueWatched')
  BY <1>1, <1>3, Zenon
<1> QED BY <1>4, <1>6, <1>7, Zenon DEF WholeInv, ContinuesAPacket, IsLive

\* With MaxPeers = 1 a client is accepted only when there is none.
LEMMA AcceptedAlone ==
  ASSUME MaxPeers = 1, ~TooManyPeers
  PROVE  \A f \in Fds : ~IsLive(f)
<1>1. IsFiniteSet(Live)
  BY ServerAssumption, FS_Subset DEF Live
<1>2. Cardinality(Live) \in Nat
  BY <1>1, FS_CardinalityType
<1>3. Cardinality(Live) = 0
  BY <1>2 DEF TooManyPeers
<1>4. Live = {}
  BY <1>1, <1>3, FS_EmptySet
<1> QED BY <1>4 DEF Live

LEMMA WholeAccept ==
  ASSUME MaxPeers = 1, ConnInv, WholeInv, NEW fd \in Fds, NEW c \in Conns, AcceptPeer(fd, c)
  PROVE  WholeInv'
<1>1. /\ peers'[fd] = NewPeer(c)
      /\ \A f \in Fds : f # fd => peers'[f] = peers[f]
      /\ net[c].link = "backlog" /\ net'[c].wire = net[c].wire
      /\ \A d \in Conns : d # c => net'[d] = net[d]
      /\ UNCHANGED <<pc, outQueueWatched>>
  BY AcceptAt, Zenon
<1>2. NewPeer(c).conn = c /\ ~NewPeer(c).epollOut
  BY DEF NewPeer
<1> HIDE DEF NewPeer
<1>3. pc = "loop"
  BY DEF AcceptPeer, Serving
<1>4. \A f \in Fds : peers'[f] # None => f = fd
  <2>1. \A f \in Fds : ~IsLive(f)
    BY AcceptedAlone, Zenon DEF AcceptPeer
  <2> QED BY <1>1, <2>1, Zenon DEF IsLive
<1>5. net'[c].wire = <<>>
  BY <1>1, Zenon DEF ConnInv, Untouched
<1>6. WireWhole(<<>>, NewPeer(c).epollOut, NewPeer(c).bytesSent)
  <2>1. \A i \in 1..Len(<<>>) : FALSE
    OBVIOUS
  <2> QED BY <2>1, Zenon DEF WireWhole
<1>7. \A f \in Fds : peers'[f] # None =>
          PeerWhole(peers'[f], net'[peers'[f].conn].wire, outQueueWatched')
  BY <1>1, <1>2, <1>4, <1>5, <1>6, Zenon DEF PeerWhole
<1>8. PacketsSentWhole'
  <2>1. \A d \in Conns : net'[d].wire = net[d].wire
    BY <1>1, Zenon
  <2> QED BY <2>1, Zenon DEF WholeInv, PacketsSentWhole
<1>9. Alone'
  <2>1. pc' \notin {"setup", "exited"}
    BY <1>1, <1>3
  <2> QED BY <1>4, <2>1, Zenon DEF Alone, IsLive
<1> QED BY <1>1, <1>7, <1>8, <1>9, Zenon DEF WholeInv, ContinuesAPacket, IsLive

\* What the steps that move no data do to the only peer and to outQueue.
LEMMA OtherStepsWhole ==
  ASSUME ConnInv, WholeInv, [Next]_vars, ~MovesData
  PROVE  /\ pc' # "crashed"
         /\ pc' \in {"setup", "exited"} => \A f \in Fds : peers'[f] = None
         /\ (\A f \in Fds : peers'[f] = None) \/ (outQueueWatched' => outQueueWatched)
<1> DEFINE Gone == \A f \in Fds : peers'[f] = None
<1>0. /\ \A f, g \in Fds : IsLive(f) /\ IsLive(g) => f = g
      /\ pc \in {"setup", "exited"} => \A f \in Fds : peers[f] = None
      /\ pc # "crashed"
  BY Zenon DEF WholeInv, Alone, ContinuesAPacket, IsLive
<1> SUFFICES /\ pc' # "crashed"
             /\ pc' \in {"setup", "exited"} => Gone
             /\ Gone \/ (outQueueWatched' => outQueueWatched)
  BY Zenon
<1>1. ASSUME NEW fd \in Fds, IsLive(fd), ErasePeer(fd) PROVE Gone
  <2>1. peers \in [Fds -> Peer \cup {None}] /\ peers' = [peers EXCEPT ![fd] = None]
    BY <1>1, Zenon DEF ErasePeer, ConnInv, TInv, TypeOK
  <2> QED BY <1>0, <1>1, <2>1, Zenon DEF IsLive
<1>2. CASE UNCHANGED <<pc, peers, outQueueWatched>>
  BY <1>0, <1>2, Zenon
<1>3. ASSUME UNCHANGED pc, Gone PROVE pc' # "crashed"
  BY <1>0, <1>3, Zenon
<1>4. CASE Setup
  <2>1. pc = "setup" /\ UNCHANGED peers /\ pc' # "crashed"
    BY <1>4 DEF Setup
  <2> QED BY <1>0, <2>1
<1>5. CASE ThreadExit
  <2>1. pc = "setup" /\ UNCHANGED peers /\ pc' # "crashed"
    BY <1>5 DEF ThreadExit
  <2> QED BY <1>0, <2>1
<1>6. CASE TakeOutQueue
  <2>1. CASE NoSuchPeer
    BY <1>2, <2>1, Zenon DEF NoSuchPeer, OutQueueEvent
  <2>2. CASE SendStartFails
    <3> DEFINE fd == Head(outQueue.items).fd
    <3>1. fd \in Fds /\ IsLive(fd) /\ ErasePeer(fd) /\ UNCHANGED pc
      BY <2>2, OutQueueEventType DEF SendStartFails, DropPeer, OutQueueEvent, ConnInv, Request
    <3> HIDE DEF fd
    <3> QED BY <1>0, <1>1, <3>1, Zenon
  <2> QED BY <1>6, <2>1, <2>2, Zenon DEF TakeOutQueue, MovesData
<1>7. CASE TakeCommand
  <2> DEFINE p == Head(outCmdQueue.items)
  <2>1. CASE IsLive(p.fd) /\ p.type = "CLOSE"
    <3>1. ErasePeer(p.fd) /\ UNCHANGED pc
      BY <1>7, <2>1, Zenon DEF TakeCommand, DropPeer
    <3>2. outCmdQueue \in QueueOf(Request) /\ QueueReadable(outCmdQueue)
      BY <1>7 DEF TakeCommand, ConnInv, TInv, TypeOK
    <3>3. p \in Request
      BY <3>2, PopType, Zenon
    <3>4. p.fd \in Fds
      BY <3>3 DEF Request
    <3> HIDE DEF p
    <3> QED BY <1>0, <1>1, <2>1, <3>1, <3>4, Zenon
  <2>2. CASE ~(IsLive(p.fd) /\ p.type = "CLOSE")
    BY <1>2, <1>7, <2>2, Zenon DEF TakeCommand
  <2> QED BY <2>1, <2>2
<1>8. CASE \E fd \in Fds : PeerEvent(fd)
  <2> PICK fd \in Fds : PeerEvent(fd)
    BY <1>8
  <2>1. CASE PeerFails(fd)
    <3>1. IsLive(fd) /\ ErasePeer(fd) /\ UNCHANGED pc
      BY <2>1, Zenon DEF PeerFails, DropPeer
    <3> QED BY <1>0, <1>1, <3>1, Zenon
  <2>2. CASE SendContinueNull(fd)
    <3>1. IsLive(fd) /\ peers[fd].epollOut /\ peers[fd].packToSend = None
      BY <2>2, Zenon DEF SendContinueNull, Writable
    <3> QED BY <3>1, Zenon DEF WholeInv, PeerWhole
  <2> QED BY <2>1, <2>2, Zenon DEF PeerEvent, MovesData
<1>9. CASE LeaveLoop
  <2>1. pc' = "closing" /\ outQueueWatched' = FALSE
    BY <1>9, Zenon DEF LeaveLoop
  <2> QED BY <2>1
<1>10. CASE \E fd \in Fds : ClosePeer(fd)
  <2> PICK fd \in Fds : ClosePeer(fd)
    BY <1>10
  <2>1. IsLive(fd) /\ ErasePeer(fd) /\ UNCHANGED pc
    BY Zenon DEF ClosePeer
  <2> QED BY <1>0, <1>1, <2>1, Zenon
<1>11. CASE LoopDone
  <2>1. pc' # "crashed" /\ UNCHANGED peers /\ Live = {}
    BY <1>11 DEF LoopDone
  <2>2. Gone
    BY <2>1, Zenon DEF Live, IsLive
  <2> QED BY <2>1, <2>2, Zenon
<1>12. CASE (\E c \in Conns : RefusePeer(c)) \/ App \/ Network \/ UNCHANGED vars
  BY <1>2, <1>12, Zenon
  DEF RefusePeer, App, AppLearn, AppReceive, AppSend, AppCommand, AppRequest, RequestExit,
      Network, NetStep, Connect, RemoteSend, RemoteDrain, RemoteClose, vars
<1> QED
  BY <1>4, <1>5, <1>6, <1>7, <1>8, <1>9, <1>10, <1>11, <1>12, Zenon DEF Next, Server, MovesData

LEMMA WholeStep ==
  ASSUME MaxPeers = 1, ConnInv, OrderInv, WholeInv, [Next]_vars
  PROVE  WholeInv'
<1>1. TypeOK
  BY DEF ConnInv, TInv
<1>2. ASSUME NEW fd \in Fds, NEW q, NEW k, Serves(fd, q, k), SameSending(fd, q, k),
             UNCHANGED <<pc, outQueueWatched>>
      PROVE  WholeInv'
  <2>1. /\ q.packToSend = peers[fd].packToSend /\ q.epollOut = peers[fd].epollOut
        /\ q.bytesSent = peers[fd].bytesSent
        /\ k.wire = net[peers[fd].conn].wire /\ IsLive(fd)
    BY <1>2, Zenon DEF SameSending, Serves
  <2>2. PeerWhole(q, k.wire, outQueueWatched')
    BY <1>2, <2>1, Zenon DEF WholeInv, PeerWhole
  <2> QED BY <1>2, <2>2, WholeServes, Zenon
<1>3. ASSUME NEW fd \in Fds, IsLive(fd), outQueueWatched
      PROVE  /\ ~peers[fd].epollOut
             /\ WireWhole(net[peers[fd].conn].wire, FALSE, peers[fd].bytesSent)
  <2>1. PeerWhole(peers[fd], net[peers[fd].conn].wire, outQueueWatched)
    BY <1>3, Zenon DEF WholeInv
  <2>2. ~peers[fd].epollOut /\ peers[fd].epollOut \in BOOLEAN
    <3>1. peers[fd] \in Peer
      BY <1>1, <1>3, LiveIsPeer
    <3> QED BY <1>3, <2>1, <3>1, Zenon DEF PeerWhole, Peer
  <2>3. peers[fd].epollOut = FALSE
    BY <2>2
  <2> QED BY <2>1, <2>3, Zenon DEF PeerWhole
<1>4. CASE UnknownPacketType
  <2> DEFINE p == NextPacket
  <2>1. outQueueWatched /\ p.fd \in Fds /\ UNCHANGED <<pc, outQueueWatched>>
    BY <1>4, UnknownTypeServes, Zenon DEF UnknownPacketType, OutQueueEvent
  <2> PICK q : /\ Serves(p.fd, q, net[q.conn])
               /\ q.bytesSent = peers[p.fd].bytesSent /\ q.epollOut = peers[p.fd].epollOut
    BY <1>4, UnknownTypeServes, Zenon
  <2>2. IsLive(p.fd) /\ q.conn = peers[p.fd].conn
    BY Zenon DEF Serves
  <2>3. ~q.epollOut /\ WireWhole(net[q.conn].wire, FALSE, q.bytesSent)
    BY <1>3, <2>1, <2>2, Zenon
  <2>4. WireWhole(net[q.conn].wire, q.epollOut, q.bytesSent)
    BY <2>3, Zenon DEF WireWhole
  <2>5. PeerWhole(q, net[q.conn].wire, outQueueWatched')
    BY <2>3, <2>4, Zenon DEF PeerWhole
  <2> HIDE DEF p
  <2> QED BY <2>1, <2>5, WholeServes, Zenon
<1>5. CASE SendStart
  <2> DEFINE p == NextPacket
             n == FirstPart
  <2>1. outQueueWatched /\ p.fd \in Fds /\ UNCHANGED pc /\ QueueReadable(outQueue)
    BY <1>5, SendStartSends, Zenon DEF SendStart, OutQueueEvent
  <2> PICK q, k : /\ Sends(p.fd, q, k, p, n, n)
                  /\ q.epollOut = (peers[p.fd].epollOut \/ n # PacketLen)
                  /\ outQueueWatched' = (outQueueWatched /\ n = PacketLen)
    BY <1>5, SendStartSends, Zenon
  <2> DEFINE w == net[q.conn].wire
  <2>2. /\ Serves(p.fd, q, k) /\ p \in Request /\ n \in Nat /\ k.wire = Sent(w, p, n)
        /\ q.packToSend = (IF n = PacketLen THEN None ELSE p) /\ q.bytesSent = n
        /\ IsLive(p.fd) /\ q.conn = peers[p.fd].conn
    BY Zenon DEF Sends, Serves
  <2>3. ~peers[p.fd].epollOut /\ WireWhole(w, FALSE, peers[p.fd].bytesSent)
    BY <1>3, <2>1, <2>2, Zenon
  <2>4. q.conn \in Conns /\ w \in Seq(Sending)
    BY <1>1, <2>1, <2>2, LiveIsPeer, WireType
  <2>5. \A i \in 1..Len(w) : w[i].id < p.id
    <3>1. p = outQueue.items[1] /\ 1 \in 1..Len(outQueue.items)
      <4>1. outQueue.items \in Seq(Request) /\ outQueue.items # <<>>
        BY <2>1, ItemsType DEF QueueReadable, ConnInv
      <4> QED BY <4>1, RequestTaken DEF NextPacket
    <3> QED BY <2>4, <3>1, Zenon DEF OrderInv, WiresOrdered, AllBefore, Before
  <2> HIDE DEF w, n, p
  <2>6. q.epollOut = (n # PacketLen)
    BY <2>3
  <2>7. WireWhole(k.wire, q.epollOut, q.bytesSent)
    <3>1. q.epollOut \in BOOLEAN /\ (q.epollOut \/ n = PacketLen)
      BY <2>6
    <3> QED BY <2>2, <2>3, <2>4, <2>5, <3>1, StartedWhole, Zenon
  <2>8. q.epollOut => ~outQueueWatched' /\ q.packToSend # None
    <3>1. p # None
      BY <2>2, NoneAssumption
    <3> QED BY <2>2, <2>6, <3>1
  <2>9. k.wire # <<>> /\ LastId(k.wire) = p.id
    <3>1. Ordered(w) /\ SentUpTo(w, p.id)
      <4>1. p.id \in Nat
        BY <2>2 DEF Request
      <4>2. \A i \in 1..Len(w) : w[i].id <= p.id
        <5> SUFFICES ASSUME NEW i \in 1..Len(w) PROVE w[i].id <= p.id
          OBVIOUS
        <5>1. w[i].id \in Nat /\ w[i].id < p.id
          BY <2>4, <2>5, WireIds, Zenon
        <5> QED BY <4>1, <5>1
      <4> QED BY <2>4, <4>2, Zenon DEF OrderInv, WiresOrdered, SentUpTo, w
    <3> DEFINE v == Sent(w, p, n)
    <3>2. v # <<>> /\ v[Len(v)].id = p.id
      BY <2>2, <2>4, <3>1, SentOrdered, Zenon
    <3> HIDE DEF v
    <3>3. LastId(v) = p.id
      BY <3>2, Zenon DEF LastId
    <3> QED BY <2>2, <3>2, <3>3, Zenon DEF v
  <2>10. PeerWhole(q, k.wire, outQueueWatched')
    <3>1. q.epollOut => q.packToSend = p
      BY <2>2, <2>6
    <3> QED BY <2>7, <2>8, <2>9, <3>1, Zenon DEF PeerWhole
  <2> QED BY <2>1, <2>2, <2>10, WholeServes, Zenon
<1>6. CASE \E fd \in Fds : RecvPacket(fd) \/ RecvPart(fd) \/ SendContinue(fd)
  <2> PICK fd \in Fds : RecvPacket(fd) \/ RecvPart(fd) \/ SendContinue(fd)
    BY <1>6
  <2>1. CASE RecvPacket(fd)
    <3>1. UNCHANGED <<pc, outQueueWatched>>
      BY <2>1, Zenon DEF RecvPacket
    <3> QED BY <1>2, <2>1, <3>1, RecvPacketReads, Zenon DEF ReadsMessage
  <2>2. CASE RecvPart(fd)
    <3>1. UNCHANGED <<pc, outQueueWatched>>
      BY <2>2, Zenon DEF RecvPart
    <3> QED BY <1>2, <2>2, <3>1, RecvPartReads, Zenon DEF ReadsPart
  <2>3. CASE SendContinue(fd)
    <3> DEFINE p == peers[fd].packToSend
               n == NextPart(fd)
               t == peers[fd].bytesSent
               s == t + n
    <3>1. UNCHANGED pc /\ peers[fd].epollOut
      BY <2>3, SendContinueSends, Zenon
    <3> PICK q, k : /\ Sends(fd, q, k, p, n, s) /\ q.epollOut = (s # PacketLen)
                    /\ outQueueWatched' = (outQueueWatched \/ s = PacketLen)
      BY <2>3, SendContinueSends, Zenon
    <3> DEFINE w == net[q.conn].wire
    <3>2. /\ Serves(fd, q, k) /\ p \in Request /\ n \in Nat /\ k.wire = Sent(w, p, n)
          /\ q.packToSend = (IF s = PacketLen THEN None ELSE p) /\ q.bytesSent = s
          /\ IsLive(fd) /\ q.conn = peers[fd].conn
      BY Zenon DEF Sends, Serves
    <3>3. /\ ~outQueueWatched /\ w # <<>> /\ LastId(w) = p.id
          /\ WireWhole(w, peers[fd].epollOut, t)
      BY <3>1, <3>2, Zenon DEF WholeInv, PeerWhole
    <3>4. t \in Nat /\ peers[fd].epollOut \in BOOLEAN /\ q.conn \in Conns /\ w \in Seq(Sending)
      <4>1. peers[fd] \in Peer /\ q.conn \in Conns
        BY <1>1, <3>2, LiveIsPeer
      <4>2. t \in Nat /\ peers[fd].epollOut \in BOOLEAN
        BY <4>1, ServerAssumption DEF Peer
      <4> QED BY <1>1, <4>1, <4>2, WireType
    <3>5. WireWhole(w, TRUE, t)
      <4>1. peers[fd].epollOut = TRUE
        BY <3>1, <3>4
      <4> QED BY <3>3, <4>1, Zenon
    <3>6. Ordered(w) /\ SentUpTo(w, p.id)
      <4>1. p # None
        BY <3>2, NoneAssumption
      <4> QED BY <3>2, <3>4, <4>1, Zenon DEF OrderInv, WiresOrdered, Unfinished, Resumes
    <3> HIDE DEF w, p, n, t
    <3>7. WireWhole(k.wire, q.epollOut, q.bytesSent)
      <4>1. q.epollOut \in BOOLEAN /\ (q.epollOut \/ t + n = PacketLen)
        OBVIOUS
      <4> QED BY <3>2, <3>3, <3>4, <3>5, <4>1, ContinuedWhole, Zenon
    <3>8. q.epollOut => ~outQueueWatched' /\ q.packToSend = p /\ p # None
      BY <3>2, <3>3, NoneAssumption
    <3>9. k.wire # <<>> /\ LastId(k.wire) = p.id
      <4> DEFINE v == Sent(w, p, n)
      <4>1. v # <<>> /\ v[Len(v)].id = p.id
        BY <3>2, <3>4, <3>6, SentOrdered, Zenon
      <4> HIDE DEF v
      <4>2. LastId(v) = p.id
        BY <4>1, Zenon DEF LastId
      <4> QED BY <3>2, <4>1, <4>2, Zenon DEF v
    <3>10. PeerWhole(q, k.wire, outQueueWatched')
      BY <3>7, <3>8, <3>9, Zenon DEF PeerWhole
    <3> QED BY <3>1, <3>2, <3>10, WholeServes, Zenon
  <2> QED BY <2>1, <2>2, <2>3
<1>7. CASE \E fd \in Fds, c \in Conns : AcceptPeer(fd, c)
  BY <1>7, WholeAccept, Zenon
<1>8. CASE ~MovesData
  BY <1>8, OtherStepsCalm, OtherStepsWhole, WholeCalm, Zenon
<1> QED BY <1>4, <1>5, <1>6, <1>7, <1>8, Zenon DEF MovesData

LEMMA WholeInit == Init => WholeInv
<1> SUFFICES ASSUME Init PROVE WholeInv
  OBVIOUS
<1>1. (\A c \in Conns : net[c].wire = <<>>) /\ \A f \in Fds : ~IsLive(f)
  BY Zenon DEF Init, IsLive
<1>2. PacketsSentWhole
  <2>1. \A c \in Conns : \A i \in 1..(Len(net[c].wire) - 1) : FALSE
    BY <1>1
  <2> QED BY <2>1, Zenon DEF PacketsSentWhole
<1>3. pc # "crashed"
  BY DEF Init
<1> QED BY <1>1, <1>2, <1>3, Zenon DEF WholeInv, Alone, ContinuesAPacket

LEMMA WholeAlways ==
  ASSUME MaxPeers = 1
  PROVE  Spec => []WholeInv
<1>1. ConnInv /\ OrderInv /\ WholeInv /\ [Next]_vars => WholeInv'
  BY WholeStep
<1> QED BY <1>1, WholeInit, ConnInvAlways, OrderAlways, PTL DEF Spec

(* With one client at a time, no client receives part of a packet followed  *)
(* by another packet.                                                       *)
THEOREM OnePeerSendsWhole ==
  ASSUME MaxPeers = 1
  PROVE  Spec => []PacketsSentWhole
<1>1. WholeInv => PacketsSentWhole
  BY DEF WholeInv
<1> QED BY <1>1, WholeAlways, PTL

(* With one client at a time, the server never continues a packet that is   *)
(* not there, so its thread does not crash.                                 *)
THEOREM OnePeerContinuesAPacket ==
  ASSUME MaxPeers = 1
  PROVE  Spec => []ContinuesAPacket
<1>1. WholeInv => ContinuesAPacket
  BY DEF WholeInv
<1> QED BY <1>1, WholeAlways, PTL
=============================================================================
