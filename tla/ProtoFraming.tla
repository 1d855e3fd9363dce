---------------------------- MODULE ProtoFraming ----------------------------
(***************************************************************************)
(* The bytes between a ProtoClientSocket and a ProtoServerSocket's peer:   *)
(* a packet is a header of four bytes, the length with the top bit for     *)
(* "compressed", least significant byte first, and the packet's bytes.     *)
(* Each end has one thread, whose send_packet and recv_packet stop where   *)
(* the kernel has no more room or bytes and are called again; one call of  *)
(* either is one action.                                                   *)
(*                                                                         *)
(* ClientChannel and TcpServer model the loops around these two methods    *)
(* with several channels, clients and descriptors; here there is one       *)
(* connection at a time, and the counters are not shared.                  *)
(***************************************************************************)
EXTENDS Integers, Sequences

CONSTANTS Lens,         \* lengths of the application's packets
          MaxPacket,    \* the longest packet a receiver accepts (1 MB in the code)
          SndBuf,       \* bytes that fit between two ends
          MaxMessages,  \* bound on the packets of both ends over one connection
          MaxConns      \* bound on the connections

\* A length is 31 bits, the top bit of the header is the mark.
MaxLen == 2147483647

ASSUME FramingAssumption ==
    /\ Lens \subseteq 0..MaxLen
    /\ MaxPacket \in Nat
    /\ SndBuf \in Nat \ {0}
    /\ MaxMessages \in Nat
    /\ MaxConns \in Nat \ {0}

HeaderLen == 4

Message == [len : Lens, zipped : BOOLEAN]

VARIABLES conn,       \* number of the connection
          end,        \* end[e]: the thread of one end and its counters
          wire,       \* wire[e]: bytes end e sent that the other has not read
          taken,      \* taken[e]: packets end e took off its outQueue
          delivered   \* delivered[e]: packets of end e that the other end got

vars == <<conn, end, wire, taken, delivered>>

Link == INSTANCE MessageLink

Ends == Link!Ends

Other(e) == Link!Other(e)

End == [closed : BOOLEAN,
        unfinished : BOOLEAN,                 \* waits for room, not for outQueue
        bytesSent : Nat,
        rcvState : {"IO_START", "IO_CONTINUE"},
        got : Seq(0..255),                    \* bytesRecvd of them, packLen in the first
        zipflag : BOOLEAN]

NewEnd == [closed |-> FALSE, unfinished |-> FALSE, bytesSent |-> 0,
           rcvState |-> "IO_START", got |-> <<>>, zipflag |-> FALSE]

Init ==
    /\ conn = 1
    /\ end = [e \in Ends |-> NewEnd]
    /\ wire = Link!Nothing
    /\ taken = Link!Nothing
    /\ delivered = Link!Nothing

Lesser(a, b) == IF a <= b THEN a ELSE b

-----------------------------------------------------------------------------
(* What is on the wire.                                                     *)

\* packLen in memory.
Header(len, zipped) ==
    LET second == len \div 256
        third  == second \div 256
        fourth == third \div 256
    IN <<len % 256, second % 256, third % 256, fourth + (IF zipped THEN 128 ELSE 0)>>

\* The bytes of the nth packet tell it from every other.
BodyByte(n, i) == (40 * conn + 10 * n + i) % 256

\* What send_packet sends of the nth packet m, byte by byte.
Image(m, n, zipped) ==
    [i \in 1..(HeaderLen + m.len) |->
        IF i <= HeaderLen THEN Header(m.len, zipped)[i] ELSE BodyByte(n, i - HeaderLen)]

\* Mutation: the bytes are taken in network order.
PackLenSwapped(got) == (got[4] % 128) + 256 * (got[3] + 256 * (got[2] + 256 * got[1]))

\* What recv_packet makes of the first four bytes.
PackLen(got) == got[1] + 256 * (got[2] + 256 * (got[3] + 256 * (got[4] % 128)))

ZippedBit(got) == got[4] >= 128

-----------------------------------------------------------------------------
(* Sending.                                                                 *)

Room(e) == SndBuf - Len(wire[e])

\* send_packet goes on with packet m, the nth, after sent bytes, until all
\* is sent or send() returns EAGAIN.
SendPacket(e, m, n, sent, zipped) ==
    LET all == HeaderLen + m.len
        now == Lesser(sent + Room(e), all)
    IN /\ wire' = [wire EXCEPT ![e] = @ \o SubSeq(Image(m, n, zipped), sent + 1, now)]
       /\ end' = [end EXCEPT ![e].bytesSent = now, ![e].unfinished = now < all]

\* The server compresses when it is told to, the client when the server did too.
MarkOf(e, m) == m.zipped /\ (e = "client" => end[e].zipflag)

SendStart(e) ==
    /\ ~end[e].closed /\ ~end[e].unfinished
    /\ Len(taken[e]) + Len(taken[Other(e)]) < MaxMessages
    /\ \E m \in Message :
           /\ taken' = [taken EXCEPT ![e] = Append(@, m)]
           /\ SendPacket(e, m, Len(taken[e]) + 1, 0, MarkOf(e, m))
    /\ UNCHANGED <<conn, delivered>>

\* Mutation: only what was sent of the header is remembered.
ResumeAtBody(e) == Lesser(end[e].bytesSent, HeaderLen)

\* Where send_packet goes on.
ResumeAt(e) == end[e].bytesSent

\* EPOLLOUT: the call has IO_CONTINUE and no zipped.
SendContinue(e) ==
    /\ ~end[e].closed /\ end[e].unfinished
    /\ Room(e) > 0
    /\ LET n == Len(taken[e]) IN SendPacket(e, taken[e][n], n, ResumeAt(e), FALSE)
    /\ UNCHANGED <<conn, taken, delivered>>

-----------------------------------------------------------------------------
(* Receiving.                                                               *)

HeaderRead(got) == Len(got) >= HeaderLen

TooLong(got) == HeaderRead(got) /\ PackLen(got) > MaxPacket

Complete(got) == HeaderRead(got) /\ Len(got) = HeaderLen + PackLen(got)

\* recv() is never asked for more than the header, or the packet it announces.
WithinPacket(got) ==
    Len(got) <= HeaderLen \/ (~TooLong(got) /\ Len(got) <= HeaderLen + PackLen(got))

\* Mutation: what the server announced holds for the next connection.
LeftKeepsFlag(e) == [NewEnd EXCEPT !.closed = TRUE, !.zipflag = end[e].zipflag]

\* End e leaves: its socket is closed and what it was doing is forgotten.
Left(e) == [NewEnd EXCEPT !.closed = TRUE]

\* A packet as the receiver's application sees it; length -1 stands for bytes
\* that are not those of the packet it should be.
PacketOf(e, got) ==
    LET n    == Len(delivered[Other(e)]) + 1
        body == SubSeq(got, HeaderLen + 1, Len(got))
    IN [len |-> IF \A i \in 1..Len(body) : body[i] = BodyByte(n, i) THEN Len(body) ELSE -1,
        zipped |-> ZippedBit(got)]

\* What recv_packet has when it is called.
ReadBefore(e) == IF end[e].rcvState = "IO_START" THEN <<>> ELSE end[e].got

\* With k more bytes.
GotWith(e, k) == ReadBefore(e) \o SubSeq(wire[Other(e)], 1, k)

\* Mutation: while a packet is unfinished, EPOLLOUT alone is waited for.
WatchesInWhenIdle(e) == ~end[e].closed /\ ~end[e].unfinished

\* EPOLLIN is always waited for.
WatchesIn(e) == ~end[e].closed

\* EPOLLIN, and recv_packet until the packet is complete, is too long, or
\* what is on the wire is not here yet: k bytes are read.
RecvPacket(e) ==
    /\ WatchesIn(e)
    /\ \E k \in {k \in 1..Len(wire[Other(e)]) : WithinPacket(GotWith(e, k))} :
           LET got == GotWith(e, k)
               read == [end[e] EXCEPT
                           !.got = IF Complete(got) THEN <<>> ELSE got,
                           !.zipflag = @ \/ (HeaderRead(got) /\ ZippedBit(got)),
                           !.rcvState = IF Complete(got) THEN "IO_START" ELSE "IO_CONTINUE"]
           IN /\ wire' = [wire EXCEPT ![Other(e)] = SubSeq(@, k + 1, Len(@))]
              /\ end' = [end EXCEPT ![e] = IF TooLong(got) THEN Left(e) ELSE read]
              /\ delivered' = IF Complete(got) /\ ~TooLong(got)
                              THEN [delivered EXCEPT ![Other(e)] = Append(@, PacketOf(e, got))]
                              ELSE delivered
    /\ UNCHANGED <<conn, taken>>

-----------------------------------------------------------------------------
(* The end of a connection, and the next one.                               *)

\* A CLOSE command, a failure of recv or send, or the other end has left,
\* noticed before or after all that it sent was read.
Leave(e) ==
    /\ ~end[e].closed
    /\ end' = [end EXCEPT ![e] = Left(e)]
    /\ UNCHANGED <<conn, wire, taken, delivered>>

\* A new TcpPeerSocket at the server; the client's object is the same one.
Reconnect ==
    /\ \A e \in Ends : end[e].closed
    /\ conn < MaxConns
    /\ conn' = conn + 1
    /\ end' = [e \in Ends |-> [end[e] EXCEPT !.closed = FALSE]]
    /\ wire' = Link!Nothing
    /\ taken' = Link!Nothing
    /\ delivered' = Link!Nothing

Step(e) == SendStart(e) \/ SendContinue(e) \/ RecvPacket(e) \/ Leave(e)

Next == (\E e \in Ends : Step(e)) \/ Reconnect

Spec == Init /\ [][Next]_vars

(* Each thread runs, serves EPOLLIN and EPOLLOUT in rotation, and the       *)
(* network brings the bytes.                                                *)
Fairness == \A e \in Ends : WF_vars(SendContinue(e)) /\ WF_vars(RecvPacket(e))

FairSpec == Spec /\ Fairness

-----------------------------------------------------------------------------
(* Properties.                                                              *)

TypeOK ==
    /\ conn \in 1..MaxConns
    /\ end \in [Ends -> End]
    /\ wire \in [Ends -> Seq(0..255)]
    /\ \A e \in Ends : Len(wire[e]) <= SndBuf
    /\ taken \in [Ends -> Seq(Message)]
    /\ delivered \in [Ends -> Seq(Message)]

(* However the bytes are cut, packets arrive whole, in order and as they    *)
(* were sent, except that a mark may be lost, and the client marks nothing  *)
(* before the server did on this connection.                                *)
ImplementsLink == Link!LinkSpec

(* An end gives a connection up over a length only when the packet's        *)
(* length is too long: the ends never disagree on where a header begins.    *)
RefusesOnlyTooLong ==
    [][\A e \in Ends :
           ~end[e].closed /\ end'[e].closed /\ wire' # wire =>
               taken[Other(e)][Len(delivered[Other(e)]) + 1].len > MaxPacket]_vars

(* Two ends that send more than the wire holds do not wait for each other   *)
(* for ever: every packet taken that the receiver accepts arrives, or an    *)
(* end leaves.                                                              *)
DeliveredOrLeft ==
    \A e \in Ends : \A n \in 1..MaxMessages :
        Len(taken[e]) >= n ~> (Len(delivered[e]) >= n \/ \E f \in Ends : end[f].closed)
=============================================================================
