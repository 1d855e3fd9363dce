------------------------- MODULE DeviceChannelProofs -------------------------
(***************************************************************************)
(* A channel without connections, of any kind, with buffers of any size    *)
(* and any number of others of its kind: while its pool is there, what it  *)
(* has announced leaves the application with the right belief; its output  *)
(* is not stuck while it serves; what it received and did not lose reaches *)
(* the application in order and once; what it sends goes out in order, and *)
(* whole if it is alone.                                                   *)
(***************************************************************************)
EXTENDS DeviceChannel, MessageQueueProofs, Integers

(* Types as far as the proofs need them: counters are integers.             *)
LooseChannel == [kind : {"udp", "com", "virtual"},
                 pc : {"start", "top", "opened", "loop", "turn", "sending", "counted",
                       "returning", "failed", "cleanup", "exited"},
                 owner : {"alive", "closing", "idle", "join", "joined"},
                 exit : BOOLEAN, busy : BOOLEAN, epollOpen : BOOLEAN,
                 outQueueWatched : BOOLEAN, epollOut : BOOLEAN,
                 packToSend : Request \cup {None}, at : Nat, callback : BOOLEAN,
                 pool : BOOLEAN]

ChanOK == chan \in LooseChannel

Parts == [id : 1..MaxRequests, from : 0..PacketLen, upto : 0..PacketLen]

LooseDevice == [open : BOOLEAN, hungUp : BOOLEAN, rxSent : Int, rxRead : Int, room : Int,
                wire : Seq(Parts)]

DevOK == dev \in LooseDevice

StaticOK == static \in Static

LooseReceived == [from : Int, upto : Int]

QueuesOK ==
    queues \in [in : QueueOf(LooseReceived), out : QueueOf(Request),
                inCmd : QueueOf({"OPEN", "CLOSE"}), outCmd : QueueOf(MessageType)]

AppOK == app \in [view : {"OPEN", "CLOSE"}, nextId : 1..(MaxRequests + 1), got : Int]

\* Announcements of the loop under way are not lost.
FeedStarted == chan.owner = "alive" /\ chan.pool /\ InLoop => queues.inCmd.started

\* A call of send_packet is under way.
InCall(c) == c.pc \in {"turn", "sending", "counted", "returning"}

\* A port in use is open, and who waits for room has something to send.
SendState ==
    /\ chan.kind = "com" /\ (InLoop \/ chan.pc = "opened") => dev.open
    /\ chan.epollOut => chan.packToSend # None /\ chan.kind # "virtual"
    /\ InCall(chan) => chan.packToSend # None /\ chan.kind # "virtual"
    /\ chan.owner = "alive" /\ chan.pc = "loop" /\ ~chan.outQueueWatched =>
           (chan.epollOut /\ chan.packToSend # None) \/ SelfClosed

\* What is taken from outQueue is a packet.
LEMMA TakenPacket ==
  ASSUME QueuesOK, NEW types, OutQueueEvent(types)
  PROVE  NextPacket \in Request /\ NextPacket # None
  BY DeviceAssumption, PopType DEF QueuesOK, OutQueueEvent, NextPacket

\* The other channels of the kind touch nothing but what is static.
LEMMA OthersOnly ==
  ASSUME Others
  PROVE  UNCHANGED <<chan, queues, app, dev>>
  BY Zenon DEF Others, OtherStarts, OtherSends, OtherFails, OtherStep

-----------------------------------------------------------------------------
(* A turn of send_packet.                                                   *)

\* What a step of send_packet leaves alone.
TurnKeeps ==
    /\ chan'.kind = chan.kind /\ chan'.owner = chan.owner /\ chan'.pool = chan.pool
    /\ chan'.epollOpen = chan.epollOpen /\ chan'.packToSend = chan.packToSend

\* The call goes on, or ends in one of three ways.
TurnLeaves ==
    \/ InCall(chan')
       /\ chan'.outQueueWatched = chan.outQueueWatched /\ chan'.epollOut = chan.epollOut
    \/ chan'.pc = "loop" /\ chan'.outQueueWatched = TRUE /\ chan'.epollOut = FALSE
    \/ chan'.pc = "loop" /\ chan'.outQueueWatched = FALSE /\ chan'.epollOut = dev'.open
    \/ chan'.pc = "failed"
       /\ chan'.outQueueWatched = chan.outQueueWatched /\ chan'.epollOut = chan.epollOut

LEMMA CallGoesOn ==
  ASSUME ChanOK, NEW pc \in {"turn", "sending", "counted", "returning"}, NEW at \in Nat,
         \/ chan' = [chan EXCEPT !.pc = pc, !.at = at]
         \/ chan' = [chan EXCEPT !.pc = pc] /\ at = chan.at
  PROVE  ChanOK' /\ TurnKeeps /\ TurnLeaves /\ chan'.pc = pc /\ chan'.at = at
<1>1. pc \in {"start", "top", "opened", "loop", "turn", "sending", "counted", "returning",
              "failed", "cleanup", "exited"}
  OBVIOUS
<1>2. /\ chan' \in LooseChannel /\ TurnKeeps /\ chan'.pc = pc /\ chan'.at = at
      /\ chan'.outQueueWatched = chan.outQueueWatched /\ chan'.epollOut = chan.epollOut
  <2>1. CASE chan' = [chan EXCEPT !.pc = pc, !.at = at]
    BY <1>1, <2>1, Zenon DEF ChanOK, LooseChannel, TurnKeeps
  <2>2. CASE chan' = [chan EXCEPT !.pc = pc] /\ at = chan.at
    BY <1>1, <2>2, Zenon DEF ChanOK, LooseChannel, TurnKeeps
  <2> QED BY <2>1, <2>2
<1> QED BY <1>2, Zenon DEF TurnLeaves, InCall, ChanOK

\* What the loop does when b units are found to be counted.
Outcome(b) ==
    \/ b = PacketLen /\ chan'.pc = "loop"
       /\ chan'.outQueueWatched = TRUE /\ chan'.epollOut = FALSE
    \/ b < PacketLen /\ chan'.pc = "loop"
       /\ chan'.outQueueWatched = FALSE /\ chan'.epollOut = dev.open
    \/ b > PacketLen /\ chan'.pc = "failed"
       /\ chan'.outQueueWatched = chan.outQueueWatched /\ chan'.epollOut = chan.epollOut

LEMMA CallReturns ==
  ASSUME ChanOK, dev.open \in BOOLEAN, dev' = dev, NEW b, Return(b)
  PROVE  ChanOK' /\ Outcome(b) /\ TurnKeeps /\ TurnLeaves /\ chan'.at \in {chan.at, 0}
<1>0. 0 \in Nat
  OBVIOUS
<1>1. CASE b = PacketLen /\ Finished
  <2>1. /\ chan' \in LooseChannel /\ TurnKeeps
        /\ chan'.pc = "loop" /\ chan'.at = chan.at
        /\ chan'.outQueueWatched = TRUE /\ chan'.epollOut = FALSE
    BY <1>1, Zenon DEF Finished, ChanOK, LooseChannel, TurnKeeps
  <2> QED BY <1>1, <2>1, Zenon DEF TurnLeaves, Outcome, ChanOK
<1>2. CASE b < PacketLen /\ Unfinished
  <2>1. /\ chan' \in LooseChannel /\ TurnKeeps
        /\ chan'.pc = "loop" /\ chan'.at = chan.at
        /\ chan'.outQueueWatched = FALSE /\ chan'.epollOut = dev.open
    BY <1>2, Zenon DEF Unfinished, ChanOK, LooseChannel, TurnKeeps
  <2> QED BY <1>2, <2>1, Zenon DEF TurnLeaves, Outcome, ChanOK
<1>3. CASE b > PacketLen /\ Failed
  <2>1. /\ chan' \in LooseChannel /\ TurnKeeps
        /\ chan'.pc = "failed" /\ chan'.at = 0
        /\ chan'.outQueueWatched = chan.outQueueWatched /\ chan'.epollOut = chan.epollOut
    BY <1>0, <1>3, Zenon DEF Failed, ChanOK, LooseChannel, TurnKeeps
  <2> QED BY <1>3, <2>1, Zenon DEF TurnLeaves, Outcome, ChanOK
<1> QED BY <1>1, <1>2, <1>3, Zenon DEF Return

\* n more units are counted, from where bytesSent was or is.
LEMMA TurnCounts ==
  ASSUME ChanOK, StaticOK, NEW n \in Nat, Count(n)
  PROVE  /\ ChanOK' /\ StaticOK' /\ TurnKeeps /\ TurnLeaves
         /\ chan'.pc = "counted" /\ chan'.at = 0 /\ static'.others = static.others
         /\ \E loaded \in {static.bytesSent, chan.at} : static'.bytesSent = loaded + n
<1> PICK loaded \in {static.bytesSent, chan.at} :
        static' = [static EXCEPT !.bytesSent = loaded + n]
  BY Zenon DEF Count
<1>1. loaded \in Nat
  BY Zenon DEF ChanOK, LooseChannel, StaticOK, Static
<1>2. loaded + n \in Nat /\ 0 \in Nat
  BY <1>1
<1>3. StaticOK' /\ static'.others = static.others /\ static'.bytesSent = loaded + n
  BY <1>2, Zenon DEF StaticOK, Static
<1>4. chan' = [chan EXCEPT !.pc = "counted", !.at = 0]
  BY Zenon DEF Count
<1>5. /\ ChanOK' /\ TurnKeeps /\ TurnLeaves /\ chan'.pc = "counted" /\ chan'.at = 0
  BY <1>2, <1>4, CallGoesOn
<1> QED BY <1>3, <1>5, Zenon

\* The part of a packet that a write carries.
LEMMA PartType ==
  ASSUME ChanOK, SendState, InPacket, NEW n \in 0..Rest
  PROVE  /\ Part(n) \in Parts
         /\ Part(n).id = chan.packToSend.id /\ Part(n).from = chan.at
         /\ Part(n).upto = chan.at + n
<1>1. chan.packToSend \in Request
  BY Zenon DEF InPacket, InCall, SendState, ChanOK, LooseChannel
<1>2. chan.packToSend.id \in 1..MaxRequests
  BY <1>1, Zenon DEF Request
<1>3. chan.at \in Nat /\ chan.at <= PacketLen
  BY Zenon DEF InPacket, ChanOK, LooseChannel
<1>4. chan.at \in 0..PacketLen /\ chan.at + n \in 0..PacketLen
  BY <1>3, DeviceAssumption, SMT DEF Rest
<1> QED BY <1>2, <1>4, Zenon DEF Part, Parts

LEMMA RestIs ==
  ASSUME ChanOK, InPacket
  PROVE  Rest \in Nat /\ Rest \in 0..Rest /\ chan.at + Rest = PacketLen
<1>1. chan.at \in Nat /\ chan.at <= PacketLen
  BY Zenon DEF InPacket, ChanOK, LooseChannel
<1> QED BY <1>1, DeviceAssumption, SMT DEF Rest

LEMMA ChunkIs ==
  ASSUME ChanOK, DevOK, InPacket, dev.room > 0
  PROVE  LET n == Lesser(dev.room, Rest)
         IN n \in 0..Rest /\ n \in Nat /\ n <= dev.room /\ dev.room - n \in Int
            /\ (Rest > 0 => n > 0)
<1>1. Rest \in Nat /\ dev.room \in Int /\ dev.room > 0
  BY RestIs, Zenon DEF DevOK, LooseDevice
<1> HIDE DEF Rest
<1> QED BY <1>1, SMT DEF Lesser

\* What a line has carried remains a sequence of parts of packets.
LEMMA SentType ==
  ASSUME NEW w \in Seq(Parts), NEW q \in Parts
  PROVE  Sent(w, q) \in Seq(Parts)
<1>1. CASE w # <<>>
  <2>1. Len(w) \in 1..Len(w)
    BY <1>1, EmptySeq
  <2>2. w[Len(w)] \in Parts
    BY <2>1, ElementOfSeq
  <2>3. [w[Len(w)] EXCEPT !.upto = q.upto] \in Parts
    BY <2>2, Zenon DEF Parts
  <2>4. [w EXCEPT ![Len(w)] = [w[Len(w)] EXCEPT !.upto = q.upto]] \in Seq(Parts)
    BY <2>1, <2>3, ExceptSeq
  <2>5. Append(w, q) \in Seq(Parts)
    BY AppendProperties
  <2> QED BY <2>4, <2>5, Zenon DEF Sent
<1>2. CASE w = <<>>
  <2>1. Append(w, q) \in Seq(Parts)
    BY AppendProperties
  <2> QED BY <1>2, <2>1, Zenon DEF Sent
<1> QED BY <1>1, <1>2

\* Every step of send_packet but a failure.
TurnEnds ==
    /\ ChanOK' /\ TurnKeeps /\ TurnLeaves
    /\ InCall(chan)
    /\ UNCHANGED <<queues, app>>

InTurn ==
    \/ BeginTurn \/ NoSendSocket \/ SendWaits \/ DatagramSent \/ WriteChunk
    \/ WriteTimesOut \/ AnotherTurn \/ ReturnLeft

LEMMA TurnStep ==
  ASSUME ChanOK, DevOK, StaticOK, SendState, InTurn
  PROVE  /\ TurnEnds /\ DevOK' /\ StaticOK' /\ static'.others = static.others
         /\ chan.kind # "udp" => dev'.open = dev.open
         /\ dev'.rxRead = dev.rxRead /\ dev'.rxSent \in {dev.rxSent, dev.rxRead}
         /\ \/ dev'.room = dev.room
            \/ \E n \in Nat : n <= dev.room /\ dev'.room = dev.room - n
<1> USE DeviceAssumption
<1>0. static.bytesSent \in Nat /\ chan.at \in Nat /\ 0 \in Nat
  BY Zenon DEF StaticOK, Static, ChanOK, LooseChannel
<1>1. CASE BeginTurn
  <2>1. /\ chan.pc = "turn" /\ UNCHANGED <<queues, app, dev, static>>
        /\ chan' = [chan EXCEPT !.pc = "sending", !.at = static.bytesSent]
    BY <1>1, Zenon DEF BeginTurn
  <2>2. ChanOK' /\ TurnKeeps /\ TurnLeaves
    BY <1>0, <2>1, CallGoesOn
  <2>3. InCall(chan)
    BY <2>1 DEF InCall
  <2> QED BY <2>1, <2>2, <2>3, Zenon DEF TurnEnds, DevOK, StaticOK
<1>2. CASE NoSendSocket
  <2>1. /\ chan.pc = "turn" /\ chan.kind = "udp" /\ UNCHANGED <<queues, app, static>>
        /\ chan' = [chan EXCEPT !.pc = "returning"]
        /\ dev' = [dev EXCEPT !.open = FALSE, !.rxSent = dev.rxRead]
    BY <1>2, Zenon DEF NoSendSocket
  <2>2. /\ dev' \in LooseDevice /\ dev'.rxRead = dev.rxRead
        /\ dev'.rxSent = dev.rxRead /\ dev'.room = dev.room
    BY <2>1, Zenon DEF DevOK, LooseDevice
  <2>3. ChanOK' /\ TurnKeeps /\ TurnLeaves
    BY <1>0, <2>1, CallGoesOn
  <2>4. InCall(chan)
    BY <2>1 DEF InCall
  <2> QED BY <2>1, <2>2, <2>3, <2>4, Zenon DEF TurnEnds, DevOK, StaticOK
<1>3. CASE SendWaits
  <2>1. /\ chan.pc = "sending" /\ UNCHANGED <<queues, app, dev, static>>
        /\ chan' = [chan EXCEPT !.pc = "returning", !.at = 0]
    BY <1>3, Zenon DEF SendWaits, InPacket
  <2>2. ChanOK' /\ TurnKeeps /\ TurnLeaves
    BY <1>0, <2>1, CallGoesOn
  <2>3. InCall(chan)
    BY <2>1 DEF InCall
  <2> QED BY <2>1, <2>2, <2>3, Zenon DEF TurnEnds, DevOK, StaticOK
<1>4. CASE DatagramSent
  <2>1. /\ InPacket /\ Count(Rest) /\ UNCHANGED <<queues, app>>
        /\ dev' = [dev EXCEPT !.wire = Append(@, Part(Rest))] /\ chan.kind = "udp"
    BY <1>4, Zenon DEF DatagramSent
  <2>2. Rest \in Nat /\ Part(Rest) \in Parts
    BY <2>1, RestIs, PartType
  <2>3. Append(dev.wire, Part(Rest)) \in Seq(Parts)
    BY <2>2, AppendProperties DEF DevOK, LooseDevice
  <2>4. /\ dev' \in LooseDevice /\ dev'.open = dev.open
        /\ dev'.rxRead = dev.rxRead /\ dev'.rxSent = dev.rxSent /\ dev'.room = dev.room
    BY <2>1, <2>3, Zenon DEF DevOK, LooseDevice
  <2>5. ChanOK' /\ StaticOK' /\ TurnKeeps /\ TurnLeaves /\ static'.others = static.others
    BY <2>1, <2>2, TurnCounts
  <2>6. InCall(chan)
    BY <2>1 DEF InCall, InPacket
  <2> QED BY <2>1, <2>4, <2>5, <2>6, Zenon DEF TurnEnds, DevOK
<1>5. CASE WriteChunk
  <2> DEFINE n == Lesser(dev.room, Rest)
  <2>1. /\ InPacket /\ Count(n) /\ UNCHANGED <<queues, app>> /\ dev.room > 0
        /\ dev' = [dev EXCEPT !.room = @ - n, !.wire = Sent(@, Part(n))]
    BY <1>5, Zenon DEF WriteChunk
  <2>2. n \in 0..Rest /\ n \in Nat /\ n <= dev.room /\ dev.room - n \in Int
    BY <2>1, ChunkIs
  <2> HIDE DEF n
  <2>3. Part(n) \in Parts
    BY <2>1, <2>2, PartType
  <2>4. Sent(dev.wire, Part(n)) \in Seq(Parts)
    BY <2>3, SentType DEF DevOK, LooseDevice
  <2>5. /\ dev' \in LooseDevice /\ dev'.open = dev.open
        /\ dev'.rxRead = dev.rxRead /\ dev'.rxSent = dev.rxSent
        /\ dev'.room = dev.room - n
    BY <2>1, <2>2, <2>4, Zenon DEF DevOK, LooseDevice
  <2>6. ChanOK' /\ StaticOK' /\ TurnKeeps /\ TurnLeaves /\ static'.others = static.others
    BY <2>1, <2>2, TurnCounts
  <2>7. InCall(chan)
    BY <2>1 DEF InCall, InPacket
  <2> QED BY <2>1, <2>2, <2>5, <2>6, <2>7, Zenon DEF TurnEnds, DevOK
<1>6. CASE WriteTimesOut
  <2>1. chan.pc = "sending" /\ Count(0) /\ UNCHANGED <<queues, app, dev>>
    BY <1>6, Zenon DEF WriteTimesOut
  <2>2. ChanOK' /\ StaticOK' /\ TurnKeeps /\ TurnLeaves /\ static'.others = static.others
    BY <1>0, <2>1, TurnCounts, Zenon
  <2>3. InCall(chan)
    BY <2>1 DEF InCall
  <2> QED BY <2>1, <2>2, <2>3, Zenon DEF TurnEnds, DevOK
<1>7. CASE AnotherTurn
  <2>1. /\ chan.pc = "counted" /\ UNCHANGED <<queues, app, dev, static>>
        /\ \/ chan' = [chan EXCEPT !.pc = "turn"]
           \/ chan' = [chan EXCEPT !.pc = "returning"]
    BY <1>7, Zenon DEF AnotherTurn
  <2>2. ChanOK' /\ TurnKeeps /\ TurnLeaves
    <3>1. CASE chan' = [chan EXCEPT !.pc = "turn"]
      BY <1>0, <3>1, CallGoesOn
    <3>2. CASE chan' = [chan EXCEPT !.pc = "returning"]
      BY <1>0, <3>2, CallGoesOn
    <3> QED BY <2>1, <3>1, <3>2
  <2>3. InCall(chan)
    BY <2>1 DEF InCall
  <2> QED BY <2>1, <2>2, <2>3, Zenon DEF TurnEnds, DevOK, StaticOK
<1>8. CASE ReturnLeft
  <2>1. /\ chan.pc = "returning" /\ UNCHANGED <<queues, app, dev, static>>
        /\ Return(static.bytesSent)
    BY <1>8, Zenon DEF ReturnLeft
  <2>2. dev.open \in BOOLEAN
    BY Zenon DEF DevOK, LooseDevice
  <2>3. ChanOK' /\ TurnKeeps /\ TurnLeaves
    BY <2>1, <2>2, CallReturns
  <2>4. InCall(chan)
    BY <2>1 DEF InCall
  <2> QED BY <2>1, <2>3, <2>4, Zenon DEF TurnEnds, DevOK, StaticOK
<1> QED BY <1>1, <1>2, <1>3, <1>4, <1>5, <1>6, <1>7, <1>8, Zenon DEF InTurn

-----------------------------------------------------------------------------
(* Types, the state of a send, and the announcements.                       *)

\* Every action keeps the type of the channel.
LEMMA ChanStep ==
  ASSUME ChanOK, QueuesOK, DevOK, StaticOK, SendState, Next
  PROVE  ChanOK'
<1> USE DeviceAssumption
<1>1. CASE Start
  BY <1>1, Zenon DEF Start, ChanOK, LooseChannel
<1>2. CASE StartFails
  BY <1>2, SMTT(30) DEF StartFails, ChanOK, LooseChannel
<1>3. CASE ThreadExit
  BY <1>3, SMTT(30) DEF ThreadExit, ChanOK, LooseChannel
<1>4. CASE OpenSocket
  BY <1>4, Zenon DEF OpenSocket, ChanOK, LooseChannel
<1>5. CASE OpenPort
  BY <1>5, SMTT(30) DEF OpenPort, ChanOK, LooseChannel
<1>6. CASE EnterLoop
  BY <1>6, Zenon DEF EnterLoop, OpenMessage, ChanOK, LooseChannel
<1>7. CASE UnknownPacketType
  <2>1. NextPacket \in Request
    BY <1>7, TakenPacket DEF UnknownPacketType
  <2> QED BY <1>7, <2>1, Zenon DEF UnknownPacketType, ChanOK, LooseChannel
<1>8. CASE HandlePacket
  <2>1. NextPacket \in Request
    BY <1>8, TakenPacket DEF HandlePacket
  <2> QED BY <1>8, <2>1, Zenon DEF HandlePacket, ChanOK, LooseChannel
<1>9. CASE BeginSend
  <2>1. NextPacket \in Request
    BY <1>9, TakenPacket DEF BeginSend
  <2> QED BY <1>9, <2>1, Zenon DEF BeginSend, Started, Entered, ChanOK, LooseChannel
<1>10. CASE ContinueSend
  BY <1>10, Zenon DEF ContinueSend, Resume, Entered, ChanOK, LooseChannel
<1>11. CASE BeginTurn
  BY <1>11, TurnStep, Zenon DEF InTurn, TurnEnds
<1>12. CASE NoSendSocket
  BY <1>12, TurnStep, Zenon DEF InTurn, TurnEnds
<1>13. CASE SendFails
  <2>1. 0 \in Nat
    OBVIOUS
  <2> QED BY <1>13, <2>1, Zenon DEF SendFails, Failed, ChanOK, LooseChannel
<1>14. CASE SendWaits
  BY <1>14, TurnStep, Zenon DEF InTurn, TurnEnds
<1>15. CASE DatagramSent
  BY <1>15, TurnStep, Zenon DEF InTurn, TurnEnds
<1>16. CASE WriteChunk
  BY <1>16, TurnStep, Zenon DEF InTurn, TurnEnds
<1>17. CASE WriteTimesOut
  BY <1>17, TurnStep, Zenon DEF InTurn, TurnEnds
<1>18. CASE AnotherTurn
  BY <1>18, TurnStep, Zenon DEF InTurn, TurnEnds
<1>19. CASE ReturnLeft
  BY <1>19, TurnStep, Zenon DEF InTurn, TurnEnds
<1>20. CASE TakeCommand
  <2>1. (Head(queues.outCmd.items) # "CLOSE") \in BOOLEAN
    OBVIOUS
  <2> QED BY <1>20, <2>1, Zenon DEF TakeCommand, ChanOK, LooseChannel
<1>21. CASE RecvPacket
  BY <1>21, SMTT(30) DEF RecvPacket, Polling, Deliver, TakenOf, ChanOK, LooseChannel
<1>22. CASE RecvNothing
  BY <1>22, SMTT(30) DEF RecvNothing, Polling, Deliver, ChanOK, LooseChannel
<1>23. CASE RecvFails
  BY <1>23, Zenon DEF RecvFails, Polling, ChanOK, LooseChannel
<1>24. CASE PoolLost
  BY <1>24, Zenon DEF PoolLost, ChanOK, LooseChannel
<1>25. CASE LeaveLoop
  BY <1>25, SMTT(30) DEF LeaveLoop, ChanOK, LooseChannel
<1>26. CASE Cleanup
  <2>1. (chan.busy /\ chan.kind # "udp") \in BOOLEAN
    OBVIOUS
  <2> QED BY <1>26, <2>1, ZenonT(60) DEF Cleanup, ChanOK, LooseChannel
<1>27. CASE DestroyBegins
  BY <1>27, Zenon DEF DestroyBegins, CloseEpoll, ChanOK, LooseChannel
<1>28. CASE ClearBusy
  BY <1>28, Zenon DEF ClearBusy, ChanOK, LooseChannel
<1>29. CASE SetExit
  BY <1>29, Zenon DEF SetExit, ChanOK, LooseChannel
<1>30. CASE Join
  BY <1>30, SMTT(30) DEF Join, ChanOK, LooseChannel
<1>31. CASE SetCallback
  BY <1>31, Zenon DEF SetCallback, AppStep, ChanOK, LooseChannel
<1>32. CASE AppLearn
  BY <1>32, SMTT(30) DEF AppLearn, AppStep, ChanOK, LooseChannel
<1>33. CASE AppReceive
  BY <1>33, SMTT(30) DEF AppReceive, AppStep, ChanOK, LooseChannel
<1>34. ASSUME NEW type \in OutTypes, NEW force \in BOOLEAN, AppSend(type, force)
      PROVE  ChanOK'
  BY <1>34, SMTT(30) DEF AppSend, AppStep, AppRequest, ChanOK, LooseChannel
<1>35. ASSUME NEW type \in CmdTypes, NEW force \in BOOLEAN, AppCommand(type, force)
      PROVE  ChanOK'
  BY <1>35, SMTT(30) DEF AppCommand, AppStep, AppRequest, ChanOK, LooseChannel
<1>36. CASE RemoteSend
  BY <1>36, SMTT(30) DEF RemoteSend, OutsideStep, ChanOK, LooseChannel
<1>37. CASE RemoteDrain
  BY <1>37, SMTT(30) DEF RemoteDrain, OutsideStep, ChanOK, LooseChannel
<1>38. CASE HangUp
  BY <1>38, SMTT(30) DEF HangUp, OutsideStep, ChanOK, LooseChannel
<1>39. CASE PoolGoes
  BY <1>39, Zenon DEF PoolGoes, ChanOK, LooseChannel
<1>40. CASE Others
  BY <1>40, OthersOnly, Zenon DEF ChanOK, LooseChannel
<1> QED
  BY <1>1, <1>2, <1>3, <1>4, <1>5, <1>6, <1>7, <1>8, <1>9, <1>10, <1>11, <1>12, <1>13,
      <1>14, <1>15, <1>16, <1>17, <1>18, <1>19, <1>20, <1>21, <1>22, <1>23, <1>24,
      <1>25, <1>26, <1>27, <1>28, <1>29, <1>30, <1>31, <1>32, <1>33, <1>34, <1>35,
      <1>36, <1>37, <1>38, <1>39, <1>40, Zenon DEF Next, Thread, Destructor, App,
      Outside

\* Every action keeps the type of the device.
LEMMA DevStep ==
  ASSUME ChanOK, QueuesOK, StaticOK, SendState, DevOK, Next
  PROVE  DevOK'
<1> USE DeviceAssumption
<1>1. CASE Start
  BY <1>1, SMTT(30) DEF Start, DevOK, LooseDevice
<1>2. CASE StartFails
  BY <1>2, SMTT(30) DEF StartFails, DevOK, LooseDevice
<1>3. CASE ThreadExit
  BY <1>3, SMTT(30) DEF ThreadExit, DevOK, LooseDevice
<1>4. CASE OpenSocket
  BY <1>4, Zenon DEF OpenSocket, DevOK, LooseDevice
<1>5. CASE OpenPort
  BY <1>5, Zenon DEF OpenPort, DevOK, LooseDevice
<1>6. CASE EnterLoop
  <2>1. <<>> \in Seq(Parts)
    BY EmptySeq
  <2> QED BY <1>6, <2>1, Zenon DEF EnterLoop, DevOK, LooseDevice
<1>7. CASE UnknownPacketType
  BY <1>7, Zenon DEF UnknownPacketType, DevOK
<1>8. CASE HandlePacket
  <2> DEFINE q == [id |-> NextPacket.id, from |-> 0, upto |-> PacketLen]
  <2>1. NextPacket \in Request
    BY <1>8, TakenPacket DEF HandlePacket
  <2>2. NextPacket.id \in 1..MaxRequests /\ 0 \in 0..PacketLen /\ PacketLen \in 0..PacketLen
    BY <2>1 DEF Request
  <2>3. q \in Parts
    BY <2>2, Zenon DEF Parts
  <2>4. dev' = (IF chan.callback THEN [dev EXCEPT !.wire = Append(@, q)] ELSE dev)
    BY <1>8, Zenon DEF HandlePacket
  <2> HIDE DEF q
  <2>5. Append(dev.wire, q) \in Seq(Parts)
    BY <2>3, AppendProperties DEF DevOK, LooseDevice
  <2> QED BY <2>4, <2>5, Zenon DEF DevOK, LooseDevice
<1>9. CASE BeginSend
  BY <1>9, Zenon DEF BeginSend, DevOK
<1>10. CASE ContinueSend
  BY <1>10, Zenon DEF ContinueSend, DevOK
<1>11. CASE BeginTurn
  BY <1>11, TurnStep, Zenon DEF InTurn
<1>12. CASE NoSendSocket
  BY <1>12, TurnStep, Zenon DEF InTurn
<1>13. CASE SendFails
  BY <1>13, Zenon DEF SendFails, DevOK
<1>14. CASE SendWaits
  BY <1>14, TurnStep, Zenon DEF InTurn
<1>15. CASE DatagramSent
  BY <1>15, TurnStep, Zenon DEF InTurn
<1>16. CASE WriteChunk
  BY <1>16, TurnStep, Zenon DEF InTurn
<1>17. CASE WriteTimesOut
  BY <1>17, TurnStep, Zenon DEF InTurn
<1>18. CASE AnotherTurn
  BY <1>18, TurnStep, Zenon DEF InTurn
<1>19. CASE ReturnLeft
  BY <1>19, TurnStep, Zenon DEF InTurn
<1>20. CASE TakeCommand
  BY <1>20, SMTT(30) DEF TakeCommand, Polling, DevOK, LooseDevice
<1>21. CASE RecvPacket
  <2> PICK k \in 1..Unread : dev' = [dev EXCEPT !.rxRead = @ + k]
    BY <1>21, Zenon DEF RecvPacket, TakenOf
  <2>1. dev.rxRead + k \in Int
    BY SMT DEF DevOK, LooseDevice, Unread
  <2> QED BY <2>1, Zenon DEF DevOK, LooseDevice
<1>22. CASE RecvNothing
  BY <1>22, SMTT(30) DEF RecvNothing, Polling, Deliver, DevOK, LooseDevice
<1>23. CASE RecvFails
  <2> PICK k \in 0..Unread : dev' = [dev EXCEPT !.rxSent = @ - k]
    BY <1>23, Zenon DEF RecvFails
  <2>1. dev.rxSent - k \in Int
    BY SMT DEF DevOK, LooseDevice, Unread
  <2> QED BY <2>1, Zenon DEF DevOK, LooseDevice
<1>24. CASE PoolLost
  BY <1>24, SMTT(30) DEF PoolLost, DevOK, LooseDevice
<1>25. CASE LeaveLoop
  BY <1>25, SMTT(30) DEF LeaveLoop, DevOK, LooseDevice
<1>26. CASE Cleanup
  BY <1>26, Zenon DEF Cleanup, ClearOutQueues, DevOK, LooseDevice
<1>27. CASE DestroyBegins
  BY <1>27, SMTT(30) DEF DestroyBegins, CloseEpoll, DevOK, LooseDevice
<1>28. CASE ClearBusy
  BY <1>28, SMTT(30) DEF ClearBusy, DevOK, LooseDevice
<1>29. CASE SetExit
  BY <1>29, SMTT(30) DEF SetExit, DevOK, LooseDevice
<1>30. CASE Join
  BY <1>30, SMTT(30) DEF Join, DevOK, LooseDevice
<1>31. CASE SetCallback
  BY <1>31, SMTT(30) DEF SetCallback, AppStep, DevOK, LooseDevice
<1>32. CASE AppLearn
  BY <1>32, SMTT(30) DEF AppLearn, AppStep, DevOK, LooseDevice
<1>33. CASE AppReceive
  BY <1>33, SMTT(30) DEF AppReceive, AppStep, DevOK, LooseDevice
<1>34. ASSUME NEW type \in OutTypes, NEW force \in BOOLEAN, AppSend(type, force)
      PROVE  DevOK'
  BY <1>34, SMTT(30) DEF AppSend, AppStep, AppRequest, DevOK, LooseDevice
<1>35. ASSUME NEW type \in CmdTypes, NEW force \in BOOLEAN, AppCommand(type, force)
      PROVE  DevOK'
  BY <1>35, SMTT(30) DEF AppCommand, AppStep, AppRequest, DevOK, LooseDevice
<1>36. CASE RemoteSend
  <2>1. dev.rxSent + 1 \in Int
    BY SMT DEF DevOK, LooseDevice
  <2> QED BY <1>36, <2>1, Zenon DEF RemoteSend, DevOK, LooseDevice
<1>37. CASE RemoteDrain
  <2>1. dev.room + 1 \in Int
    BY SMT DEF DevOK, LooseDevice
  <2> QED BY <1>37, <2>1, Zenon DEF RemoteDrain, DevOK, LooseDevice
<1>38. CASE HangUp
  <2>1. SndBuf \in Int
    OBVIOUS
  <2> QED BY <1>38, <2>1, Zenon DEF HangUp, DevOK, LooseDevice
<1>39. CASE PoolGoes
  BY <1>39, SMTT(30) DEF PoolGoes, DevOK, LooseDevice
<1>40. CASE Others
  BY <1>40, OthersOnly, Zenon DEF DevOK, LooseDevice
<1> QED
  BY <1>1, <1>2, <1>3, <1>4, <1>5, <1>6, <1>7, <1>8, <1>9, <1>10, <1>11, <1>12, <1>13,
      <1>14, <1>15, <1>16, <1>17, <1>18, <1>19, <1>20, <1>21, <1>22, <1>23, <1>24,
      <1>25, <1>26, <1>27, <1>28, <1>29, <1>30, <1>31, <1>32, <1>33, <1>34, <1>35,
      <1>36, <1>37, <1>38, <1>39, <1>40, Zenon DEF Next, Thread, Destructor, App,
      Outside

\* What other channels do keeps the type of what is static.
LEMMA OthersStatic ==
  ASSUME StaticOK, Others
  PROVE  StaticOK' /\ static'.others = static.others
<1> USE DeviceAssumption
<1> PICK s \in static.others : OtherStarts(s) \/ OtherSends(s) \/ OtherFails(s)
  BY Zenon DEF Others
<1>1. s \in Siblings
  BY Zenon DEF StaticOK, Static
<1>2. static.stores \in 0..MaxStores /\ static.bytesSent \in Nat
  BY Zenon DEF StaticOK, Static
<1>3. CASE OtherStarts(s)
  <2>1. static' = [static EXCEPT !.bytesSent = 0, !.at[s] = 0, !.stores = @ + 1]
        /\ static.stores < MaxStores
    BY <1>3, Zenon DEF OtherStarts
  <2>2. static.stores + 1 \in 0..MaxStores /\ 0 \in 0..(OtherLen - 1) /\ 0 \in Nat
    BY <1>2, <2>1
  <2>3. [static.at EXCEPT ![s] = 0] \in [Siblings -> 0..(OtherLen - 1) \cup {None}]
    BY <1>1, <2>2, Zenon DEF StaticOK, Static
  <2> QED BY <2>1, <2>2, <2>3, Zenon DEF StaticOK, Static
<1>4. CASE OtherSends(s)
  <2> PICK n \in 0..(OtherLen - static.at[s]), loaded \in {static.bytesSent, static.at[s]} :
          static' = [static EXCEPT !.bytesSent = loaded + n, !.stores = @ + 1,
                                   !.at[s] = IF loaded + n < OtherLen THEN loaded + n
                                             ELSE None]
    BY <1>4, Zenon DEF OtherSends
  <2>1. static.at[s] # None /\ static.stores < MaxStores
    BY <1>4, Zenon DEF OtherSends
  <2>2. static.at[s] \in 0..(OtherLen - 1)
    BY <1>1, <2>1, Zenon DEF StaticOK, Static
  <2> DEFINE b == loaded + n
             x == IF b < OtherLen THEN b ELSE None
  <2>3. loaded \in Nat /\ n \in Nat
    BY <1>2, <2>2
  <2>4. b \in Nat
    BY <2>3
  <2>5. static' = [static EXCEPT !.bytesSent = b, !.stores = @ + 1, !.at[s] = x]
    OBVIOUS
  <2> HIDE DEF b
  <2>6. x \in 0..(OtherLen - 1) \cup {None}
    BY <2>4
  <2> HIDE DEF x
  <2>7. static.stores + 1 \in 0..MaxStores
    BY <1>2, <2>1
  <2>8. [static.at EXCEPT ![s] = x] \in [Siblings -> 0..(OtherLen - 1) \cup {None}]
    BY <1>1, <2>6, Zenon DEF StaticOK, Static
  <2> QED BY <2>4, <2>5, <2>7, <2>8, Zenon DEF StaticOK, Static
<1>5. CASE OtherFails(s)
  <2>1. static' = [static EXCEPT !.at[s] = None]
    BY <1>5, Zenon DEF OtherFails
  <2>2. [static.at EXCEPT ![s] = None] \in [Siblings -> 0..(OtherLen - 1) \cup {None}]
    BY <1>1, Zenon DEF StaticOK, Static
  <2> QED BY <2>1, <2>2, Zenon DEF StaticOK, Static
<1> QED BY <1>3, <1>4, <1>5

\* Every action keeps it, and who the others are.
LEMMA StaticStep ==
  ASSUME ChanOK, DevOK, StaticOK, SendState, Next
  PROVE  StaticOK' /\ static'.others = static.others
<1>1. CASE Start
  BY <1>1, Zenon DEF Start, StaticOK
<1>2. CASE StartFails
  BY <1>2, Zenon DEF StartFails, StaticOK
<1>3. CASE ThreadExit
  BY <1>3, Zenon DEF ThreadExit, StaticOK
<1>4. CASE OpenSocket
  BY <1>4, Zenon DEF OpenSocket, StaticOK
<1>5. CASE OpenPort
  BY <1>5, Zenon DEF OpenPort, StaticOK
<1>6. CASE EnterLoop
  BY <1>6, Zenon DEF EnterLoop, StaticOK
<1>7. CASE UnknownPacketType
  BY <1>7, Zenon DEF UnknownPacketType, OutQueueEvent, StaticOK
<1>8. CASE HandlePacket
  BY <1>8, Zenon DEF HandlePacket, OutQueueEvent, StaticOK
<1>9. CASE BeginSend
  <2>1. static' = [static EXCEPT !.bytesSent = 0] /\ 0 \in Nat
    BY <1>9, Zenon DEF BeginSend, Started
  <2> QED BY <2>1, Zenon DEF StaticOK, Static
<1>10. CASE ContinueSend
  BY <1>10, Zenon DEF ContinueSend, Resume, StaticOK
<1>11. CASE BeginTurn
  BY <1>11, TurnStep, Zenon DEF InTurn
<1>12. CASE NoSendSocket
  BY <1>12, TurnStep, Zenon DEF InTurn
<1>13. CASE SendFails
  BY <1>13, Zenon DEF SendFails, StaticOK
<1>14. CASE SendWaits
  BY <1>14, TurnStep, Zenon DEF InTurn
<1>15. CASE DatagramSent
  BY <1>15, TurnStep, Zenon DEF InTurn
<1>16. CASE WriteChunk
  BY <1>16, TurnStep, Zenon DEF InTurn
<1>17. CASE WriteTimesOut
  BY <1>17, TurnStep, Zenon DEF InTurn
<1>18. CASE AnotherTurn
  BY <1>18, TurnStep, Zenon DEF InTurn
<1>19. CASE ReturnLeft
  BY <1>19, TurnStep, Zenon DEF InTurn
<1>20. CASE TakeCommand
  BY <1>20, Zenon DEF TakeCommand, StaticOK
<1>21. CASE RecvPacket
  BY <1>21, Zenon DEF RecvPacket, StaticOK
<1>22. CASE RecvNothing
  BY <1>22, Zenon DEF RecvNothing, StaticOK
<1>23. CASE RecvFails
  BY <1>23, Zenon DEF RecvFails, StaticOK
<1>24. CASE PoolLost
  BY <1>24, Zenon DEF PoolLost, StaticOK
<1>25. CASE LeaveLoop
  BY <1>25, Zenon DEF LeaveLoop, StaticOK
<1>26. CASE Cleanup
  BY <1>26, Zenon DEF Cleanup, StaticOK
<1>27. CASE DestroyBegins
  BY <1>27, Zenon DEF DestroyBegins, StaticOK
<1>28. CASE ClearBusy
  BY <1>28, Zenon DEF ClearBusy, StaticOK
<1>29. CASE SetExit
  BY <1>29, Zenon DEF SetExit, StaticOK
<1>30. CASE Join
  BY <1>30, Zenon DEF Join, StaticOK
<1>31. CASE SetCallback
  BY <1>31, Zenon DEF SetCallback, AppStep, StaticOK
<1>32. CASE AppLearn
  BY <1>32, Zenon DEF AppLearn, AppStep, StaticOK
<1>33. CASE AppReceive
  BY <1>33, Zenon DEF AppReceive, AppStep, StaticOK
<1>34. ASSUME NEW type \in OutTypes, NEW force \in BOOLEAN, AppSend(type, force)
      PROVE  StaticOK' /\ static'.others = static.others
  BY <1>34, Zenon DEF AppSend, AppStep, AppRequest, StaticOK
<1>35. ASSUME NEW type \in CmdTypes, NEW force \in BOOLEAN, AppCommand(type, force)
      PROVE  StaticOK' /\ static'.others = static.others
  BY <1>35, Zenon DEF AppCommand, AppStep, AppRequest, StaticOK
<1>36. CASE RemoteSend
  BY <1>36, Zenon DEF RemoteSend, OutsideStep, StaticOK
<1>37. CASE RemoteDrain
  BY <1>37, Zenon DEF RemoteDrain, OutsideStep, StaticOK
<1>38. CASE HangUp
  BY <1>38, Zenon DEF HangUp, OutsideStep, StaticOK
<1>39. CASE PoolGoes
  BY <1>39, Zenon DEF PoolGoes, StaticOK
<1>40. CASE Others
  BY <1>40, OthersStatic
<1> QED
  BY <1>1, <1>2, <1>3, <1>4, <1>5, <1>6, <1>7, <1>8, <1>9, <1>10, <1>11, <1>12, <1>13,
      <1>14, <1>15, <1>16, <1>17, <1>18, <1>19, <1>20, <1>21, <1>22, <1>23, <1>24,
      <1>25, <1>26, <1>27, <1>28, <1>29, <1>30, <1>31, <1>32, <1>33, <1>34, <1>35,
      <1>36, <1>37, <1>38, <1>39, <1>40, Zenon DEF Next, Thread, Destructor, App,
      Outside

LEMMA TurnState ==
  ASSUME ChanOK, DevOK, SendState, TurnEnds, chan.kind # "udp" => dev'.open = dev.open
  PROVE  SendState'
<1>1. TurnLeaves
  BY Zenon DEF TurnEnds
<1>2. TurnKeeps /\ InCall(chan)
  BY Zenon DEF TurnEnds
<1>3. /\ chan.packToSend # None /\ chan.kind # "virtual" /\ InLoop
      /\ chan.kind = "com" => dev.open
  BY <1>2, SMT DEF InCall, SendState, InLoop
<1>4. chan.kind \in {"udp", "com", "virtual"} /\ chan'.kind = chan.kind
  BY <1>2, Zenon DEF ChanOK, LooseChannel, TurnKeeps
<1>5. chan'.kind = "com" => dev'.open
  BY <1>3, <1>4
<1>6. InCall(chan') \/ chan'.pc \in {"loop", "failed"}
  BY <1>1 DEF TurnLeaves
<1>7. chan'.owner = "alive" /\ chan'.pc = "loop" /\ ~chan'.outQueueWatched =>
          chan'.epollOut = dev'.open
  BY <1>1, SMT DEF TurnLeaves, InCall
<1> QED
  BY <1>2, <1>3, <1>4, <1>5, <1>6, <1>7, SMT DEF SendState, TurnKeeps, InCall, InLoop,
     SelfClosed

\* No action leaves output stuck.
LEMMA SendStep ==
  ASSUME ChanOK, DevOK, StaticOK, QueuesOK, SendState, Next
  PROVE  SendState'
<1> USE DeviceAssumption
<1>1. CASE Start
  BY <1>1, SMTT(30) DEF Start, SendState, InLoop, SelfClosed, InCall, ChanOK,
      LooseChannel, DevOK, LooseDevice
<1>2. CASE StartFails
  BY <1>2, SMTT(30) DEF StartFails, SendState, InLoop, SelfClosed, InCall, ChanOK,
      LooseChannel, DevOK, LooseDevice
<1>3. CASE ThreadExit
  BY <1>3, SMTT(30) DEF ThreadExit, SendState, InLoop, SelfClosed, InCall, ChanOK,
      LooseChannel, DevOK, LooseDevice
<1>4. CASE OpenSocket
  BY <1>4, SMTT(30) DEF OpenSocket, SendState, InLoop, SelfClosed, InCall, ChanOK,
      LooseChannel, DevOK, LooseDevice
<1>5. CASE OpenPort
  BY <1>5, SMTT(30) DEF OpenPort, SendState, InLoop, SelfClosed, InCall, ChanOK,
      LooseChannel, DevOK, LooseDevice
<1>6. CASE EnterLoop
  BY <1>6, SMTT(30) DEF EnterLoop, OpenMessage, SendState, InLoop, SelfClosed, InCall,
      ChanOK, LooseChannel, DevOK, LooseDevice
<1>7. CASE UnknownPacketType
  <2>1. NextPacket \in Request /\ NextPacket # None /\ chan.pc = "loop"
    BY <1>7, TakenPacket DEF UnknownPacketType, OutQueueEvent, Polling
  <2>2. dev'.open = dev.open
    BY <1>7, SMT DEF UnknownPacketType, DevOK, LooseDevice
  <2> HIDE DEF NextPacket
  <2> QED
    BY <1>7, <2>1, <2>2, SMTT(30) DEF UnknownPacketType, OutQueueEvent, SendState, InLoop,
       SelfClosed, InCall, ChanOK, LooseChannel
<1>8. CASE HandlePacket
  <2>1. NextPacket \in Request /\ NextPacket # None /\ chan.pc = "loop"
    BY <1>8, TakenPacket DEF HandlePacket, OutQueueEvent, Polling
  <2>2. dev'.open = dev.open
    BY <1>8, SMT DEF HandlePacket, DevOK, LooseDevice
  <2> HIDE DEF NextPacket
  <2> QED
    BY <1>8, <2>1, <2>2, SMTT(30) DEF HandlePacket, OutQueueEvent, SendState, InLoop,
       SelfClosed, InCall, ChanOK, LooseChannel
<1>9. CASE BeginSend
  <2>1. NextPacket # None /\ chan.pc = "loop" /\ chan.kind # "virtual"
    BY <1>9, TakenPacket DEF BeginSend, OutQueueEvent, Polling
  <2>2. dev' = dev
    BY <1>9, Zenon DEF BeginSend
  <2>3. /\ chan'.pc = "turn" /\ chan'.packToSend # None /\ chan'.kind = chan.kind
        /\ chan'.owner = chan.owner /\ chan'.epollOut = chan.epollOut
    BY <1>9, <2>1, Zenon DEF BeginSend, Started, Entered, ChanOK, LooseChannel
  <2> QED
    BY <2>1, <2>2, <2>3, SMTT(30) DEF SendState, InLoop, SelfClosed, InCall
<1>10. CASE ContinueSend
  <2>1. chan.packToSend # None /\ chan.pc = "loop" /\ chan.kind # "virtual"
    BY <1>10, Zenon DEF ContinueSend, Polling, SendState
  <2>2. dev' = dev
    BY <1>10, Zenon DEF ContinueSend
  <2>3. /\ chan'.pc = "turn" /\ chan'.packToSend # None /\ chan'.kind = chan.kind
        /\ chan'.owner = chan.owner /\ chan'.epollOut = chan.epollOut
    BY <1>10, <2>1, Zenon DEF ContinueSend, Resume, Entered, ChanOK, LooseChannel
  <2> QED
    BY <2>1, <2>2, <2>3, SMTT(30) DEF SendState, InLoop, SelfClosed, InCall
<1>11. CASE BeginTurn
  BY <1>11, TurnStep, TurnState, Zenon DEF InTurn
<1>12. CASE NoSendSocket
  BY <1>12, TurnStep, TurnState, Zenon DEF InTurn
<1>13. CASE SendFails
  BY <1>13, SMTT(30) DEF SendFails, Failed, SendState, InLoop, SelfClosed, InCall, ChanOK,
      LooseChannel, DevOK, LooseDevice
<1>14. CASE SendWaits
  BY <1>14, TurnStep, TurnState, Zenon DEF InTurn
<1>15. CASE DatagramSent
  BY <1>15, TurnStep, TurnState, Zenon DEF InTurn
<1>16. CASE WriteChunk
  BY <1>16, TurnStep, TurnState, Zenon DEF InTurn
<1>17. CASE WriteTimesOut
  BY <1>17, TurnStep, TurnState, Zenon DEF InTurn
<1>18. CASE AnotherTurn
  BY <1>18, TurnStep, TurnState, Zenon DEF InTurn
<1>19. CASE ReturnLeft
  BY <1>19, TurnStep, TurnState, Zenon DEF InTurn
<1>20. CASE TakeCommand
  BY <1>20, SMTT(30) DEF TakeCommand, Polling, SendState, InLoop, SelfClosed, InCall,
      ChanOK, LooseChannel, DevOK, LooseDevice
<1>21. CASE RecvPacket
  BY <1>21, SMTT(30) DEF RecvPacket, Polling, Deliver, TakenOf, SendState, InLoop,
      SelfClosed, InCall, ChanOK, LooseChannel, DevOK, LooseDevice
<1>22. CASE RecvNothing
  BY <1>22, SMTT(30) DEF RecvNothing, Polling, Deliver, SendState, InLoop, SelfClosed,
      InCall, ChanOK, LooseChannel, DevOK, LooseDevice
<1>23. CASE RecvFails
  <2>1. dev'.open = dev.open
    BY <1>23, Zenon DEF RecvFails, DevOK, LooseDevice
  <2> QED
    BY <1>23, <2>1, SMTT(30) DEF RecvFails, Polling, SendState, InLoop, SelfClosed, InCall,
       ChanOK, LooseChannel
<1>24. CASE PoolLost
  BY <1>24, SMTT(30) DEF PoolLost, SendState, InLoop, SelfClosed, InCall, ChanOK,
      LooseChannel, DevOK, LooseDevice
<1>25. CASE LeaveLoop
  BY <1>25, SMTT(30) DEF LeaveLoop, SendState, InLoop, SelfClosed, InCall, ChanOK,
      LooseChannel, DevOK, LooseDevice
<1>26. CASE Cleanup
  BY <1>26, SMTT(30) DEF Cleanup, ClearOutQueues, SendState, InLoop, SelfClosed, InCall,
      ChanOK, LooseChannel, DevOK, LooseDevice
<1>27. CASE DestroyBegins
  BY <1>27, SMTT(30) DEF DestroyBegins, CloseEpoll, SendState, InLoop, SelfClosed,
      InCall, ChanOK, LooseChannel, DevOK, LooseDevice
<1>28. CASE ClearBusy
  BY <1>28, SMTT(30) DEF ClearBusy, SendState, InLoop, SelfClosed, InCall, ChanOK,
      LooseChannel, DevOK, LooseDevice
<1>29. CASE SetExit
  BY <1>29, SMTT(30) DEF SetExit, SendState, InLoop, SelfClosed, InCall, ChanOK,
      LooseChannel, DevOK, LooseDevice
<1>30. CASE Join
  BY <1>30, SMTT(30) DEF Join, SendState, InLoop, SelfClosed, InCall, ChanOK,
      LooseChannel, DevOK, LooseDevice
<1>31. CASE SetCallback
  BY <1>31, SMTT(30) DEF SetCallback, AppStep, SendState, InLoop, SelfClosed, InCall,
      ChanOK, LooseChannel, DevOK, LooseDevice
<1>32. CASE AppLearn
  BY <1>32, SMTT(30) DEF AppLearn, AppStep, SendState, InLoop, SelfClosed, InCall,
      ChanOK, LooseChannel, DevOK, LooseDevice
<1>33. CASE AppReceive
  BY <1>33, SMTT(30) DEF AppReceive, AppStep, SendState, InLoop, SelfClosed, InCall,
      ChanOK, LooseChannel, DevOK, LooseDevice
<1>34. ASSUME NEW type \in OutTypes, NEW force \in BOOLEAN, AppSend(type, force)
      PROVE  SendState'
  BY <1>34, SMTT(30) DEF AppSend, AppStep, AppRequest, SendState, InLoop, SelfClosed,
      InCall, ChanOK, LooseChannel, DevOK, LooseDevice
<1>35. ASSUME NEW type \in CmdTypes, NEW force \in BOOLEAN, AppCommand(type, force)
      PROVE  SendState'
  BY <1>35, SMTT(30) DEF AppCommand, AppStep, AppRequest, SendState, InLoop, SelfClosed,
      InCall, ChanOK, LooseChannel, DevOK, LooseDevice
<1>36. CASE RemoteSend
  BY <1>36, SMTT(30) DEF RemoteSend, OutsideStep, SendState, InLoop, SelfClosed, InCall,
      ChanOK, LooseChannel, DevOK, LooseDevice
<1>37. CASE RemoteDrain
  BY <1>37, SMTT(30) DEF RemoteDrain, OutsideStep, SendState, InLoop, SelfClosed,
      InCall, ChanOK, LooseChannel, DevOK, LooseDevice
<1>38. CASE HangUp
  BY <1>38, SMTT(30) DEF HangUp, OutsideStep, SendState, InLoop, SelfClosed, InCall,
      ChanOK, LooseChannel, DevOK, LooseDevice
<1>39. CASE PoolGoes
  BY <1>39, SMTT(30) DEF PoolGoes, SendState, InLoop, SelfClosed, InCall, ChanOK,
      LooseChannel, DevOK, LooseDevice
<1>40. CASE Others
  BY <1>40, OthersOnly, Zenon DEF SendState, InLoop, SelfClosed, InCall
<1> QED
  BY <1>1, <1>2, <1>3, <1>4, <1>5, <1>6, <1>7, <1>8, <1>9, <1>10, <1>11, <1>12, <1>13,
      <1>14, <1>15, <1>16, <1>17, <1>18, <1>19, <1>20, <1>21, <1>22, <1>23, <1>24,
      <1>25, <1>26, <1>27, <1>28, <1>29, <1>30, <1>31, <1>32, <1>33, <1>34, <1>35,
      <1>36, <1>37, <1>38, <1>39, <1>40, Zenon DEF Next, Thread, Destructor, App,
      Outside

\* Setting one queue to a queue of the same messages keeps the type.
LEMMA OneQueue ==
  ASSUME QueuesOK
  PROVE  /\ \A q \in QueueOf(LooseReceived) : queues' = [queues EXCEPT !.in = q] => QueuesOK'
         /\ \A q \in QueueOf(Request) : queues' = [queues EXCEPT !.out = q] => QueuesOK'
         /\ \A q \in QueueOf({"OPEN", "CLOSE"}) : queues' = [queues EXCEPT !.inCmd = q] => QueuesOK'
         /\ \A q \in QueueOf(MessageType) : queues' = [queues EXCEPT !.outCmd = q] => QueuesOK'
  BY Zenon DEF QueuesOK

LEMMA QueueTypes ==
  ASSUME QueuesOK
  PROVE  /\ queues.in \in QueueOf(LooseReceived) /\ queues.out \in QueueOf(Request)
         /\ queues.inCmd \in QueueOf({"OPEN", "CLOSE"}) /\ queues.outCmd \in QueueOf(MessageType)
  BY Zenon DEF QueuesOK

\* Every action keeps the type of the queues.
LEMMA QueuesStep ==
  ASSUME ChanOK, DevOK, StaticOK, SendState, AppOK, QueuesOK, Next
  PROVE  QueuesOK'
<1> USE DeviceAssumption
<1>1. CASE Start
  BY <1>1, Zenon DEF Start, QueuesOK
<1>2. CASE StartFails
  BY <1>2, Zenon DEF StartFails, QueuesOK
<1>3. CASE ThreadExit
  BY <1>3, Zenon DEF ThreadExit, QueuesOK
<1>4. CASE OpenSocket
  BY <1>4, Zenon DEF OpenSocket, QueuesOK
<1>5. CASE OpenPort
  BY <1>5, Zenon DEF OpenPort, QueuesOK
<1>6. CASE EnterLoop
  <2>1. Push(queues.inCmd, "OPEN", TRUE) \in QueueOf({"OPEN", "CLOSE"})
    BY QueueTypes, PushType, Zenon
  <2>2. CASE OpenMessage
    BY <2>1, <2>2, OneQueue, Zenon DEF OpenMessage
  <2>3. CASE UNCHANGED queues
    BY <2>3, Zenon DEF QueuesOK
  <2> QED BY <1>6, <2>2, <2>3, Zenon DEF EnterLoop
<1>7. CASE UnknownPacketType
  BY <1>7, OneQueue, QueueTypes, PopType, Zenon DEF UnknownPacketType, OutQueueEvent
<1>8. CASE HandlePacket
  BY <1>8, OneQueue, QueueTypes, PopType, Zenon DEF HandlePacket, OutQueueEvent
<1>9. CASE BeginSend
  BY <1>9, OneQueue, QueueTypes, PopType, Zenon DEF BeginSend, OutQueueEvent
<1>10. CASE ContinueSend
  BY <1>10, Zenon DEF ContinueSend, QueuesOK
<1>11. CASE BeginTurn
  BY <1>11, TurnStep, Zenon DEF InTurn, TurnEnds, QueuesOK
<1>12. CASE NoSendSocket
  BY <1>12, TurnStep, Zenon DEF InTurn, TurnEnds, QueuesOK
<1>13. CASE SendFails
  BY <1>13, Zenon DEF SendFails, QueuesOK
<1>14. CASE SendWaits
  BY <1>14, TurnStep, Zenon DEF InTurn, TurnEnds, QueuesOK
<1>15. CASE DatagramSent
  BY <1>15, TurnStep, Zenon DEF InTurn, TurnEnds, QueuesOK
<1>16. CASE WriteChunk
  BY <1>16, TurnStep, Zenon DEF InTurn, TurnEnds, QueuesOK
<1>17. CASE WriteTimesOut
  BY <1>17, TurnStep, Zenon DEF InTurn, TurnEnds, QueuesOK
<1>18. CASE AnotherTurn
  BY <1>18, TurnStep, Zenon DEF InTurn, TurnEnds, QueuesOK
<1>19. CASE ReturnLeft
  BY <1>19, TurnStep, Zenon DEF InTurn, TurnEnds, QueuesOK
<1>20. CASE TakeCommand
  BY <1>20, OneQueue, QueueTypes, PopType, Zenon DEF TakeCommand
<1>21. CASE RecvPacket
  <2> PICK k \in 1..Unread : Deliver([from |-> dev.rxRead + 1, upto |-> dev.rxRead + k])
    BY <1>21, Zenon DEF RecvPacket
  <2> DEFINE m == [from |-> dev.rxRead + 1, upto |-> dev.rxRead + k]
  <2>1. m \in LooseReceived
    BY SMT DEF DevOK, LooseDevice, LooseReceived
  <2> HIDE DEF m
  <2>2. Push(queues.in, m, TRUE) \in QueueOf(LooseReceived)
    BY <2>1, QueueTypes, PushType, Zenon
  <2> QED BY <2>2, OneQueue, Zenon DEF Deliver, m
<1>22. CASE RecvNothing
  <2>1. NullPacket \in LooseReceived
    BY SMT DEF NullPacket, LooseReceived
  <2>2. Push(queues.in, NullPacket, TRUE) \in QueueOf(LooseReceived)
    BY <2>1, QueueTypes, PushType, Zenon
  <2> QED BY <1>22, <2>2, OneQueue, Zenon DEF RecvNothing, Deliver
<1>23. CASE RecvFails
  BY <1>23, Zenon DEF RecvFails, QueuesOK
<1>24. CASE PoolLost
  BY <1>24, Zenon DEF PoolLost, QueuesOK
<1>25. CASE LeaveLoop
  <2>1. Push(queues.inCmd, "CLOSE", FALSE) \in QueueOf({"OPEN", "CLOSE"})
    BY QueueTypes, PushType, Zenon
  <2> QED BY <1>25, <2>1, OneQueue, Zenon DEF LeaveLoop
<1>26. CASE Cleanup
  BY <1>26, EmptyQueueType, Zenon DEF Cleanup, ClearOutQueues, QueuesOK
<1>27. CASE DestroyBegins
  BY <1>27, EmptyQueueType, Zenon DEF DestroyBegins, QueuesOK
<1>28. CASE ClearBusy
  BY <1>28, Zenon DEF ClearBusy, QueuesOK
<1>29. CASE SetExit
  BY <1>29, Zenon DEF SetExit, QueuesOK
<1>30. CASE Join
  BY <1>30, Zenon DEF Join, QueuesOK
<1>31. CASE SetCallback
  BY <1>31, Zenon DEF SetCallback, QueuesOK
<1>32. CASE AppLearn
  BY <1>32, OneQueue, QueueTypes, PopType, Zenon DEF AppLearn
<1>33. CASE AppReceive
  BY <1>33, OneQueue, QueueTypes, PopType, Zenon DEF AppReceive
<1>34. ASSUME NEW type \in OutTypes, NEW force \in BOOLEAN, AppSend(type, force)
      PROVE  QueuesOK'
  <2> DEFINE m == [id |-> app.nextId, type |-> type]
  <2>1. m \in Request
    BY <1>34, SMT DEF AppSend, AppRequest, AppOK, Request
  <2> HIDE DEF m
  <2>2. Push(queues.out, m, force) \in QueueOf(Request)
    BY <2>1, QueueTypes, PushType, Zenon
  <2> QED BY <1>34, <2>2, OneQueue, Zenon DEF AppSend, m
<1>35. ASSUME NEW type \in CmdTypes, NEW force \in BOOLEAN, AppCommand(type, force)
      PROVE  QueuesOK'
  <2>1. Push(queues.outCmd, type, force) \in QueueOf(MessageType)
    BY QueueTypes, PushType, Zenon
  <2> QED BY <1>35, <2>1, OneQueue, Zenon DEF AppCommand
<1>36. CASE RemoteSend
  BY <1>36, Zenon DEF RemoteSend, OutsideStep, QueuesOK
<1>37. CASE RemoteDrain
  BY <1>37, Zenon DEF RemoteDrain, OutsideStep, QueuesOK
<1>38. CASE HangUp
  BY <1>38, Zenon DEF HangUp, OutsideStep, QueuesOK
<1>39. CASE PoolGoes
  BY <1>39, Zenon DEF PoolGoes, QueuesOK
<1>40. CASE Others
  BY <1>40, OthersOnly, Zenon DEF QueuesOK
<1> QED
  BY <1>1, <1>2, <1>3, <1>4, <1>5, <1>6, <1>7, <1>8, <1>9, <1>10, <1>11, <1>12, <1>13,
      <1>14, <1>15, <1>16, <1>17, <1>18, <1>19, <1>20, <1>21, <1>22, <1>23, <1>24,
      <1>25, <1>26, <1>27, <1>28, <1>29, <1>30, <1>31, <1>32, <1>33, <1>34, <1>35,
      <1>36, <1>37, <1>38, <1>39, <1>40, Zenon DEF Next, Thread, Destructor, App,
      Outside

\* Every action keeps the type of what the application knows.
LEMMA AppOKStep ==
  ASSUME ChanOK, DevOK, StaticOK, SendState, QueuesOK, AppOK, Next
  PROVE  AppOK'
<1> USE DeviceAssumption
<1>1. CASE Start
  BY <1>1, Zenon DEF Start, AppOK
<1>2. CASE StartFails
  BY <1>2, Zenon DEF StartFails, AppOK
<1>3. CASE ThreadExit
  BY <1>3, Zenon DEF ThreadExit, AppOK
<1>4. CASE OpenSocket
  BY <1>4, Zenon DEF OpenSocket, AppOK
<1>5. CASE OpenPort
  BY <1>5, Zenon DEF OpenPort, AppOK
<1>6. CASE EnterLoop
  BY <1>6, Zenon DEF EnterLoop, AppOK
<1>7. CASE UnknownPacketType
  BY <1>7, Zenon DEF UnknownPacketType, OutQueueEvent, AppOK
<1>8. CASE HandlePacket
  BY <1>8, Zenon DEF HandlePacket, OutQueueEvent, AppOK
<1>9. CASE BeginSend
  BY <1>9, Zenon DEF BeginSend, OutQueueEvent, AppOK
<1>10. CASE ContinueSend
  BY <1>10, Zenon DEF ContinueSend, AppOK
<1>11. CASE BeginTurn
  BY <1>11, TurnStep, Zenon DEF InTurn, TurnEnds, AppOK
<1>12. CASE NoSendSocket
  BY <1>12, TurnStep, Zenon DEF InTurn, TurnEnds, AppOK
<1>13. CASE SendFails
  BY <1>13, Zenon DEF SendFails, AppOK
<1>14. CASE SendWaits
  BY <1>14, TurnStep, Zenon DEF InTurn, TurnEnds, AppOK
<1>15. CASE DatagramSent
  BY <1>15, TurnStep, Zenon DEF InTurn, TurnEnds, AppOK
<1>16. CASE WriteChunk
  BY <1>16, TurnStep, Zenon DEF InTurn, TurnEnds, AppOK
<1>17. CASE WriteTimesOut
  BY <1>17, TurnStep, Zenon DEF InTurn, TurnEnds, AppOK
<1>18. CASE AnotherTurn
  BY <1>18, TurnStep, Zenon DEF InTurn, TurnEnds, AppOK
<1>19. CASE ReturnLeft
  BY <1>19, TurnStep, Zenon DEF InTurn, TurnEnds, AppOK
<1>20. CASE TakeCommand
  BY <1>20, Zenon DEF TakeCommand, AppOK
<1>21. CASE RecvPacket
  BY <1>21, Zenon DEF RecvPacket, AppOK
<1>22. CASE RecvNothing
  BY <1>22, Zenon DEF RecvNothing, AppOK
<1>23. CASE RecvFails
  BY <1>23, Zenon DEF RecvFails, AppOK
<1>24. CASE PoolLost
  BY <1>24, Zenon DEF PoolLost, AppOK
<1>25. CASE LeaveLoop
  BY <1>25, Zenon DEF LeaveLoop, AppOK
<1>26. CASE Cleanup
  BY <1>26, Zenon DEF Cleanup, AppOK
<1>27. CASE DestroyBegins
  BY <1>27, Zenon DEF DestroyBegins, AppOK
<1>28. CASE ClearBusy
  BY <1>28, Zenon DEF ClearBusy, AppOK
<1>29. CASE SetExit
  BY <1>29, Zenon DEF SetExit, AppOK
<1>30. CASE Join
  BY <1>30, Zenon DEF Join, AppOK
<1>31. CASE SetCallback
  BY <1>31, Zenon DEF SetCallback, AppOK
<1>32. CASE AppLearn
  BY <1>32, QueueTypes, PopType, Zenon DEF AppLearn, AppOK
<1>33. CASE AppReceive
  <2> DEFINE m == Head(queues.in.items)
  <2>1. m \in LooseReceived
    BY <1>33, QueueTypes, PopType, Zenon DEF AppReceive
  <2>2. m.upto \in Int
    BY <2>1, Zenon DEF LooseReceived
  <2>3. app' = app \/ app' = [app EXCEPT !.got = m.upto]
    BY <1>33, Zenon DEF AppReceive
  <2> HIDE DEF m
  <2> QED BY <2>2, <2>3, Zenon DEF AppOK
<1>34. ASSUME NEW type \in OutTypes, NEW force \in BOOLEAN, AppSend(type, force)
      PROVE  AppOK'
  <2>1. app.nextId + 1 \in 1..(MaxRequests + 1)
    BY <1>34, SMT DEF AppSend, AppRequest, AppOK
  <2> QED BY <1>34, <2>1, Zenon DEF AppSend, AppRequest, AppOK
<1>35. ASSUME NEW type \in CmdTypes, NEW force \in BOOLEAN, AppCommand(type, force)
      PROVE  AppOK'
  <2>1. app.nextId + 1 \in 1..(MaxRequests + 1)
    BY <1>35, SMT DEF AppCommand, AppRequest, AppOK
  <2> QED BY <1>35, <2>1, Zenon DEF AppCommand, AppRequest, AppOK
<1>36. CASE RemoteSend
  BY <1>36, Zenon DEF RemoteSend, OutsideStep, AppOK
<1>37. CASE RemoteDrain
  BY <1>37, Zenon DEF RemoteDrain, OutsideStep, AppOK
<1>38. CASE HangUp
  BY <1>38, Zenon DEF HangUp, OutsideStep, AppOK
<1>39. CASE PoolGoes
  BY <1>39, Zenon DEF PoolGoes, AppOK
<1>40. CASE Others
  BY <1>40, OthersOnly, Zenon DEF AppOK
<1> QED
  BY <1>1, <1>2, <1>3, <1>4, <1>5, <1>6, <1>7, <1>8, <1>9, <1>10, <1>11, <1>12, <1>13,
      <1>14, <1>15, <1>16, <1>17, <1>18, <1>19, <1>20, <1>21, <1>22, <1>23, <1>24,
      <1>25, <1>26, <1>27, <1>28, <1>29, <1>30, <1>31, <1>32, <1>33, <1>34, <1>35,
      <1>36, <1>37, <1>38, <1>39, <1>40, Zenon DEF Next, Thread, Destructor, App,
      Outside

\* What the application will believe once it has read the queue q.
Belief(q, view) == IF q.items = <<>> THEN view ELSE q.items[Len(q.items)]

LEMMA PushedBelief ==
  ASSUME NEW S, NEW q \in QueueOf(S), NEW m, NEW view
  PROVE  /\ Belief(Push(q, m, TRUE), view) = m /\ Push(q, m, TRUE).started
         /\ q.started => Belief(Push(q, m, FALSE), view) = m /\ Push(q, m, FALSE).started
<1>1. q.items \in Seq(S) /\ q.started \in BOOLEAN
  BY DEF QueueOf
<1>2. Append(q.items, m) # <<>> /\ Append(q.items, m)[Len(Append(q.items, m))] = m
  BY <1>1, AppendProperties
<1> DEFINE r == [started |-> TRUE, items |-> Append(q.items, m)]
<1>3. r.items = Append(q.items, m) /\ r.started
  OBVIOUS
<1>4. Push(q, m, TRUE) = r /\ (q.started => Push(q, m, FALSE) = r)
  BY Zenon DEF Push
<1> HIDE DEF r
<1> QED BY <1>2, <1>3, <1>4, Zenon DEF Belief

LEMMA PoppedBelief ==
  ASSUME NEW S, NEW q \in QueueOf(S), NEW view, QueueReadable(q)
  PROVE  Belief(Pop(q), Head(q.items)) = Belief(q, view) /\ Pop(q).started = q.started
<1> DEFINE w == q.items
<1>1. w \in Seq(S) /\ w # <<>> /\ Pop(q).items = Tail(w) /\ Pop(q).started = q.started
  BY PopType DEF QueueOf, Pop
<1> HIDE DEF w
<1>2. IF Tail(w) = <<>> THEN Head(w) = w[Len(w)] ELSE Tail(w)[Len(Tail(w))] = w[Len(w)]
  <2>1. Len(w) \in Nat \ {0} /\ Head(w) = w[1] /\ Len(Tail(w)) = Len(w) - 1
        /\ \A i \in 1..Len(Tail(w)) : Tail(w)[i] = w[i + 1]
    BY <1>1, EmptySeq, HeadTailProperties
  <2>2. CASE Tail(w) = <<>>
    <3>1. Tail(w) \in Seq(S)
      BY <1>1, HeadTailProperties
    <3>2. Len(Tail(w)) = 0
      BY <2>2, <3>1, EmptySeq, Zenon
    <3>3. Len(w) \in Nat /\ Len(w) - 1 = 0
      BY <2>1, <3>2, Zenon
    <3>4. Len(w) = 1
      BY <3>3
    <3> QED BY <2>1, <2>2, <3>4, Zenon
  <2>3. CASE Tail(w) # <<>>
    <3>1. Len(w) # 1
      BY <1>1, <2>1, <2>3, HeadTailProperties, EmptySeq
    <3> QED BY <2>1, <2>3, <3>1
  <2> QED BY <2>2, <2>3
<1> QED BY <1>1, <1>2, Zenon DEF Belief, w

Quiet ==
    /\ queues'.inCmd = queues.inCmd
    /\ app'.view = app.view
    /\ InLoop' = InLoop
    /\ chan'.owner = "alive" => chan.owner = "alive"
    /\ chan'.pool => chan.pool

\* After a turn the loop goes on, or is left in the next step.
LEMMA TurnQuiet ==
  ASSUME ChanOK, TurnEnds
  PROVE  Quiet
<1>1. TurnLeaves
  BY Zenon DEF TurnEnds
<1>2. TurnKeeps /\ InCall(chan) /\ UNCHANGED <<queues, app>>
  BY Zenon DEF TurnEnds
<1>3. InLoop /\ InLoop'
  BY <1>1, <1>2 DEF TurnLeaves, InLoop, InCall
<1> QED BY <1>2, <1>3, Zenon DEF Quiet, TurnKeeps

\* An action that neither announces nor reads an announcement changes
\* nothing ViewConverges speaks of.
LEMMA QuietStep ==
  ASSUME ChanOK, DevOK, StaticOK, SendState, QueuesOK, AppOK, Next,
         ~EnterLoop, ~PoolLost, ~LeaveLoop, ~DestroyBegins, ~AppLearn
  PROVE  Quiet
<1>1. CASE Start
  BY <1>1, SMTT(30) DEF Start, Quiet, InLoop, ChanOK, LooseChannel, QueuesOK, AppOK
<1>2. CASE StartFails
  BY <1>2, SMTT(30) DEF StartFails, Quiet, InLoop, ChanOK, LooseChannel, QueuesOK, AppOK
<1>3. CASE ThreadExit
  BY <1>3, SMTT(30) DEF ThreadExit, Quiet, InLoop, ChanOK, LooseChannel, QueuesOK, AppOK
<1>4. CASE OpenSocket
  BY <1>4, SMTT(30) DEF OpenSocket, Quiet, InLoop, ChanOK, LooseChannel, QueuesOK, AppOK
<1>5. CASE OpenPort
  BY <1>5, SMTT(30) DEF OpenPort, Quiet, InLoop, ChanOK, LooseChannel, QueuesOK, AppOK
<1>6. CASE UnknownPacketType
  BY <1>6, SMTT(30) DEF UnknownPacketType, OutQueueEvent, Quiet, InLoop, ChanOK,
      LooseChannel, QueuesOK, AppOK
<1>7. CASE HandlePacket
  BY <1>7, SMTT(30) DEF HandlePacket, OutQueueEvent, Quiet, InLoop, ChanOK,
      LooseChannel, QueuesOK, AppOK
<1>8. CASE BeginSend
  <2>1. chan.pc = "loop" /\ queues'.inCmd = queues.inCmd /\ app' = app
    BY <1>8, Zenon DEF BeginSend, OutQueueEvent, Polling, QueuesOK
  <2>2. /\ chan'.pc = "turn" /\ chan'.owner = chan.owner /\ chan'.pool = chan.pool
    BY <1>8, Zenon DEF BeginSend, Started, Entered, ChanOK, LooseChannel
  <2>3. InLoop /\ InLoop'
    BY <2>1, <2>2 DEF InLoop
  <2> QED BY <2>1, <2>2, <2>3, Zenon DEF Quiet
<1>9. CASE ContinueSend
  <2>1. chan.pc = "loop" /\ queues'.inCmd = queues.inCmd /\ app' = app
    BY <1>9, Zenon DEF ContinueSend, OutQueueEvent, Polling, QueuesOK
  <2>2. /\ chan'.pc = "turn" /\ chan'.owner = chan.owner /\ chan'.pool = chan.pool
    BY <1>9, Zenon DEF ContinueSend, Resume, Entered, ChanOK, LooseChannel
  <2>3. InLoop /\ InLoop'
    BY <2>1, <2>2 DEF InLoop
  <2> QED BY <2>1, <2>2, <2>3, Zenon DEF Quiet
<1>10. CASE BeginTurn
  BY <1>10, TurnStep, TurnQuiet, Zenon DEF InTurn
<1>11. CASE NoSendSocket
  BY <1>11, TurnStep, TurnQuiet, Zenon DEF InTurn
<1>12. CASE SendFails
  BY <1>12, SMTT(30) DEF SendFails, Failed, Quiet, InLoop, ChanOK, LooseChannel
<1>13. CASE SendWaits
  BY <1>13, TurnStep, TurnQuiet, Zenon DEF InTurn
<1>14. CASE DatagramSent
  BY <1>14, TurnStep, TurnQuiet, Zenon DEF InTurn
<1>15. CASE WriteChunk
  BY <1>15, TurnStep, TurnQuiet, Zenon DEF InTurn
<1>16. CASE WriteTimesOut
  BY <1>16, TurnStep, TurnQuiet, Zenon DEF InTurn
<1>17. CASE AnotherTurn
  BY <1>17, TurnStep, TurnQuiet, Zenon DEF InTurn
<1>18. CASE ReturnLeft
  BY <1>18, TurnStep, TurnQuiet, Zenon DEF InTurn
<1>19. CASE TakeCommand
  BY <1>19, SMTT(30) DEF TakeCommand, Polling, Quiet, InLoop, ChanOK, LooseChannel,
      QueuesOK, AppOK
<1>20. CASE RecvPacket
  <2>1. UNCHANGED <<chan, app>> /\ queues'.inCmd = queues.inCmd
    BY <1>20, Zenon DEF RecvPacket, Deliver, QueuesOK
  <2> QED BY <2>1, Zenon DEF Quiet, InLoop
<1>21. CASE RecvNothing
  BY <1>21, SMTT(30) DEF RecvNothing, Polling, Deliver, Quiet, InLoop, ChanOK,
      LooseChannel, QueuesOK, AppOK
<1>22. CASE RecvFails
  BY <1>22, SMTT(30) DEF RecvFails, Polling, Quiet, InLoop, ChanOK, LooseChannel
<1>23. CASE Cleanup
  BY <1>23, SMTT(30) DEF Cleanup, ClearOutQueues, Quiet, InLoop, ChanOK, LooseChannel,
      QueuesOK, AppOK
<1>24. CASE ClearBusy
  BY <1>24, SMTT(30) DEF ClearBusy, Quiet, InLoop, ChanOK, LooseChannel, QueuesOK, AppOK
<1>25. CASE SetExit
  BY <1>25, SMTT(30) DEF SetExit, Quiet, InLoop, ChanOK, LooseChannel, QueuesOK, AppOK
<1>26. CASE Join
  BY <1>26, SMTT(30) DEF Join, Quiet, InLoop, ChanOK, LooseChannel, QueuesOK, AppOK
<1>27. CASE SetCallback
  BY <1>27, SMTT(30) DEF SetCallback, AppStep, Quiet, InLoop, ChanOK, LooseChannel,
      QueuesOK, AppOK
<1>28. CASE AppReceive
  BY <1>28, SMTT(30) DEF AppReceive, AppStep, Quiet, InLoop, ChanOK, LooseChannel,
      QueuesOK, AppOK
<1>29. ASSUME NEW type \in OutTypes, NEW force \in BOOLEAN, AppSend(type, force)
      PROVE  Quiet
  BY <1>29, SMTT(30) DEF AppSend, AppStep, AppRequest, Quiet, InLoop, ChanOK,
      LooseChannel, QueuesOK, AppOK
<1>30. ASSUME NEW type \in CmdTypes, NEW force \in BOOLEAN, AppCommand(type, force)
      PROVE  Quiet
  BY <1>30, SMTT(30) DEF AppCommand, AppStep, AppRequest, Quiet, InLoop, ChanOK,
      LooseChannel, QueuesOK, AppOK
<1>31. CASE RemoteSend
  BY <1>31, SMTT(30) DEF RemoteSend, OutsideStep, Quiet, InLoop, ChanOK, LooseChannel,
      QueuesOK, AppOK
<1>32. CASE RemoteDrain
  BY <1>32, SMTT(30) DEF RemoteDrain, OutsideStep, Quiet, InLoop, ChanOK, LooseChannel,
      QueuesOK, AppOK
<1>33. CASE HangUp
  BY <1>33, SMTT(30) DEF HangUp, OutsideStep, Quiet, InLoop, ChanOK, LooseChannel,
      QueuesOK, AppOK
<1>34. CASE PoolGoes
  BY <1>34, SMTT(30) DEF PoolGoes, Quiet, InLoop, ChanOK, LooseChannel
<1>35. CASE Others
  BY <1>35, OthersOnly, Zenon DEF Quiet, InLoop
<1> QED
  BY <1>1, <1>2, <1>3, <1>4, <1>5, <1>6, <1>7, <1>8, <1>9, <1>10, <1>11, <1>12, <1>13,
      <1>14, <1>15, <1>16, <1>17, <1>18, <1>19, <1>20, <1>21, <1>22, <1>23, <1>24,
      <1>25, <1>26, <1>27, <1>28, <1>29, <1>30, <1>31, <1>32, <1>33, <1>34, <1>35, Zenon
      DEF Next, Thread, Destructor, App, Outside

\* The announcements keep leading to what is so.
LEMMA ViewStep ==
  ASSUME ChanOK, DevOK, StaticOK, SendState, QueuesOK, AppOK, FeedStarted, ViewConverges, Next
  PROVE  FeedStarted' /\ ViewConverges'
<1> DEFINE q == queues.inCmd
<1>1. ViewConverges <=>
          (chan.owner = "alive" /\ chan.pool => InLoop = (Belief(q, app.view) = "OPEN"))
  BY Zenon DEF ViewConverges, Belief
<1>2. ViewConverges' <=>
          (chan'.owner = "alive" /\ chan'.pool => InLoop' = (Belief(q', app'.view) = "OPEN"))
  BY Zenon DEF ViewConverges, Belief
<1>3. q \in QueueOf({"OPEN", "CLOSE"})
  BY QueueTypes
<1>4. CASE EnterLoop
  <2>1. chan'.pc = "loop" /\ chan'.owner = chan.owner
    BY <1>4, SMTT(30) DEF EnterLoop, ChanOK, LooseChannel
  <2>2. chan.owner = "alive" => q' = Push(q, "OPEN", TRUE)
    BY <1>4, Zenon DEF EnterLoop, OpenMessage, QueuesOK
  <2>3. /\ Belief(Push(q, "OPEN", TRUE), app'.view) = "OPEN"
        /\ Push(q, "OPEN", TRUE).started
    BY <1>3, PushedBelief, Zenon
  <2>4. InLoop' = TRUE
    BY <2>1 DEF InLoop
  <2> QED BY <1>2, <2>1, <2>2, <2>3, <2>4, Zenon DEF FeedStarted
<1>5. CASE LeaveLoop
  <2>1. /\ chan'.pc = "cleanup" /\ chan'.owner = chan.owner /\ chan'.pool = chan.pool
        /\ InLoop
    BY <1>5, SMTT(30) DEF LeaveLoop, ChanOK, LooseChannel, InLoop
  <2>2. q' = Push(q, "CLOSE", FALSE)
    BY <1>5, Zenon DEF LeaveLoop, QueuesOK
  <2>3. q.started => Belief(Push(q, "CLOSE", FALSE), app'.view) = "CLOSE"
    BY <1>3, PushedBelief, Zenon
  <2>4. InLoop' = FALSE /\ ("CLOSE" = "OPEN") = FALSE
    BY <2>1 DEF InLoop
  <2>5. chan.owner = "alive" /\ chan.pool => q.started
    BY <2>1, Zenon DEF FeedStarted
  <2> QED BY <1>2, <2>1, <2>2, <2>3, <2>4, <2>5, Zenon DEF FeedStarted
<1>6. CASE DestroyBegins
  <2>1. chan'.owner # "alive"
    BY <1>6, SMTT(30) DEF DestroyBegins, CloseEpoll, ChanOK, LooseChannel
  <2> QED BY <2>1, Zenon DEF FeedStarted, ViewConverges
<1>7. CASE AppLearn
  <2>1. q' = Pop(q) /\ app'.view = Head(q.items) /\ QueueReadable(q)
    BY <1>7, Zenon DEF AppLearn, QueuesOK, AppOK
  <2>2. UNCHANGED chan
    BY <1>7, Zenon DEF AppLearn
  <2>3. Belief(q', app'.view) = Belief(q, app.view) /\ q'.started = q.started
    BY <1>3, <2>1, PoppedBelief, Zenon
  <2> QED BY <1>1, <1>2, <2>2, <2>3, Zenon DEF FeedStarted, InLoop
<1>8. CASE PoolLost
  <2>1. ~chan'.pool
    BY <1>8, Zenon DEF PoolLost, ChanOK, LooseChannel
  <2> QED BY <2>1, Zenon DEF FeedStarted, ViewConverges
<1>9. CASE ~EnterLoop /\ ~PoolLost /\ ~LeaveLoop /\ ~DestroyBegins /\ ~AppLearn
  <2>1. Quiet
    BY <1>9, QuietStep
  <2>2. FeedStarted'
    BY <2>1, Zenon DEF Quiet, FeedStarted
  <2>3. ViewConverges'
    BY <1>1, <1>2, <2>1, Zenon DEF Quiet
  <2> QED BY <2>2, <2>3
<1> QED BY <1>4, <1>5, <1>6, <1>7, <1>8, <1>9

DeviceInv ==
    /\ ChanOK /\ DevOK /\ QueuesOK /\ AppOK /\ StaticOK
    /\ SendState
    /\ FeedStarted /\ ViewConverges

LEMMA DeviceInit ==
  ASSUME Init
  PROVE  DeviceInv
<1> USE DeviceAssumption
<1>1. ChanOK
  BY SMTT(30) DEF Init, ChanOK, LooseChannel
<1>2. DevOK
  <2>1. <<>> \in Seq(Parts)
    BY EmptySeq
  <2>2. SndBuf \in Int /\ 0 \in Int
    OBVIOUS
  <2> QED BY <2>1, <2>2, Zenon DEF Init, DevOK, LooseDevice
<1>3. QueuesOK
  BY EmptyQueueType, Zenon DEF Init, QueuesOK
<1>4. AppOK
  BY SMTT(30) DEF Init, AppOK
<1>5. SendState
  BY SMTT(30) DEF Init, SendState, InCall, InLoop, SelfClosed
<1>6. FeedStarted /\ ViewConverges
  <2>1. ~InLoop
    BY DEF Init, InLoop
  <2>2. queues.inCmd.items = <<>> /\ app.view = "CLOSE"
    BY DEF Init, NewQueue
  <2>3. ("CLOSE" = "OPEN") = FALSE /\ InLoop = FALSE
    BY <2>1 DEF InLoop
  <2> QED BY <2>1, <2>2, <2>3, Zenon DEF FeedStarted, ViewConverges
<1>7. StaticOK
  <2> PICK others \in SUBSET Siblings :
          static = [others |-> others, bytesSent |-> 0,
                    at |-> [s \in Siblings |-> None], stores |-> 0]
    BY Zenon DEF Init
  <2>1. 0 \in Nat /\ 0 \in 0..MaxStores
    OBVIOUS
  <2>2. [s \in Siblings |-> None] \in [Siblings -> 0..(OtherLen - 1) \cup {None}]
    BY Zenon
  <2> QED BY <2>1, <2>2, Zenon DEF StaticOK, Static
<1> QED BY <1>1, <1>2, <1>3, <1>4, <1>5, <1>6, <1>7 DEF DeviceInv

\* Types, queues, the state of a send and the announcements support each other.
THEOREM DeviceInvariant == Spec => []DeviceInv
<1>1. Init => DeviceInv
  BY DeviceInit
<1>2. DeviceInv /\ [Next]_vars => DeviceInv'
  <2> SUFFICES ASSUME DeviceInv, [Next]_vars PROVE DeviceInv'
    OBVIOUS
  <2>1. CASE Next
    BY <2>1, ChanStep, DevStep, StaticStep, QueuesStep, AppOKStep, SendStep, ViewStep,
       ZenonT(30) DEF DeviceInv
  <2>2. CASE UNCHANGED vars
    BY <2>2, Zenon DEF vars, DeviceInv, ChanOK, DevOK, StaticOK, QueuesOK, AppOK, SendState,
       InCall, InLoop, SelfClosed, FeedStarted, ViewConverges
  <2> QED BY <2>1, <2>2
<1> QED BY <1>1, <1>2, PTL DEF Spec

(* What is announced of a pass of the loop, once read, is what is so,       *)
(* whatever the kind of the channel and however the passes follow, until    *)
(* the pool of a virtual channel is gone.                                   *)
THEOREM DeviceViewConverges == Spec => []ViewConverges
<1>1. DeviceInv => ViewConverges
  BY DEF DeviceInv
<1> QED BY <1>1, DeviceInvariant, PTL

(* A serving loop that does not watch outQueue waits for room with a packet *)
(* to finish, or has closed its own socket.                                 *)
THEOREM DeviceOutQueueNotStuck == Spec => []OutQueueNotStuck
<1>1. DeviceInv => OutQueueNotStuck
  BY Zenon DEF DeviceInv, SendState, OutQueueNotStuck, Polling
<1> QED BY <1>1, DeviceInvariant, PTL

-----------------------------------------------------------------------------
(* Reception: the counters, and ReceivedGapless.                            *)

\* What is counted stays in its range, and no more is read than was sent.
Counted ==
    /\ chan.kind \in Kinds
    /\ dev.rxRead \in 0..MaxRx /\ dev.rxSent \in 0..MaxRx /\ dev.rxRead <= dev.rxSent
    /\ dev.room \in 0..SndBuf
    /\ queues.in \in QueueOf(Received \cup {NullPacket})
    /\ app.got \in 0..MaxRx /\ app.got <= dev.rxRead

ReceiveInv == Counted /\ ReceivedGapless

\* The packets of s, null packets left out, are units n + 1 to r in order.
Covers(s, n, r) ==
    /\ \A i \in 1..Len(s) : s[i] # NullPacket =>
           n < s[i].from /\ s[i].from <= s[i].upto /\ s[i].upto <= r
    /\ \A i, j \in 1..Len(s) : s[i] # NullPacket /\ s[j] # NullPacket /\ i < j =>
           s[i].upto < s[j].from
    /\ \A unit \in (n + 1)..r : \E i \in 1..Len(s) :
           s[i] # NullPacket /\ unit \in s[i].from..s[i].upto

LEMMA GaplessIs ==
  ReceivedGapless <=> (chan.owner = "alive" => Covers(queues.in.items, app.got, dev.rxRead))
  BY DEF ReceivedGapless, Covers

LEMMA GaplessNext ==
  ReceivedGapless' <=>
      (chan'.owner = "alive" => Covers(queues'.in.items, app'.got, dev'.rxRead))
<1>1. (ReceivedGapless <=>
          (chan.owner = "alive" => Covers(queues.in.items, app.got, dev.rxRead)))'
  BY GaplessIs, PTL
<1> QED BY <1>1, Zenon

Packets == Received \cup {NullPacket}

LEMMA PacketBounds ==
  ASSUME NEW s \in Seq(Packets), NEW i \in 1..Len(s)
  PROVE  s[i] \in Packets /\ s[i].from \in Nat /\ s[i].upto \in Nat
<1>1. s[i] \in Packets
  BY ElementOfSeq
<1> QED BY <1>1, DeviceAssumption DEF Packets, Received, NullPacket

\* A packet of the units that follow is put behind s.
LEMMA PushCovers ==
  ASSUME NEW s \in Seq(Packets), NEW n \in Nat, NEW r \in Nat, NEW k \in Nat \ {0},
         NEW m \in Received, m.from = r + 1, m.upto = r + k, Covers(s, n, r), n <= r
  PROVE  Covers(Append(s, m), n, r + k)
<1> DEFINE v == Append(s, m)
<1>1. /\ Len(v) = Len(s) + 1 /\ v[Len(s) + 1] = m /\ Len(s) \in Nat
      /\ \A i \in 1..Len(s) : v[i] = s[i]
  BY DEF Packets
<1>2. \A i \in 1..Len(v) : i \in 1..Len(s) \/ i = Len(s) + 1
  BY <1>1
<1> HIDE DEF v
<1>3. \A i \in 1..Len(s) : s[i].from \in Nat /\ s[i].upto \in Nat
  BY PacketBounds, Zenon
<1>4. m # NullPacket
  BY DEF NullPacket
<1>5. ASSUME NEW i \in 1..Len(v), v[i] # NullPacket
      PROVE  n < v[i].from /\ v[i].from <= v[i].upto /\ v[i].upto <= r + k
  <2>1. CASE i \in 1..Len(s)
    <3>1. n < s[i].from /\ s[i].from <= s[i].upto /\ s[i].upto <= r
      BY <1>1, <1>5, <2>1, Zenon DEF Covers
    <3>2. s[i].upto \in Nat /\ v[i] = s[i]
      BY <1>1, <1>3, <2>1
    <3> QED BY <3>1, <3>2
  <2>2. CASE i = Len(s) + 1
    BY <1>1, <2>2
  <2> QED BY <1>2, <2>1, <2>2
<1>6. ASSUME NEW i \in 1..Len(v), NEW j \in 1..Len(v), v[i] # NullPacket, v[j] # NullPacket,
             i < j
      PROVE  v[i].upto < v[j].from
  <2>1. i \in 1..Len(s)
    BY <1>1, <1>6
  <2>2. CASE j \in 1..Len(s)
    <3>1. s[i].upto < s[j].from
      BY <1>1, <1>6, <2>1, <2>2, Zenon DEF Covers
    <3> QED BY <1>1, <2>1, <2>2, <3>1
  <2>3. CASE j = Len(s) + 1
    <3>1. s[i].upto <= r
      BY <1>1, <1>6, <2>1, Zenon DEF Covers
    <3>2. s[i].upto \in Nat /\ v[i] = s[i]
      BY <1>1, <1>3, <2>1
    <3> QED BY <1>1, <2>3, <3>1, <3>2
  <2> QED BY <1>2, <2>2, <2>3
<1>7. ASSUME NEW unit \in (n + 1)..(r + k)
      PROVE  \E i \in 1..Len(v) : v[i] # NullPacket /\ unit \in v[i].from..v[i].upto
  <2>1. CASE unit <= r
    <3>1. unit \in (n + 1)..r
      BY <2>1
    <3> PICK i \in 1..Len(s) : s[i] # NullPacket /\ unit \in s[i].from..s[i].upto
      BY <3>1, Zenon DEF Covers
    <3>2. i \in 1..Len(v) /\ v[i] = s[i]
      BY <1>1
    <3> QED BY <3>2, Zenon
  <2>2. CASE ~(unit <= r)
    <3>1. unit \in m.from..m.upto
      BY <2>2
    <3>2. Len(s) + 1 \in 1..Len(v)
      BY <1>1
    <3> QED BY <1>1, <1>4, <3>1, <3>2, Zenon
  <2> QED BY <2>1, <2>2
<1> QED BY <1>5, <1>6, <1>7, Zenon DEF Covers, v

\* A null packet changes nothing.
LEMMA PushNullCovers ==
  ASSUME NEW s \in Seq(Packets), NEW n, NEW r, Covers(s, n, r)
  PROVE  Covers(Append(s, NullPacket), n, r)
<1> DEFINE v == Append(s, NullPacket)
<1>1. /\ Len(v) = Len(s) + 1 /\ v[Len(s) + 1] = NullPacket /\ Len(s) \in Nat
      /\ \A i \in 1..Len(s) : v[i] = s[i]
  OBVIOUS
<1>2. \A i \in 1..Len(v) : v[i] # NullPacket => i \in 1..Len(s)
  <2>1. \A i \in 1..Len(v) : i \in 1..Len(s) \/ i = Len(s) + 1
    BY <1>1
  <2> QED BY <1>1, <2>1, Zenon
<1>3. \A i \in 1..Len(s) : i \in 1..Len(v)
  BY <1>1
<1> HIDE DEF v
<1> QED BY <1>1, <1>2, <1>3, Zenon DEF Covers, v

\* What was read of what the application takes, n units before.
TakenUpTo(m, n) == IF m = NullPacket THEN n ELSE m.upto

LEMMA TailCovers ==
  ASSUME NEW s \in Seq(Packets), s # <<>>, NEW n \in Nat, NEW r \in Nat, Covers(s, n, r)
  PROVE  Covers(Tail(s), TakenUpTo(Head(s), n), r)
<1> DEFINE v == Tail(s)
           t == TakenUpTo(Head(s), n)
<1>1. /\ Len(s) \in Nat \ {0} /\ Len(v) = Len(s) - 1 /\ Head(s) = s[1] /\ 1 \in 1..Len(s)
      /\ \A i \in 1..Len(v) : v[i] = s[i + 1]
  BY HeadTailProperties, EmptySeq
<1>2. \A i \in 1..Len(v) : i + 1 \in 1..Len(s) /\ 1 < i + 1
  BY <1>1
<1>3. \A i \in 1..Len(s) : s[i].from \in Nat /\ s[i].upto \in Nat
  BY PacketBounds, Zenon
<1> HIDE DEF v
<1>4. t = IF s[1] = NullPacket THEN n ELSE s[1].upto
  BY <1>1, Zenon DEF TakenUpTo
<1> HIDE DEF t
<1>5. ASSUME NEW i \in 1..Len(v), v[i] # NullPacket
      PROVE  t < v[i].from /\ v[i].from <= v[i].upto /\ v[i].upto <= r
  <2>1. /\ n < s[i + 1].from /\ s[i + 1].from <= s[i + 1].upto /\ s[i + 1].upto <= r
        /\ s[1] # NullPacket => s[1].upto < s[i + 1].from
    BY <1>1, <1>2, <1>5, Zenon DEF Covers
  <2> QED BY <1>1, <1>4, <2>1, Zenon
<1>6. ASSUME NEW i \in 1..Len(v), NEW j \in 1..Len(v), v[i] # NullPacket, v[j] # NullPacket,
             i < j
      PROVE  v[i].upto < v[j].from
  <2>1. i + 1 < j + 1
    BY <1>6
  <2> QED BY <1>1, <1>2, <1>6, <2>1, Zenon DEF Covers
<1>7. ASSUME NEW unit \in (t + 1)..r
      PROVE  \E i \in 1..Len(v) : v[i] # NullPacket /\ unit \in v[i].from..v[i].upto
  <2>1. unit \in (n + 1)..r /\ (s[1] # NullPacket => unit \notin s[1].from..s[1].upto)
    <3>1. CASE s[1] = NullPacket
      BY <1>4, <3>1
    <3>2. CASE s[1] # NullPacket
      <4>1. n < s[1].from /\ s[1].from <= s[1].upto
        BY <1>1, <3>2, Zenon DEF Covers
      <4>2. t = s[1].upto /\ s[1].from \in Nat /\ s[1].upto \in Nat
        BY <1>1, <1>3, <1>4, <3>2
      <4> QED BY <4>1, <4>2
    <3> QED BY <3>1, <3>2
  <2> PICK i \in 1..Len(s) : s[i] # NullPacket /\ unit \in s[i].from..s[i].upto
    BY <2>1, Zenon DEF Covers
  <2>2. i # 1
    BY <2>1, Zenon
  <2>3. i - 1 \in 1..Len(v) /\ (i - 1) + 1 = i
    BY <1>1, <2>2
  <2>4. v[i - 1] = s[i]
    BY <1>1, <2>3
  <2> DEFINE j == i - 1
  <2>5. j \in 1..Len(v) /\ v[j] = s[i]
    BY <2>3, <2>4
  <2> HIDE DEF j
  <2> QED BY <2>5, Zenon
<1> QED BY <1>5, <1>6, <1>7, Zenon DEF Covers, v, t

\* Nothing is received or taken, and the counters stay in range.
ReceptionKept ==
    /\ chan'.kind = chan.kind
    /\ chan'.owner = "alive" => chan.owner = "alive"
    /\ queues'.in = queues.in
    /\ app'.got = app.got
    /\ dev'.rxRead = dev.rxRead /\ dev.rxRead <= dev'.rxSent
    /\ dev'.rxSent \in 0..MaxRx
    /\ dev'.room \in 0..SndBuf

LEMMA ReceptionStays ==
  ASSUME ReceiveInv, ReceptionKept
  PROVE  ReceiveInv'
<1>1. Counted'
  BY Zenon DEF ReceiveInv, Counted, ReceptionKept
<1>2. chan.owner = "alive" => Covers(queues.in.items, app.got, dev.rxRead)
  BY GaplessIs, Zenon DEF ReceiveInv
<1>3. chan'.owner = "alive" => Covers(queues'.in.items, app'.got, dev'.rxRead)
  BY <1>2, Zenon DEF ReceptionKept
<1> QED BY <1>1, <1>3, GaplessNext, Zenon DEF ReceiveInv

\* A turn of send_packet receives nothing.
LEMMA TurnReception ==
  ASSUME ChanOK, Counted, TurnEnds,
         dev'.rxRead = dev.rxRead, dev'.rxSent \in {dev.rxSent, dev.rxRead},
         dev'.room = dev.room \/ \E n \in Nat : n <= dev.room /\ dev'.room = dev.room - n
  PROVE  ReceptionKept
<1>1. TurnKeeps /\ UNCHANGED <<queues, app>>
  BY Zenon DEF TurnEnds
<1>2. dev'.room \in 0..SndBuf
  BY DeviceAssumption, SMT DEF Counted
<1>3. dev'.rxSent \in 0..MaxRx /\ dev.rxRead <= dev'.rxSent
  BY DeviceAssumption, SMT DEF Counted
<1> QED BY <1>1, <1>2, <1>3, Zenon DEF ReceptionKept, TurnKeeps

\* Every action but these three and the start of the destruction.
LEMMA ReceptionStep ==
  ASSUME ChanOK, StaticOK, SendState, QueuesOK, AppOK, DevOK, Counted, Next,
         ~RecvPacket, ~RecvNothing, ~AppReceive, ~DestroyBegins
  PROVE  ReceptionKept
<1> USE DeviceAssumption
<1>1. CASE Start
  BY <1>1, SMTT(30) DEF Start, ReceptionKept, Counted, ChanOK, LooseChannel, QueuesOK,
     AppOK, DevOK, LooseDevice
<1>2. CASE StartFails
  BY <1>2, SMTT(30) DEF StartFails, ReceptionKept, Counted, ChanOK, LooseChannel,
     QueuesOK, AppOK, DevOK, LooseDevice
<1>3. CASE ThreadExit
  BY <1>3, SMTT(30) DEF ThreadExit, ReceptionKept, Counted, ChanOK, LooseChannel,
     QueuesOK, AppOK, DevOK, LooseDevice
<1>4. CASE OpenSocket
  BY <1>4, SMTT(30) DEF OpenSocket, ReceptionKept, Counted, ChanOK, LooseChannel,
     QueuesOK, AppOK, DevOK, LooseDevice
<1>5. CASE OpenPort
  BY <1>5, SMTT(30) DEF OpenPort, ReceptionKept, Counted, ChanOK, LooseChannel,
     QueuesOK, AppOK, DevOK, LooseDevice
<1>6. CASE EnterLoop
  <2>1. queues'.in = queues.in
    BY <1>6, Zenon DEF EnterLoop, OpenMessage, QueuesOK
  <2>2. chan'.kind = chan.kind /\ chan'.owner = chan.owner
    BY <1>6, Zenon DEF EnterLoop, ChanOK, LooseChannel
  <2>3. /\ dev'.rxRead = dev.rxRead /\ dev'.rxSent = dev.rxSent
        /\ dev'.room = dev.room
    BY <1>6, Zenon DEF EnterLoop, DevOK, LooseDevice
  <2>4. app' = app
    BY <1>6, Zenon DEF EnterLoop
  <2> QED BY <2>1, <2>2, <2>3, <2>4, Zenon DEF ReceptionKept, Counted
<1>7. CASE UnknownPacketType
  BY <1>7, SMTT(30) DEF UnknownPacketType, OutQueueEvent, ReceptionKept, Counted,
     ChanOK, LooseChannel, QueuesOK, AppOK, DevOK, LooseDevice
<1>8. CASE HandlePacket
  BY <1>8, SMTT(30) DEF HandlePacket, OutQueueEvent, ReceptionKept, Counted, ChanOK,
     LooseChannel, QueuesOK, AppOK, DevOK, LooseDevice
<1>9. CASE BeginSend
  <2>1. queues'.in = queues.in /\ UNCHANGED <<app, dev>>
    BY <1>9, Zenon DEF BeginSend, OutQueueEvent, QueuesOK
  <2>2. chan'.kind = chan.kind /\ chan'.owner = chan.owner
    BY <1>9, Zenon DEF BeginSend, Started, Entered, ChanOK, LooseChannel
  <2> QED BY <2>1, <2>2, Zenon DEF ReceptionKept, Counted
<1>10. CASE ContinueSend
  <2>1. chan'.kind = chan.kind /\ chan'.owner = chan.owner
    BY <1>10, Zenon DEF ContinueSend, Resume, Entered, ChanOK, LooseChannel
  <2> QED BY <1>10, <2>1, Zenon DEF ContinueSend, ReceptionKept, Counted
<1>11. CASE BeginTurn
  BY <1>11, TurnStep, TurnReception, Zenon DEF InTurn
<1>12. CASE NoSendSocket
  BY <1>12, TurnStep, TurnReception, Zenon DEF InTurn
<1>13. CASE SendFails
  <2>1. chan'.kind = chan.kind /\ chan'.owner = chan.owner
    BY <1>13, Zenon DEF SendFails, Failed, ChanOK, LooseChannel
  <2> QED BY <1>13, <2>1, Zenon DEF SendFails, ReceptionKept, Counted
<1>14. CASE SendWaits
  BY <1>14, TurnStep, TurnReception, Zenon DEF InTurn
<1>15. CASE DatagramSent
  BY <1>15, TurnStep, TurnReception, Zenon DEF InTurn
<1>16. CASE WriteChunk
  BY <1>16, TurnStep, TurnReception, Zenon DEF InTurn
<1>17. CASE WriteTimesOut
  BY <1>17, TurnStep, TurnReception, Zenon DEF InTurn
<1>18. CASE AnotherTurn
  BY <1>18, TurnStep, TurnReception, Zenon DEF InTurn
<1>19. CASE ReturnLeft
  BY <1>19, TurnStep, TurnReception, Zenon DEF InTurn
<1>20. CASE TakeCommand
  BY <1>20, SMTT(30) DEF TakeCommand, ReceptionKept, Counted, ChanOK, LooseChannel,
     QueuesOK, AppOK, DevOK, LooseDevice
<1>21. CASE RecvFails
  BY <1>21, SMTT(30) DEF RecvFails, Unread, ReceptionKept, Counted, ChanOK,
     LooseChannel, QueuesOK, AppOK, DevOK, LooseDevice
<1>22. CASE PoolLost
  <2>1. chan'.kind = chan.kind /\ chan'.owner = chan.owner
    BY <1>22, Zenon DEF PoolLost, ChanOK, LooseChannel
  <2> QED BY <1>22, <2>1, Zenon DEF PoolLost, ReceptionKept, Counted
<1>23. CASE LeaveLoop
  BY <1>23, SMTT(30) DEF LeaveLoop, ReceptionKept, Counted, ChanOK, LooseChannel,
     QueuesOK, AppOK, DevOK, LooseDevice
<1>24. CASE Cleanup
  BY <1>24, SMTT(30) DEF Cleanup, ClearOutQueues, ReceptionKept, Counted, ChanOK,
     LooseChannel, QueuesOK, AppOK, DevOK, LooseDevice
<1>25. CASE ClearBusy
  BY <1>25, SMTT(30) DEF ClearBusy, ReceptionKept, Counted, ChanOK, LooseChannel,
     QueuesOK, AppOK, DevOK, LooseDevice
<1>26. CASE SetExit
  BY <1>26, SMTT(30) DEF SetExit, ReceptionKept, Counted, ChanOK, LooseChannel,
     QueuesOK, AppOK, DevOK, LooseDevice
<1>27. CASE Join
  BY <1>27, SMTT(30) DEF Join, ReceptionKept, Counted, ChanOK, LooseChannel, QueuesOK,
     AppOK, DevOK, LooseDevice
<1>28. CASE SetCallback
  BY <1>28, SMTT(30) DEF SetCallback, AppStep, ReceptionKept, Counted, ChanOK,
     LooseChannel, QueuesOK, AppOK, DevOK, LooseDevice
<1>29. CASE AppLearn
  BY <1>29, SMTT(30) DEF AppLearn, AppStep, ReceptionKept, Counted, ChanOK,
     LooseChannel, QueuesOK, AppOK, DevOK, LooseDevice
<1>30. ASSUME NEW type \in OutTypes, NEW force \in BOOLEAN, AppSend(type, force)
      PROVE  ReceptionKept
  BY <1>30, SMTT(30) DEF AppSend, AppStep, AppRequest, ReceptionKept, Counted, ChanOK,
     LooseChannel, QueuesOK, AppOK, DevOK, LooseDevice
<1>31. ASSUME NEW type \in CmdTypes, NEW force \in BOOLEAN, AppCommand(type, force)
      PROVE  ReceptionKept
  BY <1>31, SMTT(30) DEF AppCommand, AppStep, AppRequest, ReceptionKept, Counted,
     ChanOK, LooseChannel, QueuesOK, AppOK, DevOK, LooseDevice
<1>32. CASE RemoteSend
  BY <1>32, SMTT(30) DEF RemoteSend, OutsideStep, ReceptionKept, Counted, ChanOK,
     LooseChannel, QueuesOK, AppOK, DevOK, LooseDevice
<1>33. CASE RemoteDrain
  BY <1>33, SMTT(30) DEF RemoteDrain, OutsideStep, ReceptionKept, Counted, ChanOK,
     LooseChannel, QueuesOK, AppOK, DevOK, LooseDevice
<1>34. CASE HangUp
  BY <1>34, SMTT(30) DEF HangUp, OutsideStep, ReceptionKept, Counted, ChanOK,
     LooseChannel, QueuesOK, AppOK, DevOK, LooseDevice
<1>35. CASE PoolGoes
  <2>1. chan'.kind = chan.kind /\ chan'.owner = chan.owner
    BY <1>35, Zenon DEF PoolGoes, ChanOK, LooseChannel
  <2> QED BY <1>35, <2>1, Zenon DEF PoolGoes, ReceptionKept, Counted
<1>36. CASE Others
  BY <1>36, OthersOnly, Zenon DEF ReceptionKept, Counted
<1> QED
  BY <1>1, <1>2, <1>3, <1>4, <1>5, <1>6, <1>7, <1>8, <1>9, <1>10, <1>11, <1>12, <1>13,
      <1>14, <1>15, <1>16, <1>17, <1>18, <1>19, <1>20, <1>21, <1>22, <1>23, <1>24,
      <1>25, <1>26, <1>27, <1>28, <1>29, <1>30, <1>31, <1>32, <1>33, <1>34, <1>35,
      <1>36, Zenon DEF Next, Thread, Destructor, App, Outside

LEMMA InQueue ==
  ASSUME Counted
  PROVE  /\ queues.in \in QueueOf(Packets) /\ queues.in.items \in Seq(Packets)
         /\ app.got \in Nat /\ dev.rxRead \in Nat /\ dev.rxSent \in Nat
<1>1. queues.in \in QueueOf(Packets)
  BY Zenon DEF Counted, Packets
<1>2. queues.in.items \in Seq(Packets)
  BY <1>1, Zenon DEF QueueOf
<1>3. app.got \in Nat /\ dev.rxRead \in Nat /\ dev.rxSent \in Nat
  BY DeviceAssumption DEF Counted
<1> QED BY <1>1, <1>2, <1>3

\* Units are read and waiting in one more packet.
LEMMA ReceiveUnits ==
  ASSUME ReceiveInv, ChanOK, QueuesOK, DevOK, RecvPacket
  PROVE  ReceiveInv'
<1> USE DeviceAssumption
<1>1. PICK k \in 1..Unread :
          /\ Deliver([from |-> dev.rxRead + 1, upto |-> dev.rxRead + k])
          /\ dev' = [dev EXCEPT !.rxRead = @ + TakenOf(k)]
          /\ UNCHANGED <<chan, app>>
  BY Zenon DEF RecvPacket
<1> DEFINE m == [from |-> dev.rxRead + 1, upto |-> dev.rxRead + k]
<1>2. /\ k \in Nat \ {0} /\ dev.rxRead + k \in 0..MaxRx /\ dev.rxRead + 1 \in 1..MaxRx
      /\ dev.rxRead + k \in 1..MaxRx /\ dev.rxRead + k <= dev.rxSent
      /\ app.got <= dev.rxRead /\ app.got <= dev.rxRead + k
  BY SMT DEF Unread, ReceiveInv, Counted
<1>3. m \in Received /\ m.from = dev.rxRead + 1 /\ m.upto = dev.rxRead + k
  BY <1>2, Zenon DEF Received
<1>4. queues'.in = Push(queues.in, m, TRUE)
  BY <1>1, Zenon DEF Deliver, QueuesOK
<1>5. /\ dev'.rxRead = dev.rxRead + k /\ dev'.rxSent = dev.rxSent /\ dev'.room = dev.room
  BY <1>1, Zenon DEF DevOK, LooseDevice, TakenOf
<1> HIDE DEF m
<1>6. /\ queues.in \in QueueOf(Packets) /\ queues.in.items \in Seq(Packets)
      /\ app.got \in Nat /\ dev.rxRead \in Nat
  BY InQueue, Zenon DEF ReceiveInv
<1>7. m \in Packets
  BY <1>3, Zenon DEF Packets
<1>8. queues'.in \in QueueOf(Packets) /\ queues'.in.items = Append(queues.in.items, m)
  <2>1. Push(queues.in, m, TRUE) \in QueueOf(Packets)
    BY <1>6, <1>7, PushType, Zenon
  <2>2. Push(queues.in, m, TRUE).items = Append(queues.in.items, m)
    BY <1>6, ForcedPush, Zenon
  <2> QED BY <1>4, <2>1, <2>2, Zenon
<1>9. Counted'
  <2>1. Counted
    BY Zenon DEF ReceiveInv
  <2> QED BY <1>1, <1>2, <1>5, <1>8, <2>1, Zenon DEF Counted, Packets
<1>10. chan'.owner = "alive" => Covers(queues'.in.items, app'.got, dev'.rxRead)
  <2> SUFFICES ASSUME chan'.owner = "alive"
               PROVE  Covers(queues'.in.items, app'.got, dev'.rxRead)
    OBVIOUS
  <2>1. Covers(queues.in.items, app.got, dev.rxRead)
    BY <1>1, GaplessIs, Zenon DEF ReceiveInv
  <2>2. Covers(Append(queues.in.items, m), app.got, dev.rxRead + k)
    BY <1>2, <1>3, <1>6, <2>1, PushCovers, Zenon
  <2> QED BY <1>1, <1>5, <1>8, <2>2, Zenon
<1> QED BY <1>9, <1>10, GaplessNext, Zenon DEF ReceiveInv

\* A null packet is put in the queue.
LEMMA ReceiveNone ==
  ASSUME ReceiveInv, QueuesOK, RecvNothing
  PROVE  ReceiveInv'
<1>1. queues'.in = Push(queues.in, NullPacket, TRUE) /\ UNCHANGED <<chan, app, dev>>
  BY Zenon DEF RecvNothing, Deliver, QueuesOK
<1>2. NullPacket \in Packets
  BY Zenon DEF Packets
<1>3. queues.in \in QueueOf(Packets) /\ queues.in.items \in Seq(Packets)
  BY InQueue, Zenon DEF ReceiveInv
<1>4. queues'.in \in QueueOf(Packets)
      /\ queues'.in.items = Append(queues.in.items, NullPacket)
  BY <1>1, <1>2, <1>3, PushType, ForcedPush, Zenon
<1>5. Counted'
  BY <1>1, <1>4, Zenon DEF ReceiveInv, Counted, Packets
<1>6. chan'.owner = "alive" => Covers(queues'.in.items, app'.got, dev'.rxRead)
  <2> SUFFICES ASSUME chan'.owner = "alive"
               PROVE  Covers(queues'.in.items, app'.got, dev'.rxRead)
    OBVIOUS
  <2>1. Covers(queues.in.items, app.got, dev.rxRead)
    BY <1>1, GaplessIs, Zenon DEF ReceiveInv
  <2> QED BY <1>1, <1>3, <1>4, <2>1, PushNullCovers, Zenon
<1> QED BY <1>5, <1>6, GaplessNext, Zenon DEF ReceiveInv

\* The application takes the first packet.
LEMMA ReceiveTaken ==
  ASSUME ReceiveInv, QueuesOK, AppOK, AppReceive
  PROVE  ReceiveInv'
<1> DEFINE s == queues.in.items
           m == Head(s)
<1>1. /\ chan.owner = "alive" /\ UNCHANGED <<chan, dev>>
      /\ QueueReadable(queues.in) /\ queues'.in = Pop(queues.in)
  BY Zenon DEF AppReceive, AppStep, QueuesOK
<1>2. app'.got = TakenUpTo(m, app.got)
  <2>1. app' = IF m = NullPacket THEN app ELSE [app EXCEPT !.got = m.upto]
    BY Zenon DEF AppReceive
  <2> HIDE DEF m
  <2> QED BY <2>1, Zenon DEF TakenUpTo, AppOK
<1>3. /\ queues.in \in QueueOf(Packets) /\ s \in Seq(Packets)
      /\ app.got \in Nat /\ dev.rxRead \in Nat
  BY InQueue, Zenon DEF ReceiveInv
<1>4. s # <<>> /\ queues'.in \in QueueOf(Packets) /\ queues'.in.items = Tail(s)
  BY <1>1, <1>3, PopType, Zenon
<1>5. Covers(s, app.got, dev.rxRead)
  BY <1>1, GaplessIs, Zenon DEF ReceiveInv
<1>6. m = s[1] /\ 1 \in 1..Len(s)
  BY <1>3, <1>4, EmptySeq
<1>7. m # NullPacket => m.upto \in 0..MaxRx /\ m.upto <= dev.rxRead
  <2>1. s[1] \in Packets
    BY <1>3, <1>6, ElementOfSeq, Zenon
  <2>2. s[1] # NullPacket => s[1] \in Received /\ s[1].upto <= dev.rxRead
    BY <1>5, <1>6, <2>1, Zenon DEF Covers, Packets
  <2>3. s[1] \in Received => s[1].upto \in 0..MaxRx
    BY DeviceAssumption, SMT DEF Received
  <2> HIDE DEF s, m
  <2> QED BY <1>6, <2>2, <2>3, Zenon
<1> HIDE DEF s
<1>8. Covers(Tail(s), TakenUpTo(m, app.got), dev.rxRead)
  BY <1>3, <1>4, <1>5, TailCovers, Zenon
<1> HIDE DEF m
<1>9. Counted'
  <2>1. app'.got \in 0..MaxRx /\ app'.got <= dev.rxRead
    BY <1>2, <1>7, Zenon DEF TakenUpTo, ReceiveInv, Counted
  <2> QED BY <1>1, <1>4, <2>1, Zenon DEF ReceiveInv, Counted, Packets
<1>10. Covers(queues'.in.items, app'.got, dev'.rxRead)
  BY <1>1, <1>2, <1>4, <1>8, Zenon
<1> QED BY <1>9, <1>10, GaplessNext, Zenon DEF ReceiveInv

\* The destruction begins: nobody reads what was received any more.
LEMMA ReceiveEnds ==
  ASSUME ReceiveInv, ChanOK, QueuesOK, DestroyBegins
  PROVE  ReceiveInv'
<1>1. chan'.owner = "closing" /\ chan'.kind = chan.kind /\ UNCHANGED <<app, dev>>
  BY Zenon DEF DestroyBegins, CloseEpoll, ChanOK, LooseChannel
<1>2. queues'.in = StopAndClear(queues.in)
  BY Zenon DEF DestroyBegins, QueuesOK
<1>3. queues'.in \in QueueOf(Packets)
  BY <1>2, EmptyQueueType, Zenon
<1>4. Counted'
  BY <1>1, <1>3, Zenon DEF ReceiveInv, Counted, Packets
<1>5. chan'.owner # "alive"
  BY <1>1
<1> QED BY <1>4, <1>5, GaplessNext, Zenon DEF ReceiveInv

LEMMA ReceiveStep ==
  ASSUME ReceiveInv, DeviceInv, Next
  PROVE  ReceiveInv'
<1>1. ChanOK /\ QueuesOK /\ AppOK /\ DevOK /\ StaticOK /\ SendState /\ Counted
  BY Zenon DEF DeviceInv, ReceiveInv
<1>2. CASE RecvPacket
  BY <1>1, <1>2, ReceiveUnits
<1>3. CASE RecvNothing
  BY <1>1, <1>3, ReceiveNone
<1>4. CASE AppReceive
  BY <1>1, <1>4, ReceiveTaken
<1>5. CASE DestroyBegins
  BY <1>1, <1>5, ReceiveEnds
<1>6. CASE ~RecvPacket /\ ~RecvNothing /\ ~AppReceive /\ ~DestroyBegins
  <2>1. ReceptionKept
    BY <1>1, <1>6, ReceptionStep
  <2> QED BY <2>1, ReceptionStays
<1> QED BY <1>2, <1>3, <1>4, <1>5, <1>6

LEMMA ReceiveInit ==
  ASSUME Init
  PROVE  ReceiveInv
<1> USE DeviceAssumption
<1>1. chan.kind \in Kinds
  BY SMT DEF Init
<1>2. queues.in = NewQueue /\ app.got = 0
  BY Zenon DEF Init
<1>3. dev.rxSent = 0 /\ dev.rxRead = 0 /\ dev.room = SndBuf
  BY Zenon DEF Init
<1>4. queues.in \in QueueOf(Packets) /\ queues.in.items = <<>>
  BY <1>2, EmptyQueueType DEF NewQueue
<1>5. /\ 0 \in 0..MaxRx /\ 0 <= 0 /\ SndBuf \in 0..SndBuf
  OBVIOUS
<1>6. Counted
  BY <1>1, <1>2, <1>3, <1>4, <1>5, Zenon DEF Counted, Packets
<1>7. Covers(<<>>, 0, 0)
  BY DEF Covers
<1> QED BY <1>2, <1>3, <1>4, <1>6, <1>7, GaplessIs, Zenon DEF ReceiveInv

\* What waits in inQueue covers what was read and not taken.
THEOREM DeviceReceiveInvariant == Spec => []ReceiveInv
<1>1. ReceiveInv /\ DeviceInv /\ [Next]_vars => ReceiveInv'
  <2> SUFFICES ASSUME ReceiveInv, DeviceInv, [Next]_vars PROVE ReceiveInv'
    OBVIOUS
  <2>1. CASE Next
    BY <2>1, ReceiveStep
  <2>2. CASE UNCHANGED vars
    BY <2>2, Zenon DEF vars, ReceiveInv, Counted, ReceivedGapless
  <2> QED BY <2>1, <2>2
<1> QED BY <1>1, ReceiveInit, DeviceInvariant, PTL DEF Spec

(* What a channel without connections received and no failed call lost      *)
(* reaches the application in order and once, whatever the kind of channel: *)
(* recv_packet of UdpClientSocket and COMPort, and the null packets of a    *)
(* port that is gone.                                                       *)
THEOREM DeviceReceivedGapless == Spec => []ReceivedGapless
<1>1. ReceiveInv => ReceivedGapless
  BY Zenon DEF ReceiveInv
<1> QED BY <1>1, DeviceReceiveInvariant, PTL

-----------------------------------------------------------------------------
(* Sending: the wire, and outQueue behind it.                               *)

LastId(w) == IF w = <<>> THEN 0 ELSE w[Len(w)].id

\* SentWholeInOrder, of a wire w: in any case, and of a channel that is alone.
Ordered(w) == \A i \in 1..(Len(w) - 1) : w[i].id <= w[i + 1].id
InOrder(w) == \A i \in 1..(Len(w) - 1) : Whole(w[i]) /\ w[i].id < w[i + 1].id

AllWhole(w) == \A i \in 1..Len(w) : Whole(w[i])

\* Of packet p, the first n units are on the wire w and what came before is whole.
PartSent(w, p, n) ==
    IF n = 0
    THEN AllWhole(w) /\ LastId(w) < p.id
    ELSE w # <<>> /\ LastId(w) = p.id /\ w[Len(w)].from = 0 /\ w[Len(w)].upto = n

\* The packets of s were requested in this order, after last and before next.
Queued(s, last, next) ==
    /\ last < next
    /\ \A i \in 1..Len(s) : last < s[i].id /\ s[i].id < next
    /\ \A i, j \in 1..Len(s) : i < j => s[i].id < s[j].id

LEMMA PartOf ==
  ASSUME NEW w \in Seq(Parts), NEW i \in 1..Len(w)
  PROVE  w[i] \in Parts /\ w[i].id \in 1..MaxRequests /\ w[i].id \in Nat
<1>1. w[i] \in Parts
  BY ElementOfSeq, Zenon
<1>2. w[i].id \in 1..MaxRequests
  BY <1>1, Zenon DEF Parts
<1> QED BY <1>1, <1>2

LEMMA LastIdNat ==
  ASSUME NEW w \in Seq(Parts)
  PROVE  LastId(w) \in Nat
<1>1. CASE w # <<>>
  <2>1. Len(w) \in 1..Len(w)
    BY <1>1, EmptySeq
  <2>2. w[Len(w)].id \in Nat
    BY <2>1, PartOf, Zenon
  <2> QED BY <1>1, <2>2 DEF LastId
<1> QED BY <1>1 DEF LastId

\* Neighbours in v are neighbours in w, or the last of w and q.
Neighbours(w, q, v) ==
    \A i \in 1..(Len(v) - 1) :
        \/ i \in 1..(Len(w) - 1) /\ v[i] = w[i] /\ v[i + 1] = w[i + 1]
        \/ w # <<>> /\ i = Len(w) /\ v[i] = w[Len(w)] /\ v[i + 1] = q

\* The elements of a wire with one part more.
LEMMA AppendedParts ==
  ASSUME NEW w \in Seq(Parts), NEW q \in Parts
  PROVE  LET v == Append(w, q)
         IN /\ v \in Seq(Parts) /\ v # <<>> /\ Len(v) = Len(w) + 1 /\ v[Len(v)] = q
            /\ LastId(v) = q.id
            /\ \A i \in 1..Len(w) : v[i] = w[i]
            /\ \A i \in 1..Len(v) : i \in 1..Len(w) \/ i = Len(v)
            /\ Neighbours(w, q, v)
<1> DEFINE v == Append(w, q)
<1>1. /\ v \in Seq(Parts) /\ v # <<>> /\ Len(w) \in Nat
      /\ Len(v) = Len(w) + 1 /\ v[Len(w) + 1] = q
      /\ \A i \in 1..Len(w) : v[i] = w[i]
  BY AppendProperties
<1> HIDE DEF v
<1>2. LastId(v) = q.id /\ v[Len(v)] = q
  BY <1>1, Zenon DEF LastId
<1>3. \A i \in 1..Len(v) : i \in 1..Len(w) \/ i = Len(v)
  BY <1>1
<1>4. ASSUME NEW i \in 1..(Len(v) - 1)
      PROVE  \/ i \in 1..(Len(w) - 1) /\ v[i] = w[i] /\ v[i + 1] = w[i + 1]
             \/ w # <<>> /\ i = Len(w) /\ v[i] = w[Len(w)] /\ v[i + 1] = q
  <2>1. CASE i \in 1..(Len(w) - 1)
    <3>1. i \in 1..Len(w) /\ i + 1 \in 1..Len(w)
      BY <1>1, <2>1
    <3> QED BY <1>1, <2>1, <3>1, Zenon
  <2>2. CASE i \notin 1..(Len(w) - 1)
    <3>1. i = Len(w) /\ i \in 1..Len(w)
      BY <1>1, <2>2
    <3>2. w # <<>>
      BY <1>1, <3>1, EmptySeq
    <3> QED BY <1>1, <3>1, <3>2, Zenon
  <2> QED BY <2>1, <2>2
<1>5. Neighbours(w, q, v)
  BY <1>4, Zenon DEF Neighbours
<1> QED BY <1>1, <1>2, <1>3, <1>5, Zenon DEF v

LEMMA AppendedLast ==
  ASSUME NEW w \in Seq(Parts), NEW q \in Parts
  PROVE  /\ Append(w, q) # <<>> /\ Append(w, q)[Len(Append(w, q))] = q
         /\ LastId(Append(w, q)) = q.id
<1> DEFINE v == Append(w, q)
<1>1. v # <<>> /\ Len(v) = Len(w) + 1 /\ v[Len(w) + 1] = q
  BY AppendProperties
<1> HIDE DEF v
<1>2. v # <<>> /\ v[Len(v)] = q /\ LastId(v) = q.id
  BY <1>1, Zenon DEF LastId
<1> QED BY <1>2 DEF v

\* The elements of a wire whose last part was made longer.
LEMMA ExtendedParts ==
  ASSUME NEW w \in Seq(Parts), w # <<>>, NEW u \in 0..PacketLen
  PROVE  LET v == [w EXCEPT ![Len(w)].upto = u]
         IN /\ v \in Seq(Parts) /\ v # <<>> /\ Len(v) = Len(w)
            /\ LastId(v) = LastId(w) /\ v[Len(v)].id = w[Len(w)].id
            /\ v[Len(v)].from = w[Len(w)].from /\ v[Len(v)].upto = u
            /\ \A i \in 1..(Len(v) - 1) :
                   i \in 1..(Len(w) - 1) /\ v[i] = w[i] /\ v[i + 1].id = w[i + 1].id
            /\ \A i \in 1..Len(v) : i \in 1..(Len(v) - 1) \/ i = Len(v)
<1> DEFINE l == Len(w)
           x == [w[l] EXCEPT !.upto = u]
           v == [w EXCEPT ![l] = x]
<1>1. l \in 1..l /\ l \in Nat
  BY EmptySeq
<1>2. w[l] \in Parts
  BY <1>1, PartOf, Zenon
<1>3. x \in Parts /\ x.id = w[l].id /\ x.from = w[l].from /\ x.upto = u
  BY <1>2, Zenon DEF Parts
<1>4. [w EXCEPT ![Len(w)].upto = u] = v
  OBVIOUS
<1> HIDE DEF x
<1>5. /\ v \in Seq(Parts) /\ Len(v) = l /\ v[l] = x
      /\ \A i \in 1..l : i # l => v[i] = w[i]
  BY <1>1, <1>3, ExceptSeq
<1> HIDE DEF v
<1>6. v # <<>>
  BY <1>1, <1>5
<1>7. LastId(v) = LastId(w)
  BY <1>3, <1>5, <1>6, Zenon DEF LastId
<1>8. ASSUME NEW i \in 1..(Len(v) - 1)
      PROVE  i \in 1..(Len(w) - 1) /\ v[i] = w[i] /\ v[i + 1].id = w[i + 1].id
  <2>1. i \in 1..l /\ i # l /\ i + 1 \in 1..l /\ i \in 1..(Len(w) - 1)
    BY <1>1, <1>5
  <2> QED BY <1>3, <1>5, <2>1, Zenon
<1>9. \A i \in 1..Len(v) : i \in 1..(Len(v) - 1) \/ i = Len(v)
  BY <1>1, <1>5
<1> HIDE DEF l
<1>10. v[Len(v)].id = w[Len(w)].id /\ v[Len(v)].from = w[Len(w)].from /\ v[Len(v)].upto = u
  BY <1>3, <1>5, Zenon DEF l
<1> QED BY <1>4, <1>5, <1>6, <1>7, <1>8, <1>9, <1>10, Zenon DEF l

\* A part is appended to a wire.
LEMMA AppendedOrdered ==
  ASSUME NEW w \in Seq(Parts), NEW q \in Parts, Ordered(w), LastId(w) <= q.id
  PROVE  Ordered(Append(w, q)) /\ LastId(Append(w, q)) = q.id
<1> DEFINE v == Append(w, q)
<1>1. LastId(v) = q.id /\ Neighbours(w, q, v)
  BY AppendedParts, Zenon
<1> HIDE DEF v
<1>2. w # <<>> => w[Len(w)].id <= q.id
  BY Zenon DEF LastId
<1> QED BY <1>1, <1>2, Zenon DEF Ordered, Neighbours, v

LEMMA AppendedInOrder ==
  ASSUME NEW w \in Seq(Parts), NEW q \in Parts, InOrder(w), AllWhole(w), LastId(w) < q.id
  PROVE  InOrder(Append(w, q)) /\ (Whole(q) => AllWhole(Append(w, q)))
<1> DEFINE v == Append(w, q)
<1>1. /\ v[Len(v)] = q
      /\ \A i \in 1..Len(w) : v[i] = w[i]
      /\ \A i \in 1..Len(v) : i \in 1..Len(w) \/ i = Len(v)
      /\ Neighbours(w, q, v)
  <2>1. v[Len(v)] = q
    BY AppendedLast, Zenon
  <2>2. \A i \in 1..Len(w) : v[i] = w[i]
    BY AppendedParts, Zenon
  <2>3. \A i \in 1..Len(v) : i \in 1..Len(w) \/ i = Len(v)
    BY AppendedParts, Zenon
  <2>4. Neighbours(w, q, v)
    BY AppendedParts, Zenon
  <2> QED BY <2>1, <2>2, <2>3, <2>4, Zenon
<1> HIDE DEF v
<1>2. w # <<>> => w[Len(w)].id < q.id /\ Whole(w[Len(w)])
  <2>1. w # <<>> => Len(w) \in 1..Len(w)
    BY EmptySeq
  <2> QED BY <2>1, Zenon DEF LastId, AllWhole
<1>3. InOrder(v)
  <2> SUFFICES ASSUME NEW i \in 1..(Len(v) - 1)
               PROVE  Whole(v[i]) /\ v[i].id < v[i + 1].id
    BY Zenon DEF InOrder
  <2>1. CASE i \in 1..(Len(w) - 1) /\ v[i] = w[i] /\ v[i + 1] = w[i + 1]
    BY <2>1, Zenon DEF InOrder
  <2>2. CASE w # <<>> /\ i = Len(w) /\ v[i] = w[Len(w)] /\ v[i + 1] = q
    BY <1>2, <2>2, Zenon
  <2> QED BY <1>1, <2>1, <2>2, Zenon DEF Neighbours
<1>4. Whole(q) => AllWhole(v)
  BY <1>1, Zenon DEF AllWhole
<1> QED BY <1>3, <1>4, Zenon DEF v

\* Whatever part of a packet not before the last is written.
LEMMA SentOrdered ==
  ASSUME NEW w \in Seq(Parts), NEW q \in Parts, Ordered(w), LastId(w) <= q.id
  PROVE  Ordered(Sent(w, q)) /\ LastId(Sent(w, q)) \in {LastId(w), q.id}
<1>1. CASE q.from = q.upto
  BY <1>1, Zenon DEF Sent
<1>2. CASE q.from # q.upto /\ w # <<>> /\ w[Len(w)].id = q.id /\ w[Len(w)].upto = q.from
  <2> DEFINE v == [w EXCEPT ![Len(w)].upto = q.upto]
  <2>1. Sent(w, q) = v
    BY <1>2, Zenon DEF Sent
  <2>2. q.upto \in 0..PacketLen
    BY Zenon DEF Parts
  <2>3. /\ LastId(v) = LastId(w)
        /\ \A i \in 1..(Len(v) - 1) :
               i \in 1..(Len(w) - 1) /\ v[i] = w[i] /\ v[i + 1].id = w[i + 1].id
    BY <1>2, <2>2, ExtendedParts, Zenon
  <2> HIDE DEF v
  <2> QED BY <2>1, <2>3, Zenon DEF Ordered
<1>3. CASE q.from # q.upto /\ ~(w # <<>> /\ w[Len(w)].id = q.id /\ w[Len(w)].upto = q.from)
  <2>1. Sent(w, q) = Append(w, q)
    BY <1>3, Zenon DEF Sent
  <2> QED BY <2>1, AppendedOrdered, Zenon
<1> QED BY <1>1, <1>2, <1>3, Zenon

\* More of packet p, of which k units are sent.
LEMMA MoreSent ==
  ASSUME NEW w \in Seq(Parts), InOrder(w), NEW p \in Request, NEW k \in Nat,
         PartSent(w, p, k), NEW q \in Parts, q.id = p.id, q.from = k, k < q.upto
  PROVE  /\ InOrder(Sent(w, q)) /\ PartSent(Sent(w, q), p, q.upto)
         /\ q.upto = PacketLen => AllWhole(Sent(w, q))
<1>0. /\ q.upto \in 0..PacketLen /\ q.from # q.upto /\ q.upto # 0
      /\ p.id \in Nat
  <2>1. q.upto \in 0..PacketLen
    BY Zenon DEF Parts
  <2>2. q.upto \in Int
    BY <2>1
  <2> QED BY <2>1, <2>2 DEF Request
<1>1. CASE k = 0
  <2>1. AllWhole(w) /\ LastId(w) < q.id
    BY <1>1, Zenon DEF PartSent
  <2>2. ~(w # <<>> /\ w[Len(w)].id = q.id)
    <3>1. LastId(w) # q.id
      BY <1>0, <2>1, LastIdNat
    <3> QED BY <3>1, Zenon DEF LastId
  <2> DEFINE v == Append(w, q)
  <2>3. Sent(w, q) = v
    BY <1>0, <2>2, Zenon DEF Sent
  <2>4. InOrder(v) /\ (Whole(q) => AllWhole(v))
    BY <2>1, AppendedInOrder, Zenon
  <2>5. v # <<>> /\ v[Len(v)] = q /\ LastId(v) = q.id
    BY AppendedLast, Zenon
  <2> HIDE DEF v
  <2>6. PartSent(v, p, q.upto)
    BY <1>0, <1>1, <2>5, Zenon DEF PartSent
  <2> QED BY <1>1, <2>3, <2>4, <2>6, Zenon DEF Whole
<1>2. CASE k # 0
  <2> DEFINE v == [w EXCEPT ![Len(w)].upto = q.upto]
  <2>1. w # <<>> /\ LastId(w) = p.id /\ w[Len(w)].from = 0 /\ w[Len(w)].upto = k
    BY <1>2, Zenon DEF PartSent
  <2>2. Sent(w, q) = v
    BY <1>0, <2>1, Zenon DEF Sent, LastId
  <2> DEFINE u == q.upto
  <2> HIDE DEF u
  <2>3. u \in 0..PacketLen
    BY <1>0, Zenon DEF u
  <2>4. LET x == [w EXCEPT ![Len(w)].upto = u]
        IN /\ x \in Seq(Parts) /\ x # <<>> /\ Len(x) = Len(w)
           /\ LastId(x) = LastId(w) /\ x[Len(x)].id = w[Len(w)].id
           /\ x[Len(x)].from = w[Len(w)].from /\ x[Len(x)].upto = u
           /\ \A i \in 1..(Len(x) - 1) :
                  i \in 1..(Len(w) - 1) /\ x[i] = w[i] /\ x[i + 1].id = w[i + 1].id
           /\ \A i \in 1..Len(x) : i \in 1..(Len(x) - 1) \/ i = Len(x)
    BY <2>1, <2>3, ExtendedParts, Zenon
  <2>5. /\ v # <<>> /\ LastId(v) = LastId(w)
        /\ v[Len(v)].from = w[Len(w)].from /\ v[Len(v)].upto = q.upto
        /\ \A i \in 1..(Len(v) - 1) :
               i \in 1..(Len(w) - 1) /\ v[i] = w[i] /\ v[i + 1].id = w[i + 1].id
        /\ \A i \in 1..Len(v) : i \in 1..(Len(v) - 1) \/ i = Len(v)
    BY <2>4, Zenon DEF u
  <2> HIDE DEF v
  <2>6. InOrder(v)
    BY <2>5, Zenon DEF InOrder
  <2>7. PartSent(v, p, q.upto)
    BY <1>0, <2>1, <2>5, Zenon DEF PartSent
  <2>8. q.upto = PacketLen => AllWhole(v)
    BY <2>1, <2>5, <2>6, Zenon DEF AllWhole, InOrder, Whole
  <2> QED BY <2>2, <2>6, <2>7, <2>8, Zenon
<1> QED BY <1>1, <1>2

LEMMA IdsNat ==
  ASSUME NEW s \in Seq(Request), NEW i \in 1..Len(s)
  PROVE  s[i] \in Request /\ s[i].id \in Nat
<1>1. s[i] \in Request
  BY ElementOfSeq, Zenon
<1> QED BY <1>1 DEF Request

LEMMA PopQueued ==
  ASSUME NEW s \in Seq(Request), s # <<>>, NEW last \in Nat, NEW next \in Nat,
         Queued(s, last, next)
  PROVE  /\ last < Head(s).id
         /\ Queued(Tail(s), Head(s).id, next)
         /\ Queued(Tail(s), last, next)
<1>1. Len(s) \in Nat /\ Len(s) # 0 /\ Head(s) = s[1]
  BY EmptySeq
<1>2. Len(Tail(s)) = Len(s) - 1 /\ \A i \in 1..Len(Tail(s)) : Tail(s)[i] = s[i + 1]
  BY HeadTailProperties
<1>3. \A i \in 1..Len(s) : s[i].id \in Nat
  BY IdsNat
<1>4. 1 \in 1..Len(s) /\ \A i \in 1..Len(Tail(s)) : i + 1 \in 1..Len(s) /\ 1 < i + 1
  BY <1>1, <1>2
<1> QED BY <1>1, <1>2, <1>3, <1>4 DEF Queued

LEMMA PushQueued ==
  ASSUME NEW s \in Seq(Request), NEW last \in Nat, NEW next \in Nat, NEW m,
         Queued(s, last, next), m.id = next
  PROVE  Queued(Append(s, m), last, next + 1) /\ Queued(s, last, next + 1)
<1>1. Len(s) \in Nat /\ \A i \in 1..Len(s) : s[i].id \in Nat
  BY IdsNat
<1>2. /\ Len(Append(s, m)) = Len(s) + 1 /\ Append(s, m)[Len(s) + 1] = m
      /\ \A i \in 1..Len(s) : Append(s, m)[i] = s[i]
  BY AppendProperties
<1>3. \A i \in 1..Len(Append(s, m)) : i \in 1..Len(s) \/ i = Len(s) + 1
  BY <1>1, <1>2
<1> QED BY <1>1, <1>2, <1>3 DEF Queued
-----------------------------------------------------------------------------
(* The stream a channel sends.                                              *)

\* The loop may take the next packet.
Settled(c) == c.pc = "loop" /\ c.epollOpen /\ ~c.epollOut

\* A packet is being sent, or found no room.
Pending(c) == InCall(c) \/ (c.pc = "loop" /\ c.epollOut)

\* The wire w, a pending packet and the queue s, before request next.
SendOrder(c, w, s, next) ==
    /\ Ordered(w)
    /\ c.outQueueWatched => ~c.epollOut
    /\ Pending(c) => /\ c.packToSend \in Request
                     /\ LastId(w) <= c.packToSend.id
                     /\ Queued(s, c.packToSend.id, next)
    /\ Queued(s, LastId(w), next)

\* Of the pending packet, b units are sent: none or all of a datagram.
Midway(c, w, b) ==
    /\ b < PacketLen
    /\ c.kind = "udp" => b = 0
    /\ PartSent(w, c.packToSend, b)

Complete(c, w, b) == c.pc \in {"counted", "returning"} /\ b = PacketLen /\ AllWhole(w)

\* With b units counted, when nobody else counts.
SendExact(c, w, b) ==
    /\ InOrder(w)
    /\ b <= PacketLen /\ c.at <= PacketLen
    /\ Settled(c) => AllWhole(w)
    /\ Pending(c) => Midway(c, w, b) \/ Complete(c, w, b)
    /\ c.pc = "sending" => c.at = b

StreamInv ==
    /\ SendOrder(chan, dev.wire, queues.out.items, app.nextId)
    /\ Alone => SendExact(chan, dev.wire, static.bytesSent)

LEMMA StreamNext ==
  ASSUME static'.others = static.others,
         SendOrder(chan', dev'.wire, queues'.out.items, app'.nextId),
         Alone => SendExact(chan', dev'.wire, static'.bytesSent)
  PROVE  StreamInv'
  BY Zenon DEF StreamInv, Alone

\* Nothing is sent or begun.
SendingKept ==
    /\ chan'.kind = chan.kind
    /\ dev'.wire = dev.wire
    /\ chan'.outQueueWatched => ~chan'.epollOut
    /\ Settled(chan') => Settled(chan)
    /\ Pending(chan') => /\ Pending(chan) /\ chan'.packToSend = chan.packToSend
                         /\ chan'.pc = chan.pc /\ chan'.at = chan.at
    /\ chan'.at \in {chan.at, 0}
    /\ Alone => static'.bytesSent = static.bytesSent

\* outQueue is left alone, cleared, or given the next request.
OutMoves ==
    \/ queues'.out.items \in {queues.out.items, <<>>} /\ app'.nextId = app.nextId
    \/ /\ app'.nextId = app.nextId + 1
       /\ \/ queues'.out.items = queues.out.items
          \/ \E m \in Request : m.id = app.nextId
                                /\ queues'.out.items = Append(queues.out.items, m)

LEMMA OutHere ==
  ASSUME QueuesOK, AppOK
  PROVE  /\ queues.out \in QueueOf(Request) /\ queues.out.items \in Seq(Request)
         /\ app.nextId \in Nat
<1>1. queues.out \in QueueOf(Request)
  BY QueueTypes
<1>2. queues.out.items \in Seq(Request)
  BY <1>1, Zenon DEF QueueOf
<1>3. app.nextId \in Nat
  BY DeviceAssumption, SMT DEF AppOK
<1> QED BY <1>1, <1>2, <1>3

LEMMA QueuedMoves ==
  ASSUME QueuesOK, AppOK, OutMoves, NEW last \in Nat,
         Queued(queues.out.items, last, app.nextId)
  PROVE  Queued(queues'.out.items, last, app'.nextId)
<1>1. CASE queues'.out.items \in {queues.out.items, <<>>} /\ app'.nextId = app.nextId
  <2>1. Queued(<<>>, last, app.nextId)
    BY DEF Queued
  <2> QED BY <1>1, <2>1, Zenon
<1>2. CASE ~(queues'.out.items \in {queues.out.items, <<>>} /\ app'.nextId = app.nextId)
  <2>1. Queued(queues.out.items, last, app.nextId + 1)
    <3> DEFINE s == queues.out.items
               next == app.nextId
    <3>1. next \in Nat /\ last < next
      BY OutHere, Zenon DEF Queued
    <3>2. \A i \in 1..Len(s) : s[i].id \in Nat /\ s[i].id < next
      BY OutHere, IdsNat, Zenon DEF Queued
    <3>3. \A i \in 1..Len(s) : last < s[i].id
      BY Zenon DEF Queued
    <3>4. \A i, j \in 1..Len(s) : i < j => s[i].id < s[j].id
      BY Zenon DEF Queued
    <3> HIDE DEF s, next
    <3>5. last < next + 1
      BY <3>1
    <3>6. \A i \in 1..Len(s) : s[i].id < next + 1
      BY <3>1, <3>2
    <3>7. Queued(s, last, next + 1)
      BY <3>3, <3>4, <3>5, <3>6, Zenon DEF Queued
    <3> QED BY <3>7, Zenon DEF s, next
  <2>2. ASSUME NEW m \in Request, m.id = app.nextId
        PROVE  Queued(Append(queues.out.items, m), last, app.nextId + 1)
    BY <2>2, OutHere, PushQueued
  <2> QED BY <1>2, <2>1, <2>2, Zenon DEF OutMoves
<1> QED BY <1>1, <1>2
LEMMA StreamStays ==
  ASSUME StreamInv, DevOK, QueuesOK, AppOK, SendingKept, OutMoves,
         static'.others = static.others
  PROVE  StreamInv'
<1> DEFINE w == dev.wire
           s == queues.out.items
           b == static.bytesSent
<1>1. SendOrder(chan, w, s, app.nextId) /\ (Alone => SendExact(chan, w, b))
  BY Zenon DEF StreamInv
<1>2. LastId(w) \in Nat
  BY LastIdNat, Zenon DEF DevOK, LooseDevice
<1>3. Queued(queues'.out.items, LastId(w), app'.nextId)
  BY <1>1, <1>2, QueuedMoves, Zenon DEF SendOrder
<1>4. Pending(chan) => Queued(queues'.out.items, chan.packToSend.id, app'.nextId)
  <2>1. Pending(chan) => chan.packToSend.id \in Nat
    <3>1. Pending(chan) => chan.packToSend \in Request
      BY <1>1, Zenon DEF SendOrder
    <3> QED BY <3>1 DEF Request
  <2> QED BY <1>1, <2>1, QueuedMoves, Zenon DEF SendOrder
<1>5. dev'.wire = w
  BY Zenon DEF SendingKept
<1>6. Alone => static'.bytesSent = b
  BY Zenon DEF SendingKept
<1> HIDE DEF w, s, b
<1>7. SendOrder(chan', w, queues'.out.items, app'.nextId)
  BY <1>1, <1>3, <1>4, Zenon DEF SendOrder, SendingKept
<1>8. Alone => SendExact(chan', w, b)
  <2> SUFFICES ASSUME Alone PROVE SendExact(chan', w, b)
    OBVIOUS
  <2>1. SendExact(chan, w, b)
    BY <1>1
  <2>2. 0 <= PacketLen
    BY DeviceAssumption
  <2>3. chan'.at <= PacketLen
    BY <2>1, <2>2, Zenon DEF SendExact, SendingKept
  <2>4. chan'.pc = "sending" => Pending(chan')
    BY DEF Pending, InCall
  <2>5. Pending(chan') => Midway(chan', w, b) \/ Complete(chan', w, b)
    BY <2>1, Zenon DEF SendExact, SendingKept, Midway, Complete
  <2> QED BY <2>1, <2>3, <2>4, <2>5, Zenon DEF SendExact, SendingKept
<1> QED BY <1>5, <1>6, <1>7, <1>8, StreamNext, Zenon

\* Every action that neither sends nor begins a pass.
LEMMA SendingStep ==
  ASSUME ChanOK, QueuesOK, AppOK, DevOK, SendState, StreamInv, Next,
         ~EnterLoop, ~UnknownPacketType, ~HandlePacket, ~BeginSend, ~ContinueSend,
         ~InTurn
  PROVE  SendingKept /\ OutMoves
<1> USE DeviceAssumption
<1>0. chan.outQueueWatched => ~chan.epollOut
  BY Zenon DEF StreamInv, SendOrder
<1>1. CASE Start
  BY <1>0, <1>1, SMTT(30) DEF Start, SendingKept, Settled, Pending, InCall, ChanOK,
      LooseChannel, DevOK, LooseDevice, OutMoves, QueuesOK, AppOK
<1>2. CASE StartFails
  BY <1>0, <1>2, SMTT(30) DEF StartFails, SendingKept, Settled, Pending, InCall, ChanOK,
      LooseChannel, DevOK, LooseDevice, OutMoves, QueuesOK, AppOK
<1>3. CASE ThreadExit
  BY <1>0, <1>3, SMTT(30) DEF ThreadExit, SendingKept, Settled, Pending, InCall, ChanOK,
      LooseChannel, DevOK, LooseDevice, OutMoves, QueuesOK, AppOK
<1>4. CASE OpenSocket
  BY <1>0, <1>4, SMTT(30) DEF OpenSocket, SendingKept, Settled, Pending, InCall, ChanOK,
      LooseChannel, DevOK, LooseDevice, OutMoves, QueuesOK, AppOK
<1>5. CASE OpenPort
  BY <1>0, <1>5, SMTT(30) DEF OpenPort, SendingKept, Settled, Pending, InCall, ChanOK,
      LooseChannel, DevOK, LooseDevice, OutMoves, QueuesOK, AppOK
<1>6. CASE SendFails
  BY <1>0, <1>6, SMTT(30) DEF SendFails, Failed, SendingKept, Settled, Pending, InCall,
     ChanOK, LooseChannel, DevOK, LooseDevice, OutMoves
<1>7. CASE TakeCommand
  BY <1>0, <1>7, SMTT(30) DEF TakeCommand, Polling, SendingKept, Settled, Pending,
      InCall, ChanOK, LooseChannel, DevOK, LooseDevice, OutMoves, QueuesOK, AppOK
<1>8. CASE RecvPacket
  <2>1. SendingKept
    BY <1>0, <1>8, SMTT(30) DEF RecvPacket, Deliver, SendingKept, Settled, Pending, InCall,
       ChanOK, LooseChannel, DevOK, LooseDevice
  <2>2. queues'.out = queues.out /\ app'.nextId = app.nextId
    BY <1>8, SMTT(30) DEF RecvPacket, Deliver, QueuesOK, AppOK
  <2> QED BY <2>1, <2>2, Zenon DEF OutMoves
<1>9. CASE RecvNothing
  BY <1>0, <1>9, SMTT(30) DEF RecvNothing, Polling, Deliver, SendingKept, Settled,
      Pending, InCall, ChanOK, LooseChannel, DevOK, LooseDevice, OutMoves, QueuesOK,
      AppOK
<1>10. CASE RecvFails
  BY <1>0, <1>10, SMTT(30) DEF RecvFails, Polling, SendingKept, Settled, Pending,
      InCall, ChanOK, LooseChannel, DevOK, LooseDevice, OutMoves, QueuesOK, AppOK
<1>11. CASE PoolLost
  BY <1>0, <1>11, SMTT(30) DEF PoolLost, SendingKept, Settled, Pending, InCall, ChanOK,
      LooseChannel, DevOK, LooseDevice, OutMoves, QueuesOK, AppOK
<1>12. CASE LeaveLoop
  BY <1>0, <1>12, SMTT(30) DEF LeaveLoop, SendingKept, Settled, Pending, InCall, ChanOK,
      LooseChannel, DevOK, LooseDevice, OutMoves, QueuesOK, AppOK
<1>13. CASE Cleanup
  <2>1. SendingKept
    BY <1>0, <1>13, SMTT(30) DEF Cleanup, ClearOutQueues, SendingKept, Settled,
       Pending, InCall, ChanOK, LooseChannel, DevOK, LooseDevice
  <2>2. queues'.out = StopAndClear(queues.out) /\ app' = app
    BY <1>13, Zenon DEF Cleanup, ClearOutQueues, QueuesOK
  <2>3. queues'.out.items = <<>>
    BY <2>2 DEF StopAndClear
  <2> QED BY <2>1, <2>2, <2>3, Zenon DEF OutMoves
<1>14. CASE DestroyBegins
  <2>1. SendingKept
    BY <1>0, <1>14, SMTT(30) DEF DestroyBegins, CloseEpoll, SendingKept, Settled, Pending, InCall,
       ChanOK, LooseChannel, DevOK, LooseDevice
  <2>2. queues'.out = queues.out /\ app'.nextId = app.nextId
    BY <1>14, SMTT(30) DEF DestroyBegins, CloseEpoll, QueuesOK, AppOK
  <2> QED BY <2>1, <2>2, Zenon DEF OutMoves
<1>15. CASE ClearBusy
  BY <1>0, <1>15, SMTT(30) DEF ClearBusy, SendingKept, Settled, Pending, InCall, ChanOK,
      LooseChannel, DevOK, LooseDevice, OutMoves, QueuesOK, AppOK
<1>16. CASE SetExit
  BY <1>0, <1>16, SMTT(30) DEF SetExit, SendingKept, Settled, Pending, InCall, ChanOK,
      LooseChannel, DevOK, LooseDevice, OutMoves, QueuesOK, AppOK
<1>17. CASE Join
  BY <1>0, <1>17, SMTT(30) DEF Join, SendingKept, Settled, Pending, InCall, ChanOK,
      LooseChannel, DevOK, LooseDevice, OutMoves, QueuesOK, AppOK
<1>18. CASE SetCallback
  BY <1>0, <1>18, SMTT(30) DEF SetCallback, AppStep, SendingKept, Settled, Pending,
      InCall, ChanOK, LooseChannel, DevOK, LooseDevice, OutMoves, QueuesOK, AppOK
<1>19. CASE AppLearn
  BY <1>0, <1>19, SMTT(30) DEF AppLearn, AppStep, SendingKept, Settled, Pending, InCall,
      ChanOK, LooseChannel, DevOK, LooseDevice, OutMoves, QueuesOK, AppOK
<1>20. CASE AppReceive
  <2>1. SendingKept
    BY <1>0, <1>20, SMTT(30) DEF AppReceive, AppStep, SendingKept, Settled, Pending, InCall,
       ChanOK, LooseChannel, DevOK, LooseDevice
  <2>2. queues'.out = queues.out /\ app'.nextId = app.nextId
    BY <1>20, SMTT(30) DEF AppReceive, AppStep, QueuesOK, AppOK
  <2> QED BY <2>1, <2>2, Zenon DEF OutMoves
<1>21. ASSUME NEW type \in OutTypes, NEW force \in BOOLEAN, AppSend(type, force)
      PROVE  SendingKept /\ OutMoves
  <2>1. SendingKept
    BY <1>0, <1>21, SMTT(30) DEF AppSend, AppStep, AppRequest, SendingKept, Settled,
       Pending, InCall, ChanOK, LooseChannel, DevOK, LooseDevice
  <2>2. app'.nextId = app.nextId + 1
    BY <1>21, Zenon DEF AppSend, AppRequest, AppOK
  <2> DEFINE m == [id |-> app.nextId, type |-> type]
  <2>3. m \in Request /\ m.id = app.nextId
    BY <1>21, SMTT(30) DEF AppSend, AppRequest, AppOK, Request
  <2> HIDE DEF m
  <2>4. queues'.out = Push(queues.out, m, force)
    BY <1>21, Zenon DEF AppSend, QueuesOK, m
  <2>5. queues'.out.items = queues.out.items
        \/ queues'.out.items = Append(queues.out.items, m)
    BY <2>4 DEF Push
  <2> QED BY <2>1, <2>2, <2>3, <2>5, Zenon DEF OutMoves
<1>22. ASSUME NEW type \in CmdTypes, NEW force \in BOOLEAN, AppCommand(type, force)
      PROVE  SendingKept /\ OutMoves
  <2>1. SendingKept
    BY <1>0, <1>22, SMTT(30) DEF AppCommand, AppStep, AppRequest, SendingKept,
       Settled, Pending, InCall, ChanOK, LooseChannel, DevOK, LooseDevice
  <2>2. app'.nextId = app.nextId + 1
    BY <1>22, Zenon DEF AppCommand, AppRequest, AppOK
  <2>3. queues'.out = queues.out
    BY <1>22, Zenon DEF AppCommand, QueuesOK
  <2> QED BY <2>1, <2>2, <2>3, Zenon DEF OutMoves
<1>23. CASE RemoteSend
  <2>1. UNCHANGED <<chan, queues, app, static>> /\ dev'.wire = dev.wire
    BY <1>23, Zenon DEF RemoteSend, OutsideStep, DevOK, LooseDevice
  <2> QED BY <1>0, <2>1, Zenon DEF SendingKept, OutMoves
<1>24. CASE RemoteDrain
  <2>1. UNCHANGED <<chan, queues, app, static>> /\ dev'.wire = dev.wire
    BY <1>24, Zenon DEF RemoteDrain, OutsideStep, DevOK, LooseDevice
  <2> QED BY <1>0, <2>1, Zenon DEF SendingKept, OutMoves
<1>25. CASE HangUp
  <2>1. UNCHANGED <<chan, queues, app, static>> /\ dev'.wire = dev.wire
    BY <1>25, Zenon DEF HangUp, OutsideStep, DevOK, LooseDevice
  <2> QED BY <1>0, <2>1, Zenon DEF SendingKept, OutMoves
<1>26. CASE PoolGoes
  BY <1>0, <1>26, SMTT(30) DEF PoolGoes, SendingKept, Settled, Pending, InCall, ChanOK,
      LooseChannel, DevOK, LooseDevice, OutMoves, QueuesOK, AppOK
<1>27. CASE Others
  <2>1. UNCHANGED <<chan, queues, app, dev>> /\ ~Alone
    BY <1>27, OthersOnly, Zenon DEF Others, Alone
  <2> QED BY <1>0, <2>1, Zenon DEF SendingKept, OutMoves
<1> QED
  BY <1>1, <1>2, <1>3, <1>4, <1>5, <1>6, <1>7, <1>8, <1>9, <1>10, <1>11, <1>12, <1>13,
      <1>14, <1>15, <1>16, <1>17, <1>18, <1>19, <1>20, <1>21, <1>22, <1>23, <1>24,
      <1>25, <1>26, <1>27, Zenon DEF InTurn, Next, Thread, Destructor, App, Outside

\* What is taken from outQueue follows the wire, and the rest follows it.
LEMMA NextTaken ==
  ASSUME StreamInv, DevOK, QueuesOK, AppOK, NEW types, OutQueueEvent(types)
  PROVE  /\ NextPacket \in Request /\ NextPacket.id \in 1..MaxRequests
         /\ chan.pc = "loop" /\ chan.outQueueWatched /\ ~chan.epollOut
         /\ dev.wire \in Seq(Parts) /\ Ordered(dev.wire)
         /\ LastId(dev.wire) < NextPacket.id /\ LastId(dev.wire) <= NextPacket.id
         /\ queues'.out.items = Tail(queues.out.items) /\ app' = app
         /\ Queued(queues'.out.items, NextPacket.id, app'.nextId)
         /\ Queued(queues'.out.items, LastId(dev.wire), app'.nextId)
         /\ Alone => /\ InOrder(dev.wire) /\ AllWhole(dev.wire)
                     /\ static.bytesSent <= PacketLen /\ chan.at <= PacketLen
<1> DEFINE w == dev.wire
           s == queues.out.items
<1>1. s \in Seq(Request) /\ app.nextId \in Nat /\ queues.out \in QueueOf(Request)
  BY OutHere
<1>2. /\ Polling /\ chan.outQueueWatched /\ s # <<>> /\ app' = app
      /\ queues'.out = Pop(queues.out)
  BY Zenon DEF OutQueueEvent, QueuesOK, QueueReadable
<1>3. queues'.out.items = Tail(s)
  BY <1>2 DEF Pop
<1>4. /\ SendOrder(chan, w, s, app.nextId)
      /\ Alone => SendExact(chan, w, static.bytesSent)
  BY Zenon DEF StreamInv
<1>5. chan.pc = "loop" /\ ~chan.epollOut /\ Settled(chan)
  BY <1>2, <1>4, Zenon DEF SendOrder, Settled, Polling
<1>6. w \in Seq(Parts) /\ Ordered(w) /\ Queued(s, LastId(w), app.nextId)
  BY <1>4, Zenon DEF SendOrder, DevOK, LooseDevice
<1>7. LastId(w) \in Nat
  BY <1>6, LastIdNat, Zenon
<1>8. Alone => /\ InOrder(w) /\ AllWhole(w)
               /\ static.bytesSent <= PacketLen /\ chan.at <= PacketLen
  BY <1>4, <1>5, Zenon DEF SendExact
<1> HIDE DEF w, s
<1>9. /\ LastId(w) < Head(s).id /\ Queued(Tail(s), Head(s).id, app.nextId)
      /\ Queued(Tail(s), LastId(w), app.nextId)
  BY <1>1, <1>2, <1>6, <1>7, PopQueued, Zenon
<1>10. NextPacket \in Request /\ NextPacket = Head(s)
  BY TakenPacket, Zenon DEF NextPacket, s
<1>11. NextPacket.id \in 1..MaxRequests
  BY <1>10 DEF Request
<1>12. LastId(w) <= NextPacket.id
  BY <1>7, <1>9, <1>10, <1>11
<1> QED
  BY <1>2, <1>3, <1>5, <1>6, <1>8, <1>9, <1>10, <1>11, <1>12, Zenon DEF w, s

\* A packet is taken that is not sent.
LEMMA StreamUnknown ==
  ASSUME StreamInv, ChanOK, DevOK, QueuesOK, AppOK, UnknownPacketType
  PROVE  StreamInv'
<1>1. OutQueueEvent(MessageType \ DataTypes) /\ UNCHANGED <<dev, static>>
  BY Zenon DEF UnknownPacketType
<1>2. /\ chan'.pc = chan.pc /\ chan'.epollOut = chan.epollOut
      /\ chan'.outQueueWatched = chan.outQueueWatched /\ chan'.at = chan.at
  BY Zenon DEF UnknownPacketType, ChanOK, LooseChannel
<1>3. chan.pc = "loop" /\ ~chan.epollOut
  BY <1>1, NextTaken, Zenon
<1>4. ~Pending(chan') /\ chan'.pc # "sending"
  BY <1>2, <1>3 DEF Pending, InCall
<1>5. SendOrder(chan', dev.wire, queues'.out.items, app'.nextId)
  BY <1>1, <1>2, <1>4, NextTaken, Zenon DEF SendOrder
<1>6. Alone => SendExact(chan', dev.wire, static.bytesSent)
  BY <1>1, <1>2, <1>4, NextTaken, Zenon DEF SendExact
<1> QED BY <1>1, <1>5, <1>6, StreamNext, Zenon

\* The callback has the packet at once; without a callback it is gone.
LEMMA StreamHandled ==
  ASSUME StreamInv, ChanOK, DevOK, QueuesOK, AppOK, HandlePacket
  PROVE  StreamInv'
<1> USE DeviceAssumption
<1> DEFINE w == dev.wire
           q == [id |-> NextPacket.id, from |-> 0, upto |-> PacketLen]
           v == Append(w, q)
<1>1. OutQueueEvent(DataTypes) /\ UNCHANGED static
  BY Zenon DEF HandlePacket
<1>2. /\ chan'.pc = chan.pc /\ chan'.epollOut = chan.epollOut
      /\ chan'.outQueueWatched = chan.outQueueWatched /\ chan'.at = chan.at
  BY Zenon DEF HandlePacket, ChanOK, LooseChannel
<1>3. chan.pc = "loop" /\ ~chan.epollOut
  BY <1>1, NextTaken, Zenon
<1>4. ~Pending(chan') /\ chan'.pc # "sending"
  BY <1>2, <1>3 DEF Pending, InCall
<1>5. dev'.wire = v \/ dev'.wire = w
  <2>1. dev' = (IF chan.callback THEN [dev EXCEPT !.wire = v] ELSE dev)
    BY Zenon DEF HandlePacket
  <2> HIDE DEF v
  <2> QED BY <2>1, Zenon DEF DevOK, LooseDevice
<1>6. q \in Parts /\ q.id = NextPacket.id /\ Whole(q)
  <2>1. 0 \in 0..PacketLen /\ PacketLen \in 0..PacketLen /\ NextPacket.id \in 1..MaxRequests
    BY <1>1, NextTaken
  <2> QED BY <2>1, Zenon DEF Parts, Whole
<1> HIDE DEF q
<1>7. /\ Ordered(v) /\ LastId(v) = q.id
      /\ Alone => InOrder(v) /\ AllWhole(v)
  <2>1. /\ w \in Seq(Parts) /\ Ordered(w) /\ LastId(w) < q.id /\ LastId(w) <= q.id
        /\ Alone => InOrder(w) /\ AllWhole(w)
    BY <1>1, <1>6, NextTaken, Zenon
  <2> HIDE DEF w
  <2> QED BY <1>6, <2>1, AppendedOrdered, AppendedInOrder, Zenon
<1> HIDE DEF v
<1>8. CASE dev'.wire = v
  <2>1. SendOrder(chan', v, queues'.out.items, app'.nextId)
    BY <1>1, <1>2, <1>4, <1>6, <1>7, NextTaken, Zenon DEF SendOrder
  <2>2. Alone => SendExact(chan', v, static.bytesSent)
    BY <1>1, <1>2, <1>4, <1>7, NextTaken, Zenon DEF SendExact
  <2> QED BY <1>1, <1>8, <2>1, <2>2, StreamNext, Zenon
<1>9. CASE dev'.wire = w
  <2>1. SendOrder(chan', w, queues'.out.items, app'.nextId)
    BY <1>1, <1>2, <1>4, NextTaken, Zenon DEF SendOrder
  <2>2. Alone => SendExact(chan', w, static.bytesSent)
    BY <1>1, <1>2, <1>4, NextTaken, Zenon DEF SendExact
  <2> QED BY <1>1, <1>9, <2>1, <2>2, StreamNext, Zenon
<1> QED BY <1>5, <1>8, <1>9, Zenon

\* A packet is begun.
LEMMA StreamBegins ==
  ASSUME StreamInv, ChanOK, DevOK, StaticOK, QueuesOK, AppOK, BeginSend
  PROVE  StreamInv'
<1> USE DeviceAssumption
<1>1. OutQueueEvent(DataTypes) /\ UNCHANGED dev
  BY Zenon DEF BeginSend
<1>2. /\ chan'.pc = "turn" /\ chan'.packToSend = NextPacket /\ chan'.at = chan.at
      /\ chan'.epollOut = chan.epollOut
  BY <1>1, Zenon DEF BeginSend, Started, Entered, ChanOK, LooseChannel
<1>3. static'.bytesSent = 0 /\ static'.others = static.others
  BY Zenon DEF BeginSend, Started, StaticOK, Static
<1>4. ~Settled(chan') /\ chan'.pc # "sending" /\ 0 < PacketLen /\ 0 <= PacketLen
  BY <1>2 DEF Settled
<1>5. SendOrder(chan', dev.wire, queues'.out.items, app'.nextId)
  BY <1>1, <1>2, NextTaken, Zenon DEF SendOrder
<1>6. Alone => SendExact(chan', dev.wire, 0)
  <2> SUFFICES ASSUME Alone PROVE SendExact(chan', dev.wire, 0)
    OBVIOUS
  <2>1. /\ PartSent(dev.wire, NextPacket, 0) /\ InOrder(dev.wire)
        /\ chan.at <= PacketLen
    BY <1>1, NextTaken, Zenon DEF PartSent
  <2>2. Midway(chan', dev.wire, 0)
    BY <1>2, <1>4, <2>1, Zenon DEF Midway
  <2> QED BY <1>2, <1>4, <2>1, <2>2, Zenon DEF SendExact
<1> QED BY <1>1, <1>3, <1>5, <1>6, StreamNext, Zenon

\* A packet that found no room is continued.
LEMMA StreamContinues ==
  ASSUME StreamInv, ChanOK, ContinueSend
  PROVE  StreamInv'
<1>1. chan.pc = "loop" /\ chan.epollOut /\ UNCHANGED <<queues, app, dev, static>>
  BY Zenon DEF ContinueSend, Polling, Resume
<1>2. /\ chan'.pc = "turn" /\ chan'.packToSend = chan.packToSend
      /\ chan'.at = chan.at /\ chan'.kind = chan.kind
      /\ chan'.epollOut = chan.epollOut /\ chan'.outQueueWatched = chan.outQueueWatched
  BY Zenon DEF ContinueSend, Resume, Entered, ChanOK, LooseChannel
<1>3. /\ Pending(chan) /\ chan.pc \notin {"counted", "returning"}
      /\ ~Settled(chan') /\ chan'.pc # "sending"
  BY <1>1, <1>2 DEF Pending, Settled
<1>4. SendOrder(chan', dev.wire, queues.out.items, app.nextId)
  BY <1>2, <1>3, Zenon DEF StreamInv, SendOrder
<1>5. Alone => SendExact(chan', dev.wire, static.bytesSent)
  <2> SUFFICES ASSUME Alone PROVE SendExact(chan', dev.wire, static.bytesSent)
    OBVIOUS
  <2>1. SendExact(chan, dev.wire, static.bytesSent)
    BY Zenon DEF StreamInv
  <2>2. Midway(chan', dev.wire, static.bytesSent)
    BY <1>2, <1>3, <2>1, Zenon DEF SendExact, Midway, Complete
  <2> QED BY <1>2, <1>3, <2>1, <2>2, Zenon DEF SendExact
<1> QED BY <1>1, <1>4, <1>5, StreamNext, Zenon

\* A pass of the loop begins on a new wire.
LEMMA StreamEnters ==
  ASSUME StreamInv, ChanOK, DevOK, QueuesOK, AppOK, EnterLoop
  PROVE  StreamInv'
<1>1. /\ chan'.pc = "loop" /\ chan'.epollOut = FALSE /\ chan'.at = chan.at
      /\ UNCHANGED static
  BY Zenon DEF EnterLoop, ChanOK, LooseChannel
<1>2. dev'.wire = <<>>
  BY Zenon DEF EnterLoop, DevOK, LooseDevice
<1>3. queues'.out = queues.out /\ app' = app
  BY Zenon DEF EnterLoop, OpenMessage, QueuesOK
<1>4. ~Pending(chan') /\ chan'.pc # "sending"
  BY <1>1 DEF Pending, InCall
<1>5. Ordered(<<>>) /\ InOrder(<<>>) /\ AllWhole(<<>>) /\ LastId(<<>>) = 0
  BY DEF Ordered, InOrder, AllWhole, LastId
<1>6. Queued(queues.out.items, 0, app.nextId)
  <2>1. dev.wire \in Seq(Parts) /\ Queued(queues.out.items, LastId(dev.wire), app.nextId)
    BY Zenon DEF StreamInv, SendOrder, DevOK, LooseDevice
  <2>2. LastId(dev.wire) \in Nat
    BY <2>1, LastIdNat, Zenon
  <2>3. \A i \in 1..Len(queues.out.items) : queues.out.items[i].id \in Nat
    BY OutHere, IdsNat, Zenon
  <2>4. app.nextId \in Nat
    BY OutHere, Zenon
  <2> DEFINE last == LastId(dev.wire)
             s == queues.out.items
             next == app.nextId
  <2> HIDE DEF last, s, next
  <2>5. Queued(s, 0, next)
    <3>1. last \in Nat /\ next \in Nat /\ (\A i \in 1..Len(s) : s[i].id \in Nat)
          /\ Queued(s, last, next)
      BY <2>1, <2>2, <2>3, <2>4, Zenon DEF last, s, next
    <3> QED BY <3>1 DEF Queued
  <2> QED BY <2>5, Zenon DEF s, next
<1>7. SendOrder(chan', <<>>, queues.out.items, app.nextId)
  BY <1>1, <1>4, <1>5, <1>6, Zenon DEF SendOrder
<1>8. Alone => SendExact(chan', <<>>, static.bytesSent)
  BY <1>1, <1>4, <1>5, Zenon DEF StreamInv, SendExact
<1> QED BY <1>1, <1>2, <1>3, <1>7, <1>8, StreamNext, Zenon

-----------------------------------------------------------------------------
(* The stream through a call of send_packet.                                *)

\* What is pending when a call is under way.
LEMMA InCallPending ==
  ASSUME StreamInv, ChanOK, DevOK, StaticOK, SendState, InCall(chan)
  PROVE  /\ chan.packToSend \in Request /\ dev.wire \in Seq(Parts) /\ Ordered(dev.wire)
         /\ LastId(dev.wire) <= chan.packToSend.id
         /\ chan.kind = "com" => dev.open
         /\ chan.kind \in {"udp", "com"}
         /\ static.bytesSent \in Nat
         /\ Alone => SendExact(chan, dev.wire, static.bytesSent)
         /\ Alone => \/ Midway(chan, dev.wire, static.bytesSent)
                     \/ Complete(chan, dev.wire, static.bytesSent)
<1>1. Pending(chan)
  BY Zenon DEF Pending
<1>2. InLoop
  BY DEF InCall, InLoop
<1>3. chan.kind \in {"udp", "com"} /\ (chan.kind = "com" => dev.open)
  <2>1. chan.kind \in {"udp", "com", "virtual"}
    BY Zenon DEF ChanOK, LooseChannel
  <2> QED BY <1>2, <2>1, SMT DEF SendState
<1>4. dev.wire \in Seq(Parts) /\ static.bytesSent \in Nat
  BY Zenon DEF DevOK, LooseDevice, StaticOK, Static
<1> QED BY <1>1, <1>3, <1>4, Zenon DEF StreamInv, SendOrder, SendExact

\* Before a write is counted, there is more to write.
LEMMA NotComplete ==
  ASSUME StreamInv, ChanOK, DevOK, StaticOK, SendState, Alone,
         chan.pc \in {"turn", "sending"}
  PROVE  /\ InOrder(dev.wire) /\ Midway(chan, dev.wire, static.bytesSent)
         /\ static.bytesSent \in Nat /\ static.bytesSent < PacketLen
         /\ static.bytesSent <= PacketLen /\ chan.at <= PacketLen
         /\ chan.pc = "sending" => chan.at = static.bytesSent
<1>1. InCall(chan) /\ chan.pc \notin {"counted", "returning"}
  BY DEF InCall
<1> QED BY <1>1, InCallPending, Zenon DEF SendExact, Midway, Complete

\* The wire v after a step of the call: the order.
LEMMA TurnOrder ==
  ASSUME StreamInv, TurnEnds, NEW v, Ordered(v),
         LastId(v) \in {LastId(dev.wire), chan.packToSend.id},
         LastId(v) <= chan.packToSend.id
  PROVE  SendOrder(chan', v, queues.out.items, app.nextId)
<1>1. Pending(chan)
  BY Zenon DEF TurnEnds, Pending
<1>2. chan'.outQueueWatched => ~chan'.epollOut
  BY Zenon DEF TurnEnds, TurnLeaves, StreamInv, SendOrder
<1> QED BY <1>1, <1>2, Zenon DEF StreamInv, SendOrder, TurnEnds, TurnKeeps

\* And what is sent, while the call goes on.
LEMMA CallExact ==
  ASSUME TurnKeeps, InCall(chan'), NEW v, InOrder(v), NEW b, b <= PacketLen,
         chan'.at <= PacketLen, chan'.pc = "sending" => chan'.at = b,
         Midway(chan, v, b) \/ Complete(chan', v, b)
  PROVE  SendExact(chan', v, b)
<1>1. ~Settled(chan')
  BY DEF Settled, InCall
<1>2. Midway(chan, v, b) => Midway(chan', v, b)
  BY Zenon DEF Midway, TurnKeeps
<1> QED BY <1>1, <1>2, Zenon DEF SendExact

\* A step that sends nothing leaves the order as it is.
LEMMA StreamSilent ==
  ASSUME StreamInv, ChanOK, DevOK, StaticOK, SendState, TurnEnds,
         dev'.wire = dev.wire, static'.others = static.others,
         Alone => SendExact(chan', dev.wire, static'.bytesSent)
  PROVE  StreamInv'
<1>1. InCall(chan) /\ UNCHANGED <<queues, app>>
  BY Zenon DEF TurnEnds
<1>2. Ordered(dev.wire) /\ LastId(dev.wire) <= chan.packToSend.id
  BY <1>1, InCallPending
<1>3. SendOrder(chan', dev.wire, queues.out.items, app.nextId)
  BY <1>2, TurnOrder, Zenon
<1> QED BY <1>1, <1>3, StreamNext, Zenon

\* A turn begins.
LEMMA StreamTurns ==
  ASSUME StreamInv, ChanOK, DevOK, StaticOK, SendState, BeginTurn
  PROVE  StreamInv'
<1> DEFINE b == static.bytesSent
<1>1. /\ chan.pc = "turn" /\ UNCHANGED <<queues, app, dev, static>>
      /\ chan' = [chan EXCEPT !.pc = "sending", !.at = b]
  BY Zenon DEF BeginTurn
<1>2. TurnEnds
  BY TurnStep, Zenon DEF InTurn
<1>3. chan'.pc = "sending" /\ chan'.at = b
  BY <1>1, Zenon DEF ChanOK, LooseChannel
<1>4. InCall(chan') /\ TurnKeeps
  BY <1>2, <1>3 DEF InCall, TurnEnds
<1>5. Alone => SendExact(chan', dev.wire, b)
  <2> SUFFICES ASSUME Alone PROVE SendExact(chan', dev.wire, b)
    OBVIOUS
  <2>1. InOrder(dev.wire) /\ Midway(chan, dev.wire, b) /\ b <= PacketLen
    BY <1>1, NotComplete
  <2> QED BY <1>3, <1>4, <2>1, CallExact, Zenon
<1> QED BY <1>1, <1>2, <1>5, StreamSilent, Zenon

\* No socket to send from, or no room.
LEMMA StreamWaits ==
  ASSUME StreamInv, ChanOK, DevOK, StaticOK, SendState, NoSendSocket \/ SendWaits
  PROVE  StreamInv'
<1> DEFINE b == static.bytesSent
<1>1. TurnEnds /\ TurnKeeps
  BY TurnStep, Zenon DEF InTurn, TurnEnds
<1>2. /\ chan.pc \in {"turn", "sending"} /\ UNCHANGED static /\ dev'.wire = dev.wire
      /\ chan'.pc = "returning" /\ chan'.at \in {chan.at, 0}
  <2>1. CASE NoSendSocket
    BY <2>1, Zenon DEF NoSendSocket, ChanOK, LooseChannel, DevOK, LooseDevice
  <2>2. CASE SendWaits
    BY <2>2, Zenon DEF SendWaits, InPacket, ChanOK, LooseChannel
  <2> QED BY <2>1, <2>2
<1>3. InCall(chan') /\ chan'.pc # "sending"
  BY <1>2 DEF InCall
<1>4. Alone => SendExact(chan', dev.wire, b)
  <2> SUFFICES ASSUME Alone PROVE SendExact(chan', dev.wire, b)
    OBVIOUS
  <2>1. /\ InOrder(dev.wire) /\ Midway(chan, dev.wire, b) /\ b <= PacketLen
        /\ chan.at <= PacketLen
    BY <1>2, NotComplete
  <2>2. chan'.at <= PacketLen
    <3>1. 0 <= PacketLen
      BY DeviceAssumption
    <3> QED BY <1>2, <2>1, <3>1, Zenon
  <2> QED BY <1>1, <1>3, <2>1, <2>2, CallExact, Zenon
<1> QED BY <1>1, <1>2, <1>4, StreamSilent, Zenon

\* The loop is tested.
LEMMA StreamTested ==
  ASSUME StreamInv, ChanOK, DevOK, StaticOK, SendState, AnotherTurn
  PROVE  StreamInv'
<1> DEFINE b == static.bytesSent
<1>1. TurnEnds /\ TurnKeeps
  BY TurnStep, Zenon DEF InTurn, TurnEnds
<1>2. chan.pc = "counted" /\ UNCHANGED <<queues, app, dev, static>>
  BY Zenon DEF AnotherTurn
<1>3. chan'.pc = (IF b < PacketLen THEN "turn" ELSE "returning") /\ chan'.at = chan.at
  BY Zenon DEF AnotherTurn, ChanOK, LooseChannel
<1>4. InCall(chan') /\ chan'.pc # "sending" /\ InCall(chan)
  BY <1>2, <1>3 DEF InCall
<1>5. Alone => SendExact(chan', dev.wire, b)
  <2> SUFFICES ASSUME Alone PROVE SendExact(chan', dev.wire, b)
    OBVIOUS
  <2>1. SendExact(chan, dev.wire, b) /\ b \in Nat
        /\ (Midway(chan, dev.wire, b) \/ Complete(chan, dev.wire, b))
    BY <1>4, InCallPending, Zenon
  <2>2. InOrder(dev.wire) /\ b <= PacketLen /\ chan'.at <= PacketLen
    BY <1>3, <2>1, Zenon DEF SendExact
  <2>3. Complete(chan, dev.wire, b) => Complete(chan', dev.wire, b)
    <3>1. b = PacketLen => chan'.pc = "returning"
      BY <1>3, <2>1, DeviceAssumption
    <3> QED BY <3>1, Zenon DEF Complete
  <2> QED BY <1>1, <1>4, <2>1, <2>2, <2>3, CallExact, Zenon
<1> QED BY <1>1, <1>2, <1>5, StreamSilent, Zenon

\* The call returns.
LEMMA StreamReturns ==
  ASSUME StreamInv, ChanOK, DevOK, StaticOK, SendState, ReturnLeft
  PROVE  StreamInv'
<1> DEFINE b == static.bytesSent
           w == dev.wire
<1>1. TurnEnds /\ TurnKeeps
  BY TurnStep, Zenon DEF InTurn, TurnEnds
<1>2. /\ chan.pc = "returning" /\ UNCHANGED <<queues, app, dev, static>>
      /\ Return(b) /\ dev.open \in BOOLEAN
  BY Zenon DEF ReturnLeft, DevOK, LooseDevice
<1>3. Outcome(b) /\ chan'.at \in {chan.at, 0}
  BY <1>2, CallReturns, Zenon
<1>4. InCall(chan)
  BY <1>2 DEF InCall
<1>5. Alone => SendExact(chan', w, b)
  <2> SUFFICES ASSUME Alone PROVE SendExact(chan', w, b)
    OBVIOUS
  <2>1. /\ SendExact(chan, w, b) /\ b \in Nat
        /\ Midway(chan, w, b) \/ Complete(chan, w, b)
        /\ chan.kind = "com" => dev.open
        /\ chan.kind \in {"udp", "com"}
    BY <1>4, InCallPending, Zenon
  <2>2. chan'.kind = chan.kind /\ chan'.packToSend = chan.packToSend
    BY <1>1, Zenon DEF TurnKeeps
  <2> HIDE DEF b, w
  <2>3. InOrder(w) /\ b <= PacketLen /\ chan'.at <= PacketLen
    <3>1. 0 <= PacketLen
      BY DeviceAssumption
    <3> QED BY <1>3, <2>1, <3>1, Zenon DEF SendExact
  <2>4. CASE b = PacketLen /\ chan'.pc = "loop" /\ chan'.epollOut = FALSE
    <3>1. ~(b < PacketLen)
      BY <2>1, <2>4, DeviceAssumption
    <3>2. AllWhole(w)
      BY <2>1, <3>1, Zenon DEF Midway, Complete
    <3>3. ~Pending(chan') /\ chan'.pc # "sending"
      BY <2>4 DEF Pending, InCall
    <3> QED BY <2>3, <3>2, <3>3, Zenon DEF SendExact
  <2>5. CASE b < PacketLen /\ chan'.pc = "loop" /\ chan'.epollOut = dev.open
    <3>1. b # PacketLen
      BY <2>1, <2>5, DeviceAssumption
    <3>2. Midway(chan, w, b) /\ Midway(chan', w, b)
      BY <2>1, <2>2, <3>1, Zenon DEF Midway, Complete
    <3>3. chan'.pc # "sending"
      BY <2>5
    <3>4. Settled(chan') => AllWhole(w)
      <4>1. Settled(chan') => chan.kind = "udp"
        BY <2>1, <2>5, Zenon DEF Settled
      <4>2. b = 0 => AllWhole(w)
        BY <3>2, Zenon DEF Midway, PartSent
      <4> QED BY <3>2, <4>1, <4>2, Zenon DEF Midway
    <3> QED BY <2>3, <3>2, <3>3, <3>4, Zenon DEF SendExact
  <2>6. CASE b > PacketLen
    BY <2>1, <2>3, <2>6, DeviceAssumption
  <2> QED BY <1>3, <2>4, <2>5, <2>6, Zenon DEF Outcome
<1> QED BY <1>1, <1>2, <1>5, StreamSilent, Zenon

\* A datagram goes out, with all the rest of its packet.
LEMMA StreamDatagram ==
  ASSUME StreamInv, ChanOK, DevOK, StaticOK, SendState, DatagramSent
  PROVE  StreamInv'
<1> USE DeviceAssumption
<1> DEFINE w == dev.wire
           p == chan.packToSend
           q == Part(Rest)
           v == Append(w, q)
<1>1. /\ chan.kind = "udp" /\ InPacket /\ Count(Rest) /\ UNCHANGED <<queues, app>>
      /\ dev' = [dev EXCEPT !.wire = v]
  BY Zenon DEF DatagramSent
<1>2. chan.pc = "sending" /\ InCall(chan)
  BY <1>1 DEF InPacket, InCall
<1>3. Rest \in Nat /\ Rest \in 0..Rest /\ chan.at + Rest = PacketLen
  BY <1>1, RestIs
<1>4. q \in Parts /\ q.id = p.id /\ q.from = chan.at /\ q.upto = chan.at + Rest
  BY <1>1, <1>3, PartType
<1> HIDE DEF q
<1>5. dev'.wire = v
  <2> HIDE DEF v
  <2> QED BY <1>1, Zenon DEF DevOK, LooseDevice
<1>6. /\ \E loaded \in {static.bytesSent, chan.at} : static'.bytesSent = loaded + Rest
      /\ chan'.pc = "counted" /\ chan'.at = 0 /\ static'.others = static.others
      /\ TurnKeeps
  BY <1>1, <1>3, TurnCounts
<1>7. TurnEnds
  BY TurnStep, Zenon DEF InTurn
<1>8. /\ w \in Seq(Parts) /\ Ordered(w) /\ LastId(w) <= p.id /\ p \in Request
  BY <1>2, InCallPending, Zenon
<1>9. Alone => /\ InOrder(w) /\ chan.at = static.bytesSent /\ static.bytesSent = 0
               /\ AllWhole(w) /\ LastId(w) < p.id
  <2>1. Alone => /\ InOrder(w) /\ Midway(chan, w, static.bytesSent)
                 /\ chan.at = static.bytesSent
    BY <1>2, NotComplete
  <2> QED BY <1>1, <2>1, Zenon DEF Midway, PartSent
<1> HIDE DEF w
<1>10. Ordered(v) /\ LastId(v) = p.id
  BY <1>4, <1>8, AppendedOrdered, Zenon
<1>11. p.id <= p.id
  BY <1>8 DEF Request
<1>12. SendOrder(chan', v, queues.out.items, app.nextId)
  <2> HIDE DEF v, p
  <2> QED BY <1>7, <1>10, <1>11, TurnOrder, Zenon DEF p
<1>13. Alone => SendExact(chan', v, static'.bytesSent)
  <2> SUFFICES ASSUME Alone PROVE SendExact(chan', v, static'.bytesSent)
    OBVIOUS
  <2>1. chan.at = 0 /\ static.bytesSent = 0
    BY <1>9
  <2>2. static'.bytesSent = PacketLen
    <3>1. 0 + Rest = PacketLen
      BY <1>3, <2>1
    <3> QED BY <1>6, <2>1, <3>1, Zenon
  <2>3. Whole(q)
    BY <1>3, <1>4, <2>1, Zenon DEF Whole
  <2>4. InOrder(v) /\ AllWhole(v)
    BY <1>4, <1>8, <1>9, <2>3, AppendedInOrder, Zenon
  <2> HIDE DEF v
  <2>5. InCall(chan') /\ chan'.pc # "sending"
    BY <1>6 DEF InCall
  <2>6. PacketLen <= PacketLen /\ chan'.at <= PacketLen
    BY <1>6
  <2>7. Complete(chan', v, PacketLen)
    BY <1>6, <2>4 DEF Complete
  <2> QED BY <1>6, <2>2, <2>4, <2>5, <2>6, <2>7, CallExact, Zenon
<1> QED BY <1>1, <1>5, <1>6, <1>12, <1>13, StreamNext, Zenon

\* A port writes what fits.
LEMMA StreamChunk ==
  ASSUME StreamInv, ChanOK, DevOK, StaticOK, SendState, WriteChunk
  PROVE  StreamInv'
<1> USE DeviceAssumption
<1> DEFINE w == dev.wire
           p == chan.packToSend
           n == Lesser(dev.room, Rest)
           q == Part(n)
           v == Sent(w, q)
<1>1. /\ chan.kind = "com" /\ InPacket /\ Count(n) /\ UNCHANGED <<queues, app>>
      /\ dev.room > 0 /\ dev' = [dev EXCEPT !.room = @ - n, !.wire = v]
  BY Zenon DEF WriteChunk
<1>2. chan.pc = "sending" /\ InCall(chan)
  BY <1>1 DEF InPacket, InCall
<1>3. n \in 0..Rest /\ n \in Nat /\ (Rest > 0 => n > 0)
  BY <1>1, ChunkIs
<1>4. Rest \in Nat /\ chan.at + Rest = PacketLen
  BY <1>1, RestIs
<1> HIDE DEF n
<1>5. q \in Parts /\ q.id = p.id /\ q.from = chan.at /\ q.upto = chan.at + n
  BY <1>1, <1>3, PartType
<1> HIDE DEF q
<1>6. dev'.wire = v
  <2> HIDE DEF v
  <2> QED BY <1>1, Zenon DEF DevOK, LooseDevice
<1>7. /\ \E loaded \in {static.bytesSent, chan.at} : static'.bytesSent = loaded + n
      /\ chan'.pc = "counted" /\ chan'.at = 0 /\ static'.others = static.others
      /\ TurnKeeps
  BY <1>1, <1>3, TurnCounts
<1>8. TurnEnds
  BY TurnStep, Zenon DEF InTurn
<1>9. /\ w \in Seq(Parts) /\ Ordered(w) /\ LastId(w) <= p.id /\ p \in Request
  BY <1>2, InCallPending, Zenon
<1>10. Alone => /\ InOrder(w) /\ chan.at = static.bytesSent /\ chan.at \in Nat
                /\ chan.at < PacketLen /\ PartSent(w, p, chan.at)
  <2>1. Alone => /\ InOrder(w) /\ Midway(chan, w, static.bytesSent)
                 /\ static.bytesSent \in Nat /\ chan.at = static.bytesSent
    BY <1>2, NotComplete
  <2> QED BY <2>1, Zenon DEF Midway
<1> HIDE DEF w
<1>11. p.id \in Nat /\ LastId(w) \in Nat
  BY <1>9, LastIdNat DEF Request
<1>12. Ordered(v) /\ LastId(v) \in {LastId(w), p.id}
  BY <1>5, <1>9, SentOrdered, Zenon
<1>13. LastId(v) <= p.id
  <2> HIDE DEF v, p
  <2> QED BY <1>9, <1>11, <1>12
<1>14. SendOrder(chan', v, queues.out.items, app.nextId)
  <2> HIDE DEF v, p
  <2> QED BY <1>8, <1>12, <1>13, TurnOrder, Zenon DEF p, w
<1>15. Alone => SendExact(chan', v, static'.bytesSent)
  <2> SUFFICES ASSUME Alone PROVE SendExact(chan', v, static'.bytesSent)
    OBVIOUS
  <2> DEFINE k == chan.at
             b == k + n
  <2>1. k \in Nat /\ k < PacketLen /\ PartSent(w, p, k) /\ InOrder(w)
    BY <1>10, Zenon
  <2>2. static'.bytesSent = b
    BY <1>7, <1>10, Zenon
  <2>3. b \in Nat /\ b <= PacketLen /\ k < b
    <3> HIDE DEF k
    <3>1. Rest > 0
      BY <1>4, <2>1 DEF k
    <3>2. k + Rest = PacketLen
      BY <1>4 DEF k
    <3> HIDE DEF Rest
    <3> QED BY <1>3, <1>4, <2>1, <3>1, <3>2
  <2>4. q.upto = b /\ q.from = k
    BY <1>5
  <2> HIDE DEF b, k
  <2>5. /\ InOrder(v) /\ PartSent(v, p, b)
        /\ b = PacketLen => AllWhole(v)
    <3>1. k < q.upto
      BY <2>3, <2>4
    <3> HIDE DEF p
    <3> QED BY <1>5, <1>9, <2>1, <2>4, <3>1, MoreSent, Zenon
  <2> HIDE DEF v
  <2>6. InCall(chan') /\ chan'.pc # "sending" /\ chan.kind # "udp"
    BY <1>1, <1>7 DEF InCall
  <2>7. chan'.at <= PacketLen
    BY <1>7
  <2>8. b < PacketLen \/ b = PacketLen
    BY <2>3
  <2>9. Midway(chan, v, b) \/ Complete(chan', v, b)
    <3>1. chan'.pc \in {"counted", "returning"}
      BY <1>7
    <3> QED BY <2>5, <2>6, <2>8, <3>1, Zenon DEF Midway, Complete
  <2>10. SendExact(chan', v, b)
    BY <1>7, <2>3, <2>5, <2>6, <2>7, <2>9, CallExact, Zenon
  <2> QED BY <2>2, <2>10, Zenon
<1> QED BY <1>1, <1>6, <1>7, <1>14, <1>15, StreamNext, Zenon

\* A port has no room for a second.
LEMMA StreamTimesOut ==
  ASSUME StreamInv, ChanOK, DevOK, StaticOK, SendState, WriteTimesOut
  PROVE  StreamInv'
<1> USE DeviceAssumption
<1>1. chan.pc = "sending" /\ Count(0) /\ UNCHANGED <<queues, app, dev>> /\ 0 \in Nat
  BY SMT DEF WriteTimesOut
<1>2. TurnEnds
  BY TurnStep, Zenon DEF InTurn
<1>3. /\ \E loaded \in {static.bytesSent, chan.at} : static'.bytesSent = loaded + 0
      /\ chan'.pc = "counted" /\ chan'.at = 0 /\ static'.others = static.others
      /\ TurnKeeps
  BY <1>1, TurnCounts
<1>4. Alone => SendExact(chan', dev.wire, static'.bytesSent)
  <2> SUFFICES ASSUME Alone PROVE SendExact(chan', dev.wire, static'.bytesSent)
    OBVIOUS
  <2> DEFINE b == static.bytesSent
  <2>1. /\ InOrder(dev.wire) /\ Midway(chan, dev.wire, b) /\ b \in Nat
        /\ b <= PacketLen /\ chan.at = b
    BY <1>1, NotComplete
  <2>2. static'.bytesSent = b
    <3>1. static'.bytesSent = b + 0
      BY <1>3, <2>1, Zenon
    <3> HIDE DEF b
    <3> QED BY <2>1, <3>1
  <2>3. InCall(chan') /\ chan'.pc # "sending" /\ chan'.at <= PacketLen
    BY <1>3 DEF InCall
  <2> QED BY <1>3, <2>1, <2>2, <2>3, CallExact, Zenon
<1> QED BY <1>1, <1>2, <1>3, <1>4, StreamSilent, Zenon

-----------------------------------------------------------------------------

LEMMA StreamStep ==
  ASSUME StreamInv, DeviceInv, Next
  PROVE  StreamInv'
<1>1. ChanOK /\ DevOK /\ QueuesOK /\ AppOK /\ StaticOK /\ SendState
  BY Zenon DEF DeviceInv
<1>2. CASE UnknownPacketType
  BY <1>1, <1>2, StreamUnknown
<1>3. CASE HandlePacket
  BY <1>1, <1>3, StreamHandled
<1>4. CASE BeginSend
  BY <1>1, <1>4, StreamBegins
<1>5. CASE ContinueSend
  BY <1>1, <1>5, StreamContinues
<1>6. CASE EnterLoop
  BY <1>1, <1>6, StreamEnters
<1>7. CASE InTurn
  <2>1. CASE BeginTurn
    BY <1>1, <2>1, StreamTurns
  <2>2. CASE NoSendSocket \/ SendWaits
    BY <1>1, <2>2, StreamWaits
  <2>3. CASE DatagramSent
    BY <1>1, <2>3, StreamDatagram
  <2>4. CASE WriteChunk
    BY <1>1, <2>4, StreamChunk
  <2>5. CASE WriteTimesOut
    BY <1>1, <2>5, StreamTimesOut
  <2>6. CASE AnotherTurn
    BY <1>1, <2>6, StreamTested
  <2>7. CASE ReturnLeft
    BY <1>1, <2>7, StreamReturns
  <2> QED BY <1>7, <2>1, <2>2, <2>3, <2>4, <2>5, <2>6, <2>7, Zenon DEF InTurn
<1>8. CASE ~EnterLoop /\ ~UnknownPacketType /\ ~HandlePacket /\ ~BeginSend /\ ~ContinueSend
           /\ ~InTurn
  <2>1. SendingKept /\ OutMoves
    BY <1>1, <1>8, SendingStep
  <2>2. static'.others = static.others
    BY <1>1, StaticStep
  <2> QED BY <1>1, <2>1, <2>2, StreamStays
<1> QED
  BY <1>2, <1>3, <1>4, <1>5, <1>6, <1>7, <1>8

LEMMA StreamInit ==
  ASSUME Init
  PROVE  StreamInv
<1>1. /\ chan.pc \in {"top", "start"} /\ ~chan.epollOut /\ chan.at = 0
  BY SMT DEF Init
<1>2. dev.wire = <<>> /\ queues.out.items = <<>> /\ app.nextId = 1
  BY DEF Init, NewQueue
<1>3. static.bytesSent = 0
  <2>1. \E others \in SUBSET Siblings :
            static = [others |-> others, bytesSent |-> 0,
                      at |-> [s \in Siblings |-> None], stores |-> 0]
    BY Zenon DEF Init
  <2>2. PICK others \in SUBSET Siblings :
            static = [others |-> others, bytesSent |-> 0,
                      at |-> [s \in Siblings |-> None], stores |-> 0]
    BY <2>1, Zenon
  <2> QED BY <2>2, SMT
<1>4. ~Pending(chan) /\ chan.pc # "sending" /\ 0 <= PacketLen
  BY <1>1, DeviceAssumption DEF Pending, InCall
<1>5. /\ Ordered(<<>>) /\ InOrder(<<>>) /\ AllWhole(<<>>)
      /\ Queued(<<>>, LastId(<<>>), 1)
  BY DEF Ordered, InOrder, AllWhole, LastId, Queued
<1>6. SendOrder(chan, <<>>, <<>>, 1)
  BY <1>1, <1>4, <1>5, Zenon DEF SendOrder
<1>7. SendExact(chan, <<>>, 0)
  BY <1>1, <1>4, <1>5, Zenon DEF SendExact
<1> QED BY <1>2, <1>3, <1>6, <1>7, Zenon DEF StreamInv

\* The wire, the pending packet and outQueue follow each other; who is alone
\* counts what is sent.
THEOREM DeviceStreamInvariant == Spec => []StreamInv
<1>1. StreamInv /\ DeviceInv /\ [Next]_vars => StreamInv'
  <2> SUFFICES ASSUME StreamInv, DeviceInv, [Next]_vars PROVE StreamInv'
    OBVIOUS
  <2>1. CASE Next
    BY <2>1, StreamStep
  <2>2. CASE UNCHANGED vars
    BY <2>2, Zenon DEF vars, StreamInv, Alone
  <2> QED BY <2>1, <2>2
<1> QED BY <1>1, StreamInit, DeviceInvariant, PTL DEF Spec

(* What goes out between two openings is in the order of the requests,      *)
(* whatever other channels do to bytesSent.  A channel that is alone sends  *)
(* it whole: a port that is interrupted in a packet goes on where it        *)
(* stopped, a datagram that found no room is sent once, and no packet is    *)
(* taken while another is unfinished, whatever room there is.               *)
THEOREM DeviceSentWholeInOrder == Spec => []SentWholeInOrder
<1>1. StreamInv => SentWholeInOrder
  BY Zenon DEF StreamInv, SendOrder, SendExact, Ordered, InOrder, SentWholeInOrder
<1> QED BY <1>1, DeviceStreamInvariant, PTL

(* The types: the parts of packets on a wire are within their packets, and  *)
(* no counter leaves its range; the counter of a channel that is alone      *)
(* stays within a packet.                                                   *)
THEOREM DeviceTypes == Spec => []TypeOK
<1>1. DeviceInv /\ ReceiveInv /\ StreamInv => TypeOK
  <2> SUFFICES ASSUME DeviceInv, ReceiveInv, StreamInv PROVE TypeOK
    OBVIOUS
  <2>1. ChanOK /\ QueuesOK /\ AppOK /\ DevOK /\ StaticOK /\ Counted
    BY Zenon DEF DeviceInv, ReceiveInv
  <2>2. chan \in Channel
    BY <2>1, Zenon DEF ChanOK, LooseChannel, Counted, Channel
  <2>3. dev \in Device
    BY <2>1, Zenon DEF DevOK, LooseDevice, Counted, Device, Parts
  <2>4. queues \in [in : QueueOf(Received \cup {NullPacket}), out : QueueOf(Request),
                    inCmd : QueueOf({"OPEN", "CLOSE"}), outCmd : QueueOf(MessageType)]
    BY <2>1, Zenon DEF QueuesOK, Counted
  <2>5. app \in [view : {"OPEN", "CLOSE"}, nextId : 1..(MaxRequests + 1), got : 0..MaxRx]
    BY <2>1, Zenon DEF AppOK, Counted
  <2>6. Alone => chan.at \in 0..PacketLen /\ static.bytesSent \in 0..PacketLen
    <3>1. chan.at \in Nat /\ static.bytesSent \in Nat
      BY <2>1, Zenon DEF ChanOK, LooseChannel, StaticOK, Static
    <3>2. Alone => chan.at <= PacketLen /\ static.bytesSent <= PacketLen
      BY Zenon DEF StreamInv, SendExact
    <3> QED BY <3>1, <3>2, DeviceAssumption
  <2> QED BY <2>1, <2>2, <2>3, <2>4, <2>5, <2>6, Zenon DEF TypeOK, StaticOK
<1> QED BY <1>1, DeviceInvariant, DeviceReceiveInvariant, DeviceStreamInvariant, PTL
=============================================================================
