------------------------- MODULE ClientChannelProofs -------------------------
(***************************************************************************)
(* Client channels of any number and kind, with connections, packets and   *)
(* buffers of any number and size: their types, what they announce, and    *)
(* that their output is not stuck while they serve.                        *)
(***************************************************************************)
EXTENDS ClientChannel, MessageQueueProofs

QueuesType == [in : QueueOf(Received), out : QueueOf(Request),
               inCmd : QueueOf(Announcement), outCmd : QueueOf(Request)]

AppType == [view : 0..MaxConns, nextId : 1..(MaxRequests + 1), got : [1..MaxConns -> Nat]]

\* What the announcements of feed leave an application with that believes view.
Final(feed, view) ==
    IF feed = <<>> THEN view
    ELSE IF feed[Len(feed)].type = "OPEN" THEN feed[Len(feed)].conn
    ELSE 0

\* Channel r with queues q, application a and socket s: its socket has a
\* number, who waits for room has something to send, the feed is started while
\* the loop runs, and ends with what the loop is doing.
LocalInv(r, q, a, s) ==
    /\ r.pc \in {"connected", "loop", "cleanup"} => s.n # 0
    /\ r.epollOut => r.packToSend # None
    /\ r.owner = "alive" /\ r.pc = "loop" /\ ~r.outQueueWatched => r.epollOut
    /\ r.owner = "alive" /\ r.pc = "loop" => q.inCmd.started
    /\ r.owner = "alive" =>
           Final(q.inCmd.items, a.view) = IF r.pc = "loop" THEN s.n ELSE 0

IInv ==
    /\ TypeOK
    /\ \A ch \in Chans : LocalInv(chan[ch], queues[ch], app[ch], sock[ch])

-----------------------------------------------------------------------------
(* One channel moves, the others stay as they are.                          *)

LEMMA LocalType ==
  ASSUME TypeOK, NEW ch \in Chans
  PROVE  /\ chan[ch] \in Channel /\ queues[ch] \in QueuesType
         /\ app[ch] \in AppType /\ sock[ch] \in Socket
         /\ chan = [chan EXCEPT ![ch] = chan[ch]]
         /\ queues = [queues EXCEPT ![ch] = queues[ch]]
         /\ app = [app EXCEPT ![ch] = app[ch]]
         /\ sock = [sock EXCEPT ![ch] = sock[ch]]
<1> HIDE DEF Channel, Socket
<1>1. /\ chan \in [Chans -> Channel] /\ queues \in [Chans -> QueuesType]
      /\ app \in [Chans -> AppType] /\ sock \in [Chans -> Socket]
  BY Zenon DEF TypeOK, QueuesType, AppType
<1> QED BY <1>1, SMT

LEMMA StepOfOne ==
  ASSUME IInv, NEW ch \in Chans,
         NEW r \in Channel, NEW q \in QueuesType, NEW a \in AppType, NEW s \in Socket,
         chan' = [chan EXCEPT ![ch] = r], queues' = [queues EXCEPT ![ch] = q],
         app' = [app EXCEPT ![ch] = a], sock' = [sock EXCEPT ![ch] = s],
         bytesSent' \in [Chans \cup {Statics} -> 0..PacketLen],
         bytesRecvd' \in [Chans \cup {Statics} -> Nat],
         LocalInv(r, q, a, s)
  PROVE  IInv'
<1>1. /\ chan \in [Chans -> Channel] /\ queues \in [Chans -> QueuesType]
      /\ app \in [Chans -> AppType] /\ sock \in [Chans -> Socket]
  BY Zenon DEF IInv, TypeOK, QueuesType, AppType
<1>2. /\ chan' \in [Chans -> Channel] /\ queues' \in [Chans -> QueuesType]
      /\ app' \in [Chans -> AppType] /\ sock' \in [Chans -> Socket]
  BY <1>1, SMT
<1>3. TypeOK'
  BY <1>2, Zenon DEF TypeOK, QueuesType, AppType
<1>4. ASSUME NEW d \in Chans
      PROVE  LocalInv(chan[d], queues[d], app[d], sock[d])'
  <2>1. CASE d = ch
    <3>1. chan'[d] = r /\ queues'[d] = q /\ app'[d] = a /\ sock'[d] = s
      BY <1>1, <2>1, SMT
    <3> QED BY <3>1, Zenon DEF LocalInv
  <2>2. CASE d # ch
    <3>1. chan'[d] = chan[d] /\ queues'[d] = queues[d] /\ app'[d] = app[d] /\ sock'[d] = sock[d]
      BY <1>1, <2>2, SMT
    <3>2. LocalInv(chan[d], queues[d], app[d], sock[d])
      BY DEF IInv
    <3> QED BY <3>1, <3>2, Zenon DEF LocalInv
  <2> QED BY <2>1, <2>2
<1> QED BY <1>3, <1>4, Zenon DEF IInv

\* Only the object and its thread change.
LEMMA ChanOnly ==
  ASSUME IInv, NEW ch \in Chans, NEW r \in Channel,
         chan' = [chan EXCEPT ![ch] = r],
         UNCHANGED <<bytesSent, bytesRecvd, queues, app, sock>>,
         LocalInv(r, queues[ch], app[ch], sock[ch])
  PROVE  IInv'
<1>1. TypeOK
  BY DEF IInv
<1>2. /\ bytesSent' \in [Chans \cup {Statics} -> 0..PacketLen]
      /\ bytesRecvd' \in [Chans \cup {Statics} -> Nat]
  BY <1>1, Zenon DEF TypeOK
<1>3. /\ queues' = [queues EXCEPT ![ch] = queues[ch]] /\ app' = [app EXCEPT ![ch] = app[ch]]
      /\ sock' = [sock EXCEPT ![ch] = sock[ch]]
      /\ queues[ch] \in QueuesType /\ app[ch] \in AppType /\ sock[ch] \in Socket
  BY <1>1, LocalType, Zenon
<1> DEFINE q == queues[ch]
           a == app[ch]
           s == sock[ch]
<1>4. q \in QueuesType /\ a \in AppType /\ s \in Socket /\ LocalInv(r, q, a, s)
      /\ queues' = [queues EXCEPT ![ch] = q] /\ app' = [app EXCEPT ![ch] = a]
      /\ sock' = [sock EXCEPT ![ch] = s]
  BY <1>3
<1> HIDE DEF q, a, s
<1> QED BY <1>2, <1>4, StepOfOne, Zenon

\* Only the socket changes.
LEMMA SockOnly ==
  ASSUME IInv, NEW ch \in Chans, NEW s \in Socket,
         sock' = [sock EXCEPT ![ch] = s],
         UNCHANGED <<chan, bytesSent, bytesRecvd, queues, app>>,
         s.n = sock[ch].n
  PROVE  IInv'
<1>1. TypeOK
  BY DEF IInv
<1>2. /\ bytesSent' \in [Chans \cup {Statics} -> 0..PacketLen]
      /\ bytesRecvd' \in [Chans \cup {Statics} -> Nat]
  BY <1>1, Zenon DEF TypeOK
<1>3. LocalInv(chan[ch], queues[ch], app[ch], s)
  BY Zenon DEF IInv, LocalInv
<1>4. /\ chan' = [chan EXCEPT ![ch] = chan[ch]] /\ queues' = [queues EXCEPT ![ch] = queues[ch]]
      /\ app' = [app EXCEPT ![ch] = app[ch]]
      /\ chan[ch] \in Channel /\ queues[ch] \in QueuesType /\ app[ch] \in AppType
  BY <1>1, LocalType, Zenon
<1> QED BY <1>2, <1>3, <1>4, StepOfOne, Zenon

-----------------------------------------------------------------------------
(* thread_run.                                                              *)

LEMMA GotoStep ==
  ASSUME IInv, NEW ch \in Chans,
         StartConnect(ch) \/ ConnectFails(ch) \/ ThreadExit(ch)
  PROVE  IInv'
<1> PICK to \in {"top", "connecting", "exited"} :
        /\ chan' = [chan EXCEPT ![ch].pc = to]
        /\ chan[ch].pc \in {"top", "connecting"}
        /\ UNCHANGED <<bytesSent, bytesRecvd, queues, app, sock>>
  BY Zenon DEF StartConnect, ConnectFails, ThreadExit, Goto
<1> DEFINE r == [chan[ch] EXCEPT !.pc = to]
<1>1. chan[ch] \in Channel
  BY LocalType DEF IInv
<1>2. r \in Channel
  BY <1>1, Zenon DEF Channel
<1>3. LocalInv(r, queues[ch], app[ch], sock[ch])
  BY <1>1, SMT DEF IInv, LocalInv, Channel
<1> QED BY <1>2, <1>3, ChanOnly

LEMMA NewSocketType ==
  ASSUME NEW n \in 0..MaxConns
  PROVE  NewSocket(n) \in Socket /\ NewSocket(n).n = n
<1>1. <<>> \in Seq([id : 1..MaxRequests, n : Nat])
  BY EmptySeq
<1>2. 0 \in 0..MaxRx /\ SndBuf \in 0..SndBuf /\ 0 \in Nat
  BY ClientAssumption
<1> QED BY <1>1, <1>2, Zenon DEF NewSocket, Socket

LEMMA ConnectedStep ==
  ASSUME IInv, NEW ch \in Chans, Connected(ch)
  PROVE  IInv'
<1> DEFINE r == [chan[ch] EXCEPT !.pc = "connected", !.busy = TRUE]
           s == NewSocket(sock[ch].n + 1)
<1>1. TypeOK /\ chan[ch] \in Channel /\ sock[ch] \in Socket
  BY LocalType DEF IInv
<1>2. sock[ch].n + 1 \in 0..MaxConns /\ sock[ch].n + 1 # 0
  BY <1>1, ClientAssumption, SMTT(60) DEF Connected, Socket
<1>3. r \in Channel
  BY <1>1, Zenon DEF Channel
<1>4. s \in Socket /\ s.n # 0
  BY <1>2, NewSocketType
<1>5. LocalInv(r, queues[ch], app[ch], s)
  <2>1. LocalInv(chan[ch], queues[ch], app[ch], sock[ch])
    BY DEF IInv
  <2> HIDE DEF s
  <2> QED BY <1>1, <1>4, <2>1, SMT DEF Connected, LocalInv, Channel
<1>6. /\ chan' = [chan EXCEPT ![ch] = r] /\ sock' = [sock EXCEPT ![ch] = s]
      /\ UNCHANGED <<bytesSent, bytesRecvd, queues, app>>
  BY Zenon DEF Connected
<1>7. /\ bytesSent' \in [Chans \cup {Statics} -> 0..PacketLen]
      /\ bytesRecvd' \in [Chans \cup {Statics} -> Nat]
  BY <1>1, <1>6, Zenon DEF TypeOK
<1> HIDE DEF r, s
<1> QED BY <1>1, <1>3, <1>4, <1>5, <1>6, <1>7, LocalType, StepOfOne

\* The counters of all channels are only typed.
CountersType ==
    /\ bytesSent \in [Chans \cup {Statics} -> 0..PacketLen]
    /\ bytesRecvd \in [Chans \cup {Statics} -> Nat]

LEMMA CountersKept ==
  ASSUME IInv, UNCHANGED <<bytesSent, bytesRecvd>>
  PROVE  CountersType'
  BY Zenon DEF IInv, TypeOK, CountersType

\* The object and its queues change.
LEMMA ChanAndQueues ==
  ASSUME IInv, NEW ch \in Chans, NEW r \in Channel, NEW q \in QueuesType,
         chan' = [chan EXCEPT ![ch] = r], queues' = [queues EXCEPT ![ch] = q],
         UNCHANGED <<app, sock>>, CountersType',
         LocalInv(r, q, app[ch], sock[ch])
  PROVE  IInv'
<1> DEFINE a == app[ch]
           s == sock[ch]
<1>1. TypeOK
  BY DEF IInv
<1>2. a \in AppType /\ s \in Socket /\ LocalInv(r, q, a, s)
      /\ app' = [app EXCEPT ![ch] = a] /\ sock' = [sock EXCEPT ![ch] = s]
  BY <1>1, LocalType, Zenon
<1>3. /\ bytesSent' \in [Chans \cup {Statics} -> 0..PacketLen]
      /\ bytesRecvd' \in [Chans \cup {Statics} -> Nat]
  BY Zenon DEF CountersType
<1> HIDE DEF a, s
<1> QED BY <1>2, <1>3, StepOfOne, Zenon

\* The application acts on the queues.
LEMMA AppAndQueues ==
  ASSUME IInv, NEW ch \in Chans, NEW q \in QueuesType, NEW a \in AppType,
         queues' = [queues EXCEPT ![ch] = q], app' = [app EXCEPT ![ch] = a],
         UNCHANGED <<chan, bytesSent, bytesRecvd, sock>>,
         LocalInv(chan[ch], q, a, sock[ch])
  PROVE  IInv'
<1> DEFINE r == chan[ch]
           s == sock[ch]
<1>1. TypeOK
  BY DEF IInv
<1>2. r \in Channel /\ s \in Socket /\ LocalInv(r, q, a, s)
      /\ chan' = [chan EXCEPT ![ch] = r] /\ sock' = [sock EXCEPT ![ch] = s]
  BY <1>1, LocalType, Zenon
<1>3. /\ bytesSent' \in [Chans \cup {Statics} -> 0..PacketLen]
      /\ bytesRecvd' \in [Chans \cup {Statics} -> Nat]
  BY CountersKept, Zenon DEF CountersType
<1> HIDE DEF r, s
<1> QED BY <1>2, <1>3, StepOfOne, Zenon

\* What is known of the channel that moves.
LEMMA Here ==
  ASSUME IInv, NEW ch \in Chans
  PROVE  /\ chan[ch] \in Channel /\ queues[ch] \in QueuesType
         /\ app[ch] \in AppType /\ sock[ch] \in Socket
         /\ LocalInv(chan[ch], queues[ch], app[ch], sock[ch])
  BY LocalType DEF IInv

\* A pushed announcement is the last of the feed.
LEMMA PushedLast ==
  ASSUME NEW q \in QueueOf(Announcement), NEW m \in Announcement, NEW f \in BOOLEAN,
         q.started \/ f, NEW view
  PROVE  /\ Push(q, m, f) \in QueueOf(Announcement)
         /\ Push(q, m, f).started
         /\ Final(Push(q, m, f).items, view) = IF m.type = "OPEN" THEN m.conn ELSE 0
<1>1. q.items \in Seq(Announcement)
  BY DEF QueueOf
<1>2. Push(q, m, f) = [started |-> TRUE, items |-> Append(q.items, m)]
  BY DEF Push
<1>3. /\ Append(q.items, m) # <<>>
      /\ Append(q.items, m)[Len(Append(q.items, m))] = m
  BY <1>1, AppendProperties
<1>4. Push(q, m, f) \in QueueOf(Announcement)
  BY PushType
<1>5. Final(Append(q.items, m), view) = IF m.type = "OPEN" THEN m.conn ELSE 0
  BY <1>3, Zenon DEF Final
<1> QED BY <1>2, <1>4, <1>5

LEMMA EnterLoopStep ==
  ASSUME IInv, NEW ch \in Chans, EnterLoop(ch)
  PROVE  IInv'
<1> DEFINE r == [chan[ch] EXCEPT !.pc = "loop", !.outQueueWatched = TRUE,
                                 !.epollOut = FALSE, !.packToSend = None,
                                 !.rcvState = "IO_START"]
           m == [type |-> "OPEN", conn |-> sock[ch].n]
           q == [queues[ch] EXCEPT !.inCmd = Push(@, m, TRUE)]
<1>1. /\ chan' = [chan EXCEPT ![ch] = r] /\ queues' = [queues EXCEPT ![ch] = q]
      /\ UNCHANGED <<bytesSent, bytesRecvd, app, sock>>
  BY Zenon DEF EnterLoop, OpenMessage
<1>2. r \in Channel
  BY Here, ZenonT(60) DEF Channel
<1>3. m \in Announcement /\ m.type = "OPEN" /\ m.conn = sock[ch].n
  <2>1. sock[ch].n \in 0..MaxConns /\ sock[ch].n # 0
    BY Here, Zenon DEF EnterLoop, LocalInv, Socket
  <2> QED BY <2>1 DEF Announcement
<1>4. queues[ch].inCmd \in QueueOf(Announcement)
  BY Here DEF QueuesType
<1> HIDE DEF m
<1>5. /\ Push(queues[ch].inCmd, m, TRUE) \in QueueOf(Announcement)
      /\ Push(queues[ch].inCmd, m, TRUE).started
      /\ Final(Push(queues[ch].inCmd, m, TRUE).items, app[ch].view) = sock[ch].n
  BY <1>3, <1>4, PushedLast
<1>6. q \in QueuesType /\ q.inCmd = Push(queues[ch].inCmd, m, TRUE)
  BY <1>5, Here, Zenon DEF QueuesType
<1>7. LocalInv(r, q, app[ch], sock[ch])
  <2>1. r.pc = "loop" /\ r.epollOut = FALSE /\ r.outQueueWatched = TRUE
        /\ chan[ch].pc = "connected"
    BY Here, Zenon DEF Channel, EnterLoop
  <2> HIDE DEF r, q
  <2> QED BY <1>5, <1>6, <2>1, Here, Zenon DEF LocalInv
<1> HIDE DEF r, q
<1> QED BY <1>1, <1>2, <1>6, <1>7, CountersKept, ChanAndQueues

LEMMA CleanupStep ==
  ASSUME IInv, NEW ch \in Chans, Cleanup(ch)
  PROVE  IInv'
<1> DEFINE r == [chan[ch] EXCEPT !.pc = "top", !.busy = FALSE,
                            !.outQueueWatched = FALSE, !.epollOut = FALSE,
                            !.packToSend = None, !.rcvState = "IO_START"]
           q == [queues[ch] EXCEPT !.out = StopAndClear(@), !.outCmd = StopAndClear(@)]
           s == NewSocket(sock[ch].n)
           a == app[ch]
<1>1. /\ chan' = [chan EXCEPT ![ch] = r] /\ queues' = [queues EXCEPT ![ch] = q]
      /\ sock' = [sock EXCEPT ![ch] = s]
      /\ UNCHANGED <<bytesSent, bytesRecvd, app>>
  BY Zenon DEF Cleanup
<1>2. r \in Channel
  BY Here, Zenon DEF Channel
<1>3. s \in Socket /\ s.n = sock[ch].n
  BY Here, NewSocketType, Zenon DEF Socket
<1>4. q \in QueuesType /\ q.inCmd = queues[ch].inCmd
  <2>1. \A x : StopAndClear(x) \in QueueOf(Request)
    BY EmptyQueueType
  <2> QED BY <2>1, Here, Zenon DEF QueuesType
<1>5. LocalInv(r, q, app[ch], s)
  <2>1. r.pc = "top" /\ r.epollOut = FALSE /\ r.owner = chan[ch].owner
        /\ chan[ch].pc = "cleanup"
    BY Here, Zenon DEF Channel, Cleanup
  <2> HIDE DEF r, q, s
  <2> QED BY <1>3, <1>4, <2>1, Here, SMT DEF LocalInv
<1>6. a \in AppType /\ app' = [app EXCEPT ![ch] = a]
  BY <1>1, LocalType, Zenon DEF IInv
<1>7. /\ bytesSent' \in [Chans \cup {Statics} -> 0..PacketLen]
      /\ bytesRecvd' \in [Chans \cup {Statics} -> Nat]
  BY <1>1, CountersKept, Zenon DEF CountersType
<1>8. LocalInv(r, q, a, s)
  BY <1>5
<1> HIDE DEF r, q, s, a
<1> QED BY <1>1, <1>2, <1>3, <1>4, <1>6, <1>7, <1>8, StepOfOne, Zenon

-----------------------------------------------------------------------------
(* The events of do_message_loop.                                           *)

LEMMA LesserType ==
  ASSUME NEW a \in Int, NEW b \in Int
  PROVE  Lesser(a, b) \in Int /\ Lesser(a, b) <= a /\ Lesser(a, b) <= b
         /\ (Lesser(a, b) = a \/ Lesser(a, b) = b)
  BY DEF Lesser

Parts == [id : 1..MaxRequests, n : Nat]

\* What a wire has carried remains a sequence of parts of packets.
LEMMA SentType ==
  ASSUME NEW w \in Seq(Parts), NEW p \in Request, NEW n \in Nat
  PROVE  Sent(w, p, n) \in Seq(Parts)
<1>1. CASE w # <<>> /\ w[Len(w)].id = p.id
  <2>1. Len(w) \in 1..Len(w)
    BY <1>1, EmptySeq
  <2>2. w[Len(w)] \in Parts
    BY <2>1, ElementOfSeq
  <2>3. w[Len(w)].n + n \in Nat
    BY <2>2 DEF Parts
  <2>4. [w[Len(w)] EXCEPT !.n = w[Len(w)].n + n] \in Parts
    BY <2>2, <2>3, Zenon DEF Parts
  <2>5. [w EXCEPT ![Len(w)] = [w[Len(w)] EXCEPT !.n = w[Len(w)].n + n]] \in Seq(Parts)
    BY <2>1, <2>4, ExceptSeq
  <2>6. Sent(w, p, n) = [w EXCEPT ![Len(w)] = [w[Len(w)] EXCEPT !.n = w[Len(w)].n + n]]
    BY <1>1, Zenon DEF Sent
  <2> QED BY <2>5, <2>6
<1>2. CASE ~(w # <<>> /\ w[Len(w)].id = p.id)
  <2>1. [id |-> p.id, n |-> n] \in Parts
    BY DEF Request, Parts
  <2>2. Append(w, [id |-> p.id, n |-> n]) \in Seq(Parts)
    BY <2>1, AppendProperties
  <2> QED BY <1>2, <2>2, Zenon DEF Sent
<1> QED BY <1>1, <1>2

\* Sending no more than there is room for.
LEMMA PutOnWireType ==
  ASSUME IInv, NEW ch \in Chans, NEW p \in Request, NEW n \in Nat, n <= sock[ch].room
  PROVE  LET s == [sock[ch] EXCEPT !.room = @ - n, !.wire = Sent(@, p, n)]
         IN s \in Socket /\ s.n = sock[ch].n
<1> DEFINE w == Sent(sock[ch].wire, p, n)
           k == sock[ch].room - n
<1>1. w \in Seq(Parts)
  BY Here, SentType, Zenon DEF Socket, Parts
<1>2. k \in 0..SndBuf
  <2>1. sock[ch].room \in 0..SndBuf
    BY Here, Zenon DEF Socket
  <2> QED BY <2>1, ClientAssumption
<1> HIDE DEF w, k
<1>3. [sock[ch] EXCEPT !.room = k, !.wire = w] \in Socket
      /\ [sock[ch] EXCEPT !.room = k, !.wire = w].n = sock[ch].n
  BY <1>1, <1>2, Here, Zenon DEF Socket, Parts
<1> QED BY <1>3, Zenon DEF w, k

\* A packet taken from outQueue.
LEMMA TakenPacket ==
  ASSUME IInv, NEW ch \in Chans, OutQueueEvent(ch)
  PROVE  /\ Head(queues[ch].out.items) \in Request
         /\ Head(queues[ch].out.items) # None
         /\ LET q == [queues[ch] EXCEPT !.out = Pop(@)]
            IN /\ q \in QueuesType /\ q.inCmd = queues[ch].inCmd
               /\ queues' = [queues EXCEPT ![ch] = q]
<1>1. queues[ch].out \in QueueOf(Request) /\ QueueReadable(queues[ch].out)
  BY Here, Zenon DEF QueuesType, OutQueueEvent
<1>2. Head(queues[ch].out.items) \in Request /\ Pop(queues[ch].out) \in QueueOf(Request)
  BY <1>1, PopType
<1>3. Head(queues[ch].out.items) # None
  BY <1>2, ClientAssumption
<1> DEFINE q == [queues[ch] EXCEPT !.out = Pop(@)]
<1>4. q \in QueuesType /\ q.inCmd = queues[ch].inCmd
  BY <1>2, Here, Zenon DEF QueuesType
<1>5. queues' = [queues EXCEPT ![ch] = q]
  BY Zenon DEF OutQueueEvent
<1> QED BY <1>2, <1>3, <1>4, <1>5

LEMMA CounterType ==
  ASSUME NEW ch \in Chans
  PROVE  Counter(ch) \in Chans \cup {Statics}
  BY DEF Counter

LEMMA SendStartStep ==
  ASSUME IInv, NEW ch \in Chans, SendStart(ch)
  PROVE  IInv'
<1> DEFINE p == Head(queues[ch].out.items)
           n == Lesser(sock[ch].room, PacketLen)
           some == n < PacketLen
           all == n = PacketLen
           r == [chan[ch] EXCEPT !.packToSend = p, !.epollOut = some, !.outQueueWatched = all]
           q == [queues[ch] EXCEPT !.out = Pop(@)]
           s == [sock[ch] EXCEPT !.room = @ - n, !.wire = Sent(@, p, n)]
           a == app[ch]
<1>1. /\ chan' = [chan EXCEPT ![ch] = r] /\ sock' = [sock EXCEPT ![ch] = s]
      /\ bytesSent' = [bytesSent EXCEPT ![Counter(ch)] = n]
      /\ OutQueueEvent(ch) /\ UNCHANGED <<bytesRecvd, app>>
  BY Zenon DEF SendStart, Started, PutOnWire
<1>2. p \in Request /\ p # None /\ q \in QueuesType /\ q.inCmd = queues[ch].inCmd
      /\ queues' = [queues EXCEPT ![ch] = q]
  BY <1>1, TakenPacket
<1>3. sock[ch].room \in 0..SndBuf /\ PacketLen \in Nat \ {0} /\ SndBuf \in Nat
  BY Here, ClientAssumption, Zenon DEF Socket
<1>4. n \in 0..PacketLen /\ n \in Nat /\ n <= sock[ch].room /\ (some \/ all)
      /\ (some \in BOOLEAN) /\ (all \in BOOLEAN)
  BY <1>3, SMT DEF Lesser
<1> HIDE DEF p, n
<1>5. s \in Socket /\ s.n = sock[ch].n
  BY <1>2, <1>4, PutOnWireType
<1> HIDE DEF some, all
<1>6. r \in Channel /\ r.packToSend = p /\ r.pc = chan[ch].pc /\ r.owner = chan[ch].owner
      /\ r.epollOut = some /\ r.outQueueWatched = all
  BY <1>2, <1>4, Here, ZenonT(60) DEF Channel
<1>7. LocalInv(r, q, a, s)
  <2> HIDE DEF r, q, s
  <2> QED BY <1>2, <1>4, <1>5, <1>6, Here, Zenon DEF LocalInv
<1>8. bytesSent' \in [Chans \cup {Statics} -> 0..PacketLen]
      /\ bytesRecvd' \in [Chans \cup {Statics} -> Nat]
  BY <1>1, <1>4, CounterType, Zenon DEF IInv, TypeOK
<1>9. a \in AppType /\ app' = [app EXCEPT ![ch] = a]
  BY <1>1, LocalType, Zenon DEF IInv
<1> HIDE DEF r, q, s, a
<1> QED BY <1>1, <1>2, <1>5, <1>6, <1>7, <1>8, <1>9, StepOfOne, Zenon

LEMMA UnknownPacketTypeStep ==
  ASSUME IInv, NEW ch \in Chans, UnknownPacketType(ch)
  PROVE  IInv'
<1> DEFINE p == Head(queues[ch].out.items)
           r == [chan[ch] EXCEPT !.packToSend = p]
           q == [queues[ch] EXCEPT !.out = Pop(@)]
<1>1. /\ chan' = [chan EXCEPT ![ch] = r] /\ OutQueueEvent(ch)
      /\ UNCHANGED <<bytesSent, bytesRecvd, app, sock>>
  BY Zenon DEF UnknownPacketType
<1>2. p \in Request /\ p # None /\ q \in QueuesType /\ q.inCmd = queues[ch].inCmd
      /\ queues' = [queues EXCEPT ![ch] = q]
  BY <1>1, TakenPacket
<1> HIDE DEF p
<1>3. r \in Channel /\ r.packToSend = p /\ r.pc = chan[ch].pc /\ r.owner = chan[ch].owner
      /\ r.epollOut = chan[ch].epollOut /\ r.outQueueWatched = chan[ch].outQueueWatched
  BY <1>2, Here, Zenon DEF Channel
<1>4. LocalInv(r, q, app[ch], sock[ch])
  <2> HIDE DEF r, q
  <2> QED BY <1>2, <1>3, Here, Zenon DEF LocalInv
<1> HIDE DEF r, q
<1> QED BY <1>1, <1>2, <1>3, <1>4, CountersKept, ChanAndQueues

LEMMA TakeCommandStep ==
  ASSUME IInv, NEW ch \in Chans, TakeCommand(ch)
  PROVE  IInv'
<1> DEFINE busy == Head(queues[ch].outCmd.items).type # "CLOSE"
           r == [chan[ch] EXCEPT !.busy = busy]
           q == [queues[ch] EXCEPT !.outCmd = Pop(@)]
<1>1. /\ chan' = [chan EXCEPT ![ch] = r] /\ queues' = [queues EXCEPT ![ch] = q]
      /\ UNCHANGED <<bytesSent, bytesRecvd, app, sock>>
      /\ QueueReadable(queues[ch].outCmd)
  BY Zenon DEF TakeCommand
<1>2. Pop(queues[ch].outCmd) \in QueueOf(Request)
  BY <1>1, PopType, Here, Zenon DEF QueuesType
<1>3. q \in QueuesType /\ q.inCmd = queues[ch].inCmd
  BY <1>2, Here, Zenon DEF QueuesType
<1>4. busy \in BOOLEAN
  OBVIOUS
<1> HIDE DEF busy
<1>5. r \in Channel /\ r.packToSend = chan[ch].packToSend /\ r.pc = chan[ch].pc
      /\ r.owner = chan[ch].owner
      /\ r.epollOut = chan[ch].epollOut /\ r.outQueueWatched = chan[ch].outQueueWatched
  BY <1>4, Here, Zenon DEF Channel
<1>6. LocalInv(r, q, app[ch], sock[ch])
  <2> HIDE DEF r, q
  <2> QED BY <1>3, <1>5, Here, Zenon DEF LocalInv
<1> HIDE DEF r, q
<1> QED BY <1>1, <1>3, <1>5, <1>6, CountersKept, ChanAndQueues

LEMMA SendContinueStep ==
  ASSUME IInv, NEW ch \in Chans, SendContinue(ch)
  PROVE  IInv'
<1> DEFINE p == chan[ch].packToSend
           n == Lesser(sock[ch].room, RestToSend(ch))
           done == n = RestToSend(ch)
           some == ~done
           r == [chan[ch] EXCEPT !.epollOut = some, !.outQueueWatched = done]
           s == [sock[ch] EXCEPT !.room = @ - n, !.wire = Sent(@, p, n)]
           q == queues[ch]
           a == app[ch]
<1>1. /\ chan' = [chan EXCEPT ![ch] = r] /\ sock' = [sock EXCEPT ![ch] = s]
      /\ bytesSent' = [bytesSent EXCEPT ![Counter(ch)] = bytesSent[Counter(ch)] + n]
      /\ chan[ch].epollOut /\ UNCHANGED <<bytesRecvd, queues, app>>
  BY Zenon DEF SendContinue, Continued, PutOnWire
<1>2. p \in Request /\ p # None
  BY <1>1, Here, Zenon DEF LocalInv, Channel
<1>3. sock[ch].room \in 0..SndBuf /\ PacketLen \in Nat \ {0} /\ SndBuf \in Nat
  BY Here, ClientAssumption, Zenon DEF Socket
<1>4. bytesSent[Counter(ch)] \in 0..PacketLen
  BY CounterType, Zenon DEF IInv, TypeOK
<1>5. n \in Nat /\ n <= sock[ch].room /\ bytesSent[Counter(ch)] + n \in 0..PacketLen
      /\ (some \in BOOLEAN) /\ (done \in BOOLEAN) /\ (some \/ done)
  BY <1>3, <1>4, SMT DEF Lesser, RestToSend
<1> HIDE DEF p, n
<1>6. s \in Socket /\ s.n = sock[ch].n
  BY <1>2, <1>5, PutOnWireType
<1> HIDE DEF some, done
<1>7. r \in Channel /\ r.packToSend = p /\ r.pc = chan[ch].pc /\ r.owner = chan[ch].owner
      /\ r.epollOut = some /\ r.outQueueWatched = done
  BY <1>5, Here, Zenon DEF Channel, p
<1>8. LocalInv(r, q, a, s)
  <2> HIDE DEF r, s
  <2> QED BY <1>2, <1>5, <1>6, <1>7, Here, Zenon DEF LocalInv
<1>9. bytesSent' \in [Chans \cup {Statics} -> 0..PacketLen]
      /\ bytesRecvd' \in [Chans \cup {Statics} -> Nat]
  BY <1>1, <1>5, CounterType, Zenon DEF IInv, TypeOK
<1>10. a \in AppType /\ app' = [app EXCEPT ![ch] = a]
       /\ q \in QueuesType /\ queues' = [queues EXCEPT ![ch] = q]
  BY <1>1, LocalType, Zenon DEF IInv
<1> HIDE DEF r, q, s, a
<1> QED BY <1>1, <1>6, <1>7, <1>8, <1>9, <1>10, StepOfOne, Zenon

LEMMA RecvPacketStep ==
  ASSUME IInv, NEW ch \in Chans, RecvPacket(ch)
  PROVE  IInv'
<1> DEFINE k == Taken(ch)
           b == ReadBefore(ch)
           m == [conn |-> sock[ch].n, from |-> (sock[ch].rxRead + 1) - b,
                 upto |-> sock[ch].rxRead + k]
           s == [sock[ch] EXCEPT !.rxRead = @ + k]
           a == app[ch]
<1>1. k > 0 /\ sock' = [sock EXCEPT ![ch] = s] /\ UNCHANGED <<bytesSent, app>>
      /\ bytesRecvd' = [bytesRecvd EXCEPT ![Counter(ch)] = b + k]
      /\ chan[ch].pc = "loop"
  BY Zenon DEF RecvPacket, Polling
<1>2. b \in Nat
  BY CounterType, SMT DEF ReadBefore, IInv, TypeOK
<1>3. sock[ch].rxRead \in Nat /\ sock[ch].rxSent \in Int /\ MsgLen \in Nat
  BY Here, ClientAssumption DEF Socket
<1>4. k \in Int
  BY <1>2, <1>3, SMT DEF Taken, Unread, Lesser
<1>5. b + k \in Nat /\ sock[ch].rxRead + k \in Nat /\ (sock[ch].rxRead + 1) - b \in Int
  BY <1>1, <1>2, <1>3, <1>4, SMT
<1> HIDE DEF k, b
<1>6. m \in Received
  <2>1. sock[ch].n \in 0..MaxConns /\ sock[ch].n # 0
    BY <1>1, Here, Zenon DEF LocalInv, Socket
  <2> QED BY <1>5, <2>1 DEF Received
<1>7. s \in Socket /\ s.n = sock[ch].n
  BY <1>5, Here, Zenon DEF Socket
<1>8. bytesSent' \in [Chans \cup {Statics} -> 0..PacketLen]
      /\ bytesRecvd' \in [Chans \cup {Statics} -> Nat]
  BY <1>1, <1>5, CounterType, Zenon DEF IInv, TypeOK
<1>9. a \in AppType /\ app' = [app EXCEPT ![ch] = a]
  BY <1>1, LocalType, Zenon DEF IInv
<1>10. PICK r, q :
         /\ r \in Channel /\ q \in QueuesType
         /\ chan' = [chan EXCEPT ![ch] = r] /\ queues' = [queues EXCEPT ![ch] = q]
         /\ q.inCmd = queues[ch].inCmd
         /\ r.packToSend = chan[ch].packToSend /\ r.pc = chan[ch].pc
         /\ r.owner = chan[ch].owner /\ r.epollOut = chan[ch].epollOut
         /\ r.outQueueWatched = chan[ch].outQueueWatched
  <2>1. \A v \in {"IO_START", "IO_CONTINUE"} :
          LET r == [chan[ch] EXCEPT !.rcvState = v]
          IN /\ r \in Channel
             /\ r.packToSend = chan[ch].packToSend /\ r.pc = chan[ch].pc
             /\ r.owner = chan[ch].owner /\ r.epollOut = chan[ch].epollOut
             /\ r.outQueueWatched = chan[ch].outQueueWatched
    BY Here, Zenon DEF Channel
  <2>2. CASE Completes(ch)
    <3> DEFINE v == "IO_START"
               r == [chan[ch] EXCEPT !.rcvState = v]
               q == [queues[ch] EXCEPT !.in = Push(@, m, TRUE)]
    <3>1. chan' = [chan EXCEPT ![ch] = r] /\ queues' = [queues EXCEPT ![ch] = q]
      BY <2>2, Zenon DEF RecvPacket, k, b
    <3>2. Push(queues[ch].in, m, TRUE) \in QueueOf(Received)
      BY <1>6, Here, PushType, Zenon DEF QueuesType
    <3>3. q \in QueuesType /\ q.inCmd = queues[ch].inCmd
      BY <3>2, Here, Zenon DEF QueuesType
    <3> QED BY <2>1, <3>1, <3>3, Zenon
  <2>3. CASE ~Completes(ch)
    <3> DEFINE v == "IO_CONTINUE"
               r == [chan[ch] EXCEPT !.rcvState = v]
               q == queues[ch]
    <3>1. chan' = [chan EXCEPT ![ch] = r] /\ queues' = queues
      BY <2>3, Zenon DEF RecvPacket
    <3>2. queues' = [queues EXCEPT ![ch] = q] /\ q \in QueuesType
      BY <3>1, LocalType, Zenon DEF IInv
    <3> QED BY <2>1, <3>1, <3>2, Zenon
  <2> QED BY <2>2, <2>3
<1>11. LocalInv(r, q, a, s)
  <2> HIDE DEF s
  <2> QED BY <1>7, <1>10, Here, Zenon DEF LocalInv
<1> HIDE DEF s, a
<1> QED BY <1>1, <1>7, <1>8, <1>9, <1>10, <1>11, StepOfOne, Zenon

LEMMA LeaveLoopStep ==
  ASSUME IInv, NEW ch \in Chans, LeaveLoop(ch)
  PROVE  IInv'
<1> DEFINE r == [chan[ch] EXCEPT !.pc = "cleanup"]
           m == [type |-> "CLOSE", conn |-> sock[ch].n]
           q == [queues[ch] EXCEPT !.inCmd = Push(@, m, FALSE)]
<1>1. /\ chan' = [chan EXCEPT ![ch] = r] /\ queues' = [queues EXCEPT ![ch] = q]
      /\ UNCHANGED <<bytesSent, bytesRecvd, app, sock>>
      /\ chan[ch].pc = "loop"
  BY Zenon DEF LeaveLoop
<1>2. r \in Channel /\ r.owner = chan[ch].owner /\ r.pc = "cleanup"
      /\ r.packToSend = chan[ch].packToSend /\ r.epollOut = chan[ch].epollOut
  BY Here, Zenon DEF Channel
<1>3. m \in Announcement /\ m.type = "CLOSE"
  <2>1. sock[ch].n \in 0..MaxConns /\ sock[ch].n # 0
    BY <1>1, Here, Zenon DEF LocalInv, Socket
  <2> QED BY <2>1 DEF Announcement
<1>4. queues[ch].inCmd \in QueueOf(Announcement)
  BY Here DEF QueuesType
<1> HIDE DEF m
<1>5. /\ Push(queues[ch].inCmd, m, FALSE) \in QueueOf(Announcement)
      /\ queues[ch].inCmd.started =>
            Final(Push(queues[ch].inCmd, m, FALSE).items, app[ch].view) = 0
  BY <1>3, <1>4, PushedLast, PushType
<1>6. q \in QueuesType /\ q.inCmd = Push(queues[ch].inCmd, m, FALSE)
  BY <1>5, Here, Zenon DEF QueuesType
<1>7. LocalInv(r, q, app[ch], sock[ch])
  <2>1. r.pc # "loop" /\ sock[ch].n # 0
        /\ (chan[ch].owner = "alive" => queues[ch].inCmd.started)
        /\ (chan[ch].epollOut => chan[ch].packToSend # None)
    BY <1>1, <1>2, Here, Zenon DEF LocalInv
  <2> HIDE DEF r, q
  <2> QED BY <1>2, <1>5, <1>6, <2>1, Zenon DEF LocalInv
<1> HIDE DEF r, q
<1> QED BY <1>1, <1>2, <1>6, <1>7, CountersKept, ChanAndQueues

-----------------------------------------------------------------------------
(* The destructor.                                                          *)

LEMMA DestructorStep ==
  ASSUME IInv, NEW ch \in Chans,
         DestroyBegins(ch) \/ ClearAndClose(ch) \/ LastFlags(ch) \/ Join(ch)
  PROVE  IInv'
<1>1. UNCHANGED <<bytesSent, bytesRecvd, queues, app, sock>>
  BY Zenon DEF DestroyBegins, ClearAndClose, LastFlags, Join
<1>2. PICK r \in Channel :
         /\ chan' = [chan EXCEPT ![ch] = r]
         /\ r.owner # "alive" /\ r.pc = chan[ch].pc
         /\ r.packToSend = chan[ch].packToSend /\ r.epollOut = chan[ch].epollOut
  <2>1. CASE DestroyBegins(ch)
    <3> DEFINE r == [chan[ch] EXCEPT !.owner = "exit", !.exit = TRUE]
    <3>1. chan' = [chan EXCEPT ![ch] = r]
      BY <2>1, Zenon DEF DestroyBegins
    <3>2. r \in Channel /\ r.owner # "alive" /\ r.pc = chan[ch].pc
          /\ r.packToSend = chan[ch].packToSend /\ r.epollOut = chan[ch].epollOut
      BY Here, Zenon DEF Channel
    <3> HIDE DEF r
    <3> QED BY <3>1, <3>2, Zenon
  <2>2. CASE ClearAndClose(ch)
    <3> DEFINE r == [chan[ch] EXCEPT !.owner = "busy", !.busy = FALSE]
    <3>1. chan' = [chan EXCEPT ![ch] = r]
      BY <2>2, Zenon DEF ClearAndClose
    <3>2. r \in Channel /\ r.owner # "alive" /\ r.pc = chan[ch].pc
          /\ r.packToSend = chan[ch].packToSend /\ r.epollOut = chan[ch].epollOut
      BY Here, Zenon DEF Channel
    <3> HIDE DEF r
    <3> QED BY <3>1, <3>2, Zenon
  <2>3. CASE LastFlags(ch)
    <3> DEFINE r == [chan[ch] EXCEPT !.owner = "join", !.busy = FALSE, !.exit = TRUE]
    <3>1. chan' = [chan EXCEPT ![ch] = r]
      BY <2>3, Zenon DEF LastFlags
    <3>2. r \in Channel /\ r.owner # "alive" /\ r.pc = chan[ch].pc
          /\ r.packToSend = chan[ch].packToSend /\ r.epollOut = chan[ch].epollOut
      BY Here, Zenon DEF Channel
    <3> HIDE DEF r
    <3> QED BY <3>1, <3>2, Zenon
  <2>4. CASE Join(ch)
    <3> DEFINE r == [chan[ch] EXCEPT !.owner = "joined"]
    <3>1. chan' = [chan EXCEPT ![ch] = r]
      BY <2>4, Zenon DEF Join
    <3>2. r \in Channel /\ r.owner # "alive" /\ r.pc = chan[ch].pc
          /\ r.packToSend = chan[ch].packToSend /\ r.epollOut = chan[ch].epollOut
      BY Here, Zenon DEF Channel
    <3> HIDE DEF r
    <3> QED BY <3>1, <3>2, Zenon
  <2> QED BY <2>1, <2>2, <2>3, <2>4
<1>3. LocalInv(r, queues[ch], app[ch], sock[ch])
  BY <1>2, Here, Zenon DEF LocalInv
<1> QED BY <1>1, <1>2, <1>3, ChanOnly

LEMMA StopWaitingStep ==
  ASSUME IInv, NEW ch \in Chans, StopWaiting(ch)
  PROVE  IInv'
<1> DEFINE r == [chan[ch] EXCEPT !.owner = "closing", !.outQueueWatched = FALSE,
                                 !.epollOpen = FALSE]
           q == [queues[ch] EXCEPT !.in = StopAndClear(@), !.inCmd = StopAndClear(@)]
<1>1. /\ chan' = [chan EXCEPT ![ch] = r] /\ queues' = [queues EXCEPT ![ch] = q]
      /\ UNCHANGED <<bytesSent, bytesRecvd, app, sock>>
  BY Zenon DEF StopWaiting, CloseEpoll
<1>2. q \in QueuesType
  <2>1. \A x : StopAndClear(x) \in QueueOf(Received) /\ StopAndClear(x) \in QueueOf(Announcement)
    BY EmptyQueueType
  <2> QED BY <2>1, Here, Zenon DEF QueuesType
<1>3. r \in Channel /\ r.owner # "alive" /\ r.pc = chan[ch].pc
      /\ r.packToSend = chan[ch].packToSend /\ r.epollOut = chan[ch].epollOut
  BY Here, Zenon DEF Channel
<1>4. LocalInv(r, q, app[ch], sock[ch])
  <2> HIDE DEF r, q
  <2> QED BY <1>3, Here, Zenon DEF LocalInv
<1> HIDE DEF r, q
<1> QED BY <1>1, <1>2, <1>3, <1>4, CountersKept, ChanAndQueues

-----------------------------------------------------------------------------
(* The application.                                                         *)

\* Reading the first announcement changes nothing of what all of them say.
LEMMA LearnFinal ==
  ASSUME NEW q \in QueueOf(Announcement), QueueReadable(q), NEW v
  PROVE  /\ Final(Pop(q).items, Final(<<Head(q.items)>>, v)) = Final(q.items, v)
         /\ Final(<<Head(q.items)>>, v)
                = IF Head(q.items).type = "OPEN" THEN Head(q.items).conn ELSE 0
<1> DEFINE f == q.items
<1>1. f \in Seq(Announcement) /\ f # <<>> /\ Pop(q).items = Tail(f)
  BY PopType
<1>2. <<Head(f)>> # <<>> /\ Len(<<Head(f)>>) = 1 /\ <<Head(f)>>[1] = Head(f)
  OBVIOUS
<1>3. Final(<<Head(f)>>, v) = IF Head(f).type = "OPEN" THEN Head(f).conn ELSE 0
  BY <1>2, Zenon DEF Final
<1>4. CASE Tail(f) = <<>>
  <2>1. Len(f) = 1 /\ Head(f) = f[1]
    <3> HIDE DEF f
    <3>1. Len(Tail(f)) = Len(f) - 1
      BY <1>1, HeadTailProperties
    <3>2. Head(f) = f[1] /\ Len(f) \in Nat
      BY <1>1
    <3>3. Len(<<>>) = 0
      OBVIOUS
    <3>4. Len(Tail(f)) = 0
      BY <1>4, <3>3, Zenon
    <3> QED BY <3>1, <3>2, <3>4
  <2> QED BY <1>1, <1>3, <1>4, <2>1, Zenon DEF Final
<1>5. CASE Tail(f) # <<>>
  <2>1. Tail(f)[Len(Tail(f))] = f[Len(f)]
    BY <1>1, <1>5
  <2> QED BY <1>1, <1>5, <2>1, Zenon DEF Final
<1> QED BY <1>3, <1>4, <1>5

LEMMA AppLearnStep ==
  ASSUME IInv, NEW ch \in Chans, AppLearn(ch)
  PROVE  IInv'
<1> DEFINE m == Head(queues[ch].inCmd.items)
           v == IF m.type = "OPEN" THEN m.conn ELSE 0
           q == [queues[ch] EXCEPT !.inCmd = Pop(@)]
           a == [app[ch] EXCEPT !.view = v]
<1>1. /\ queues' = [queues EXCEPT ![ch] = q] /\ app' = [app EXCEPT ![ch] = a]
      /\ UNCHANGED <<chan, bytesSent, bytesRecvd, sock>>
      /\ QueueReadable(queues[ch].inCmd)
  BY Zenon DEF AppLearn, AppStep
<1>2. queues[ch].inCmd \in QueueOf(Announcement)
  BY Here DEF QueuesType
<1>3. m \in Announcement /\ Pop(queues[ch].inCmd) \in QueueOf(Announcement)
      /\ Pop(queues[ch].inCmd).started = queues[ch].inCmd.started
  BY <1>1, <1>2, PopType DEF Pop
<1>4. v \in 0..MaxConns
  BY <1>3, ClientAssumption DEF Announcement
<1>5. Final(Pop(queues[ch].inCmd).items, v) = Final(queues[ch].inCmd.items, app[ch].view)
  BY <1>1, <1>2, LearnFinal
<1> HIDE DEF m, v
<1>6. q \in QueuesType /\ q.inCmd = Pop(queues[ch].inCmd)
  BY <1>3, Here, Zenon DEF QueuesType
<1>7. a \in AppType /\ a.view = v
  BY <1>4, Here, Zenon DEF AppType
<1>8. LocalInv(chan[ch], q, a, sock[ch])
  <2> HIDE DEF q, a
  <2> QED BY <1>3, <1>5, <1>6, <1>7, Here, Zenon DEF LocalInv
<1> HIDE DEF q, a
<1> QED BY <1>1, <1>6, <1>7, <1>8, AppAndQueues

LEMMA AppReceiveStep ==
  ASSUME IInv, NEW ch \in Chans, AppReceive(ch)
  PROVE  IInv'
<1> DEFINE m == Head(queues[ch].in.items)
           g == [app[ch].got EXCEPT ![m.conn] = m.upto]
           q == [queues[ch] EXCEPT !.in = Pop(@)]
           a == [app[ch] EXCEPT !.got = g]
<1>1. /\ queues' = [queues EXCEPT ![ch] = q] /\ app' = [app EXCEPT ![ch] = a]
      /\ UNCHANGED <<chan, bytesSent, bytesRecvd, sock>>
      /\ QueueReadable(queues[ch].in)
  BY Zenon DEF AppReceive, AppStep
<1>2. queues[ch].in \in QueueOf(Received)
  BY Here DEF QueuesType
<1>3. m \in Received /\ Pop(queues[ch].in) \in QueueOf(Received)
  BY <1>1, <1>2, PopType
<1>4. g \in [1..MaxConns -> Nat]
  <2>1. app[ch].got \in [1..MaxConns -> Nat]
    BY Here DEF AppType
  <2>2. m.conn \in 1..MaxConns /\ m.upto \in Nat
    BY <1>3 DEF Received
  <2> HIDE DEF m
  <2> QED BY <2>1, <2>2
<1> HIDE DEF m, g
<1>5. q \in QueuesType /\ q.inCmd = queues[ch].inCmd
  BY <1>3, Here, Zenon DEF QueuesType
<1>6. a \in AppType /\ a.view = app[ch].view
  BY <1>4, Here, Zenon DEF AppType
<1>7. LocalInv(chan[ch], q, a, sock[ch])
  <2> HIDE DEF q, a
  <2> QED BY <1>5, <1>6, Here, Zenon DEF LocalInv
<1> HIDE DEF q, a
<1> QED BY <1>1, <1>5, <1>6, <1>7, AppAndQueues

LEMMA RequestType ==
  ASSUME IInv, NEW ch \in Chans, NEW type \in MessageType, app[ch].nextId <= MaxRequests
  PROVE  /\ NewRequest(ch, type) \in Request
         /\ LET a == [app[ch] EXCEPT !.nextId = @ + 1] IN a \in AppType /\ a.view = app[ch].view
<1>1. app[ch].nextId \in 1..(MaxRequests + 1) /\ MaxRequests \in Nat
  BY Here, ClientAssumption, Zenon DEF AppType
<1>2. app[ch].nextId \in 1..MaxRequests /\ app[ch].nextId + 1 \in 1..(MaxRequests + 1)
  BY <1>1, SMT
<1>3. NewRequest(ch, type) \in Request
  BY <1>2, Zenon DEF NewRequest, Request
<1>4. LET a == [app[ch] EXCEPT !.nextId = @ + 1] IN a \in AppType /\ a.view = app[ch].view
  BY <1>2, Here, Zenon DEF AppType
<1> QED BY <1>3, <1>4

LEMMA AppRequestStep ==
  ASSUME IInv, NEW ch \in Chans, NEW type \in MessageType, NEW force \in BOOLEAN,
         AppSend(ch, type, force) \/ AppCommand(ch, type, force)
  PROVE  IInv'
<1> DEFINE m == NewRequest(ch, type)
           a == [app[ch] EXCEPT !.nextId = @ + 1]
<1>1. /\ app[ch].nextId <= MaxRequests
      /\ app' = [app EXCEPT ![ch] = a]
      /\ UNCHANGED <<chan, bytesSent, bytesRecvd, sock>>
  BY Zenon DEF AppSend, AppCommand, AppRequest, AppStep
<1>2. m \in Request /\ a \in AppType /\ a.view = app[ch].view
  BY <1>1, RequestType
<1> HIDE DEF m
<1>3. PICK q \in QueuesType : queues' = [queues EXCEPT ![ch] = q] /\ q.inCmd = queues[ch].inCmd
  <2>1. CASE AppSend(ch, type, force)
    <3> DEFINE q == [queues[ch] EXCEPT !.out = Push(@, m, force)]
    <3>1. Push(queues[ch].out, m, force) \in QueueOf(Request)
      BY <1>2, Here, PushType, Zenon DEF QueuesType
    <3>2. q \in QueuesType /\ q.inCmd = queues[ch].inCmd
      BY <3>1, Here, Zenon DEF QueuesType
    <3>3. queues' = [queues EXCEPT ![ch] = q]
      BY <2>1, Zenon DEF AppSend, m
    <3> QED BY <3>2, <3>3, Zenon
  <2>2. CASE AppCommand(ch, type, force)
    <3> DEFINE q == [queues[ch] EXCEPT !.outCmd = Push(@, m, force)]
    <3>1. Push(queues[ch].outCmd, m, force) \in QueueOf(Request)
      BY <1>2, Here, PushType, Zenon DEF QueuesType
    <3>2. q \in QueuesType /\ q.inCmd = queues[ch].inCmd
      BY <3>1, Here, Zenon DEF QueuesType
    <3>3. queues' = [queues EXCEPT ![ch] = q]
      BY <2>2, Zenon DEF AppCommand, m
    <3> QED BY <3>2, <3>3, Zenon
  <2> QED BY <2>1, <2>2
<1>4. LocalInv(chan[ch], q, a, sock[ch])
  <2> HIDE DEF a
  <2> QED BY <1>2, <1>3, Here, Zenon DEF LocalInv
<1> HIDE DEF a
<1> QED BY <1>1, <1>2, <1>3, <1>4, AppAndQueues

-----------------------------------------------------------------------------
(* The server at the other end.                                             *)

LEMMA NetworkStep ==
  ASSUME IInv, NEW ch \in Chans, Network(ch)
  PROVE  IInv'
<1>1. UNCHANGED <<chan, bytesSent, bytesRecvd, queues, app>>
  BY Zenon DEF Network, RemoteSend, RemoteDrain, RemoteClose, NetStep
<1>2. sock[ch].rxSent \in 0..MaxRx /\ sock[ch].room \in 0..SndBuf
      /\ MaxRx \in Nat /\ SndBuf \in Nat
  BY Here, ClientAssumption, Zenon DEF Socket
<1>3. PICK s \in Socket : sock' = [sock EXCEPT ![ch] = s] /\ s.n = sock[ch].n
  <2>1. CASE RemoteSend(ch)
    <3> DEFINE s == [sock[ch] EXCEPT !.rxSent = @ + 1]
    <3>1. sock' = [sock EXCEPT ![ch] = s] /\ sock[ch].rxSent < MaxRx
      BY <2>1, Zenon DEF RemoteSend
    <3>2. sock[ch].rxSent + 1 \in 0..MaxRx
      BY <1>2, <3>1, SMT
    <3>3. s \in Socket /\ s.n = sock[ch].n
      BY <3>2, Here, Zenon DEF Socket
    <3> QED BY <3>1, <3>3, Zenon
  <2>2. CASE RemoteDrain(ch)
    <3> DEFINE s == [sock[ch] EXCEPT !.room = @ + 1]
    <3>1. sock' = [sock EXCEPT ![ch] = s] /\ sock[ch].room < SndBuf
      BY <2>2, Zenon DEF RemoteDrain
    <3>2. sock[ch].room + 1 \in 0..SndBuf
      BY <1>2, <3>1, SMT
    <3>3. s \in Socket /\ s.n = sock[ch].n
      BY <3>2, Here, Zenon DEF Socket
    <3> QED BY <3>1, <3>3, Zenon
  <2>3. CASE RemoteClose(ch)
    <3> DEFINE s == [sock[ch] EXCEPT !.remote = "gone"]
    <3>1. sock' = [sock EXCEPT ![ch] = s]
      BY <2>3, Zenon DEF RemoteClose
    <3>2. s \in Socket /\ s.n = sock[ch].n
      BY Here, Zenon DEF Socket
    <3> QED BY <3>1, <3>2, Zenon
  <2> QED BY <2>1, <2>2, <2>3 DEF Network
<1> QED BY <1>1, <1>3, SockOnly

-----------------------------------------------------------------------------
(* The invariant, and what follows from it.                                 *)

LEMMA Initially == Init => IInv
<1> SUFFICES ASSUME Init PROVE IInv
  OBVIOUS
<1>1. PICK kind \in [Chans -> Kinds] : chan = [ch \in Chans |->
          [kind |-> kind[ch], pc |-> "top", owner |-> "alive",
           exit |-> FALSE, busy |-> FALSE,
           epollOpen |-> TRUE, outQueueWatched |-> FALSE, epollOut |-> FALSE,
           packToSend |-> None, rcvState |-> "IO_START"]]
  BY Zenon DEF Init
<1>2. ASSUME NEW ch \in Chans
      PROVE  chan[ch] \in Channel /\ chan[ch].pc = "top" /\ chan[ch].epollOut = FALSE
  <2>1. kind[ch] \in Kinds
    OBVIOUS
  <2>2. chan[ch] = [kind |-> kind[ch], pc |-> "top", owner |-> "alive",
           exit |-> FALSE, busy |-> FALSE,
           epollOpen |-> TRUE, outQueueWatched |-> FALSE, epollOut |-> FALSE,
           packToSend |-> None, rcvState |-> "IO_START"]
    BY <1>1
  <2>3. chan[ch] \in Channel
    BY <2>1, <2>2, SMT DEF Channel
  <2> QED BY <2>2, <2>3, SMT
<1>3. chan \in [Chans -> Channel]
  BY <1>1, <1>2, Zenon
<1>4. /\ bytesSent \in [Chans \cup {Statics} -> 0..PacketLen]
      /\ bytesRecvd \in [Chans \cup {Statics} -> Nat]
  BY ClientAssumption DEF Init
<1> DEFINE q0 == [in |-> NewQueue, out |-> NewQueue, inCmd |-> NewQueue, outCmd |-> NewQueue]
           a0 == [view |-> 0, nextId |-> 1, got |-> [n \in 1..MaxConns |-> 0]]
<1>5. queues = [ch \in Chans |-> q0] /\ q0 \in QueuesType /\ q0.inCmd.items = <<>>
  <2>1. NewQueue \in QueueOf(Received) /\ NewQueue \in QueueOf(Request)
        /\ NewQueue \in QueueOf(Announcement)
    BY EmptyQueueType
  <2> QED BY <2>1, Zenon DEF Init, QueuesType, NewQueue
<1>6. app = [ch \in Chans |-> a0] /\ a0 \in AppType /\ a0.view = 0
  <2>1. 0 \in 0..MaxConns /\ 1 \in 1..(MaxRequests + 1) /\ 0 \in Nat
    BY ClientAssumption
  <2>2. [n \in 1..MaxConns |-> 0] \in [1..MaxConns -> Nat]
    BY <2>1
  <2> QED BY <2>1, <2>2, Zenon DEF Init, AppType
<1>7. sock = [ch \in Chans |-> NewSocket(0)] /\ NewSocket(0) \in Socket
  <2>1. 0 \in 0..MaxConns
    BY ClientAssumption
  <2> QED BY <2>1, NewSocketType, Zenon DEF Init
<1> HIDE DEF q0, a0
<1>8. TypeOK
  <2>1. queues \in [Chans -> QueuesType] /\ app \in [Chans -> AppType]
        /\ sock \in [Chans -> Socket]
    BY <1>5, <1>6, <1>7, SMT
  <2> QED BY <1>3, <1>4, <2>1, Zenon DEF TypeOK, QueuesType, AppType
<1>9. ASSUME NEW ch \in Chans PROVE LocalInv(chan[ch], queues[ch], app[ch], sock[ch])
  <2>1. queues[ch] = q0 /\ app[ch] = a0
    BY <1>5, <1>6, SMT
  <2> QED BY <1>2, <1>5, <1>6, <2>1, Zenon DEF LocalInv, Final
<1> QED BY <1>8, <1>9, Zenon DEF IInv

LEMMA Inductive == IInv /\ [Next]_vars => IInv'
<1> SUFFICES ASSUME IInv, [Next]_vars PROVE IInv'
  OBVIOUS
<1>1. CASE UNCHANGED vars
  BY <1>1, Zenon DEF vars, IInv, TypeOK, LocalInv
<1>2. CASE Next
  <2> PICK ch \in Chans : \/ Thread(ch) \/ DestroyBegins(ch) \/ DestructorRuns(ch)
                          \/ App(ch) \/ Network(ch)
    BY <1>2, Zenon DEF Next
  <2>1. CASE Thread(ch)
    BY <2>1, GotoStep, ConnectedStep, EnterLoopStep, CleanupStep, SendStartStep,
       UnknownPacketTypeStep, TakeCommandStep, RecvPacketStep, SendContinueStep,
       LeaveLoopStep, Zenon DEF Thread, LoopEvent
  <2>2. CASE DestroyBegins(ch) \/ DestructorRuns(ch)
    BY <2>2, DestructorStep, StopWaitingStep, Zenon DEF DestructorRuns
  <2>3. CASE App(ch)
    <3>1. OutTypes \subseteq MessageType /\ CmdTypes \subseteq MessageType
      BY ClientAssumption
    <3>2. CASE \E type \in OutTypes, force \in BOOLEAN : AppSend(ch, type, force)
      BY <3>1, <3>2, AppRequestStep
    <3>3. CASE \E type \in CmdTypes, force \in BOOLEAN : AppCommand(ch, type, force)
      BY <3>1, <3>3, AppRequestStep
    <3> QED BY <2>3, <3>2, <3>3, AppLearnStep, AppReceiveStep, Zenon DEF App
  <2>4. CASE Network(ch)
    BY <2>4, NetworkStep
  <2> QED BY <2>1, <2>2, <2>3, <2>4
<1> QED BY <1>1, <1>2

LEMMA ClientInvariant == Spec => []IInv
  BY Initially, Inductive, PTL DEF Spec

(* Every variable of any number of client channels keeps its type: the      *)
(* units sent of a packet never exceed it, whoever shares the counter, and  *)
(* the room of a socket never goes below nothing.                           *)
THEOREM ClientTypes == Spec => []TypeOK
<1>1. IInv => TypeOK
  BY DEF IInv
<1> QED BY <1>1, ClientInvariant, PTL

(* Output cannot stop for good: a loop that does not watch outQueue waits   *)
(* for EPOLLOUT with a packet to finish.                                    *)
THEOREM ClientOutQueueNotStuck == Spec => []OutQueueNotStuck
<1>1. IInv => OutQueueNotStuck
  BY Zenon DEF IInv, LocalInv, OutQueueNotStuck, Polling
<1> QED BY <1>1, ClientInvariant, PTL

(* The announcements bring the application's view to the connection being   *)
(* served, over any number of connections.                                  *)
THEOREM ClientViewConverges == Spec => []ViewConverges
<1>1. IInv => ViewConverges
  BY Zenon DEF IInv, LocalInv, Final, ViewConverges
<1> QED BY <1>1, ClientInvariant, PTL
=============================================================================
