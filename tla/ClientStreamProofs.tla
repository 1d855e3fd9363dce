------------------------- MODULE ClientStreamProofs -------------------------
(***************************************************************************)
(* What the client channels send and receive, when no two of them share    *)
(* the static counters of ProtoClientSocket: packets are sent whole, and   *)
(* the server's stream arrives without a gap, over any number of           *)
(* connections.  The run client_shared_recvd shows what two framed         *)
(* channels do to each other.                                              *)
(***************************************************************************)
EXTENDS ClientChannelProofs

\* At most one channel of the pool is framed.
OneFramed == \A c, d \in Chans : Framed(c) /\ Framed(d) => c = d

LastId(w) == IF w = <<>> THEN 0 ELSE w[Len(w)].id

\* Every packet on wire w is whole, but for the last if it is open: of that
\* one c units are sent.
WireWhole(w, open, c) ==
    \A i \in 1..Len(w) : w[i].n = IF i = Len(w) /\ open THEN c ELSE PacketLen

\* The packets waiting in out come after packet last, in order, before next.
Queued(out, last, next) ==
    /\ last < next
    /\ \A i \in 1..Len(out) : last < out[i].id /\ out[i].id < next
    /\ \A i, j \in 1..Len(out) : i < j => out[i].id < out[j].id

\* Channel r with queues q, application a, socket s and c units counted sends
\* one packet after the other.
SendInv(r, q, a, s, c) ==
    /\ r.outQueueWatched => ~r.epollOut
    /\ r.pc \notin {"loop", "cleanup"} => ~r.epollOut /\ s.wire = <<>>
    /\ r.epollOut => s.wire # <<>> /\ LastId(s.wire) = r.packToSend.id
    /\ WireWhole(s.wire, r.epollOut, c)
    /\ Queued(q.out.items, LastId(s.wire), a.nextId)

-----------------------------------------------------------------------------
(* Wires and the queue behind them.                                         *)

LEMMA LastIdNat ==
  ASSUME NEW w \in Seq(Parts)
  PROVE  LastId(w) \in Nat
<1>1. CASE w # <<>>
  <2>1. Len(w) \in 1..Len(w)
    BY <1>1, EmptySeq
  <2>2. w[Len(w)] \in Parts
    BY <2>1, ElementOfSeq, Zenon
  <2>3. w[Len(w)].id \in Nat
    BY <2>2, ClientAssumption DEF Parts
  <2> QED BY <1>1, <2>3, Zenon DEF LastId
<1> QED BY <1>1 DEF LastId

LEMMA IdsNat ==
  ASSUME NEW out \in Seq(Request), NEW i \in 1..Len(out)
  PROVE  out[i].id \in Nat
<1>1. out[i] \in Request
  BY ElementOfSeq, Zenon
<1> QED BY <1>1 DEF Request

LEMMA StartedWhole ==
  ASSUME NEW w \in Seq(Parts), NEW p \in Request, NEW n \in 0..PacketLen,
         NEW c, WireWhole(w, FALSE, c), LastId(w) < p.id
  PROVE  /\ Sent(w, p, n) # <<>> /\ LastId(Sent(w, p, n)) = p.id
         /\ WireWhole(Sent(w, p, n), n < PacketLen, n)
<1> DEFINE x == [id |-> p.id, n |-> n]
           v == Append(w, x)
<1>1. PacketLen \in Nat /\ p.id \in Nat
  BY ClientAssumption DEF Request
<1>2. Sent(w, p, n) = v
  <2>1. w # <<>> => w[Len(w)].id # p.id
    <3>1. CASE w # <<>>
      <4>1. LastId(w) = w[Len(w)].id
        BY <3>1, Zenon DEF LastId
      <4>2. Len(w) \in 1..Len(w)
        BY <3>1, EmptySeq
      <4>3. w[Len(w)].id = LastId(w)
        BY <4>1
      <4> QED BY <1>1, <4>3, LastIdNat
    <3> QED BY <3>1
  <2> QED BY <2>1, Zenon DEF Sent
<1>3. /\ Len(v) = Len(w) + 1 /\ v[Len(w) + 1] = x
      /\ \A i \in 1..Len(w) : v[i] = w[i]
      /\ v # <<>> /\ Len(w) \in Nat
  BY AppendProperties
<1>4. LastId(v) = p.id
  BY <1>3 DEF LastId
<1>5. ASSUME NEW i \in 1..Len(v)
      PROVE  v[i].n = IF i = Len(v) /\ n < PacketLen THEN n ELSE PacketLen
  <2>1. CASE i = Len(v)
    <3>1. v[i].n = n
      BY <1>3, <2>1
    <3> QED BY <1>1, <2>1, <3>1
  <2>2. CASE i # Len(v)
    <3>1. i \in 1..Len(w)
      BY <1>3, <2>2
    <3>2. w[i].n = PacketLen
      BY <3>1 DEF WireWhole
    <3> QED BY <1>3, <2>2, <3>1, <3>2
  <2> QED BY <2>1, <2>2
<1>6. WireWhole(v, n < PacketLen, n)
  BY <1>5, Zenon DEF WireWhole
<1> QED BY <1>2, <1>3, <1>4, <1>6

LEMMA ContinuedWhole ==
  ASSUME NEW w \in Seq(Parts), NEW p \in Request, NEW n \in Nat, NEW c \in Nat,
         NEW open \in BOOLEAN, open \/ c + n = PacketLen,
         WireWhole(w, TRUE, c), w # <<>>, LastId(w) = p.id
  PROVE  /\ Sent(w, p, n) # <<>> /\ LastId(Sent(w, p, n)) = p.id
         /\ WireWhole(Sent(w, p, n), open, c + n)
<1> DEFINE l == Len(w)
           x == [w[l] EXCEPT !.n = w[l].n + n]
           v == [w EXCEPT ![l] = x]
<1>1. l \in 1..l /\ l \in Nat
  BY EmptySeq
<1>2. w[l] \in Parts /\ w[l].id = p.id /\ w[l].n = c
  BY <1>1, ElementOfSeq DEF LastId, WireWhole
<1>3. Sent(w, p, n) = v
  BY <1>2, Zenon DEF Sent
<1>4. x.id = p.id /\ x.n = c + n
  BY <1>2 DEF Parts
<1> HIDE DEF x
<1>5. Len(v) = l /\ v[l] = x /\ (\A i \in 1..l : i # l => v[i] = w[i])
  BY <1>1
<1>6. v # <<>>
  BY <1>1, <1>5
<1>7. LastId(v) = p.id
  BY <1>4, <1>5, <1>6, Zenon DEF LastId
<1>8. ASSUME NEW i \in 1..Len(v)
      PROVE  v[i].n = IF i = Len(v) /\ open THEN c + n ELSE PacketLen
  <2>1. CASE i = l
    BY <1>4, <1>5, <2>1, Zenon
  <2>2. CASE i # l
    <3>1. w[i].n = PacketLen
      BY <1>5, <2>2 DEF WireWhole
    <3> QED BY <1>5, <2>2, <3>1
  <2> QED BY <2>1, <2>2
<1>9. WireWhole(v, open, c + n)
  BY <1>8, Zenon DEF WireWhole
<1> QED BY <1>3, <1>6, <1>7, <1>9

LEMMA PopQueued ==
  ASSUME NEW out \in Seq(Request), out # <<>>, NEW last \in Nat, NEW next \in Nat,
         Queued(out, last, next)
  PROVE  /\ last < Head(out).id
         /\ Queued(Tail(out), Head(out).id, next)
         /\ Queued(Tail(out), last, next)
<1>1. Len(out) \in Nat /\ Len(out) # 0 /\ Head(out) = out[1]
  BY EmptySeq
<1>2. Len(Tail(out)) = Len(out) - 1 /\ \A i \in 1..Len(Tail(out)) : Tail(out)[i] = out[i + 1]
  BY HeadTailProperties
<1>3. \A i \in 1..Len(out) : out[i].id \in Nat
  BY IdsNat
<1>4. 1 \in 1..Len(out) /\ \A i \in 1..Len(Tail(out)) : i + 1 \in 1..Len(out) /\ 1 < i + 1
  BY <1>1, <1>2
<1> QED BY <1>1, <1>2, <1>3, <1>4 DEF Queued

LEMMA PushQueued ==
  ASSUME NEW out \in Seq(Request), NEW last \in Nat, NEW next \in Nat, NEW m,
         Queued(out, last, next), m.id = next
  PROVE  Queued(Append(out, m), last, next + 1) /\ Queued(out, last, next + 1)
<1>1. Len(out) \in Nat /\ \A i \in 1..Len(out) : out[i].id \in Nat
  BY IdsNat
<1>2. /\ Len(Append(out, m)) = Len(out) + 1 /\ Append(out, m)[Len(out) + 1] = m
      /\ \A i \in 1..Len(out) : Append(out, m)[i] = out[i]
  BY AppendProperties
<1>3. \A i \in 1..Len(Append(out, m)) : i \in 1..Len(out) \/ i = Len(out) + 1
  BY <1>1, <1>2
<1> QED BY <1>1, <1>2, <1>3 DEF Queued

-----------------------------------------------------------------------------
(* What the application has and what waits in inQueue.                      *)

\* Units of connection n in the hands of the application, once it has read s.
UpTo(s, n, got) ==
    IF s # <<>> /\ s[Len(s)].conn = n THEN s[Len(s)].upto ELSE got[n]

\* Messages s follow what the application got, connection by connection up to
\* connection n.
Stream(s, got, n, framed) ==
    /\ \A i, j \in 1..Len(s) : i < j => s[i].conn <= s[j].conn
    /\ \A i \in 1..Len(s) : s[i].conn <= n
    /\ \A k \in 1..MaxConns : k > n => got[k] = 0
    /\ \A i \in 1..Len(s) :
           /\ s[i].from = Before(s, i, got) + 1
           /\ framed => s[i].upto = Before(s, i, got) + MsgLen

LEMMA ReceivedOf ==
  ASSUME NEW s \in Seq(Received), NEW i \in 1..Len(s)
  PROVE  s[i].conn \in 1..MaxConns /\ s[i].upto \in Nat
<1>1. s[i] \in Received
  BY ElementOfSeq, Zenon
<1> QED BY <1>1 DEF Received

\* The next connection has brought nothing yet.
LEMMA NextConnection ==
  ASSUME NEW s \in Seq(Received), NEW got \in [1..MaxConns -> Nat], NEW n \in Nat,
         NEW framed \in BOOLEAN, n + 1 \in 1..MaxConns, Stream(s, got, n, framed)
  PROVE  Stream(s, got, n + 1, framed) /\ UpTo(s, n + 1, got) = 0
<1>1. \A i \in 1..Len(s) : s[i].conn \in Nat /\ s[i].conn <= n
  BY ReceivedOf DEF Stream
<1>2. got[n + 1] = 0
  BY ClientAssumption DEF Stream
<1>3. s # <<>> => s[Len(s)].conn # n + 1
  <2>1. s # <<>> => Len(s) \in 1..Len(s)
    BY EmptySeq
  <2> QED BY <1>1, <2>1
<1>4. \A k \in 1..MaxConns : k > n + 1 => got[k] = 0
  BY ClientAssumption DEF Stream
<1>5. \A i \in 1..Len(s) : s[i].conn <= n + 1
  BY <1>1
<1>6. UpTo(s, n + 1, got) = 0
  BY <1>2, <1>3, Zenon DEF UpTo
<1> QED BY <1>4, <1>5, <1>6, Zenon DEF Stream

\* A message that begins where the last one ended is put behind it.
LEMMA PushedStream ==
  ASSUME NEW s \in Seq(Received), NEW got \in [1..MaxConns -> Nat], NEW n \in 1..MaxConns,
         NEW framed \in BOOLEAN, Stream(s, got, n, framed),
         NEW m \in Received, m.conn = n, m.from = UpTo(s, n, got) + 1,
         framed => m.upto = UpTo(s, n, got) + MsgLen
  PROVE  Stream(Append(s, m), got, n, framed) /\ UpTo(Append(s, m), n, got) = m.upto
<1> DEFINE v == Append(s, m)
           l == Len(s)
<1>1. /\ Len(v) = l + 1 /\ v[l + 1] = m /\ l \in Nat /\ v # <<>>
      /\ \A i \in 1..l : v[i] = s[i]
  BY AppendProperties
<1> HIDE DEF v
<1>2. \A i \in 1..Len(v) : i \in 1..l \/ i = l + 1
  BY <1>1
<1>3. \A i \in 1..l : s[i].conn <= n /\ s[i].conn \in Nat
  BY ReceivedOf DEF Stream
<1>4. n \in Nat
  BY ClientAssumption
<1>5. \A i, j \in 1..Len(v) : i < j => v[i].conn <= v[j].conn
  BY <1>1, <1>2, <1>3, <1>4 DEF Stream
<1>6. \A i \in 1..Len(v) : v[i].conn <= n
  BY <1>1, <1>2, <1>3, <1>4
<1>7. ASSUME NEW i \in 1..l PROVE Before(v, i, got) = Before(s, i, got)
  <2>1. i > 1 => i - 1 \in 1..l
    BY <1>1
  <2> QED BY <1>1, <2>1, Zenon DEF Before
<1>8. Before(v, l + 1, got) = UpTo(s, n, got)
  <2>1. CASE l = 0
    <3>1. s = <<>> /\ ~(l + 1 > 1)
      BY <2>1, EmptySeq
    <3> QED BY <1>1, <3>1, Zenon DEF Before, UpTo
  <2>2. CASE l # 0
    <3>1. s # <<>> /\ l \in 1..l /\ l + 1 > 1 /\ (l + 1) - 1 = l
      BY <1>1, <2>2, EmptySeq
    <3> QED BY <1>1, <3>1, Zenon DEF Before, UpTo
  <2> QED BY <2>1, <2>2
<1>9. ASSUME NEW i \in 1..Len(v)
      PROVE  /\ v[i].from = Before(v, i, got) + 1
             /\ framed => v[i].upto = Before(v, i, got) + MsgLen
  <2>1. CASE i \in 1..l
    BY <1>1, <1>7, <2>1, Zenon DEF Stream
  <2>2. CASE i = l + 1
    BY <1>1, <1>8, <2>2, Zenon
  <2> QED BY <1>2, <2>1, <2>2
<1>10. UpTo(v, n, got) = m.upto
  BY <1>1, Zenon DEF UpTo
<1>11. \A k \in 1..MaxConns : k > n => got[k] = 0
  BY Zenon DEF Stream
<1>12. Stream(v, got, n, framed)
  BY <1>5, <1>6, <1>9, <1>11, Zenon DEF Stream
<1> QED BY <1>10, <1>12 DEF v

\* The application takes the first message.
LEMMA TakenStream ==
  ASSUME NEW s \in Seq(Received), s # <<>>, NEW got \in [1..MaxConns -> Nat],
         NEW n \in 1..MaxConns, NEW framed \in BOOLEAN, Stream(s, got, n, framed)
  PROVE  LET g == [got EXCEPT ![Head(s).conn] = Head(s).upto]
         IN Stream(Tail(s), g, n, framed) /\ UpTo(Tail(s), n, g) = UpTo(s, n, got)
<1> DEFINE v == Tail(s)
           l == Len(s)
           m == Head(s)
           g == [got EXCEPT ![m.conn] = m.upto]
<1>1. l \in Nat /\ l # 0 /\ m = s[1]
  BY EmptySeq
<1>2. Len(v) = l - 1 /\ (\A i \in 1..Len(v) : v[i] = s[i + 1]) /\ v \in Seq(Received)
  BY HeadTailProperties
<1>3. 1 \in 1..l /\ \A i \in 1..Len(v) : i + 1 \in 1..l /\ 1 < i + 1
  BY <1>1, <1>2
<1>4. \A i \in 1..l : s[i].conn <= n /\ s[i].conn \in 1..MaxConns /\ s[i].upto \in Nat
  BY ReceivedOf DEF Stream
<1>5. n \in Nat /\ MaxConns \in Nat
  BY ClientAssumption
<1>6. m.conn \in 1..MaxConns /\ m.upto \in Nat /\ m.conn <= n
  BY <1>1, <1>3, <1>4
<1> HIDE DEF v, m
<1>7. g[m.conn] = m.upto /\ \A k \in 1..MaxConns : k # m.conn => g[k] = got[k]
  BY <1>6
<1> HIDE DEF g
<1>8. \A k \in 1..MaxConns : k > n => g[k] = 0
  BY <1>5, <1>6, <1>7 DEF Stream
<1>9. \A i, j \in 1..Len(v) : i < j => v[i].conn <= v[j].conn
  <2>1. \A i, j \in 1..l : i < j => s[i].conn <= s[j].conn
    BY DEF Stream
  <2>2. ASSUME NEW i \in 1..Len(v), NEW j \in 1..Len(v), i < j
        PROVE  v[i].conn <= v[j].conn
    <3>1. i + 1 \in 1..l /\ j + 1 \in 1..l /\ i + 1 < j + 1
      BY <1>3, <2>2
    <3>2. v[i] = s[i + 1] /\ v[j] = s[j + 1]
      BY <1>2
    <3> QED BY <2>1, <3>1, <3>2, Zenon
  <2> QED BY <2>2
<1>10. \A i \in 1..Len(v) : v[i].conn <= n
  BY <1>2, <1>3, <1>4
<1>11. \A i \in 1..l : i > 1 => m.conn <= s[i].conn
  BY <1>1, <1>3 DEF Stream
<1>12. ASSUME NEW i \in 1..Len(v) PROVE Before(v, i, g) = Before(s, i + 1, got)
  <2>1. i + 1 \in 1..l /\ i + 1 > 1 /\ (i + 1) - 1 = i /\ i \in 1..l /\ v[i] = s[i + 1]
    BY <1>1, <1>2, <1>3
  <2>2. Before(s, i + 1, got)
          = IF s[i].conn = s[i + 1].conn THEN s[i].upto ELSE got[s[i + 1].conn]
    BY <2>1, Zenon DEF Before
  <2>3. CASE i = 1
    <3>1. Before(v, i, g) = g[s[i + 1].conn] /\ s[i] = m
      BY <1>1, <2>1, <2>3, SMT DEF Before
    <3>2. s[i + 1].conn \in 1..MaxConns
      BY <1>4, <2>1
    <3> QED BY <1>7, <2>2, <3>1, <3>2, Zenon
  <2>4. CASE i # 1
    <3>1. i > 1 /\ i - 1 \in 1..Len(v) /\ (i - 1) + 1 = i
      BY <2>4
    <3>2. v[i - 1] = s[i]
      BY <1>2, <3>1
    <3>3. Before(v, i, g)
            = IF s[i].conn = s[i + 1].conn THEN s[i].upto ELSE g[s[i + 1].conn]
      BY <2>1, <3>1, <3>2, Zenon DEF Before
    <3>4. s[i].conn # s[i + 1].conn => s[i + 1].conn # m.conn
      <4>1. m.conn <= s[i].conn /\ s[i].conn <= s[i + 1].conn
        BY <1>11, <2>1, <3>1 DEF Stream
      <4>2. m.conn \in Nat /\ s[i].conn \in Nat /\ s[i + 1].conn \in Nat
        BY <1>4, <1>6, <2>1
      <4> QED BY <4>1, <4>2
    <3>5. s[i + 1].conn \in 1..MaxConns
      BY <1>4, <2>1
    <3>6. s[i].conn # s[i + 1].conn => g[s[i + 1].conn] = got[s[i + 1].conn]
      BY <1>7, <3>4, <3>5, Zenon
    <3> QED BY <2>2, <3>3, <3>6, SMT
  <2> QED BY <2>3, <2>4
<1>13. ASSUME NEW i \in 1..Len(v)
       PROVE  /\ v[i].from = Before(v, i, g) + 1
              /\ framed => v[i].upto = Before(v, i, g) + MsgLen
  BY <1>2, <1>3, <1>12, Zenon DEF Stream
<1>14. Stream(v, g, n, framed)
  BY <1>8, <1>9, <1>10, <1>13, Zenon DEF Stream
<1>15. UpTo(v, n, g) = UpTo(s, n, got)
  <2>1. CASE Len(v) = 0
    <3>1. v = <<>> /\ l = 1
      BY <1>1, <1>2, <2>1, EmptySeq
    <3>2. UpTo(v, n, g) = g[n]
      BY <3>1, Zenon DEF UpTo
    <3>3. UpTo(s, n, got) = IF m.conn = n THEN m.upto ELSE got[n]
      BY <1>1, <3>1, Zenon DEF UpTo
    <3> QED BY <1>7, <3>2, <3>3, Zenon
  <2>2. CASE Len(v) # 0
    <3>1. v # <<>> /\ Len(v) \in 1..Len(v) /\ v[Len(v)] = s[l] /\ l > 1 /\ l \in 1..l
      BY <1>1, <1>2, <2>2, EmptySeq
    <3>2. UpTo(v, n, g) = IF s[l].conn = n THEN s[l].upto ELSE g[n]
      BY <3>1, Zenon DEF UpTo
    <3>3. UpTo(s, n, got) = IF s[l].conn = n THEN s[l].upto ELSE got[n]
      BY Zenon DEF UpTo
    <3>4. s[l].conn # n => n # m.conn
      <4>1. m.conn <= s[l].conn /\ s[l].conn <= n /\ s[l].conn \in Nat /\ m.conn \in Nat
        BY <1>4, <1>6, <1>11, <3>1
      <4> QED BY <1>5, <4>1
    <3>5. s[l].conn # n => g[n] = got[n]
      BY <1>7, <3>4, Zenon
    <3> QED BY <3>2, <3>3, <3>5, SMT
  <2> QED BY <2>1, <2>2
<1> QED BY <1>14, <1>15, Zenon DEF v, g, m

-----------------------------------------------------------------------------
(* The invariant, and the steps that leave the streams alone.               *)

\* Channel r with queues q, application a, socket s and c units counted reads
\* one message after the other.
RecvInv(r, q, a, s, c) ==
    /\ r.pc \notin {"loop", "cleanup"} => r.rcvState = "IO_START"
    /\ r.owner = "alive" =>
           /\ Stream(q.in.items, a.got, s.n, r.kind = "proto")
           /\ r.pc \in {"connected", "loop"} =>
                  s.rxRead = UpTo(q.in.items, s.n, a.got)
                             + (IF r.kind = "proto" /\ r.rcvState = "IO_CONTINUE"
                                THEN c ELSE 0)

StreamInv ==
    /\ IInv
    /\ OneFramed
    /\ \A ch \in Chans :
           /\ SendInv(chan[ch], queues[ch], app[ch], sock[ch], bytesSent[Counter(ch)])
           /\ RecvInv(chan[ch], queues[ch], app[ch], sock[ch], bytesRecvd[Counter(ch)])

\* Two channels never count with the same counter.
LEMMA Apart ==
  ASSUME OneFramed, NEW c \in Chans, NEW d \in Chans, c # d
  PROVE  Counter(c) # Counter(d)
  BY ClientAssumption DEF OneFramed, Counter

LEMMA StreamStep ==
  ASSUME StreamInv, IInv', NEW ch \in Chans,
         NEW r, NEW q, NEW a, NEW s, NEW t, NEW u,
         chan' = [chan EXCEPT ![ch] = r], queues' = [queues EXCEPT ![ch] = q],
         app' = [app EXCEPT ![ch] = a], sock' = [sock EXCEPT ![ch] = s],
         bytesSent' = [bytesSent EXCEPT ![Counter(ch)] = t],
         bytesRecvd' = [bytesRecvd EXCEPT ![Counter(ch)] = u],
         r.kind = chan[ch].kind,
         SendInv(r, q, a, s, t), RecvInv(r, q, a, s, u)
  PROVE  StreamInv'
<1>1. /\ chan \in [Chans -> Channel] /\ queues \in [Chans -> QueuesType]
      /\ app \in [Chans -> AppType] /\ sock \in [Chans -> Socket]
      /\ bytesSent \in [Chans \cup {Statics} -> 0..PacketLen]
      /\ bytesRecvd \in [Chans \cup {Statics} -> Nat]
  BY Zenon DEF StreamInv, IInv, TypeOK, QueuesType, AppType
<1>2. /\ chan'[ch] = r /\ queues'[ch] = q /\ app'[ch] = a /\ sock'[ch] = s
      /\ \A d \in Chans : d # ch => /\ chan'[d] = chan[d] /\ queues'[d] = queues[d]
                                    /\ app'[d] = app[d] /\ sock'[d] = sock[d]
  BY <1>1, SMT
<1>3. /\ bytesSent'[Counter(ch)] = t /\ bytesRecvd'[Counter(ch)] = u
      /\ \A x \in Chans \cup {Statics} : x # Counter(ch) =>
             bytesSent'[x] = bytesSent[x] /\ bytesRecvd'[x] = bytesRecvd[x]
  BY <1>1, CounterType, Zenon
<1>4. \A d \in Chans : chan'[d].kind = chan[d].kind
  BY <1>2, Zenon
<1>5. \A d \in Chans : Framed(d)' = Framed(d) /\ Counter(d)' = Counter(d)
  BY <1>4, Zenon DEF Framed, Counter
<1>6. OneFramed'
  BY <1>5, Zenon DEF StreamInv, OneFramed
<1>7. ASSUME NEW d \in Chans
      PROVE  /\ SendInv(chan[d], queues[d], app[d], sock[d], bytesSent[Counter(d)])'
             /\ RecvInv(chan[d], queues[d], app[d], sock[d], bytesRecvd[Counter(d)])'
  <2>1. Counter(d)' = Counter(d)
    BY <1>5
  <2>2. /\ SendInv(chan'[d], queues'[d], app'[d], sock'[d], bytesSent'[Counter(d)'])
        /\ RecvInv(chan'[d], queues'[d], app'[d], sock'[d], bytesRecvd'[Counter(d)'])
    <3>1. CASE d = ch
      BY <1>2, <1>3, <2>1, <3>1, Zenon
    <3>2. CASE d # ch
      <4>1. Counter(d) # Counter(ch) /\ Counter(d) \in Chans \cup {Statics}
        BY <3>2, Apart, CounterType DEF StreamInv
      <4>2. /\ SendInv(chan[d], queues[d], app[d], sock[d], bytesSent[Counter(d)])
            /\ RecvInv(chan[d], queues[d], app[d], sock[d], bytesRecvd[Counter(d)])
        BY DEF StreamInv
      <4>3. /\ bytesSent'[Counter(d)'] = bytesSent[Counter(d)]
            /\ bytesRecvd'[Counter(d)'] = bytesRecvd[Counter(d)]
        BY <1>3, <2>1, <4>1, Zenon
      <4> QED BY <1>2, <3>2, <4>2, <4>3, Zenon
    <3> QED BY <3>1, <3>2
  <2>3. SendInv(chan[d], queues[d], app[d], sock[d], bytesSent[Counter(d)])'
    BY <2>2, Zenon DEF SendInv, WireWhole, Queued, LastId
  <2>4. RecvInv(chan[d], queues[d], app[d], sock[d], bytesRecvd[Counter(d)])'
    BY <2>2, Zenon DEF RecvInv, Stream, UpTo, Before
  <2> QED BY <2>3, <2>4
<1> QED BY <1>6, <1>7, Zenon DEF StreamInv

\* What is known of the channel that moves, and of what it leaves alone.
LEMMA StreamsHere ==
  ASSUME StreamInv, NEW ch \in Chans
  PROVE  /\ chan[ch] \in Channel /\ queues[ch] \in QueuesType
         /\ app[ch] \in AppType /\ sock[ch] \in Socket
         /\ SendInv(chan[ch], queues[ch], app[ch], sock[ch], bytesSent[Counter(ch)])
         /\ RecvInv(chan[ch], queues[ch], app[ch], sock[ch], bytesRecvd[Counter(ch)])
         /\ chan = [chan EXCEPT ![ch] = chan[ch]]
         /\ queues = [queues EXCEPT ![ch] = queues[ch]]
         /\ app = [app EXCEPT ![ch] = app[ch]]
         /\ sock = [sock EXCEPT ![ch] = sock[ch]]
         /\ bytesSent = [bytesSent EXCEPT ![Counter(ch)] = bytesSent[Counter(ch)]]
         /\ bytesRecvd = [bytesRecvd EXCEPT ![Counter(ch)] = bytesRecvd[Counter(ch)]]
         /\ bytesSent[Counter(ch)] \in 0..PacketLen /\ bytesRecvd[Counter(ch)] \in Nat
<1>1. IInv /\ TypeOK
  BY DEF StreamInv, IInv
<1>2. /\ bytesSent \in [Chans \cup {Statics} -> 0..PacketLen]
      /\ bytesRecvd \in [Chans \cup {Statics} -> Nat]
  BY <1>1, Zenon DEF TypeOK
<1>3. Counter(ch) \in Chans \cup {Statics}
  BY CounterType
<1>4. /\ bytesSent = [bytesSent EXCEPT ![Counter(ch)] = bytesSent[Counter(ch)]]
      /\ bytesRecvd = [bytesRecvd EXCEPT ![Counter(ch)] = bytesRecvd[Counter(ch)]]
      /\ bytesSent[Counter(ch)] \in 0..PacketLen /\ bytesRecvd[Counter(ch)] \in Nat
  BY <1>2, <1>3, SMT
<1>5. /\ SendInv(chan[ch], queues[ch], app[ch], sock[ch], bytesSent[Counter(ch)])
      /\ RecvInv(chan[ch], queues[ch], app[ch], sock[ch], bytesRecvd[Counter(ch)])
  BY DEF StreamInv
<1> QED BY <1>1, <1>4, <1>5, LocalType, Zenon

\* Sending is not touched.
LEMMA SendKept ==
  ASSUME NEW r, NEW q, NEW a, NEW s, NEW c, SendInv(r, q, a, s, c),
         NEW r1, NEW q1, NEW a1, NEW s1,
         r1.outQueueWatched => r.outQueueWatched,
         r1.epollOut = r.epollOut, r1.packToSend = r.packToSend,
         r1.pc \notin {"loop", "cleanup"} => r.pc \notin {"loop", "cleanup"},
         q1.out.items = q.out.items, a1.nextId = a.nextId, s1.wire = s.wire
  PROVE  SendInv(r1, q1, a1, s1, c)
<1>1. /\ WireWhole(s1.wire, r1.epollOut, c)
      /\ Queued(q1.out.items, LastId(s1.wire), a1.nextId)
  BY Zenon DEF SendInv
<1> QED BY <1>1, Zenon DEF SendInv

\* Receiving is not touched.
LEMMA RecvKept ==
  ASSUME NEW r, NEW q, NEW a, NEW s, NEW c, RecvInv(r, q, a, s, c),
         NEW r1, NEW q1, NEW a1, NEW s1,
         r1.kind = r.kind, r1.rcvState = r.rcvState,
         r1.pc \notin {"loop", "cleanup"} => r.pc \notin {"loop", "cleanup"},
         r1.pc \in {"connected", "loop"} => r.pc \in {"connected", "loop"},
         r1.owner = "alive" => r.owner = "alive" /\ q1.in.items = q.in.items,
         a1.got = a.got, s1.n = s.n, s1.rxRead = s.rxRead
  PROVE  RecvInv(r1, q1, a1, s1, c)
<1>1. r1.pc \notin {"loop", "cleanup"} => r1.rcvState = "IO_START"
  BY Zenon DEF RecvInv
<1>2. ASSUME r1.owner = "alive"
      PROVE  /\ Stream(q1.in.items, a1.got, s1.n, r1.kind = "proto")
             /\ r1.pc \in {"connected", "loop"} =>
                  s1.rxRead = UpTo(q1.in.items, s1.n, a1.got)
                             + (IF r1.kind = "proto" /\ r1.rcvState = "IO_CONTINUE"
                                THEN c ELSE 0)
  BY <1>2, Zenon DEF RecvInv
<1> QED BY <1>1, <1>2, Zenon DEF RecvInv

\* r does with the streams what channel ch does.
Same(r, ch) ==
    /\ r.outQueueWatched => chan[ch].outQueueWatched
    /\ r.kind = chan[ch].kind /\ r.rcvState = chan[ch].rcvState
    /\ r.epollOut = chan[ch].epollOut /\ r.packToSend = chan[ch].packToSend
    /\ r.pc \notin {"loop", "cleanup"} => chan[ch].pc \notin {"loop", "cleanup"}
    /\ r.pc \in {"connected", "loop"} => chan[ch].pc \in {"connected", "loop"}
    /\ r.owner = "alive" => chan[ch].owner = "alive"

\* The step touches neither.
LEMMA QuietStep ==
  ASSUME StreamInv, IInv', NEW ch \in Chans, UNCHANGED <<bytesSent, bytesRecvd>>,
         NEW r, NEW q, NEW a, NEW s,
         chan' = [chan EXCEPT ![ch] = r], queues' = [queues EXCEPT ![ch] = q],
         app' = [app EXCEPT ![ch] = a], sock' = [sock EXCEPT ![ch] = s],
         Same(r, ch), q.out.items = queues[ch].out.items,
         r.owner = "alive" => q.in.items = queues[ch].in.items,
         a.nextId = app[ch].nextId, a.got = app[ch].got,
         s.wire = sock[ch].wire, s.n = sock[ch].n, s.rxRead = sock[ch].rxRead
  PROVE  StreamInv'
<1> DEFINE t == bytesSent[Counter(ch)]
           u == bytesRecvd[Counter(ch)]
<1>1. SendInv(chan[ch], queues[ch], app[ch], sock[ch], t)
      /\ RecvInv(chan[ch], queues[ch], app[ch], sock[ch], u)
  BY StreamsHere
<1>2. /\ bytesSent' = [bytesSent EXCEPT ![Counter(ch)] = t]
      /\ bytesRecvd' = [bytesRecvd EXCEPT ![Counter(ch)] = u]
  BY StreamsHere, Zenon
<1> HIDE DEF t, u
<1>3. SendInv(r, q, a, s, t)
  BY <1>1, SendKept, ZenonT(60) DEF Same
<1>4. RecvInv(r, q, a, s, u)
  BY <1>1, RecvKept, ZenonT(60) DEF Same
<1>5. r.kind = chan[ch].kind
  BY DEF Same
<1> QED BY <1>2, <1>3, <1>4, <1>5, StreamStep, Zenon

LEMMA QuietThread ==
  ASSUME StreamInv, IInv', NEW ch \in Chans,
         NEW r, chan' = [chan EXCEPT ![ch] = r], Same(r, ch),
         UNCHANGED <<bytesSent, bytesRecvd, app, sock>>,
         NEW q, queues' = [queues EXCEPT ![ch] = q], q.out.items = queues[ch].out.items,
         r.owner = "alive" => q.in.items = queues[ch].in.items
  PROVE  StreamInv'
<1> DEFINE a == app[ch]
           s == sock[ch]
<1>1. app' = [app EXCEPT ![ch] = a] /\ sock' = [sock EXCEPT ![ch] = s]
  BY StreamsHere, Zenon
<1>2. /\ a.nextId = app[ch].nextId /\ a.got = app[ch].got
      /\ s.wire = sock[ch].wire /\ s.n = sock[ch].n /\ s.rxRead = sock[ch].rxRead
  OBVIOUS
<1> HIDE DEF a, s
<1>3. UNCHANGED <<bytesSent, bytesRecvd>>
  OBVIOUS
<1> QED BY <1>1, <1>2, <1>3, QuietStep, Zenon

LEMMA QuietChan ==
  ASSUME StreamInv, IInv', NEW ch \in Chans,
         NEW r, chan' = [chan EXCEPT ![ch] = r], Same(r, ch),
         UNCHANGED <<bytesSent, bytesRecvd, queues, app, sock>>
  PROVE  StreamInv'
<1>1. queues' = [queues EXCEPT ![ch] = queues[ch]]
  BY StreamsHere, Zenon
<1> QED BY <1>1, QuietThread, Zenon

LEMMA QuietThreadSteps ==
  ASSUME StreamInv, IInv', NEW ch \in Chans,
         StartConnect(ch) \/ ConnectFails(ch) \/ ThreadExit(ch)
  PROVE  StreamInv'
<1> PICK to \in {"top", "connecting", "exited"} :
        /\ chan' = [chan EXCEPT ![ch].pc = to]
        /\ chan[ch].pc \in {"top", "connecting"}
        /\ UNCHANGED <<bytesSent, bytesRecvd, queues, app, sock>>
  BY Zenon DEF StartConnect, ConnectFails, ThreadExit, Goto
<1> DEFINE r == [chan[ch] EXCEPT !.pc = to]
<1>1. chan' = [chan EXCEPT ![ch] = r]
  BY Zenon
<1>2. /\ r.outQueueWatched = chan[ch].outQueueWatched
      /\ r.kind = chan[ch].kind /\ r.rcvState = chan[ch].rcvState
      /\ r.epollOut = chan[ch].epollOut /\ r.packToSend = chan[ch].packToSend
      /\ r.owner = chan[ch].owner /\ r.pc = to
  BY StreamsHere, Zenon DEF Channel
<1>3. chan[ch].pc \notin {"loop", "cleanup"} /\ to \notin {"connected", "loop"}
  OBVIOUS
<1> HIDE DEF r
<1>4. Same(r, ch)
  BY <1>2, <1>3, Zenon DEF Same
<1> QED BY <1>1, <1>4, QuietChan

LEMMA DestructorStreams ==
  ASSUME StreamInv, IInv', NEW ch \in Chans,
         DestroyBegins(ch) \/ ClearAndClose(ch) \/ LastFlags(ch) \/ Join(ch)
  PROVE  StreamInv'
<1>1. UNCHANGED <<bytesSent, bytesRecvd, queues, app, sock>>
  BY Zenon DEF DestroyBegins, ClearAndClose, LastFlags, Join
<1>2. CASE DestroyBegins(ch)
  <2> DEFINE r == [chan[ch] EXCEPT !.owner = "exit", !.exit = TRUE]
  <2>1. chan' = [chan EXCEPT ![ch] = r]
    BY <1>2, Zenon DEF DestroyBegins
  <2>2. Same(r, ch)
    BY StreamsHere, Zenon DEF Channel, Same
  <2> QED BY <1>1, <2>1, <2>2, QuietChan
<1>3. CASE ClearAndClose(ch)
  <2> DEFINE r == [chan[ch] EXCEPT !.owner = "busy", !.busy = FALSE]
  <2>1. chan' = [chan EXCEPT ![ch] = r]
    BY <1>3, Zenon DEF ClearAndClose
  <2>2. Same(r, ch)
    BY StreamsHere, Zenon DEF Channel, Same
  <2> QED BY <1>1, <2>1, <2>2, QuietChan
<1>4. CASE LastFlags(ch)
  <2> DEFINE r == [chan[ch] EXCEPT !.owner = "join", !.busy = FALSE, !.exit = TRUE]
  <2>1. chan' = [chan EXCEPT ![ch] = r]
    BY <1>4, Zenon DEF LastFlags
  <2>2. Same(r, ch)
    BY StreamsHere, Zenon DEF Channel, Same
  <2> QED BY <1>1, <2>1, <2>2, QuietChan
<1>5. CASE Join(ch)
  <2> DEFINE r == [chan[ch] EXCEPT !.owner = "joined"]
  <2>1. chan' = [chan EXCEPT ![ch] = r]
    BY <1>5, Zenon DEF Join
  <2>2. Same(r, ch)
    BY StreamsHere, Zenon DEF Channel, Same
  <2> QED BY <1>1, <2>1, <2>2, QuietChan
<1> QED BY <1>2, <1>3, <1>4, <1>5

LEMMA StopWaitingStreams ==
  ASSUME StreamInv, IInv', NEW ch \in Chans, StopWaiting(ch)
  PROVE  StreamInv'
<1> DEFINE r == [chan[ch] EXCEPT !.owner = "closing", !.outQueueWatched = FALSE,
                                 !.epollOpen = FALSE]
           q == [queues[ch] EXCEPT !.in = StopAndClear(@), !.inCmd = StopAndClear(@)]
<1>1. /\ chan' = [chan EXCEPT ![ch] = r] /\ queues' = [queues EXCEPT ![ch] = q]
      /\ UNCHANGED <<bytesSent, bytesRecvd, app, sock>>
  BY Zenon DEF StopWaiting, CloseEpoll
<1>2. Same(r, ch) /\ r.owner # "alive"
  BY StreamsHere, Zenon DEF Channel, Same
<1>3. q.out.items = queues[ch].out.items
  BY StreamsHere, Zenon DEF QueuesType
<1> HIDE DEF r, q
<1> QED BY <1>1, <1>2, <1>3, QuietThread, Zenon

LEMMA TakeCommandStreams ==
  ASSUME StreamInv, IInv', NEW ch \in Chans, TakeCommand(ch)
  PROVE  StreamInv'
<1> DEFINE busy == Head(queues[ch].outCmd.items).type # "CLOSE"
           r == [chan[ch] EXCEPT !.busy = busy]
           q == [queues[ch] EXCEPT !.outCmd = Pop(@)]
<1>1. /\ chan' = [chan EXCEPT ![ch] = r] /\ queues' = [queues EXCEPT ![ch] = q]
      /\ UNCHANGED <<bytesSent, bytesRecvd, app, sock>>
  BY Zenon DEF TakeCommand
<1> HIDE DEF busy
<1>2. Same(r, ch)
  BY StreamsHere, Zenon DEF Channel, Same
<1>3. q.out.items = queues[ch].out.items /\ q.in.items = queues[ch].in.items
  BY StreamsHere, Zenon DEF QueuesType
<1> HIDE DEF r, q
<1> QED BY <1>1, <1>2, <1>3, QuietThread, Zenon

LEMMA LeaveLoopStreams ==
  ASSUME StreamInv, IInv', NEW ch \in Chans, LeaveLoop(ch)
  PROVE  StreamInv'
<1> DEFINE r == [chan[ch] EXCEPT !.pc = "cleanup"]
           m == [type |-> "CLOSE", conn |-> sock[ch].n]
           q == [queues[ch] EXCEPT !.inCmd = Push(@, m, FALSE)]
<1>1. /\ chan' = [chan EXCEPT ![ch] = r] /\ queues' = [queues EXCEPT ![ch] = q]
      /\ UNCHANGED <<bytesSent, bytesRecvd, app, sock>> /\ chan[ch].pc = "loop"
  BY Zenon DEF LeaveLoop
<1> HIDE DEF m
<1>2. /\ r.outQueueWatched = chan[ch].outQueueWatched
      /\ r.kind = chan[ch].kind /\ r.rcvState = chan[ch].rcvState
      /\ r.epollOut = chan[ch].epollOut /\ r.packToSend = chan[ch].packToSend
      /\ r.owner = chan[ch].owner /\ r.pc = "cleanup"
  BY StreamsHere, Zenon DEF Channel
<1>3. q.out.items = queues[ch].out.items /\ q.in.items = queues[ch].in.items
  BY StreamsHere, Zenon DEF QueuesType
<1> HIDE DEF r, q
<1>4. Same(r, ch)
  BY <1>1, <1>2, Zenon DEF Same
<1> QED BY <1>1, <1>3, <1>4, QuietThread, Zenon

LEMMA NetworkStreams ==
  ASSUME StreamInv, IInv', NEW ch \in Chans, Network(ch)
  PROVE  StreamInv'
<1>1. UNCHANGED <<chan, bytesSent, bytesRecvd, queues, app>>
  BY Zenon DEF Network, RemoteSend, RemoteDrain, RemoteClose, NetStep
<1>2. PICK s : /\ sock' = [sock EXCEPT ![ch] = s]
               /\ s.wire = sock[ch].wire /\ s.n = sock[ch].n /\ s.rxRead = sock[ch].rxRead
  <2>1. CASE RemoteSend(ch)
    <3> DEFINE s == [sock[ch] EXCEPT !.rxSent = @ + 1]
    <3>1. sock' = [sock EXCEPT ![ch] = s]
      BY <2>1, Zenon DEF RemoteSend
    <3>2. s.wire = sock[ch].wire /\ s.n = sock[ch].n /\ s.rxRead = sock[ch].rxRead
      BY StreamsHere, Zenon DEF Socket
    <3> HIDE DEF s
    <3> QED BY <3>1, <3>2, Zenon
  <2>2. CASE RemoteDrain(ch)
    <3> DEFINE s == [sock[ch] EXCEPT !.room = @ + 1]
    <3>1. sock' = [sock EXCEPT ![ch] = s]
      BY <2>2, Zenon DEF RemoteDrain
    <3>2. s.wire = sock[ch].wire /\ s.n = sock[ch].n /\ s.rxRead = sock[ch].rxRead
      BY StreamsHere, Zenon DEF Socket
    <3> HIDE DEF s
    <3> QED BY <3>1, <3>2, Zenon
  <2>3. CASE RemoteClose(ch)
    <3> DEFINE s == [sock[ch] EXCEPT !.remote = "gone"]
    <3>1. sock' = [sock EXCEPT ![ch] = s]
      BY <2>3, Zenon DEF RemoteClose
    <3>2. s.wire = sock[ch].wire /\ s.n = sock[ch].n /\ s.rxRead = sock[ch].rxRead
      BY StreamsHere, Zenon DEF Socket
    <3> HIDE DEF s
    <3> QED BY <3>1, <3>2, Zenon
  <2> QED BY <2>1, <2>2, <2>3 DEF Network
<1> DEFINE r == chan[ch]
           q == queues[ch]
           a == app[ch]
<1>3. /\ chan' = [chan EXCEPT ![ch] = r] /\ queues' = [queues EXCEPT ![ch] = q]
      /\ app' = [app EXCEPT ![ch] = a]
  BY <1>1, StreamsHere, Zenon
<1>4. UNCHANGED <<bytesSent, bytesRecvd>>
  BY <1>1
<1>5. Same(r, ch)
  BY DEF Same
<1> QED BY <1>2, <1>3, <1>4, <1>5, QuietStep

-----------------------------------------------------------------------------
(* Connections begin and end.                                               *)

LEMMA ItemsHere ==
  ASSUME StreamInv, NEW ch \in Chans
  PROVE  /\ sock[ch].wire \in Seq(Parts) /\ sock[ch].n \in 0..MaxConns
         /\ sock[ch].room \in 0..SndBuf /\ sock[ch].rxRead \in Nat
         /\ queues[ch].out.items \in Seq(Request) /\ queues[ch].in.items \in Seq(Received)
         /\ app[ch].got \in [1..MaxConns -> Nat] /\ app[ch].nextId \in 1..(MaxRequests + 1)
         /\ chan[ch].epollOut \in BOOLEAN
<1>1. /\ sock[ch].wire \in Seq(Parts) /\ sock[ch].n \in 0..MaxConns
      /\ sock[ch].room \in 0..SndBuf /\ sock[ch].rxRead \in Nat
  BY StreamsHere, Zenon DEF Socket, Parts
<1>2. queues[ch].out \in QueueOf(Request) /\ queues[ch].in \in QueueOf(Received)
  BY StreamsHere, Zenon DEF QueuesType
<1>3. queues[ch].out.items \in Seq(Request) /\ queues[ch].in.items \in Seq(Received)
  BY <1>2, Zenon DEF QueueOf
<1>4. app[ch].got \in [1..MaxConns -> Nat] /\ app[ch].nextId \in 1..(MaxRequests + 1)
  BY StreamsHere, Zenon DEF AppType
<1>5. chan[ch].epollOut \in BOOLEAN
  BY StreamsHere, Zenon DEF Channel
<1> QED BY <1>1, <1>3, <1>4, <1>5

LEMMA ConnectedStreams ==
  ASSUME StreamInv, IInv', NEW ch \in Chans, Connected(ch)
  PROVE  StreamInv'
<1> DEFINE r == [chan[ch] EXCEPT !.pc = "connected", !.busy = TRUE]
           q == queues[ch]
           a == app[ch]
           s == NewSocket(sock[ch].n + 1)
           t == bytesSent[Counter(ch)]
           u == bytesRecvd[Counter(ch)]
<1>1. /\ chan' = [chan EXCEPT ![ch] = r] /\ sock' = [sock EXCEPT ![ch] = s]
      /\ UNCHANGED <<bytesSent, bytesRecvd, queues, app>>
      /\ chan[ch].pc = "connecting" /\ sock[ch].n < MaxConns
  BY Zenon DEF Connected
<1>2. /\ queues' = [queues EXCEPT ![ch] = q] /\ app' = [app EXCEPT ![ch] = a]
      /\ bytesSent' = [bytesSent EXCEPT ![Counter(ch)] = t]
      /\ bytesRecvd' = [bytesRecvd EXCEPT ![Counter(ch)] = u]
  BY <1>1, StreamsHere, Zenon
<1>3. /\ r.outQueueWatched = chan[ch].outQueueWatched
      /\ r.kind = chan[ch].kind /\ r.rcvState = chan[ch].rcvState
      /\ r.epollOut = chan[ch].epollOut /\ r.packToSend = chan[ch].packToSend
      /\ r.owner = chan[ch].owner /\ r.pc = "connected"
  BY StreamsHere, Zenon DEF Channel
<1>4. s.wire = <<>> /\ s.rxRead = 0 /\ s.n = sock[ch].n + 1
  BY DEF NewSocket
<1>5. sock[ch].n + 1 \in 1..MaxConns /\ sock[ch].n \in Nat
  BY <1>1, ItemsHere, ClientAssumption
<1>6. /\ SendInv(chan[ch], queues[ch], app[ch], sock[ch], t)
      /\ RecvInv(chan[ch], queues[ch], app[ch], sock[ch], u)
  BY StreamsHere
<1> HIDE DEF r, s, t, u
<1>7. SendInv(r, q, a, s, t)
  <2>1. sock[ch].wire = <<>>
    BY <1>1, <1>6, Zenon DEF SendInv
  <2> QED BY <1>1, <1>3, <1>4, <1>6, <2>1, SendKept
<1>8. RecvInv(r, q, a, s, u)
  <2>1. r.rcvState = "IO_START"
    BY <1>1, <1>3, <1>6 DEF RecvInv
  <2>2. ASSUME r.owner = "alive"
        PROVE  /\ Stream(q.in.items, a.got, s.n, r.kind = "proto")
               /\ UpTo(q.in.items, s.n, a.got) = 0
    <3>1. Stream(queues[ch].in.items, app[ch].got, sock[ch].n, chan[ch].kind = "proto")
      BY <1>3, <1>6, <2>2, Zenon DEF RecvInv
    <3>2. Stream(queues[ch].in.items, app[ch].got, sock[ch].n + 1, chan[ch].kind = "proto")
          /\ UpTo(queues[ch].in.items, sock[ch].n + 1, app[ch].got) = 0
      <4>1. (chan[ch].kind = "proto") \in BOOLEAN
        OBVIOUS
      <4> QED BY <1>5, <3>1, <4>1, ItemsHere, NextConnection, Zenon
    <3> QED BY <1>3, <1>4, <3>2, Zenon
  <2>3. r.owner = "alive" =>
           s.rxRead = UpTo(q.in.items, s.n, a.got)
                      + (IF r.kind = "proto" /\ r.rcvState = "IO_CONTINUE" THEN u ELSE 0)
    BY <1>4, <2>1, <2>2
  <2> QED BY <2>1, <2>2, <2>3, Zenon DEF RecvInv
<1> HIDE DEF q, a
<1> QED BY <1>1, <1>2, <1>3, <1>7, <1>8, StreamStep, Zenon

LEMMA EnterLoopStreams ==
  ASSUME StreamInv, IInv', NEW ch \in Chans, EnterLoop(ch)
  PROVE  StreamInv'
<1> DEFINE r == [chan[ch] EXCEPT !.pc = "loop", !.outQueueWatched = TRUE,
                                 !.epollOut = FALSE, !.packToSend = None,
                                 !.rcvState = "IO_START"]
           m == [type |-> "OPEN", conn |-> sock[ch].n]
           q == [queues[ch] EXCEPT !.inCmd = Push(@, m, TRUE)]
           a == app[ch]
           s == sock[ch]
           t == bytesSent[Counter(ch)]
           u == bytesRecvd[Counter(ch)]
<1>1. /\ chan' = [chan EXCEPT ![ch] = r] /\ queues' = [queues EXCEPT ![ch] = q]
      /\ UNCHANGED <<bytesSent, bytesRecvd, app, sock>> /\ chan[ch].pc = "connected"
  BY Zenon DEF EnterLoop, OpenMessage
<1>2. /\ app' = [app EXCEPT ![ch] = a] /\ sock' = [sock EXCEPT ![ch] = s]
      /\ bytesSent' = [bytesSent EXCEPT ![Counter(ch)] = t]
      /\ bytesRecvd' = [bytesRecvd EXCEPT ![Counter(ch)] = u]
  BY <1>1, StreamsHere, Zenon
<1>3. /\ r.kind = chan[ch].kind /\ r.rcvState = "IO_START"
      /\ r.epollOut = FALSE /\ r.owner = chan[ch].owner /\ r.pc = "loop"
  BY StreamsHere, Zenon DEF Channel
<1>4. q.out.items = queues[ch].out.items /\ q.in.items = queues[ch].in.items
  <2> HIDE DEF m
  <2> QED BY StreamsHere, Zenon DEF QueuesType
<1>5. /\ SendInv(chan[ch], queues[ch], a, s, t)
      /\ RecvInv(chan[ch], queues[ch], a, s, u)
  BY StreamsHere
<1>6. chan[ch].epollOut = FALSE /\ s.wire = <<>> /\ chan[ch].rcvState = "IO_START"
  BY <1>1, <1>5, ItemsHere DEF SendInv, RecvInv
<1> HIDE DEF r, q, a, s, t, u
<1>7. SendInv(r, q, a, s, t)
  <2>1. WireWhole(s.wire, r.epollOut, t) /\ Queued(q.out.items, LastId(s.wire), a.nextId)
    BY <1>3, <1>4, <1>5, <1>6, Zenon DEF SendInv
  <2> QED BY <1>3, <2>1, Zenon DEF SendInv
<1>8. RecvInv(r, q, a, s, u)
  BY <1>1, <1>3, <1>4, <1>5, <1>6, RecvKept
<1> QED BY <1>1, <1>2, <1>3, <1>7, <1>8, StreamStep, Zenon

LEMMA CleanupStreams ==
  ASSUME StreamInv, IInv', NEW ch \in Chans, Cleanup(ch)
  PROVE  StreamInv'
<1> DEFINE r == [chan[ch] EXCEPT !.pc = "top", !.busy = FALSE,
                            !.outQueueWatched = FALSE, !.epollOut = FALSE,
                            !.packToSend = None, !.rcvState = "IO_START"]
           q == [queues[ch] EXCEPT !.out = StopAndClear(@), !.outCmd = StopAndClear(@)]
           s == NewSocket(sock[ch].n)
           a == app[ch]
           t == bytesSent[Counter(ch)]
           u == bytesRecvd[Counter(ch)]
<1>1. /\ chan' = [chan EXCEPT ![ch] = r] /\ queues' = [queues EXCEPT ![ch] = q]
      /\ sock' = [sock EXCEPT ![ch] = s]
      /\ UNCHANGED <<bytesSent, bytesRecvd, app>>
  BY Zenon DEF Cleanup
<1>2. /\ app' = [app EXCEPT ![ch] = a]
      /\ bytesSent' = [bytesSent EXCEPT ![Counter(ch)] = t]
      /\ bytesRecvd' = [bytesRecvd EXCEPT ![Counter(ch)] = u]
  BY <1>1, StreamsHere, Zenon
<1>3. /\ r.kind = chan[ch].kind /\ r.rcvState = "IO_START" /\ r.outQueueWatched = FALSE
      /\ r.epollOut = FALSE /\ r.owner = chan[ch].owner /\ r.pc = "top"
  BY StreamsHere, Zenon DEF Channel
<1>4. q.out.items = <<>> /\ q.in.items = queues[ch].in.items
  BY StreamsHere, Zenon DEF QueuesType, StopAndClear
<1>5. s.wire = <<>> /\ s.n = sock[ch].n
  BY DEF NewSocket
<1>6. RecvInv(chan[ch], queues[ch], app[ch], sock[ch], u)
  BY StreamsHere
<1> HIDE DEF r, q, s, t, u
<1>7. SendInv(r, q, a, s, t)
  <2>1. WireWhole(<<>>, FALSE, t)
    BY DEF WireWhole
  <2>2. LastId(<<>>) = 0
    BY DEF LastId
  <2>3. Queued(<<>>, 0, a.nextId)
    BY ItemsHere, ClientAssumption DEF Queued
  <2> QED BY <1>3, <1>4, <1>5, <2>1, <2>2, <2>3, Zenon DEF SendInv
<1>8. RecvInv(r, q, a, s, u)
  BY <1>3, <1>4, <1>5, <1>6, Zenon DEF RecvInv
<1> HIDE DEF a
<1> QED BY <1>1, <1>2, <1>3, <1>7, <1>8, StreamStep, Zenon

-----------------------------------------------------------------------------
(* Packets are sent.                                                        *)

LEMMA SendStartStreams ==
  ASSUME StreamInv, IInv', NEW ch \in Chans, SendStart(ch)
  PROVE  StreamInv'
<1> DEFINE p == Head(queues[ch].out.items)
           n == Lesser(sock[ch].room, PacketLen)
           some == n < PacketLen
           all == n = PacketLen
           r == [chan[ch] EXCEPT !.packToSend = p, !.epollOut = some, !.outQueueWatched = all]
           q == [queues[ch] EXCEPT !.out = Pop(@)]
           w == Sent(sock[ch].wire, p, n)
           s == [sock[ch] EXCEPT !.room = @ - n, !.wire = w]
           a == app[ch]
           t == bytesSent[Counter(ch)]
           u == bytesRecvd[Counter(ch)]
<1>1. /\ chan' = [chan EXCEPT ![ch] = r] /\ sock' = [sock EXCEPT ![ch] = s]
      /\ bytesSent' = [bytesSent EXCEPT ![Counter(ch)] = n]
      /\ OutQueueEvent(ch) /\ UNCHANGED <<bytesRecvd, app>>
  BY Zenon DEF SendStart, Started, PutOnWire
<1>2. /\ p \in Request /\ queues' = [queues EXCEPT ![ch] = q]
  BY <1>1, TakenPacket DEF StreamInv
<1>3. /\ app' = [app EXCEPT ![ch] = a]
      /\ bytesRecvd' = [bytesRecvd EXCEPT ![Counter(ch)] = u]
  BY <1>1, StreamsHere, Zenon
<1>4. /\ chan[ch].outQueueWatched /\ queues[ch].out.items # <<>> /\ chan[ch].pc = "loop"
  BY <1>1, Zenon DEF OutQueueEvent, Polling, QueueReadable
<1>5. n \in 0..PacketLen /\ (some => ~all) /\ (some \in BOOLEAN) /\ (all \in BOOLEAN)
  <2>1. sock[ch].room \in 0..SndBuf /\ PacketLen \in Nat \ {0} /\ SndBuf \in Nat
    BY ItemsHere, ClientAssumption
  <2> QED BY <2>1, SMT DEF Lesser
<1>6. /\ SendInv(chan[ch], queues[ch], a, sock[ch], t)
      /\ RecvInv(chan[ch], queues[ch], a, sock[ch], u)
  BY StreamsHere
<1>7. /\ WireWhole(sock[ch].wire, FALSE, t)
      /\ Queued(queues[ch].out.items, LastId(sock[ch].wire), a.nextId)
  <2>1. chan[ch].epollOut = FALSE
    BY <1>4, <1>6, ItemsHere DEF SendInv
  <2> QED BY <1>6, <2>1, Zenon DEF SendInv
<1>8. /\ LastId(sock[ch].wire) < p.id
      /\ Queued(Tail(queues[ch].out.items), p.id, a.nextId)
  <2>1. a.nextId \in Nat /\ LastId(sock[ch].wire) \in Nat
    BY ItemsHere, LastIdNat, ClientAssumption
  <2> QED BY <1>4, <1>7, <2>1, ItemsHere, PopQueued, Zenon
<1>9. w # <<>> /\ LastId(w) = p.id /\ WireWhole(w, some, n)
  <2> HIDE DEF p, n
  <2> QED BY <1>2, <1>5, <1>7, <1>8, ItemsHere, StartedWhole, Zenon DEF some
<1> HIDE DEF p, n, w, some, all
<1>10. /\ r.kind = chan[ch].kind /\ r.rcvState = chan[ch].rcvState
       /\ r.packToSend = p /\ r.pc = chan[ch].pc /\ r.owner = chan[ch].owner
       /\ r.epollOut = some /\ r.outQueueWatched = all
  BY <1>5, StreamsHere, Zenon DEF Channel
<1>11. /\ q.out.items = Tail(queues[ch].out.items) /\ q.in.items = queues[ch].in.items
  BY StreamsHere, Zenon DEF QueuesType, Pop
<1>12. s.wire = w /\ s.n = sock[ch].n /\ s.rxRead = sock[ch].rxRead
  BY StreamsHere, Zenon DEF Socket
<1> HIDE DEF r, q, s, a, t, u
<1>13. SendInv(r, q, a, s, n)
  BY <1>4, <1>5, <1>8, <1>9, <1>10, <1>11, <1>12, Zenon DEF SendInv
<1>14. RecvInv(r, q, a, s, u)
  BY <1>6, <1>10, <1>11, <1>12, RecvKept, ZenonT(60)
<1> QED BY <1>1, <1>2, <1>3, <1>10, <1>13, <1>14, StreamStep, Zenon

LEMMA UnknownTypeStreams ==
  ASSUME StreamInv, IInv', NEW ch \in Chans, UnknownPacketType(ch)
  PROVE  StreamInv'
<1> DEFINE p == Head(queues[ch].out.items)
           r == [chan[ch] EXCEPT !.packToSend = p]
           q == [queues[ch] EXCEPT !.out = Pop(@)]
           s == sock[ch]
           a == app[ch]
           t == bytesSent[Counter(ch)]
           u == bytesRecvd[Counter(ch)]
<1>1. /\ chan' = [chan EXCEPT ![ch] = r] /\ OutQueueEvent(ch)
      /\ UNCHANGED <<bytesSent, bytesRecvd, app, sock>>
  BY Zenon DEF UnknownPacketType
<1>2. queues' = [queues EXCEPT ![ch] = q]
  BY <1>1, TakenPacket DEF StreamInv
<1>3. /\ app' = [app EXCEPT ![ch] = a] /\ sock' = [sock EXCEPT ![ch] = s]
      /\ bytesSent' = [bytesSent EXCEPT ![Counter(ch)] = t]
      /\ bytesRecvd' = [bytesRecvd EXCEPT ![Counter(ch)] = u]
  BY <1>1, StreamsHere, Zenon
<1>4. /\ chan[ch].outQueueWatched /\ queues[ch].out.items # <<>> /\ chan[ch].pc = "loop"
  BY <1>1, Zenon DEF OutQueueEvent, Polling, QueueReadable
<1>5. /\ SendInv(chan[ch], queues[ch], a, s, t)
      /\ RecvInv(chan[ch], queues[ch], a, s, u)
  BY StreamsHere
<1>6. Queued(Tail(queues[ch].out.items), LastId(s.wire), a.nextId)
  <2>1. a.nextId \in Nat /\ LastId(s.wire) \in Nat
    BY ItemsHere, LastIdNat, ClientAssumption
  <2>2. Queued(queues[ch].out.items, LastId(s.wire), a.nextId)
    BY <1>5, Zenon DEF SendInv
  <2> QED BY <1>4, <2>1, <2>2, ItemsHere, PopQueued, Zenon
<1> HIDE DEF p
<1>7. /\ r.kind = chan[ch].kind /\ r.rcvState = chan[ch].rcvState
      /\ r.pc = chan[ch].pc /\ r.owner = chan[ch].owner
      /\ r.epollOut = chan[ch].epollOut /\ r.outQueueWatched = chan[ch].outQueueWatched
  BY StreamsHere, Zenon DEF Channel
<1>8. /\ q.out.items = Tail(queues[ch].out.items) /\ q.in.items = queues[ch].in.items
  BY StreamsHere, Zenon DEF QueuesType, Pop
<1> HIDE DEF r, q, s, a, t, u
<1>9. SendInv(r, q, a, s, t)
  <2>1. ~r.epollOut
    BY <1>4, <1>5, <1>7, Zenon DEF SendInv
  <2>2. WireWhole(s.wire, r.epollOut, t)
    BY <1>5, <1>7, Zenon DEF SendInv
  <2> QED BY <1>4, <1>6, <1>7, <1>8, <2>1, <2>2, Zenon DEF SendInv
<1>10. RecvInv(r, q, a, s, u)
  BY <1>5, <1>7, <1>8, RecvKept, Zenon
<1> QED BY <1>1, <1>2, <1>3, <1>7, <1>9, <1>10, StreamStep, Zenon

LEMMA SendContinueStreams ==
  ASSUME StreamInv, IInv', NEW ch \in Chans, SendContinue(ch)
  PROVE  StreamInv'
<1> DEFINE p == chan[ch].packToSend
           n == Lesser(sock[ch].room, RestToSend(ch))
           done == n = RestToSend(ch)
           some == ~done
           r == [chan[ch] EXCEPT !.epollOut = some, !.outQueueWatched = done]
           w == Sent(sock[ch].wire, p, n)
           s == [sock[ch] EXCEPT !.room = @ - n, !.wire = w]
           q == queues[ch]
           a == app[ch]
           t == bytesSent[Counter(ch)]
           u == bytesRecvd[Counter(ch)]
           t1 == t + n
<1>1. /\ chan' = [chan EXCEPT ![ch] = r] /\ sock' = [sock EXCEPT ![ch] = s]
      /\ bytesSent' = [bytesSent EXCEPT ![Counter(ch)] = t1]
      /\ chan[ch].epollOut /\ UNCHANGED <<bytesRecvd, queues, app>>
      /\ chan[ch].pc = "loop"
  BY Zenon DEF SendContinue, Continued, PutOnWire, Polling
<1>2. /\ queues' = [queues EXCEPT ![ch] = q] /\ app' = [app EXCEPT ![ch] = a]
      /\ bytesRecvd' = [bytesRecvd EXCEPT ![Counter(ch)] = u]
  BY <1>1, StreamsHere, Zenon
<1>3. p \in Request
  BY <1>1, Here, Zenon DEF StreamInv, LocalInv, Channel
<1>4. t \in 0..PacketLen /\ PacketLen \in Nat
  BY StreamsHere, ClientAssumption
<1>5. /\ n \in Nat /\ t \in Nat /\ (some \/ t + n = PacketLen)
      /\ (some \in BOOLEAN) /\ (done \in BOOLEAN)
  <2>1. sock[ch].room \in 0..SndBuf /\ SndBuf \in Nat
    BY ItemsHere, ClientAssumption
  <2> QED BY <1>4, <2>1, SMT DEF Lesser, RestToSend
<1>6. /\ SendInv(chan[ch], q, a, sock[ch], t)
      /\ RecvInv(chan[ch], q, a, sock[ch], u)
  BY StreamsHere
<1>7. /\ WireWhole(sock[ch].wire, TRUE, t) /\ sock[ch].wire # <<>>
      /\ LastId(sock[ch].wire) = p.id
      /\ Queued(q.out.items, LastId(sock[ch].wire), a.nextId)
  <2>1. chan[ch].epollOut = TRUE
    BY <1>1, ItemsHere
  <2> QED BY <1>6, <2>1, Zenon DEF SendInv
<1> HIDE DEF p, n, t
<1>8. w # <<>> /\ LastId(w) = p.id /\ WireWhole(w, some, t1)
  <2> HIDE DEF some
  <2> QED BY <1>3, <1>5, <1>7, ItemsHere, ContinuedWhole, Zenon
<1> HIDE DEF w, some, done, t1
<1>9. /\ r.kind = chan[ch].kind /\ r.rcvState = chan[ch].rcvState
      /\ r.packToSend = p /\ r.pc = chan[ch].pc /\ r.owner = chan[ch].owner
      /\ r.epollOut = some /\ r.outQueueWatched = done
  BY <1>5, StreamsHere, Zenon DEF Channel, p
<1>10. s.wire = w /\ s.n = sock[ch].n /\ s.rxRead = sock[ch].rxRead
  BY StreamsHere, Zenon DEF Socket
<1>11. done => ~some
  BY DEF some
<1> HIDE DEF r, q, s, a, u
<1>12. SendInv(r, q, a, s, t1)
  BY <1>1, <1>7, <1>8, <1>9, <1>10, <1>11, Zenon DEF SendInv
<1>13. RecvInv(r, q, a, s, u)
  BY <1>6, <1>9, <1>10, RecvKept, Zenon
<1> QED BY <1>1, <1>2, <1>9, <1>12, <1>13, StreamStep, Zenon

-----------------------------------------------------------------------------
(* Messages are received.                                                   *)

LEMMA UpToNat ==
  ASSUME NEW s \in Seq(Received), NEW got \in [1..MaxConns -> Nat], NEW n \in 1..MaxConns
  PROVE  UpTo(s, n, got) \in Nat
<1>1. s # <<>> => Len(s) \in 1..Len(s)
  BY EmptySeq
<1>2. s # <<>> => s[Len(s)].upto \in Nat
  BY <1>1, ReceivedOf
<1> QED BY <1>2 DEF UpTo

\* What is read before and in this call, and which message it makes.
LEMMA RecvCounts ==
  ASSUME StreamInv, NEW ch \in Chans, RecvPacket(ch)
  PROVE  LET k == Taken(ch)
             b == ReadBefore(ch)
             x == UpTo(queues[ch].in.items, sock[ch].n, app[ch].got)
             m == [conn |-> sock[ch].n, from |-> (sock[ch].rxRead + 1) - b,
                   upto |-> sock[ch].rxRead + k]
         IN /\ b + k \in Nat /\ sock[ch].n \in 1..MaxConns /\ m \in Received
            /\ chan[ch].owner = "alive" =>
                 /\ m.from = x + 1 /\ sock[ch].rxRead + k = x + (b + k) /\ x \in Nat
            /\ Completes(ch) /\ Framed(ch) => b + k = MsgLen
            /\ ~Completes(ch) => Framed(ch)
<1> DEFINE k == Taken(ch)
           b == ReadBefore(ch)
           u == bytesRecvd[Counter(ch)]
           x == UpTo(queues[ch].in.items, sock[ch].n, app[ch].got)
           m == [conn |-> sock[ch].n, from |-> (sock[ch].rxRead + 1) - b,
                 upto |-> sock[ch].rxRead + k]
<1>1. k > 0 /\ chan[ch].pc = "loop"
  BY Zenon DEF RecvPacket, Polling
<1>2. b = (IF chan[ch].kind = "proto" /\ chan[ch].rcvState = "IO_CONTINUE" THEN u ELSE 0)
  BY Zenon DEF ReadBefore, Framed
<1>3. b \in Nat
  BY <1>2, StreamsHere
<1>4. sock[ch].rxRead \in Nat /\ sock[ch].rxSent \in Int /\ MsgLen \in Nat
  BY StreamsHere, ClientAssumption DEF Socket
<1>5. k \in Int
  BY <1>3, <1>4, SMT DEF Taken, Unread, Lesser
<1>6. sock[ch].n \in 1..MaxConns
  <2>1. sock[ch].n # 0
    BY <1>1, Here, Zenon DEF StreamInv, LocalInv
  <2> QED BY <2>1, ItemsHere, ClientAssumption
<1>7. b + k \in Nat /\ sock[ch].rxRead + k \in Nat /\ (sock[ch].rxRead + 1) - b \in Int
  BY <1>1, <1>3, <1>4, <1>5
<1>8. m \in Received /\ m.from = (sock[ch].rxRead + 1) - b
  <2> HIDE DEF k, b
  <2> QED BY <1>6, <1>7 DEF Received
<1>9. ASSUME chan[ch].owner = "alive"
      PROVE  m.from = x + 1 /\ sock[ch].rxRead + k = x + (b + k) /\ x \in Nat
  <2>1. sock[ch].rxRead = x + b
    <3>1. RecvInv(chan[ch], queues[ch], app[ch], sock[ch], u)
      BY StreamsHere
    <3> HIDE DEF u
    <3> QED BY <1>1, <1>2, <1>9, <3>1 DEF RecvInv
  <2>2. x \in Nat
    BY <1>6, ItemsHere, UpToNat
  <2> HIDE DEF k, b, x, m
  <2> QED BY <1>3, <1>4, <1>5, <1>8, <2>1, <2>2
<1>10. /\ Completes(ch) /\ Framed(ch) => b + k = MsgLen
       /\ ~Completes(ch) => Framed(ch)
  <2>1. ~Completes(ch) => sock[ch].remote = "live"
    BY Zenon DEF RecvPacket
  <2> QED BY <2>1, Zenon DEF Completes
<1> HIDE DEF k, b, x, m
<1>11. /\ b + k \in Nat /\ sock[ch].n \in 1..MaxConns /\ m \in Received
       /\ chan[ch].owner = "alive" =>
            /\ m.from = x + 1 /\ sock[ch].rxRead + k = x + (b + k) /\ x \in Nat
       /\ Completes(ch) /\ Framed(ch) => b + k = MsgLen
       /\ ~Completes(ch) => Framed(ch)
  BY <1>6, <1>7, <1>8, <1>9, <1>10
<1> QED BY <1>11, Zenon DEF k, b, x, m

LEMMA RecvPacketStreams ==
  ASSUME StreamInv, IInv', NEW ch \in Chans, RecvPacket(ch)
  PROVE  StreamInv'
<1> DEFINE k == Taken(ch)
           b == ReadBefore(ch)
           x == UpTo(queues[ch].in.items, sock[ch].n, app[ch].got)
           m == [conn |-> sock[ch].n, from |-> (sock[ch].rxRead + 1) - b,
                 upto |-> sock[ch].rxRead + k]
           s == [sock[ch] EXCEPT !.rxRead = @ + k]
           a == app[ch]
           t == bytesSent[Counter(ch)]
           u1 == b + k
<1>1. /\ b + k \in Nat /\ sock[ch].n \in 1..MaxConns /\ m \in Received
      /\ chan[ch].owner = "alive" =>
           /\ m.from = x + 1 /\ sock[ch].rxRead + k = x + (b + k) /\ x \in Nat
      /\ Completes(ch) /\ Framed(ch) => b + k = MsgLen
      /\ ~Completes(ch) => Framed(ch)
  BY RecvCounts
<1>2. /\ sock' = [sock EXCEPT ![ch] = s] /\ UNCHANGED <<bytesSent, app>>
      /\ bytesRecvd' = [bytesRecvd EXCEPT ![Counter(ch)] = u1]
      /\ chan[ch].pc = "loop"
  BY Zenon DEF RecvPacket, Polling
<1>3. /\ app' = [app EXCEPT ![ch] = a]
      /\ bytesSent' = [bytesSent EXCEPT ![Counter(ch)] = t]
  BY <1>2, StreamsHere, Zenon
<1>4. m.conn = sock[ch].n /\ m.upto = sock[ch].rxRead + k
  OBVIOUS
<1>5. /\ SendInv(chan[ch], queues[ch], app[ch], sock[ch], t)
      /\ chan[ch].owner = "alive" =>
            Stream(queues[ch].in.items, app[ch].got, sock[ch].n, chan[ch].kind = "proto")
  BY StreamsHere, Zenon DEF RecvInv
<1>6. s.wire = sock[ch].wire /\ s.n = sock[ch].n /\ s.rxRead = sock[ch].rxRead + k
  <2> HIDE DEF k
  <2> QED BY StreamsHere, Zenon DEF Socket
<1>7. \A v : LET r == [chan[ch] EXCEPT !.rcvState = v]
             IN /\ r.kind = chan[ch].kind /\ r.rcvState = v
                /\ r.pc = chan[ch].pc /\ r.owner = chan[ch].owner
                /\ r.packToSend = chan[ch].packToSend
                /\ r.epollOut = chan[ch].epollOut
                /\ r.outQueueWatched = chan[ch].outQueueWatched
  BY StreamsHere, Zenon DEF Channel
<1>8. CASE Completes(ch)
  <2> DEFINE r == [chan[ch] EXCEPT !.rcvState = "IO_START"]
             i1 == Append(queues[ch].in.items, m)
             q == [queues[ch] EXCEPT !.in = Push(@, m, TRUE)]
  <2>1. chan' = [chan EXCEPT ![ch] = r] /\ queues' = [queues EXCEPT ![ch] = q]
    BY <1>8, Zenon DEF RecvPacket
  <2> HIDE DEF k, b, m, x, s
  <2>2. q.out.items = queues[ch].out.items /\ q.in.items = i1
    <3>1. queues[ch].in \in QueueOf(Received)
      BY StreamsHere, Zenon DEF QueuesType
    <3>2. Push(queues[ch].in, m, TRUE).items = i1
      BY <3>1, ForcedPush
    <3> QED BY <3>2, StreamsHere, Zenon DEF QueuesType
  <2>3. /\ r.kind = chan[ch].kind /\ r.rcvState = "IO_START"
        /\ r.pc = chan[ch].pc /\ r.owner = chan[ch].owner
        /\ r.packToSend = chan[ch].packToSend
        /\ r.epollOut = chan[ch].epollOut
        /\ r.outQueueWatched = chan[ch].outQueueWatched
    BY <1>7
  <2>4. ASSUME chan[ch].owner = "alive"
        PROVE  /\ Stream(i1, app[ch].got, sock[ch].n, chan[ch].kind = "proto")
               /\ UpTo(i1, sock[ch].n, app[ch].got) = m.upto /\ m.upto \in Nat
    <3>1. (chan[ch].kind = "proto") \in BOOLEAN
      OBVIOUS
    <3>2. chan[ch].kind = "proto" => m.upto = x + MsgLen
      BY <1>1, <1>4, <1>8, <2>4 DEF Framed
    <3>3. m.upto \in Nat
      BY <1>1 DEF Received
    <3> QED BY <1>1, <1>4, <1>5, <2>4, <3>1, <3>2, <3>3, ItemsHere, PushedStream, ZenonT(60)
               DEF x
  <2> HIDE DEF r, q, i1, a, t, u1
  <2>5. SendInv(r, q, a, s, t)
    <3>1. SendInv(chan[ch], queues[ch], a, sock[ch], t)
      BY <1>5 DEF a
    <3> QED BY <1>6, <2>2, <2>3, <3>1, SendKept, Zenon
  <2>6. RecvInv(r, q, a, s, u1)
    <3>1. ASSUME r.owner = "alive"
          PROVE  /\ Stream(q.in.items, a.got, s.n, r.kind = "proto")
                 /\ s.rxRead = UpTo(q.in.items, s.n, a.got)
      BY <1>4, <1>6, <2>2, <2>3, <2>4, <3>1, Zenon DEF a
    <3>2. r.owner = "alive" => s.rxRead \in Nat
      BY <1>4, <1>6, <2>3, <2>4, Zenon
    <3>3. r.owner = "alive" =>
           s.rxRead = UpTo(q.in.items, s.n, a.got)
                      + (IF r.kind = "proto" /\ r.rcvState = "IO_CONTINUE" THEN u1 ELSE 0)
      BY <2>3, <3>1, <3>2
    <3> QED BY <2>3, <3>1, <3>3, Zenon DEF RecvInv
  <2> QED BY <1>2, <1>3, <2>1, <2>3, <2>5, <2>6, StreamStep, Zenon
<1>9. CASE ~Completes(ch)
  <2> DEFINE r == [chan[ch] EXCEPT !.rcvState = "IO_CONTINUE"]
             q == queues[ch]
  <2>1. chan' = [chan EXCEPT ![ch] = r] /\ queues' = [queues EXCEPT ![ch] = q]
    <3>1. chan' = [chan EXCEPT ![ch] = r] /\ queues' = queues
      BY <1>9, Zenon DEF RecvPacket
    <3> QED BY <3>1, StreamsHere, Zenon
  <2>2. /\ r.kind = chan[ch].kind /\ r.rcvState = "IO_CONTINUE"
        /\ r.pc = chan[ch].pc /\ r.owner = chan[ch].owner
        /\ r.packToSend = chan[ch].packToSend
        /\ r.epollOut = chan[ch].epollOut
        /\ r.outQueueWatched = chan[ch].outQueueWatched
    BY <1>7
  <2> HIDE DEF k, b, m, s, r, t
  <2>3. SendInv(r, q, a, s, t)
    BY <1>5, <1>6, <2>2, SendKept, Zenon
  <2>4. r.owner = "alive" =>
          s.rxRead = UpTo(q.in.items, s.n, a.got)
                     + (IF r.kind = "proto" /\ r.rcvState = "IO_CONTINUE" THEN u1 ELSE 0)
    <3>1. r.kind = "proto"
      BY <1>1, <1>9, <2>2 DEF Framed
    <3>2. r.owner = "alive" => s.rxRead = UpTo(q.in.items, s.n, a.got) + u1
      BY <1>1, <1>6, <2>2, Zenon
    <3> QED BY <2>2, <3>1, <3>2
  <2>5. RecvInv(r, q, a, s, u1)
    BY <1>2, <1>5, <1>6, <2>2, <2>4, Zenon DEF RecvInv
  <2> HIDE DEF q, a, u1
  <2> QED BY <1>2, <1>3, <2>1, <2>2, <2>3, <2>5, StreamStep, Zenon
<1> QED BY <1>8, <1>9

-----------------------------------------------------------------------------
(* The application.                                                         *)

LEMMA AppLearnStreams ==
  ASSUME StreamInv, IInv', NEW ch \in Chans, AppLearn(ch)
  PROVE  StreamInv'
<1> DEFINE m == Head(queues[ch].inCmd.items)
           v == IF m.type = "OPEN" THEN m.conn ELSE 0
           r == chan[ch]
           q == [queues[ch] EXCEPT !.inCmd = Pop(@)]
           a == [app[ch] EXCEPT !.view = v]
           s == sock[ch]
<1>1. /\ queues' = [queues EXCEPT ![ch] = q] /\ app' = [app EXCEPT ![ch] = a]
      /\ UNCHANGED <<chan, bytesSent, bytesRecvd, sock>>
  BY Zenon DEF AppLearn, AppStep
<1>2. chan' = [chan EXCEPT ![ch] = r] /\ sock' = [sock EXCEPT ![ch] = s]
  BY <1>1, StreamsHere, Zenon
<1> HIDE DEF m, v
<1>3. q.out.items = queues[ch].out.items /\ q.in.items = queues[ch].in.items
  BY StreamsHere, Zenon DEF QueuesType
<1>4. a.nextId = app[ch].nextId /\ a.got = app[ch].got
  BY StreamsHere, Zenon DEF AppType
<1>5. Same(r, ch) /\ s.wire = sock[ch].wire /\ s.n = sock[ch].n /\ s.rxRead = sock[ch].rxRead
  BY DEF Same
<1>6. UNCHANGED <<bytesSent, bytesRecvd>>
  BY <1>1
<1> HIDE DEF r, q, a, s
<1> QED BY <1>1, <1>2, <1>3, <1>4, <1>5, <1>6, QuietStep, Zenon

LEMMA AppReceiveStreams ==
  ASSUME StreamInv, IInv', NEW ch \in Chans, AppReceive(ch)
  PROVE  StreamInv'
<1> DEFINE i == queues[ch].in.items
           m == Head(i)
           g == [app[ch].got EXCEPT ![m.conn] = m.upto]
           r == chan[ch]
           q == [queues[ch] EXCEPT !.in = Pop(@)]
           a == [app[ch] EXCEPT !.got = g]
           s == sock[ch]
           t == bytesSent[Counter(ch)]
           u == bytesRecvd[Counter(ch)]
<1>1. /\ queues' = [queues EXCEPT ![ch] = q] /\ app' = [app EXCEPT ![ch] = a]
      /\ UNCHANGED <<chan, bytesSent, bytesRecvd, sock>>
      /\ chan[ch].owner = "alive" /\ i # <<>>
  BY Zenon DEF AppReceive, AppStep, QueueReadable
<1>2. /\ chan' = [chan EXCEPT ![ch] = r] /\ sock' = [sock EXCEPT ![ch] = s]
      /\ bytesSent' = [bytesSent EXCEPT ![Counter(ch)] = t]
      /\ bytesRecvd' = [bytesRecvd EXCEPT ![Counter(ch)] = u]
  BY <1>1, StreamsHere, Zenon
<1>3. SendInv(r, queues[ch], app[ch], s, t) /\ RecvInv(r, queues[ch], app[ch], s, u)
  BY StreamsHere
<1>4. Stream(i, app[ch].got, s.n, r.kind = "proto")
  BY <1>1, <1>3, Zenon DEF RecvInv
<1>5. s.n \in 1..MaxConns
  <2>1. Len(i) \in Nat /\ Len(i) # 0
    BY <1>1, ItemsHere, EmptySeq
  <2>2. 1 \in 1..Len(i)
    BY <2>1
  <2>3. i[1].conn <= s.n
    BY <1>4, <2>2, Zenon DEF Stream
  <2>4. i[1].conn \in 1..MaxConns
    BY <2>2, ItemsHere, ReceivedOf, Zenon
  <2> QED BY <2>3, <2>4, ItemsHere, ClientAssumption
<1>6. /\ Stream(Tail(i), g, s.n, r.kind = "proto")
      /\ UpTo(Tail(i), s.n, g) = UpTo(i, s.n, app[ch].got)
  <2>1. (r.kind = "proto") \in BOOLEAN
    OBVIOUS
  <2> QED BY <1>1, <1>4, <1>5, <2>1, ItemsHere, TakenStream, ZenonT(60)
<1> HIDE DEF m, g
<1>7. q.out.items = queues[ch].out.items /\ q.in.items = Tail(i)
  BY StreamsHere, Zenon DEF QueuesType, Pop
<1>8. a.nextId = app[ch].nextId /\ a.got = g
  BY StreamsHere, Zenon DEF AppType
<1>9. r.kind = chan[ch].kind
  OBVIOUS
<1> HIDE DEF r, q, a, s, t, u
<1>10. SendInv(r, q, a, s, t)
  BY <1>3, <1>7, <1>8, SendKept, Zenon
<1>11. RecvInv(r, q, a, s, u)
  <2>1. Stream(q.in.items, a.got, s.n, r.kind = "proto")
    BY <1>6, <1>7, <1>8, Zenon
  <2>2. UpTo(q.in.items, s.n, a.got) = UpTo(queues[ch].in.items, s.n, app[ch].got)
    BY <1>6, <1>7, <1>8, Zenon
  <2> QED BY <1>1, <1>3, <2>1, <2>2, Zenon DEF RecvInv, r
<1> QED BY <1>1, <1>2, <1>9, <1>10, <1>11, StreamStep, Zenon

LEMMA AppRequestStreams ==
  ASSUME StreamInv, IInv', NEW ch \in Chans, NEW type \in MessageType, NEW force \in BOOLEAN,
         AppSend(ch, type, force) \/ AppCommand(ch, type, force)
  PROVE  StreamInv'
<1> DEFINE m == NewRequest(ch, type)
           next == app[ch].nextId
           a == [app[ch] EXCEPT !.nextId = @ + 1]
           r == chan[ch]
           s == sock[ch]
           t == bytesSent[Counter(ch)]
           u == bytesRecvd[Counter(ch)]
           last == LastId(sock[ch].wire)
           o == queues[ch].out.items
<1>1. /\ app' = [app EXCEPT ![ch] = a]
      /\ UNCHANGED <<chan, bytesSent, bytesRecvd, sock>>
  BY Zenon DEF AppSend, AppCommand, AppRequest, AppStep
<1>2. /\ chan' = [chan EXCEPT ![ch] = r] /\ sock' = [sock EXCEPT ![ch] = s]
      /\ bytesSent' = [bytesSent EXCEPT ![Counter(ch)] = t]
      /\ bytesRecvd' = [bytesRecvd EXCEPT ![Counter(ch)] = u]
  BY <1>1, StreamsHere, Zenon
<1>3. SendInv(r, queues[ch], app[ch], s, t) /\ RecvInv(r, queues[ch], app[ch], s, u)
  BY StreamsHere
<1>4. a.nextId = next + 1 /\ a.got = app[ch].got
  BY StreamsHere, Zenon DEF AppType
<1>5. Queued(Append(o, m), last, next + 1) /\ Queued(o, last, next + 1)
  <2>1. Queued(o, last, next)
    BY <1>3, Zenon DEF SendInv
  <2>2. m.id = next
    BY DEF NewRequest
  <2>3. last \in Nat /\ next \in Nat
    BY ItemsHere, LastIdNat, ClientAssumption
  <2> HIDE DEF m, last, next
  <2> QED BY <2>1, <2>2, <2>3, ItemsHere, PushQueued
<1> HIDE DEF m
<1>6. PICK q : /\ queues' = [queues EXCEPT ![ch] = q] /\ q.in.items = queues[ch].in.items
               /\ q.out.items = o \/ q.out.items = Append(o, m)
  <2>1. CASE AppSend(ch, type, force)
    <3> DEFINE q == [queues[ch] EXCEPT !.out = Push(@, m, force)]
    <3>1. Push(queues[ch].out, m, force).items = o
          \/ Push(queues[ch].out, m, force).items = Append(o, m)
      BY DEF Push
    <3>2. q.out = Push(queues[ch].out, m, force) /\ q.in = queues[ch].in
      BY StreamsHere, Zenon DEF QueuesType
    <3>3. queues' = [queues EXCEPT ![ch] = q]
      BY <2>1, Zenon DEF AppSend, m
    <3> HIDE DEF q
    <3> QED BY <3>1, <3>2, <3>3, Zenon
  <2>2. CASE AppCommand(ch, type, force)
    <3> DEFINE q == [queues[ch] EXCEPT !.outCmd = Push(@, m, force)]
    <3>2. q.out = queues[ch].out /\ q.in = queues[ch].in
      BY StreamsHere, Zenon DEF QueuesType
    <3>3. queues' = [queues EXCEPT ![ch] = q]
      BY <2>2, Zenon DEF AppCommand, m
    <3> HIDE DEF q
    <3> QED BY <3>2, <3>3, Zenon
  <2> QED BY <2>1, <2>2
<1>7. Queued(q.out.items, LastId(s.wire), a.nextId)
  <2> HIDE DEF a, next, o
  <2> QED BY <1>4, <1>5, <1>6, Zenon
<1>8. r.kind = chan[ch].kind
  OBVIOUS
<1> HIDE DEF a, r, s, t, u
<1>9. SendInv(r, q, a, s, t)
  BY <1>3, <1>7, Zenon DEF SendInv
<1>10. RecvInv(r, q, a, s, u)
  BY <1>3, <1>4, <1>6, RecvKept, Zenon
<1> QED BY <1>1, <1>2, <1>6, <1>8, <1>9, <1>10, StreamStep, Zenon

-----------------------------------------------------------------------------
(* The invariant holds, and what follows from it.                           *)

LEMMA StreamsInitially == Init /\ OneFramed => StreamInv
<1> SUFFICES ASSUME Init, OneFramed PROVE StreamInv
  OBVIOUS
<1>1. IInv
  BY Initially
<1> SUFFICES ASSUME NEW ch \in Chans
             PROVE  /\ SendInv(chan[ch], queues[ch], app[ch], sock[ch], bytesSent[Counter(ch)])
                    /\ RecvInv(chan[ch], queues[ch], app[ch], sock[ch], bytesRecvd[Counter(ch)])
  BY <1>1, Zenon DEF StreamInv
<1> DEFINE r == chan[ch]
           t == bytesSent[Counter(ch)]
           u == bytesRecvd[Counter(ch)]
<1>2. /\ r.pc = "top" /\ r.outQueueWatched = FALSE /\ r.epollOut = FALSE
      /\ r.rcvState = "IO_START"
  <2>1. PICK kind \in [Chans -> Kinds] : chan = [c \in Chans |->
          [kind |-> kind[c], pc |-> "top", owner |-> "alive",
           exit |-> FALSE, busy |-> FALSE,
           epollOpen |-> TRUE, outQueueWatched |-> FALSE, epollOut |-> FALSE,
           packToSend |-> None, rcvState |-> "IO_START"]]
    BY Zenon DEF Init
  <2> QED BY <2>1, Zenon
<1>3. /\ queues[ch].out.items = <<>> /\ queues[ch].in.items = <<>>
      /\ app[ch].nextId = 1 /\ app[ch].got = [n \in 1..MaxConns |-> 0]
      /\ sock[ch].wire = <<>> /\ sock[ch].n = 0
  BY Zenon DEF Init, NewQueue, NewSocket
<1> HIDE DEF r, t, u
<1>4. LastId(<<>>) = 0 /\ WireWhole(<<>>, FALSE, t) /\ Queued(<<>>, 0, 1)
  BY DEF LastId, WireWhole, Queued
<1>5. SendInv(r, queues[ch], app[ch], sock[ch], t)
  BY <1>2, <1>3, <1>4, Zenon DEF SendInv
<1>6. Stream(<<>>, [n \in 1..MaxConns |-> 0], 0, r.kind = "proto")
  BY DEF Stream
<1>7. RecvInv(r, queues[ch], app[ch], sock[ch], u)
  BY <1>2, <1>3, <1>6, Zenon DEF RecvInv
<1> QED BY <1>5, <1>7 DEF r, t, u

LEMMA StreamsInductive == StreamInv /\ [Next]_vars => StreamInv'
<1> SUFFICES ASSUME StreamInv, [Next]_vars PROVE StreamInv'
  OBVIOUS
<1>1. IInv'
  BY Inductive, Zenon DEF StreamInv
<1>2. CASE UNCHANGED vars
  <2>1. \A ch \in Chans : Framed(ch)' = Framed(ch) /\ Counter(ch)' = Counter(ch)
    BY <1>2, Zenon DEF vars, Framed, Counter
  <2>2. OneFramed'
    BY <2>1, Zenon DEF StreamInv, OneFramed
  <2>3. ASSUME NEW d \in Chans
        PROVE  /\ SendInv(chan[d], queues[d], app[d], sock[d], bytesSent[Counter(d)])'
               /\ RecvInv(chan[d], queues[d], app[d], sock[d], bytesRecvd[Counter(d)])'
    <3>1. /\ SendInv(chan'[d], queues'[d], app'[d], sock'[d], bytesSent'[Counter(d)'])
          /\ RecvInv(chan'[d], queues'[d], app'[d], sock'[d], bytesRecvd'[Counter(d)'])
      BY <1>2, <2>1, Zenon DEF vars, StreamInv
    <3>2. SendInv(chan[d], queues[d], app[d], sock[d], bytesSent[Counter(d)])'
      BY <3>1, Zenon DEF SendInv, WireWhole, Queued, LastId
    <3>3. RecvInv(chan[d], queues[d], app[d], sock[d], bytesRecvd[Counter(d)])'
      BY <3>1, Zenon DEF RecvInv, Stream, UpTo, Before
    <3> QED BY <3>2, <3>3
  <2> QED BY <1>1, <2>2, <2>3, Zenon DEF StreamInv
<1>3. CASE Next
  <2> PICK ch \in Chans : \/ Thread(ch) \/ DestroyBegins(ch) \/ DestructorRuns(ch)
                          \/ App(ch) \/ Network(ch)
    BY <1>3, Zenon DEF Next
  <2>1. CASE Thread(ch)
    BY <1>1, <2>1, QuietThreadSteps, ConnectedStreams, EnterLoopStreams, CleanupStreams,
       SendStartStreams, UnknownTypeStreams, TakeCommandStreams, RecvPacketStreams,
       SendContinueStreams, LeaveLoopStreams, Zenon DEF Thread, LoopEvent
  <2>2. CASE DestroyBegins(ch) \/ DestructorRuns(ch)
    BY <1>1, <2>2, DestructorStreams, StopWaitingStreams, Zenon DEF DestructorRuns
  <2>3. CASE App(ch)
    <3>1. OutTypes \subseteq MessageType /\ CmdTypes \subseteq MessageType
      BY ClientAssumption
    <3>2. CASE \E type \in OutTypes, force \in BOOLEAN : AppSend(ch, type, force)
      BY <1>1, <3>1, <3>2, AppRequestStreams
    <3>3. CASE \E type \in CmdTypes, force \in BOOLEAN : AppCommand(ch, type, force)
      BY <1>1, <3>1, <3>3, AppRequestStreams
    <3> QED BY <1>1, <2>3, <3>2, <3>3, AppLearnStreams, AppReceiveStreams, Zenon DEF App
  <2>4. CASE Network(ch)
    BY <1>1, <2>4, NetworkStreams
  <2> QED BY <2>1, <2>2, <2>3, <2>4
<1> QED BY <1>2, <1>3

LEMMA StreamInvariant == Spec /\ OneFramed => []StreamInv
  BY StreamsInitially, StreamsInductive, PTL DEF Spec

(* In a pool with at most one framed client, every packet but the last on a *)
(* connection is sent whole, however often the socket cuts it and whatever  *)
(* the other channels do.                                                   *)
THEOREM ClientPacketsSentWhole == Spec /\ OneFramed => []PacketsSentWhole
<1>1. StreamInv => PacketsSentWhole
  <2> SUFFICES ASSUME StreamInv, NEW ch \in Chans, NEW i \in 1..(Len(sock[ch].wire) - 1)
               PROVE  sock[ch].wire[i].n = PacketLen
    BY Zenon DEF PacketsSentWhole
  <2>1. WireWhole(sock[ch].wire, chan[ch].epollOut, bytesSent[Counter(ch)])
    BY StreamsHere, Zenon DEF SendInv
  <2>2. sock[ch].wire \in Seq(Parts)
    BY ItemsHere
  <2>3. i \in 1..Len(sock[ch].wire) /\ i # Len(sock[ch].wire)
    BY <2>2
  <2> QED BY <2>1, <2>3, Zenon DEF WireWhole
<1> QED BY <1>1, StreamInvariant, PTL

(* In such a pool the application gets each server's stream without a gap,  *)
(* a repetition or a change of order, over any number of connections.       *)
THEOREM ClientReceivedGapless == Spec /\ OneFramed => []ReceivedGapless
<1>1. StreamInv => ReceivedGapless
  <2> SUFFICES ASSUME StreamInv, NEW ch \in Chans, chan[ch].owner = "alive"
               PROVE  LET s == queues[ch].in.items
                      IN /\ \A i, j \in 1..Len(s) : i < j => s[i].conn <= s[j].conn
                         /\ \A i \in 1..Len(s) :
                                /\ s[i].from = Before(s, i, app[ch].got) + 1
                                /\ Framed(ch) =>
                                       s[i].upto = Before(s, i, app[ch].got) + MsgLen
    BY Zenon DEF ReceivedGapless
  <2>1. Stream(queues[ch].in.items, app[ch].got, sock[ch].n, chan[ch].kind = "proto")
    BY StreamsHere, Zenon DEF RecvInv
  <2> QED BY <2>1, Zenon DEF Stream, Framed
<1> QED BY <1>1, StreamInvariant, PTL
=============================================================================
