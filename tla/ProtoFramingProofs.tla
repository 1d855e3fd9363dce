------------------------- MODULE ProtoFramingProofs -------------------------
(***************************************************************************)
(* The framing implements MessageLink for packets of any length below      *)
(* 2^31, any limit, any room between the ends and any number of packets    *)
(* and connections, however the kernel cuts what is sent and received.     *)
(***************************************************************************)
EXTENDS ProtoFraming, SequenceTheorems, TLAPS

Byte == 0..255

HalfByte == 0..127

LEMMA EndsAre == Ends = {"client", "server"} /\ \A e \in Ends :
                     Other(e) \in Ends /\ Other(e) # e /\ Other(Other(e)) = e
  BY DEF Ends, Other, Link!Ends, Link!Other

\* Facts about integers, apart from functions and sequences.
LEMMA Beyond ==
  ASSUME NEW x \in Int, NEW i \in Nat, i >= 1
  PROVE  ~(x + i <= x)
  BY SMT

LEMMA Within ==
  ASSUME NEW x \in Int, NEW i \in Nat, i >= 1, 0 <= x, NEW len \in Nat, x + i <= len
  PROVE  x + i \in 1..len
  BY SMT

LEMMA Earlier ==
  ASSUME NEW x \in Int, NEW size \in Nat, NEW i \in 1..size, NEW y \in Int, NEW from \in Nat,
         x + size <= y
  PROVE  x + i <= y + from
  BY SMT

LEMMA Later ==
  ASSUME NEW x \in Int, NEW i \in Nat, NEW from \in Nat, NEW now \in Nat,
         x + i <= x + now, ~(x + i <= x + from)
  PROVE  i - from \in 1..(now - from) /\ i = from + (i - from) /\ x + i = (x + from) + (i - from)
  BY SMT

LEMMA LastIn ==
  ASSUME NEW n \in Nat, NEW d \in Nat, d < n
  PROVE  n \in 1..n /\ n \in (d + 1)..n
  BY SMT

LEMMA NextIn ==
  ASSUME NEW last \in Nat, NEW d \in Nat, NEW n \in (d + 1)..last
  PROVE  /\ n \in 1..last /\ n \in Nat /\ n + 1 \in (d + 1)..(last + 1)
         /\ n \in (d + 1)..(last + 1) /\ d + 1 \in (d + 1)..(last + 1)
         /\ last \in (d + 1)..(last + 1) /\ d + 1 <= n
         /\ (n # last => n + 1 <= last)
  BY SMT

LEMMA Counted ==
  ASSUME NEW size \in Nat, NEW i \in 1..size
  PROVE  i \in Nat /\ i >= 1
  BY SMT

LEMMA SumOf ==
  ASSUME NEW i \in Nat, NEW j \in Nat
  PROVE  i + j \in Nat
  BY SMT

LEMMA RangeOf ==
  ASSUME NEW max \in Nat, NEW n \in 0..max
  PROVE  n \in Nat /\ n <= max
  BY SMT

LEMMA LenType ==
  ASSUME NEW m \in Message
  PROVE  m.len \in Nat /\ m.len <= MaxLen /\ m.zipped \in BOOLEAN /\ HeaderLen + m.len \in Nat
<1>1. MaxLen \in Nat
  BY SMT DEF MaxLen
<1>2. m.len \in 0..MaxLen /\ m.zipped \in BOOLEAN
  BY FramingAssumption, Zenon DEF Message
<1>3. m.len \in Nat /\ m.len <= MaxLen
  BY <1>1, <1>2, RangeOf, Zenon
<1> QED BY <1>2, <1>3, SMT DEF HeaderLen

-----------------------------------------------------------------------------
(* Four bytes hold a length below 2^31 and the mark.                        *)

LEMMA QuotientAndRest ==
  ASSUME NEW x \in Int, NEW q \in Int, q = x \div 256
  PROVE  x - 256 * q = x % 256
  BY SMTT(30)

Divided(x, q, r) == q = x \div 256 /\ r = x % 256

LEMMA DividedBack ==
  ASSUME NEW x \in Nat, NEW q, NEW r, Divided(x, q, r)
  PROVE  q \in Nat /\ r \in Byte /\ x = 256 * q + r
<1>0. q = x \div 256 /\ r = x % 256
  BY DEF Divided
<1>1. q \in Nat /\ r \in Byte
  BY <1>0, SMTT(30) DEF Byte
<1>2. x - 256 * q = r
  BY <1>0, <1>1, QuotientAndRest, SMT
<1>3. q \in Int /\ r \in Int
  BY <1>1, SMT DEF Byte
<1>4. ASSUME NEW i \in Int, NEW j \in Int, x - 256 * i = j
      PROVE  x = 256 * i + j
  BY <1>4, SMT
<1> QED BY <1>1, <1>2, <1>3, <1>4, SMT

\* The bytes of a header, and how the length follows from them.
HeaderOf(len, z, p, q, r, d) ==
    /\ Header(len, z) = <<p, q, r, d + (IF z THEN 128 ELSE 0)>>
    /\ len = p + 256 * (q + 256 * (r + 256 * d))

LEMMA HeaderDigits ==
  ASSUME NEW len \in Nat, len <= MaxLen, NEW z \in BOOLEAN
  PROVE  \E p, q, r \in Byte : \E d \in HalfByte : HeaderOf(len, z, p, q, r, d)
<1> DEFINE b == len \div 256
           c == b \div 256
           d == c \div 256
           p == len % 256
           q == b % 256
           r == c % 256
<1>1. Divided(len, b, p) /\ Divided(b, c, q) /\ Divided(c, d, r)
  BY DEF Divided
<1>2. Header(len, z) = <<p, q, r, d + (IF z THEN 128 ELSE 0)>>
  BY SMT DEF Header
<1> HIDE DEF b, c, d, p, q, r
<1>3. b \in Nat /\ p \in Byte /\ len = 256 * b + p
  BY <1>1, DividedBack, SMT
<1>4. c \in Nat /\ q \in Byte /\ b = 256 * c + q
  BY <1>1, <1>3, DividedBack, SMT
<1>5. d \in Nat /\ r \in Byte /\ c = 256 * d + r
  BY <1>1, <1>4, DividedBack, SMT
<1>6. d \in HalfByte
  <2>1. len <= 2147483647
    BY SMT DEF MaxLen
  <2>2. 16777216 * d <= len
    BY <1>3, <1>4, <1>5, SMTT(30) DEF Byte
  <2> QED BY <1>5, <2>1, <2>2, SMTT(30) DEF HalfByte
<1>7. len = p + 256 * (q + 256 * (r + 256 * d))
  BY <1>3, <1>4, <1>5, SMT DEF Byte
<1>8. HeaderOf(len, z, p, q, r, d)
  BY <1>2, <1>7 DEF HeaderOf
<1>9. p \in Byte /\ q \in Byte /\ r \in Byte
  BY <1>3, <1>4, <1>5
<1> USE <1>6, <1>9
<1> WITNESS p \in Byte, q \in Byte, r \in Byte
<1> WITNESS d \in HalfByte
<1> QED BY <1>8

LEMMA HeaderType ==
  ASSUME NEW len \in Nat, len <= MaxLen, NEW z \in BOOLEAN
  PROVE  Header(len, z) \in Seq(Byte) /\ Len(Header(len, z)) = 4
<1>1. PICK p, q, r \in Byte : \E d \in HalfByte : HeaderOf(len, z, p, q, r, d)
  BY HeaderDigits, Zenon
<1>2. PICK d \in HalfByte : HeaderOf(len, z, p, q, r, d)
  BY <1>1, Zenon
<1>3. d + (IF z THEN 128 ELSE 0) \in Byte
  BY SMT DEF Byte, HalfByte
<1> QED BY <1>2, <1>3, SMT DEF HeaderOf

LEMMA HeaderRoundTrip ==
  ASSUME NEW len \in Nat, len <= MaxLen, NEW z \in BOOLEAN, NEW got,
         \A i \in 1..4 : got[i] = Header(len, z)[i]
  PROVE  PackLen(got) = len /\ ZippedBit(got) = z
<1>1. PICK p, q, r \in Byte : \E d \in HalfByte : HeaderOf(len, z, p, q, r, d)
  BY HeaderDigits, Zenon
<1>2. PICK d \in HalfByte : HeaderOf(len, z, p, q, r, d)
  BY <1>1, Zenon
<1>3. 1 \in 1..4 /\ 2 \in 1..4 /\ 3 \in 1..4 /\ 4 \in 1..4
  BY SMT
<1>4. got[1] = p /\ got[2] = q /\ got[3] = r /\ got[4] = d + (IF z THEN 128 ELSE 0)
  BY <1>2, <1>3, SMT DEF HeaderOf
<1>5. got[4] % 128 = d /\ (got[4] >= 128 <=> z)
  <2>1. CASE z
    <3>1. got[4] = d + 128
      BY <1>4, <2>1, SMT
    <3>2. (d + 128) % 128 = d /\ d + 128 >= 128
      BY SMTT(30) DEF HalfByte
    <3> QED BY <2>1, <3>1, <3>2, SMT
  <2>2. CASE ~z
    <3>1. got[4] = d + 0
      BY <1>4, <2>2, SMT
    <3>2. (d + 0) % 128 = d /\ ~(d + 0 >= 128)
      BY SMTT(30) DEF HalfByte
    <3> QED BY <2>2, <3>1, <3>2, SMT
  <2> QED BY <2>1, <2>2, SMT
<1>6. PackLen(got) = p + 256 * (q + 256 * (r + 256 * d))
  BY <1>4, <1>5, SMT DEF PackLen
<1>7. ZippedBit(got) = z
  BY <1>5, SMT DEF ZippedBit
<1> QED BY <1>2, <1>6, <1>7, SMT DEF HeaderOf

-----------------------------------------------------------------------------
(* What is sent over one connection and not yet delivered.  ts is what the  *)
(* server took: when one of it is compressed, the client may compress.      *)

\* Byte i of packet m, the nth of connection c.
ByteOf(c, m, n, z, i) ==
    IF i <= HeaderLen THEN Header(m.len, z)[i] ELSE (40 * c + 10 * n + (i - HeaderLen)) % 256

\* The marks that packet m of end e may have.
Marks(e, m, ts) ==
    {z \in BOOLEAN : z => m.zipped /\ (e = "client" => \E i \in 1..Len(ts) : ts[i].zipped)}

\* x is byte i of the packet, with or without its mark.
ByteFits(c, e, ts, m, n, i, x) == \E z \in Marks(e, m, ts) : x = ByteOf(c, m, n, z, i)

\* The bytes of packet m and its header.
Size(m) == HeaderLen + m.len

\* pos[n] bytes stand before packet n, and none before packet d + 1.
Laid(tk, d, pos) ==
    /\ pos[d + 1] = 0
    /\ \A n \in (d + 1)..Len(tk) : pos[n + 1] = pos[n] + Size(tk[n])
    /\ \A m, n \in (d + 1)..(Len(tk) + 1) : m <= n => pos[m] <= pos[n]

\* The bytes s are those of the packets after the dth, at their places.
Written(c, e, ts, tk, d, pos, s) ==
    \A n \in (d + 1)..Len(tk) : \A i \in 1..Size(tk[n]) :
        pos[n] + i <= Len(s) => ByteFits(c, e, ts, tk[n], n, i, s[pos[n] + i])

LEMMA ConcatAt ==
  ASSUME NEW S, NEW s \in Seq(S), NEW t \in Seq(S), NEW j \in 1..Len(t)
  PROVE  (s \o t)[Len(s) + j] = t[j]
<1>1. Len(s) \in Nat /\ Len(t) \in Nat
  BY LenProperties
<1>2. Len(s) + j \in 1..(Len(s) + Len(t)) /\ ~(Len(s) + j <= Len(s)) /\ (Len(s) + j) - Len(s) = j
  BY <1>1, SMT
<1> QED BY <1>2, ConcatProperties

LEMMA ConcatBefore ==
  ASSUME NEW S, NEW s \in Seq(S), NEW t \in Seq(S), NEW j \in 1..Len(s)
  PROVE  (s \o t)[j] = s[j] /\ j \in 1..Len(s \o t)
<1>1. Len(s) \in Nat /\ Len(t) \in Nat
  BY LenProperties
<1>2. j \in 1..(Len(s) + Len(t)) /\ j <= Len(s)
  BY <1>1, SMT
<1> QED BY <1>2, ConcatProperties

LEMMA UnmarkedFits == \A e, m, ts : FALSE \in Marks(e, m, ts)
  BY Zenon DEF Marks

LEMMA MarksGrow ==
  ASSUME NEW e, NEW m, NEW ts \in Seq(Message), NEW x \in Message
  PROVE  Marks(e, m, ts) \subseteq Marks(e, m, Append(ts, x))
<1>1. Len(Append(ts, x)) = Len(ts) + 1 /\ Len(ts) \in Nat
      /\ \A i \in 1..Len(ts) : Append(ts, x)[i] = ts[i]
  BY AppendProperties
<1>2. \A i \in 1..Len(ts) : i \in 1..Len(Append(ts, x)) /\ Append(ts, x)[i] = ts[i]
  BY <1>1, SMT
<1> QED BY <1>2, Zenon DEF Marks

LEMMA MessageLens ==
  ASSUME NEW tk \in Seq(Message), NEW n \in 1..Len(tk)
  PROVE  tk[n] \in Message /\ Size(tk[n]) \in Nat /\ Size(tk[n]) >= 4
<1>1. tk[n] \in Message
  BY ElementOfSeq, Zenon
<1>2. tk[n].len \in Nat
  BY <1>1, LenType, Zenon
<1> QED BY <1>1, <1>2, SMT DEF HeaderLen, Size

\* Packet m is laid after packet n.
OneMore(pos, n, m, more) == more = [pos EXCEPT ![n + 2] = pos[n + 1] + Size(m)]

AgreeTo(n, pos, more) == \A i \in 0..(n + 1) : more[i] = pos[i]

LEMMA OneMoreNew ==
  ASSUME NEW pos \in [Nat -> Int], NEW n \in Nat, NEW m, NEW more, OneMore(pos, n, m, more)
  PROVE  more[n + 2] = pos[n + 1] + Size(m)
  BY SMT DEF OneMore

LEMMA OneMoreOld ==
  ASSUME NEW pos \in [Nat -> Int], NEW n \in Nat, NEW m, NEW more, OneMore(pos, n, m, more)
  PROVE  AgreeTo(n, pos, more)
  BY SMT DEF OneMore, AgreeTo

\* Another packet is taken.
LEMMA LaidOneMore ==
  ASSUME NEW tk \in Seq(Message), NEW d \in 0..Len(tk), NEW pos \in [Nat -> Int],
         Laid(tk, d, pos), NEW m \in Message,
         NEW more, OneMore(pos, Len(tk), m, more)
  PROVE  /\ more \in [Nat -> Int]
         /\ Laid(Append(tk, m), d, more)
<1> DEFINE T == Len(tk)
           all == Size(m)
           tk2 == Append(tk, m)
<1>0. more = [pos EXCEPT ![T + 2] = pos[T + 1] + all]
  BY Zenon DEF OneMore
<1>1. T \in Nat /\ d \in Nat /\ d <= T /\ all \in Nat
  BY LenProperties, LenType, SMT DEF Size
<1>2. Len(tk2) = T + 1 /\ tk2[T + 1] = m /\ \A i \in 1..T : tk2[i] = tk[i]
  BY AppendProperties
<1>3. more \in [Nat -> Int] /\ more[T + 2] = pos[T + 1] + all
      /\ \A n \in 0..(T + 1) : more[n] = pos[n]
  BY <1>0, <1>1, SMT
<1>4. Size(tk2[T + 1]) = all
  BY <1>2
<1>5. \A n \in (d + 1)..T : more[n + 1] = more[n] + Size(tk2[n])
  <2> SUFFICES ASSUME NEW n \in (d + 1)..T PROVE more[n + 1] = more[n] + Size(tk2[n])
    OBVIOUS
  <2>1. n \in 1..T /\ n \in 0..(T + 1) /\ n + 1 \in 0..(T + 1)
    BY <1>1, SMT
  <2>2. tk2[n] = tk[n] /\ more[n] = pos[n] /\ more[n + 1] = pos[n + 1]
    BY <1>2, <1>3, <2>1, Zenon
  <2> QED BY <2>2 DEF Laid
<1> HIDE DEF tk2, T, all
<1>6. more[T + 2] = more[T + 1] + Size(tk2[T + 1])
  <2>1. more[T + 1] = pos[T + 1]
    BY <1>1, <1>3, SMT
  <2>2. Size(tk2[T + 1]) = all
    BY <1>4 DEF all
  <2> QED BY <1>3, <2>1, <2>2
<1>7. \A n \in (d + 1)..Len(tk2) : more[n + 1] = more[n] + Size(tk2[n])
  <2> SUFFICES ASSUME NEW n \in (d + 1)..Len(tk2)
               PROVE  more[n + 1] = more[n] + Size(tk2[n])
    OBVIOUS
  <2>1. n \in (d + 1)..T \/ (n = T + 1 /\ n + 1 = T + 2)
    BY <1>1, <1>2, SMT
  <2> QED BY <1>5, <1>6, <2>1, Zenon
<1>8. \A i, j \in (d + 1)..(Len(tk2) + 1) : i <= j => more[i] <= more[j]
  <2> SUFFICES ASSUME NEW i \in (d + 1)..(T + 2), NEW j \in (d + 1)..(T + 2), i <= j
               PROVE  more[i] <= more[j]
    BY <1>1, <1>2, SMT
  <2>0. \A k, l \in (d + 1)..(T + 1) : k <= l => pos[k] <= pos[l]
    BY DEF Laid, T
  <2>1. CASE j \in (d + 1)..(T + 1)
    <3>1. i \in (d + 1)..(T + 1) /\ i \in 0..(T + 1) /\ j \in 0..(T + 1)
      BY <1>1, <2>1, SMT
    <3> QED BY <1>3, <2>0, <3>1, SMT
  <2>2. CASE j = T + 2 /\ i # T + 2
    <3>1. i \in (d + 1)..(T + 1) /\ i \in 0..(T + 1) /\ T + 1 \in (d + 1)..(T + 1) /\ i <= T + 1
      BY <1>1, <2>2, SMT
    <3>2. pos[i] <= pos[T + 1] /\ more[i] = pos[i]
      BY <1>3, <2>0, <3>1, Zenon
    <3>3. pos[i] \in Int /\ pos[T + 1] \in Int
      BY <1>1, <3>1, SMT
    <3>4. \A x, y \in Int : x <= y => x <= y + all
      BY <1>1, SMT
    <3> QED BY <1>3, <2>2, <3>2, <3>3, <3>4, Zenon
  <2>3. CASE j = T + 2 /\ i = T + 2
    BY <1>1, <1>3, <2>3, SMT
  <2> QED BY <1>1, <2>1, <2>2, <2>3, SMT
<1>9. more[d + 1] = 0
  BY <1>1, <1>3, SMT DEF Laid
<1>10. Laid(tk2, d, more)
  BY <1>7, <1>8, <1>9, Zenon DEF Laid
<1> QED BY <1>3, <1>10 DEF tk2, T, all

\* Nothing of the packet that was taken is sent yet.
LEMMA WrittenOneMore ==
  ASSUME NEW tk \in Seq(Message), NEW d \in 0..Len(tk), NEW pos \in [Nat -> Int],
         NEW more, \A n \in 0..(Len(tk) + 1) : more[n] = pos[n],
         NEW m \in Message, NEW s \in Seq(Byte), Len(s) = pos[Len(tk) + 1],
         NEW c, NEW e, NEW ts, NEW us, \A x \in Message : Marks(e, x, ts) \subseteq Marks(e, x, us),
         Written(c, e, ts, tk, d, pos, s)
  PROVE  Written(c, e, us, Append(tk, m), d, more, s)
<1> DEFINE T == Len(tk)
           tk2 == Append(tk, m)
<1>1. T \in Nat /\ d \in Nat /\ d <= T
  BY LenProperties, SMT
<1>2. tk2 \in Seq(Message) /\ Len(tk2) = T + 1 /\ tk2[T + 1] = m /\ \A i \in 1..T : tk2[i] = tk[i]
  BY AppendProperties
<1> HIDE DEF T, tk2
<1> SUFFICES ASSUME NEW n \in (d + 1)..Len(tk2), NEW i \in 1..Size(tk2[n]),
                    more[n] + i <= Len(s)
             PROVE  ByteFits(c, e, us, tk2[n], n, i, s[more[n] + i])
  BY Zenon DEF Written, tk2
<1>3. n \in 1..Len(tk2) /\ n \in 0..(T + 1)
  BY <1>1, <1>2, SMT
<1>4. tk2[n] \in Message /\ Size(tk2[n]) \in Nat
  BY <1>2, <1>3, MessageLens, Zenon
<1>a. more[n] = pos[n]
  BY <1>3, Zenon DEF T
<1>b. Len(s) = pos[T + 1]
  BY Zenon DEF T
<1>c. i \in Nat /\ i >= 1 /\ pos[n] \in Int
  BY <1>3, <1>4, <1>1, SMT
<1>d. pos[n] + i <= Len(s)
  BY <1>a, Zenon
<1>5. n # T + 1
  <2> SUFFICES ASSUME n = T + 1 PROVE FALSE
    OBVIOUS
  <2>1. pos[n] + i <= pos[n]
    BY <1>b, <1>d, Zenon
  <2> QED BY <1>c, <2>1, Beyond, Zenon
<1>6. n \in (d + 1)..T /\ n \in 1..T
  BY <1>1, <1>2, <1>5, SMT
<1>7. tk2[n] = tk[n]
  BY <1>2, <1>6
<1>8. ByteFits(c, e, ts, tk2[n], n, i, s[more[n] + i])
  BY <1>4, <1>a, <1>6, <1>7, Zenon DEF Written, T
<1> QED BY <1>4, <1>8, Zenon DEF ByteFits

\* The same places, counted from size bytes further on.
Shifted(pos, size, rest) == rest = [n \in Nat |-> pos[n] - size]

LEMMA ShiftedAt ==
  ASSUME NEW pos \in [Nat -> Int], NEW size \in Nat, NEW rest, Shifted(pos, size, rest)
  PROVE  rest \in [Nat -> Int] /\ \A n \in Nat : rest[n] = pos[n] - size /\ pos[n] \in Int
  BY SMT DEF Shifted

\* The first packet has been delivered.
LEMMA FirstLeaves ==
  ASSUME NEW tk \in Seq(Message), NEW T \in Nat, T = Len(tk), NEW d \in Nat, d < T,
         NEW pos \in [Nat -> Int], Laid(tk, d, pos), NEW c, NEW e, NEW ts,
         NEW g \in Seq(Byte), NEW w \in Seq(Byte), Len(g) = Size(tk[d + 1]),
         Written(c, e, ts, tk, d, pos, g \o w), NEW rest, Shifted(pos, Size(tk[d + 1]), rest)
  PROVE  /\ rest \in [Nat -> Int]
         /\ Laid(tk, d + 1, rest)
         /\ Written(c, e, ts, tk, d + 1, rest, w)
<1> DEFINE size == Size(tk[d + 1])
<1>1. /\ d + 1 \in 1..T /\ d + 1 \in (d + 1)..T /\ d + 1 \in Nat /\ d + 2 \in (d + 1)..(T + 1)
      /\ (d + 1) + 1 = d + 2 /\ d + 2 \in Nat
      /\ \A n \in (d + 2)..(T + 1) : n \in (d + 1)..(T + 1) /\ n \in Nat /\ d + 2 <= n
      /\ \A n \in (d + 2)..T : n \in (d + 1)..T /\ n \in (d + 2)..(T + 1) /\ n + 1 \in Nat
                               /\ n \in 1..T
  BY SMT
<1>2. size \in Nat
  BY <1>1, MessageLens, Zenon
<1>3. rest \in [Nat -> Int] /\ \A n \in Nat : rest[n] = pos[n] - size /\ pos[n] \in Int
  BY <1>2, ShiftedAt, Zenon
<1>4. pos[d + 2] = size
  <2>1. pos[(d + 1) + 1] = pos[d + 1] + size /\ pos[d + 1] = 0
    BY <1>1, Zenon DEF Laid
  <2>2. 0 + size = size
    BY <1>2, SMT
  <2> QED BY <1>1, <2>1, <2>2, Zenon
<1> HIDE DEF size
<1>5. rest[d + 2] = 0
  <2>1. size - size = 0
    BY <1>2, SMT
  <2> QED BY <1>1, <1>3, <1>4, <2>1, Zenon
<1>6. \A n \in (d + 2)..T : rest[n + 1] = rest[n] + Size(tk[n])
  <2> SUFFICES ASSUME NEW n \in (d + 2)..T PROVE rest[n + 1] = rest[n] + Size(tk[n])
    BY Zenon
  <2>1. pos[n + 1] = pos[n] + Size(tk[n])
    BY <1>1, Zenon DEF Laid
  <2>2. Size(tk[n]) \in Nat /\ pos[n] \in Int
    BY <1>1, <1>3, MessageLens, Zenon
  <2>3. \A x \in Int, y, z \in Nat : (x + y) - z = (x - z) + y
    BY SMT
  <2>4. rest[n + 1] = (pos[n] + Size(tk[n])) - size
    BY <1>1, <1>3, <2>1, Zenon
  <2>5. rest[n + 1] = (pos[n] - size) + Size(tk[n])
    BY <1>2, <2>2, <2>3, <2>4, Zenon
  <2> QED BY <1>1, <1>3, <2>5, Zenon
<1>7. \A m, n \in (d + 2)..(T + 1) : m <= n => rest[m] <= rest[n]
  <2>1. \A m, n \in (d + 2)..(T + 1) : m <= n => pos[m] <= pos[n]
    BY <1>1, Zenon DEF Laid
  <2>2. \A x, y \in Int : x <= y => x - size <= y - size
    BY <1>2, SMT
  <2> SUFFICES ASSUME NEW m \in (d + 2)..(T + 1), NEW n \in (d + 2)..(T + 1), m <= n
               PROVE  rest[m] <= rest[n]
    BY Zenon
  <2>3. pos[m] \in Int /\ pos[n] \in Int /\ pos[m] <= pos[n]
    BY <1>1, <1>3, <2>1, ZenonT(60)
  <2>4. rest[m] = pos[m] - size /\ rest[n] = pos[n] - size
    BY <1>1, <1>3, ZenonT(60)
  <2> QED BY <2>2, <2>3, <2>4, ZenonT(60)
<1>8. Laid(tk, d + 1, rest)
  BY <1>1, <1>5, <1>6, <1>7, Zenon DEF Laid
<1>9. ASSUME NEW n \in (d + 2)..T, NEW i \in 1..Size(tk[n]), rest[n] + i <= Len(w)
      PROVE  ByteFits(c, e, ts, tk[n], n, i, w[rest[n] + i])
  <2>1. Len(w) \in Nat /\ Len(g) \in Nat /\ rest[n] \in Int /\ pos[n] \in Int
    BY <1>1, <1>3, LenProperties, Zenon
  <2>2. i \in Nat /\ i >= 1
    BY <1>1, MessageLens, Counted, Zenon
  <2>3. 0 <= rest[n]
    <3>1. n \in (d + 2)..(T + 1) /\ d + 2 \in (d + 2)..(T + 1) /\ d + 2 <= n
      BY SMT
    <3> QED BY <1>5, <1>7, <3>1, Zenon
  <2>4. rest[n] + i \in 1..Len(w)
    BY <1>9, <2>1, <2>2, <2>3, Within, Zenon
  <2>5. pos[n] + i = Len(g) + (rest[n] + i)
    <3>1. \A x \in Int, y \in Nat : x + i = y + ((x - y) + i)
      BY <2>2, SMT
    <3>2. rest[n] = pos[n] - Len(g)
      BY <1>1, <1>3, Zenon DEF size
    <3>3. pos[n] + i = Len(g) + ((pos[n] - Len(g)) + i)
      BY <2>1, <3>1, Zenon
    <3> QED BY <3>2, <3>3, Zenon
  <2>6. (g \o w)[pos[n] + i] = w[rest[n] + i]
    <3>1. (g \o w)[Len(g) + (rest[n] + i)] = w[rest[n] + i]
      BY <2>4, ConcatAt, Zenon
    <3> QED BY <2>5, <3>1, Zenon
  <2>7. pos[n] + i <= Len(g \o w)
    <3>1. Len(g \o w) = Len(g) + Len(w)
      BY ConcatProperties, Zenon
    <3>2. \A x \in Int : x <= Len(w) => Len(g) + x <= Len(g) + Len(w)
      BY <2>1, SMT
    <3>3. rest[n] + i \in Int
      BY <2>1, <2>2, SMTT(60)
    <3> QED BY <1>9, <2>5, <3>1, <3>2, <3>3, Zenon
  <2>8. ByteFits(c, e, ts, tk[n], n, i, (g \o w)[pos[n] + i])
    BY <1>1, <2>7, Zenon DEF Written
  <2> QED BY <2>6, <2>8, Zenon
<1>10. Written(c, e, ts, tk, d + 1, rest, w)
  BY <1>1, <1>9, Zenon DEF Written
<1> QED BY <1>3, <1>8, <1>10, Zenon

LEMMA ByteFitsBody ==
  ASSUME NEW c, NEW e, NEW ts, NEW m, NEW n, NEW i, NEW x, ~(i <= HeaderLen),
         ByteFits(c, e, ts, m, n, i, x)
  PROVE  x = (40 * c + 10 * n + (i - HeaderLen)) % 256
  BY SMT DEF ByteFits, ByteOf

\* The mark shows in the last byte of a header only.
LEMMA HeaderStart ==
  ASSUME NEW len, NEW y, NEW z, NEW i \in 1..3
  PROVE  Header(len, y)[i] = Header(len, z)[i]
  BY SMT DEF Header

\* What is received of the first packet.
LEMMA FirstBytes ==
  ASSUME NEW tk \in Seq(Message), NEW T \in Nat, T = Len(tk), NEW d \in Nat, d < T,
         NEW pos \in [Nat -> Int], Laid(tk, d, pos), NEW c, NEW e, NEW ts,
         NEW g \in Seq(Byte), NEW w \in Seq(Byte),
         Written(c, e, ts, tk, d, pos, g \o w)
  PROVE  /\ \A i \in 1..Len(g) : i \in 1..Size(tk[d + 1]) =>
                ByteFits(c, e, ts, tk[d + 1], d + 1, i, g[i])
         /\ 4 <= Len(g) => /\ PackLen(g) = tk[d + 1].len
                           /\ ZippedBit(g) \in Marks(e, tk[d + 1], ts)
<1> DEFINE m == tk[d + 1]
           n == d + 1
<1>1. n \in (d + 1)..T /\ n \in 1..T
  BY SMT
<1>2. m \in Message /\ Size(m) \in Nat /\ Size(m) >= 4
  BY <1>1, MessageLens, Zenon
<1>3. m.len \in Nat /\ m.len <= MaxLen
  BY <1>2, LenType, Zenon
<1>4. Len(g) \in Nat
  BY LenProperties
<1>5. pos[n] = 0
  BY Zenon DEF Laid
<1> HIDE DEF m, n
<1>6. ASSUME NEW i \in 1..Len(g), i \in 1..Size(m)
      PROVE  ByteFits(c, e, ts, m, n, i, g[i])
  <2>1. (g \o w)[i] = g[i] /\ i \in 1..Len(g \o w)
    BY ConcatBefore, Zenon
  <2>2. Len(g \o w) \in Nat
    BY ConcatProperties, LenProperties, Zenon
  <2>3. 0 + i = i /\ i <= Len(g \o w)
    BY <2>1, <2>2, SMT
  <2>4. pos[n] + i = i
    BY <1>5, <2>3, Zenon
  <2>a. tk[n] = m
    BY DEF m, n
  <2>5. ByteFits(c, e, ts, m, n, i, (g \o w)[pos[n] + i])
    BY <1>1, <1>6, <2>3, <2>4, <2>a, Zenon DEF Written
  <2> QED BY <2>1, <2>4, <2>5, Zenon
<1>7. ASSUME 4 <= Len(g)
      PROVE  PackLen(g) = m.len /\ ZippedBit(g) \in Marks(e, m, ts)
  <2>1. \A i \in 1..4 : i \in 1..Len(g) /\ i \in 1..Size(m) /\ i <= HeaderLen
    BY <1>2, <1>4, <1>7, SMT DEF HeaderLen
  <2>2. \A i \in 1..4 : \E z \in Marks(e, m, ts) : g[i] = Header(m.len, z)[i]
    BY <1>6, <2>1, Zenon DEF ByteFits, ByteOf
  <2>3. 4 \in 1..4 /\ \A i \in 1..4 : i = 4 \/ i \in 1..3
    BY SMT
  <2>4. PICK z \in Marks(e, m, ts) : g[4] = Header(m.len, z)[4]
    BY <2>2, <2>3, Zenon
  <2>5. \A i \in 1..4 : g[i] = Header(m.len, z)[i]
    <3> SUFFICES ASSUME NEW i \in 1..4 PROVE g[i] = Header(m.len, z)[i]
      BY Zenon
    <3>1. CASE i = 4
      BY <2>4, <3>1, Zenon
    <3>2. CASE i \in 1..3
      <4>1. PICK y \in Marks(e, m, ts) : g[i] = Header(m.len, y)[i]
        BY <2>2, Zenon
      <4>2. Header(m.len, y)[i] = Header(m.len, z)[i]
        BY <3>2, HeaderStart, SMT
      <4> QED BY <4>1, <4>2, Zenon
    <3> QED BY <2>3, <3>1, <3>2, Zenon
  <2>6. z \in BOOLEAN
    BY Zenon DEF Marks
  <2>7. PackLen(g) = m.len /\ ZippedBit(g) = z
    <3>1. \A len \in Nat : len <= MaxLen /\ (\A i \in 1..4 : g[i] = Header(len, z)[i]) =>
              PackLen(g) = len /\ ZippedBit(g) = z
      BY <2>6, HeaderRoundTrip, SMT
    <3> QED BY <1>3, <2>5, <3>1, Zenon
  <2> QED BY <2>7, Zenon
<1> QED BY <1>6, <1>7, Zenon DEF m, n

-----------------------------------------------------------------------------
(* One direction of a connection whose receiver has not left: s is what the *)
(* receiver has of the packet it reads and what is on the wire, x the       *)
(* sender's end.                                                            *)

Flight(c, e, ts, tk, d, s, x) ==
    /\ d <= Len(tk)
    /\ x.unfinished => d < Len(tk)
    /\ \E pos \in [Nat -> Int] :
           /\ Laid(tk, d, pos)
           /\ Written(c, e, ts, tk, d, pos, s)
           /\ Len(s) <= pos[Len(tk) + 1]
           /\ ~x.closed => Len(s) = IF x.unfinished THEN pos[Len(tk)] + x.bytesSent
                                                    ELSE pos[Len(tk) + 1]

LEMMA WrittenGrows ==
  ASSUME NEW tk \in Seq(Message), NEW d \in Nat, NEW pos, NEW s, NEW c, NEW e, NEW ts, NEW us,
         \A x \in Message : Marks(e, x, ts) \subseteq Marks(e, x, us),
         Written(c, e, ts, tk, d, pos, s)
  PROVE  Written(c, e, us, tk, d, pos, s)
<1>1. \A n \in (d + 1)..Len(tk) : n \in 1..Len(tk)
  BY LenProperties, SMT
<1>2. \A n \in (d + 1)..Len(tk) : tk[n] \in Message
  BY <1>1, MessageLens, Zenon
<1> QED BY <1>2, Zenon DEF Written, ByteFits

\* A new packet is taken, and nothing of it sent yet.
LEMMA FlightTakes ==
  ASSUME NEW tk \in Seq(Message), NEW d \in Nat, NEW s \in Seq(Byte), NEW c, NEW e,
         NEW ts, NEW us, \A x \in Message : Marks(e, x, ts) \subseteq Marks(e, x, us),
         NEW x, ~x.closed, ~x.unfinished, Flight(c, e, ts, tk, d, s, x),
         NEW m \in Message, NEW y, y.unfinished, y.bytesSent = 0
  PROVE  Flight(c, e, us, Append(tk, m), d, s, y)
<1> DEFINE tk2 == Append(tk, m)
           T == Len(tk) + 1
<1>1. PICK pos \in [Nat -> Int] : /\ Laid(tk, d, pos) /\ Written(c, e, ts, tk, d, pos, s)
                                  /\ Len(s) = pos[T]
  BY Zenon DEF Flight
<1>2. Len(tk) \in Nat /\ d <= Len(tk) /\ Size(m) \in Nat
  BY LenProperties, LenType, Zenon DEF Flight, Size
<1>3. d \in 0..Len(tk) /\ T \in Nat /\ d < T /\ d <= T /\ T \in 0..T /\ T + 1 = Len(tk) + 2
  BY <1>2, SMT
<1>4. Len(tk2) = T
  BY AppendProperties
<1> DEFINE more == [pos EXCEPT ![Len(tk) + 2] = pos[Len(tk) + 1] + Size(m)]
<1>5. OneMore(pos, Len(tk), m, more)
  BY Zenon DEF OneMore
<1> HIDE DEF more
<1>6. /\ more \in [Nat -> Int] /\ Laid(tk2, d, more)
      /\ \A n \in 0..T : more[n] = pos[n]
  <2>1. more \in [Nat -> Int]
    BY <1>1, <1>3, <1>5, LaidOneMore, Zenon
  <2>2. Laid(Append(tk, m), d, more)
    BY <1>1, <1>3, <1>5, LaidOneMore, Zenon
  <2>3. AgreeTo(Len(tk), pos, more)
    BY <1>2, <1>5, OneMoreOld, Zenon
  <2> QED BY <2>1, <2>2, <2>3, Zenon DEF AgreeTo
<1>7. more[Len(tk) + 2] = pos[Len(tk) + 1] + Size(m)
  BY <1>2, <1>5, OneMoreNew, Zenon
<1>8. Written(c, e, us, tk2, d, more, s)
  BY <1>1, <1>3, <1>6, WrittenOneMore, Zenon
<1> HIDE DEF tk2
<1>9. more[T] = pos[T] /\ pos[T] \in Int
  BY <1>3, <1>6, Zenon
<1>10. Len(s) <= more[Len(tk2) + 1]
  <2>1. \A i \in Int : i <= i + Size(m)
    BY <1>2, SMT
  <2>2. more[Len(tk2) + 1] = pos[T] + Size(m)
    BY <1>3, <1>4, <1>7, Zenon
  <2> QED BY <1>1, <1>9, <2>1, <2>2, Zenon
<1>11. Len(s) = more[Len(tk2)] + y.bytesSent
  <2>1. \A i \in Int : i = i + 0
    BY SMT
  <2> QED BY <1>1, <1>4, <1>9, <2>1, Zenon
<1>12. d <= Len(tk2) /\ d < Len(tk2)
  BY <1>3, <1>4, Zenon
<1> QED BY <1>6, <1>8, <1>10, <1>11, <1>12, Zenon DEF Flight, tk2

\* t is what goes out of packet m when sent bytes are out and now are to be.
Sends(c, m, n, z, sent, now, t) ==
    /\ sent <= now /\ now <= Size(m) /\ Len(t) = now - sent
    /\ \A i \in 1..Len(t) : t[i] = ByteOf(c, m, n, z, sent + i)

\* The last packet goes on with the bytes t.
LEMMA FlightContinues ==
  ASSUME NEW tk \in Seq(Message), NEW d \in Nat, NEW s \in Seq(Byte), NEW c, NEW e, NEW ts,
         NEW x, ~x.closed, x.unfinished, Flight(c, e, ts, tk, d, s, x), x.bytesSent \in Nat,
         NEW now \in Nat, NEW z \in Marks(e, tk[Len(tk)], ts), NEW t \in Seq(Byte),
         Sends(c, tk[Len(tk)], Len(tk), z, x.bytesSent, now, t),
         NEW y, y.bytesSent = now, y.unfinished = (now < Size(tk[Len(tk)]))
  PROVE  Flight(c, e, ts, tk, d, s \o t, y)
<1> DEFINE T == Len(tk)
           from == x.bytesSent
           st == s \o t
           all == Size(tk[T])
<1>a. PICK pos \in [Nat -> Int] : /\ Laid(tk, d, pos) /\ Written(c, e, ts, tk, d, pos, s)
                                  /\ Len(s) = pos[T] + from
  BY Zenon DEF Flight
<1>b. T \in Nat /\ d < T
  BY LenProperties, Zenon DEF Flight
<1>c. from \in Nat /\ from <= now /\ now <= all /\ Len(t) = now - from /\ z \in Marks(e, tk[T], ts)
      /\ \A i \in 1..Len(t) : t[i] = ByteOf(c, tk[T], T, z, from + i)
  BY Zenon DEF Sends
<1>d. y.bytesSent = now /\ y.unfinished = (now < all)
  OBVIOUS
<1>e. Len(st) = Len(s) + Len(t) /\ T = Len(tk)
  BY ConcatProperties
<1> HIDE DEF T, from, st, all
<1>1. T \in 1..T /\ T \in (d + 1)..T
  BY <1>b, LastIn, Zenon
<1>2. Len(s) \in Nat /\ Len(t) \in Nat /\ pos[T] \in Int
  BY <1>b, LenProperties
<1>f. all \in Nat
  BY <1>1, <1>e, MessageLens, Zenon DEF all
<1>3. /\ Len(st) = Len(s) + Len(t)
      /\ \A i \in 1..(Len(s) + Len(t)) : st[i] = IF i <= Len(s) THEN s[i] ELSE t[i - Len(s)]
  BY ConcatProperties, Zenon DEF st
<1>4. Len(st) = pos[T] + now
  <2>1. \A i, ls, lt \in Int : ls = i + from /\ lt = now - from => ls + lt = i + now
    BY <1>c, SMT
  <2>2. Len(s) \in Int /\ Len(t) \in Int
    BY <1>2, SMT
  <2> QED BY <1>a, <1>2, <1>3, <1>c, <2>1, <2>2, Zenon
<1>5. Len(s) + Len(t) \in Nat
  BY <1>2, SumOf, Zenon
<1>6. ASSUME NEW n \in (d + 1)..T, NEW i \in 1..Size(tk[n]), pos[n] + i <= Len(st)
      PROVE  ByteFits(c, e, ts, tk[n], n, i, st[pos[n] + i])
  <2>1. n \in 1..T /\ n \in Nat /\ n + 1 \in (d + 1)..(T + 1) /\ n \in (d + 1)..(T + 1)
        /\ d + 1 \in (d + 1)..(T + 1) /\ T \in (d + 1)..(T + 1) /\ d + 1 <= n
        /\ (n # T => n + 1 <= T)
    BY <1>b, NextIn, Zenon
  <2>2. Size(tk[n]) \in Nat /\ pos[n] \in Int
    BY <1>e, <2>1, MessageLens, Zenon
  <2>3. i \in Nat /\ i >= 1
    BY <2>2, Counted, Zenon
  <2>4. 0 <= pos[n]
    BY <1>a, <1>e, <2>1, Zenon DEF Laid
  <2>5. pos[n] + i \in 1..(Len(s) + Len(t))
    BY <1>3, <1>5, <1>6, <2>2, <2>3, <2>4, Within, Zenon
  <2>6. CASE pos[n] + i <= Len(s)
    <3>1. st[pos[n] + i] = s[pos[n] + i]
      BY <1>3, <2>5, <2>6, Zenon
    <3> QED BY <1>a, <1>e, <2>6, <3>1, Zenon DEF Written
  <2>7. CASE ~(pos[n] + i <= Len(s))
    <3>1. n = T
      <4> SUFFICES ASSUME n # T PROVE FALSE
        OBVIOUS
      <4>1. n + 1 <= T
        BY <2>1, Zenon
      <4>2. pos[n] + Size(tk[n]) <= pos[T]
        BY <1>a, <1>e, <2>1, <4>1, Zenon DEF Laid
      <4>3. pos[n] + i <= pos[T] + from
        BY <1>2, <1>c, <2>2, <4>2, Earlier, Zenon
      <4> QED BY <1>a, <2>7, <4>3, Zenon
    <3>2. Len(s) = pos[n] + from /\ pos[n] + i <= pos[n] + now
      BY <1>a, <1>4, <1>6, <3>1, Zenon
    <3>3. ~(pos[n] + i <= pos[n] + from)
      BY <2>7, <3>2, Zenon
    <3> DEFINE j == i - from
    <3>4. j \in 1..(now - from) /\ i = from + j /\ pos[n] + i = (pos[n] + from) + j
      <4>1. pos[n] \in Int /\ i \in Nat /\ from \in Nat /\ now \in Nat
        BY <1>c, <2>2, <2>3, Zenon
      <4> QED BY <3>2, <3>3, <4>1, Later, ZenonT(60)
    <3> HIDE DEF j
    <3>5. j \in 1..Len(t) /\ pos[n] + i = Len(s) + j
      BY <1>c, <3>2, <3>4, Zenon
    <3>6. st[Len(s) + j] = t[j]
      BY <3>5, ConcatAt, Zenon DEF st
    <3>7. st[pos[n] + i] = t[j]
      BY <3>5, <3>6, Zenon
    <3>8. t[j] = ByteOf(c, tk[T], T, z, i)
      BY <1>c, <3>4, <3>5, Zenon
    <3> QED BY <1>c, <3>1, <3>7, <3>8, Zenon DEF ByteFits
  <2> QED BY <2>6, <2>7, Zenon
<1>7. Written(c, e, ts, tk, d, pos, st)
  BY <1>6, <1>e, Zenon DEF Written
<1>8. pos[T + 1] = pos[T] + all
  BY <1>1, <1>a, <1>e, Zenon DEF Laid, all
<1>9. Len(st) <= pos[T + 1]
  <2>1. \A i \in Int : i + now <= i + all
    BY <1>c, <1>f, SMT
  <2> QED BY <1>2, <1>4, <1>8, <2>1, Zenon
<1>10. Len(st) = IF y.unfinished THEN pos[T] + y.bytesSent ELSE pos[T + 1]
  <2>1. CASE now < all
    BY <1>4, <1>d, <2>1, Zenon
  <2>2. CASE ~(now < all)
    <3>1. now = all
      BY <1>c, <1>f, <2>2, SMT
    <3> QED BY <1>4, <1>8, <1>d, <2>2, <3>1, Zenon
  <2> QED BY <2>1, <2>2, Zenon
<1>11. d <= T
  BY <1>b, SMT
<1> QED BY <1>7, <1>9, <1>10, <1>11, <1>a, <1>b, <1>e, Zenon DEF Flight, st

\* The other direction's packets, or an end that leaves, change nothing.
LEMMA FlightGrows ==
  ASSUME NEW tk \in Seq(Message), NEW d \in Nat, NEW s, NEW c, NEW e, NEW x, NEW y,
         NEW ts, NEW us, \A m \in Message : Marks(e, m, ts) \subseteq Marks(e, m, us),
         Flight(c, e, ts, tk, d, s, x),
         \/ y.closed /\ ~y.unfinished
         \/ y.closed = x.closed /\ y.unfinished = x.unfinished /\ y.bytesSent = x.bytesSent
  PROVE  Flight(c, e, us, tk, d, s, y)
<1>1. PICK pos \in [Nat -> Int] :
          /\ Laid(tk, d, pos) /\ Written(c, e, ts, tk, d, pos, s)
          /\ Len(s) <= pos[Len(tk) + 1]
          /\ ~x.closed => Len(s) = IF x.unfinished THEN pos[Len(tk)] + x.bytesSent
                                                   ELSE pos[Len(tk) + 1]
  BY Zenon DEF Flight
<1>2. Written(c, e, us, tk, d, pos, s)
  BY <1>1, WrittenGrows, Zenon
<1>3. ~y.closed => Len(s) = IF y.unfinished THEN pos[Len(tk)] + y.bytesSent
                                            ELSE pos[Len(tk) + 1]
  BY <1>1, Zenon
<1>4. d <= Len(tk) /\ (y.unfinished => d < Len(tk))
  BY Zenon DEF Flight
<1> QED BY <1>1, <1>2, <1>3, <1>4, Zenon DEF Flight

\* A connection begins with nothing in flight.
LEMMA FlightBegins ==
  ASSUME NEW c, NEW e, NEW ts, NEW x, ~x.unfinished
  PROVE  Flight(c, e, ts, <<>>, 0, <<>>, x)
<1> DEFINE pos == [n \in Nat |-> 0]
<1>1. pos \in [Nat -> Int] /\ pos[1] = 0 /\ 0 + 1 = 1 /\ \A n \in Nat : pos[n] = 0
  BY SMT
<1>2. Len(<<>>) = 0
  OBVIOUS
<1>3. ~\E n \in (0 + 1)..0 : TRUE
  BY SMT
<1>4. \A n \in (0 + 1)..(0 + 1) : n \in Nat
  BY SMT
<1>5. 0 <= 0
  OBVIOUS
<1> HIDE DEF pos
<1>6. Laid(<<>>, 0, pos)
  BY <1>1, <1>2, <1>3, <1>4, <1>5, Zenon DEF Laid
<1>7. Written(c, e, ts, <<>>, 0, pos, <<>>)
  BY <1>2, <1>3, Zenon DEF Written
<1> QED BY <1>1, <1>2, <1>5, <1>6, <1>7, Zenon DEF Flight

\* The receiver has g of what is in flight: it begins as packet d + 1 does.
LEMMA FlightArrives ==
  ASSUME NEW tk \in Seq(Message), NEW d \in Nat, NEW c, NEW e, NEW ts, NEW x,
         NEW g \in Seq(Byte), NEW w \in Seq(Byte), g # <<>>,
         Flight(c, e, ts, tk, d, g \o w, x)
  PROVE  /\ d < Len(tk)
         /\ \A i \in 1..Len(g) : i \in 1..Size(tk[d + 1]) =>
                ByteFits(c, e, ts, tk[d + 1], d + 1, i, g[i])
         /\ 4 <= Len(g) => /\ PackLen(g) = tk[d + 1].len
                           /\ ZippedBit(g) \in Marks(e, tk[d + 1], ts)
<1>1. PICK pos \in [Nat -> Int] :
          /\ Laid(tk, d, pos) /\ Written(c, e, ts, tk, d, pos, g \o w)
          /\ Len(g \o w) <= pos[Len(tk) + 1]
  BY Zenon DEF Flight
<1>2. Len(g) \in Nat /\ Len(w) \in Nat /\ Len(tk) \in Nat /\ Len(g) # 0
  BY LenProperties, EmptySeq
<1>3. Len(g \o w) = Len(g) + Len(w)
  BY ConcatProperties, Zenon
<1>4. ~(Len(g) + Len(w) <= 0)
  BY <1>2, SMT
<1>5. d < Len(tk)
  <2>1. d # Len(tk)
    BY <1>1, <1>3, <1>4, Zenon DEF Laid
  <2>2. d <= Len(tk)
    BY Zenon DEF Flight
  <2> QED BY <1>2, <2>1, <2>2, SMT
<1> QED BY <1>1, <1>2, <1>5, FirstBytes, Zenon

\* The first packet is delivered.
LEMMA FlightDelivers ==
  ASSUME NEW tk \in Seq(Message), NEW d \in Nat, NEW c, NEW e, NEW ts, NEW x,
         NEW g \in Seq(Byte), NEW w \in Seq(Byte), d < Len(tk), Len(g) = Size(tk[d + 1]),
         Flight(c, e, ts, tk, d, g \o w, x),
         x.unfinished => ~x.closed /\ x.bytesSent \in Nat /\ x.bytesSent < Size(tk[Len(tk)])
  PROVE  Flight(c, e, ts, tk, d + 1, w, x)
<1> DEFINE T == Len(tk)
           size == Size(tk[d + 1])
<1>1. PICK pos \in [Nat -> Int] :
          /\ Laid(tk, d, pos) /\ Written(c, e, ts, tk, d, pos, g \o w)
          /\ Len(g \o w) <= pos[T + 1]
          /\ ~x.closed => Len(g \o w) = IF x.unfinished THEN pos[T] + x.bytesSent ELSE pos[T + 1]
  BY Zenon DEF Flight
<1> DEFINE rest == [n \in Nat |-> pos[n] - size]
<1>2. Shifted(pos, size, rest)
  BY Zenon DEF Shifted
<1> HIDE DEF rest
<1>3. T \in Nat /\ Len(g) \in Nat /\ Len(w) \in Nat /\ Len(g) = size
  BY LenProperties
<1>a. size \in Nat
  BY <1>3, Zenon
<1>4. rest \in [Nat -> Int] /\ Laid(tk, d + 1, rest) /\ Written(c, e, ts, tk, d + 1, rest, w)
  BY <1>1, <1>2, <1>3, <1>a, FirstLeaves, Zenon
<1>5. \A n \in Nat : rest[n] = pos[n] - size /\ pos[n] \in Int
  BY <1>2, <1>a, ShiftedAt, Zenon
<1>6. Len(g \o w) = size + Len(w)
  BY <1>3, ConcatProperties, Zenon
<1>7. T + 1 \in Nat /\ d + 1 <= T /\ size \in Int /\ Len(w) \in Int
  BY <1>3, <1>a, SMT
<1> HIDE DEF T, size
<1>8. Len(w) <= rest[T + 1]
  <2>1. \A i, j, k \in Int : i + j <= k => j <= k - i
    BY SMT
  <2> QED BY <1>1, <1>5, <1>6, <1>7, <2>1, Zenon
<1>9. ASSUME ~x.closed
      PROVE  Len(w) = IF x.unfinished THEN rest[T] + x.bytesSent ELSE rest[T + 1]
  <2>1. CASE x.unfinished
    <3>1. size + Len(w) = pos[T] + x.bytesSent /\ x.bytesSent \in Int
      BY <1>1, <1>6, <1>9, <2>1, SMTT(60)
    <3>2. pos[T] \in Int
      BY <1>3, <1>5, Zenon
    <3>3. \A i, j, k \in Int : i + j = k => j = k - i
      BY SMT
    <3>4. \A i, j \in Int : i + j \in Int /\ (i + j) - size = (i - size) + j
      BY <1>7, SMT
    <3>5. Len(w) = (pos[T] + x.bytesSent) - size
      <4>1. pos[T] + x.bytesSent \in Int
        BY <3>1, <3>2, <3>4, Zenon
      <4> QED BY <1>7, <3>1, <3>3, <4>1, Zenon
    <3>6. Len(w) = (pos[T] - size) + x.bytesSent
      BY <3>1, <3>2, <3>4, <3>5, Zenon
    <3> QED BY <1>3, <1>5, <2>1, <3>6, Zenon
  <2>2. CASE ~x.unfinished
    <3>1. size + Len(w) = pos[T + 1]
      BY <1>1, <1>6, <1>9, <2>2, Zenon
    <3>2. \A i, j, k \in Int : i + j = k => j = k - i
      BY SMT
    <3>3. pos[T + 1] \in Int /\ rest[T + 1] = pos[T + 1] - size
      BY <1>5, <1>7, Zenon
    <3>4. Len(w) = pos[T + 1] - size
      BY <1>7, <3>1, <3>2, <3>3, Zenon
    <3> QED BY <2>2, <3>3, <3>4, Zenon
  <2> QED BY <2>1, <2>2, Zenon
<1>10. ASSUME x.unfinished PROVE d + 1 < T
  <2> SUFFICES ASSUME d + 1 = T PROVE FALSE
    BY <1>7, <1>3, SMT
  <2>1. size + Len(w) = pos[T] + x.bytesSent /\ pos[T] = 0
    BY <1>1, <1>6, <1>10, Zenon DEF Laid
  <2>2. size = Size(tk[T]) /\ T = Len(tk)
    BY Zenon DEF size, T
  <2>3. x.bytesSent < size /\ x.bytesSent \in Nat
    BY <1>10, <2>2, Zenon
  <2>4. \A i \in Nat : i < size => ~(size + Len(w) = 0 + i)
    BY <1>3, SMT
  <2> QED BY <2>1, <2>3, <2>4, Zenon
<1> QED BY <1>1, <1>4, <1>7, <1>8, <1>9, <1>10, Zenon DEF Flight, T

-----------------------------------------------------------------------------
(* What send_packet puts on the wire.                                       *)

LEMMA ImageBytes ==
  ASSUME conn \in Nat, NEW m \in Message, NEW n \in Nat, NEW z \in BOOLEAN,
         NEW i \in 1..Size(m)
  PROVE  /\ Image(m, n, z)[i] = ByteOf(conn, m, n, z, i)
         /\ Image(m, n, z)[i] \in Byte
<1>1. m.len \in Nat /\ m.len <= MaxLen /\ Size(m) \in Nat
  BY LenType, Zenon DEF Size
<1>2. Image(m, n, z)[i] = ByteOf(conn, m, n, z, i)
  BY SMT DEF Image, ByteOf, BodyByte, Size
<1>3. i \in Nat /\ i >= 1
  BY <1>1, Counted, Zenon
<1>4. ByteOf(conn, m, n, z, i) \in Byte
  <2>1. CASE i <= HeaderLen
    <3>1. Header(m.len, z) \in Seq(Byte) /\ Len(Header(m.len, z)) = 4
      BY <1>1, HeaderType, Zenon
    <3>2. i \in 1..4
      BY <1>3, <2>1, SMT DEF HeaderLen
    <3>3. i \in 1..Len(Header(m.len, z))
      BY <3>1, <3>2, Zenon
    <3>4. Header(m.len, z)[i] \in Byte
      BY <3>1, <3>3, ElementOfSeq, Zenon
    <3> QED BY <2>1, <3>4, Zenon DEF ByteOf
  <2>2. CASE ~(i <= HeaderLen)
    <3>1. 40 * conn + 10 * n + (i - HeaderLen) \in Int
      BY <1>3, SMT DEF HeaderLen
    <3>2. \A x \in Int : x % 256 \in Byte
      BY SMTT(30) DEF Byte
    <3>3. (40 * conn + 10 * n + (i - HeaderLen)) % 256 \in Byte
      BY <3>1, <3>2, SMT
    <3> QED BY <2>2, <3>3, SMT DEF ByteOf
  <2> QED BY <2>1, <2>2, Zenon
<1> QED BY <1>2, <1>4, Zenon

Part(m, n, z, sent, now, t) == t = SubSeq(Image(m, n, z), sent + 1, now)

LEMMA SentBytes ==
  ASSUME conn \in Nat, NEW m \in Message, NEW n \in Nat, NEW z \in BOOLEAN,
         NEW sent \in Nat, NEW now \in Nat, sent <= now, now <= Size(m),
         NEW t, Part(m, n, z, sent, now, t)
  PROVE  t \in Seq(Byte) /\ Sends(conn, m, n, z, sent, now, t)
<1>1. Size(m) \in Nat
  BY LenType, Zenon DEF Size
<1>2. \A j \in (sent + 1)..now : j \in 1..Size(m)
  BY <1>1, SMT
<1>3. \A j \in (sent + 1)..now : Image(m, n, z)[j] \in Byte
  BY <1>2, ImageBytes, Zenon
<1>4. sent + 1 \in Int /\ now \in Int
  BY SMT
<1>5. /\ t \in Seq(Byte)
      /\ Len(t) = IF sent + 1 <= now THEN now - (sent + 1) + 1 ELSE 0
      /\ \A i \in 1..(now - (sent + 1) + 1) : t[i] = Image(m, n, z)[(sent + 1) + i - 1]
  <2> DEFINE all == Image(m, n, z)
  <2>1. t = SubSeq(all, sent + 1, now) /\ \A j \in (sent + 1)..now : all[j] \in Byte
    BY <1>3, Zenon DEF Part
  <2> HIDE DEF all
  <2>2. /\ SubSeq(all, sent + 1, now) \in Seq(Byte)
        /\ Len(SubSeq(all, sent + 1, now)) = IF sent + 1 <= now THEN now - (sent + 1) + 1 ELSE 0
    BY <1>4, <2>1, SubSeqProperties
  <2>3. \A i \in 1..(now - (sent + 1) + 1) : SubSeq(all, sent + 1, now)[i] = all[(sent + 1) + i - 1]
    BY <1>4, <2>1, SubSeqProperties
  <2> QED BY <2>1, <2>2, <2>3, Zenon DEF all
<1>6. now - (sent + 1) + 1 = now - sent
  BY SMT
<1>7. Len(t) = now - sent
  BY <1>5, SMT
<1>8. ASSUME NEW i \in 1..Len(t) PROVE t[i] = ByteOf(conn, m, n, z, sent + i)
  <2>1. i \in 1..(now - (sent + 1) + 1)
    BY <1>6, <1>7, Zenon
  <2>2. (sent + 1) + i - 1 = sent + i /\ sent + i \in (sent + 1)..now
    BY <1>6, <2>1, SMT
  <2>3. t[i] = Image(m, n, z)[sent + i]
    BY <1>5, <2>1, <2>2, SMT
  <2> QED BY <1>2, <2>2, <2>3, ImageBytes, Zenon
<1> QED BY <1>5, <1>7, <1>8, Zenon DEF Sends

-----------------------------------------------------------------------------
(* The invariant.                                                           *)

Stream(e) == end[Other(e)].got \o wire[e]

ClosedEnd == [NewEnd EXCEPT !.closed = TRUE]

\* What an end remembers.
EndInv(e) ==
    /\ end[e].closed => end[e] = ClosedEnd
    /\ end[e].rcvState = "IO_START" => end[e].got = <<>>
    /\ end[e].unfinished => /\ Len(taken[e]) # 0
                            /\ end[e].bytesSent < Size(taken[e][Len(taken[e])])

\* What is in flight to an end that has not left.
Direction(e) ==
    ~end[Other(e)].closed =>
        Flight(conn, e, taken["server"], taken[e], Len(delivered[e]), Stream(e), end[e])

ProtoInv ==
    /\ TypeOK
    /\ \A e \in Ends : EndInv(e) /\ Direction(e)
    /\ end["client"].zipflag => Link!Announced

LEMMA Types ==
  ASSUME TypeOK, NEW e \in Ends
  PROVE  /\ end[e] \in End /\ wire[e] \in Seq(Byte) /\ taken[e] \in Seq(Message)
         /\ delivered[e] \in Seq(Message) /\ Len(delivered[e]) \in Nat
         /\ end[e].closed \in BOOLEAN /\ end[e].unfinished \in BOOLEAN
         /\ end[e].bytesSent \in Nat /\ end[e].got \in Seq(Byte) /\ end[e].zipflag \in BOOLEAN
         /\ Len(wire[e]) <= SndBuf /\ Len(wire[e]) \in Nat /\ conn \in Nat
<1>1. end[e] \in End /\ wire[e] \in Seq(Byte) /\ taken[e] \in Seq(Message)
      /\ delivered[e] \in Seq(Message) /\ Len(wire[e]) <= SndBuf
  BY Zenon DEF TypeOK, Byte
<1>2. /\ end[e].closed \in BOOLEAN /\ end[e].unfinished \in BOOLEAN
      /\ end[e].bytesSent \in Nat /\ end[e].got \in Seq(Byte) /\ end[e].zipflag \in BOOLEAN
  BY <1>1, Zenon DEF End, Byte
<1>3. Len(delivered[e]) \in Nat /\ Len(wire[e]) \in Nat
  BY <1>1, LenProperties
<1>4. conn \in Nat
  BY FramingAssumption, SMT DEF TypeOK
<1> QED BY <1>1, <1>2, <1>3, <1>4, Zenon

\* What end e puts on the wire, and what it remembers.
Puts(e, now, t, size) ==
    /\ wire' = [wire EXCEPT ![e] = wire[e] \o t]
    /\ Len(wire[e] \o t) <= SndBuf
    /\ end' = [end EXCEPT ![e].bytesSent = now, ![e].unfinished = (now < size)]

LEMMA SendEffect ==
  ASSUME TypeOK, NEW e \in Ends, NEW m \in Message, NEW n \in Nat, NEW z \in BOOLEAN,
         NEW sent \in Nat, sent <= Size(m), SendPacket(e, m, n, sent, z)
  PROVE  \E now \in Nat, t \in Seq(Byte) :
             Sends(conn, m, n, z, sent, now, t) /\ Puts(e, now, t, Size(m))
<1> DEFINE now == Lesser(sent + Room(e), HeaderLen + m.len)
           t == SubSeq(Image(m, n, z), sent + 1, now)
<1>1. /\ wire' = [wire EXCEPT ![e] = wire[e] \o t]
      /\ end' = [end EXCEPT ![e].bytesSent = now, ![e].unfinished = (now < Size(m))]
  BY Zenon DEF SendPacket, Size
<1>2. Room(e) \in Nat /\ conn \in Nat
  <2>1. Len(wire[e]) \in Nat /\ Len(wire[e]) <= SndBuf /\ SndBuf \in Nat /\ conn \in Nat
    BY Types, FramingAssumption, Zenon
  <2> QED BY <2>1, SMT DEF Room
<1>3. Size(m) \in Nat /\ HeaderLen + m.len = Size(m)
  BY LenType, Zenon DEF Size
<1>4. now \in Nat /\ sent <= now /\ now <= Size(m) /\ now - sent <= Room(e)
  BY <1>2, <1>3, SMT DEF Lesser
<1>5. Part(m, n, z, sent, now, t)
  BY Zenon DEF Part
<1> HIDE DEF now, t
<1>6. t \in Seq(Byte) /\ Sends(conn, m, n, z, sent, now, t)
  BY <1>2, <1>4, <1>5, SentBytes
<1>7. Len(wire[e] \o t) <= SndBuf
  <2>1. wire[e] \in Seq(Byte) /\ Len(wire[e]) \in Nat
    BY Types, Zenon
  <2>2. Len(wire[e] \o t) = Len(wire[e]) + Len(t)
    BY <1>6, <2>1, ConcatProperties, Zenon
  <2>3. SndBuf \in Nat
    BY FramingAssumption, SMT
  <2>4. Len(t) <= Room(e) /\ Len(t) \in Nat
    BY <1>4, <1>6, LenProperties, Zenon DEF Sends
  <2> QED BY <2>1, <2>2, <2>3, <2>4, SMT DEF Room
<1> QED BY <1>1, <1>4, <1>6, <1>7, Zenon DEF Puts

\* What the other end took and what it may mark does not get less.
LEMMA AnnouncedGrows ==
  ASSUME TypeOK, NEW e \in Ends, NEW m \in Message,
         taken' = [taken EXCEPT ![e] = Append(taken[e], m)]
  PROVE  /\ taken' \in [Ends -> Seq(Message)] /\ taken'[e] = Append(taken[e], m)
         /\ taken'[Other(e)] = taken[Other(e)]
         /\ \A d, x : Marks(d, x, taken["server"]) \subseteq Marks(d, x, taken'["server"])
         /\ Link!Announced => Link!Announced'
<1>1. taken \in [Ends -> Seq(Message)] /\ taken[e] \in Seq(Message)
  BY Types, Zenon DEF TypeOK
<1>2. Append(taken[e], m) \in Seq(Message)
  BY <1>1, AppendProperties, Zenon
<1>3. "server" \in Ends
  BY EndsAre, Zenon
<1>4. Other(e) \in Ends /\ Other(e) # e
  BY EndsAre, Zenon
<1>5. /\ taken' \in [Ends -> Seq(Message)] /\ taken'[e] = Append(taken[e], m)
      /\ taken'[Other(e)] = taken[Other(e)]
  BY <1>1, <1>2, <1>4, Zenon
<1>6. CASE e = "server"
  <2>1. taken'["server"] = Append(taken["server"], m) /\ taken["server"] \in Seq(Message)
    BY <1>1, <1>5, <1>6, Zenon
  <2>2. \A d, x : Marks(d, x, taken["server"]) \subseteq Marks(d, x, taken'["server"])
    BY <2>1, MarksGrow, Zenon
  <2>3. /\ Len(Append(taken["server"], m)) = Len(taken["server"]) + 1 /\ Len(taken["server"]) \in Nat
        /\ \A i \in 1..Len(taken["server"]) : Append(taken["server"], m)[i] = taken["server"][i]
    BY <2>1, AppendProperties, LenProperties
  <2>4. \A i \in 1..Len(taken["server"]) : i \in 1..Len(taken'["server"])
                                           /\ taken'["server"][i] = taken["server"][i]
    BY <2>1, <2>3, SMT
  <2>5. Link!Announced => Link!Announced'
    BY <2>4, Zenon DEF Link!Announced
  <2> QED BY <1>5, <2>2, <2>5, Zenon
<1>7. CASE e # "server"
  <2>1. taken'["server"] = taken["server"]
    BY <1>1, <1>3, <1>7, Zenon
  <2>2. Link!Announced => Link!Announced'
    BY <2>1, Zenon DEF Link!Announced
  <2> QED BY <1>5, <2>1, <2>2, Zenon
<1> QED BY <1>6, <1>7, Zenon

\* A step of end e that leaves its receiving side as it is.
LEMMA SendShape ==
  ASSUME TypeOK, NEW e \in Ends, NEW now \in Nat, NEW t \in Seq(Byte), NEW size \in Nat,
         Puts(e, now, t, size)
  PROVE  /\ end' \in [Ends -> End] /\ end'[Other(e)] = end[Other(e)]
         /\ wire' \in [Ends -> Seq(Byte)] /\ wire'[e] = wire[e] \o t
         /\ wire'[Other(e)] = wire[Other(e)] /\ \A d \in Ends : Len(wire'[d]) <= SndBuf
         /\ end'[e].bytesSent = now /\ end'[e].unfinished = (now < size)
         /\ end'[e].closed = end[e].closed
         /\ end'[e].got = end[e].got /\ end'[e].rcvState = end[e].rcvState
         /\ end'[e].zipflag = end[e].zipflag
<1> DEFINE u == now < size
<1>0. /\ wire' = [wire EXCEPT ![e] = wire[e] \o t] /\ Len(wire[e] \o t) <= SndBuf
      /\ end' = [end EXCEPT ![e].bytesSent = now, ![e].unfinished = u]
  BY Zenon DEF Puts
<1>a. u \in BOOLEAN
  BY SMT
<1> HIDE DEF u
<1>1. end \in [Ends -> End] /\ wire \in [Ends -> Seq(Byte)] /\ wire[e] \in Seq(Byte)
  BY Types, Zenon DEF TypeOK, Byte
<1>2. Other(e) \in Ends /\ Other(e) # e /\ \A d \in Ends : d = e \/ d = Other(e)
  BY EndsAre, Zenon
<1>3. wire[e] \o t \in Seq(Byte)
  BY <1>1, ConcatProperties, Zenon
<1>4. /\ wire' \in [Ends -> Seq(Byte)] /\ wire'[e] = wire[e] \o t
      /\ \A d \in Ends : d # e => wire'[d] = wire[d]
  BY <1>0, <1>1, <1>3, Zenon
<1>5. \A d \in Ends : Len(wire'[d]) <= SndBuf
  BY <1>0, <1>2, <1>4, Types, Zenon
<1>6. end' = [end EXCEPT ![e] = [end[e] EXCEPT !.bytesSent = now, !.unfinished = u]]
  BY <1>0, <1>1, Zenon
<1> DEFINE x == [end[e] EXCEPT !.bytesSent = now, !.unfinished = u]
<1>7. end[e] \in End
  BY <1>1, Zenon
<1>8. /\ x \in End /\ x.bytesSent = now /\ x.unfinished = u /\ x.closed = end[e].closed
      /\ x.got = end[e].got /\ x.rcvState = end[e].rcvState /\ x.zipflag = end[e].zipflag
  BY <1>a, <1>7, Zenon DEF End
<1>9. end'[e] = x /\ end' \in [Ends -> End] /\ end'[Other(e)] = end[Other(e)]
  BY <1>1, <1>2, <1>6, <1>8, Zenon
<1> QED BY <1>2, <1>4, <1>5, <1>8, <1>9, Zenon DEF u

LEMMA Regroup ==
  ASSUME NEW a \in Seq(Byte), NEW b \in Seq(Byte), NEW c \in Seq(Byte)
  PROVE  (a \o b) \o c = a \o (b \o c) /\ a \o b \in Seq(Byte)
  BY ConcatAssociative, ConcatProperties, SMTT(60)

\* The bytes t of a packet are put on the wire behind what is in flight.
LEMMA StreamAppends ==
  ASSUME TypeOK, NEW e \in Ends, NEW t \in Seq(Byte)
  PROVE  Stream(e) \in Seq(Byte)
         /\ end[Other(e)].got \o (wire[e] \o t) = Stream(e) \o t
<1>1. Other(e) \in Ends
  BY EndsAre, Zenon
<1>2. end[Other(e)].got \in Seq(Byte) /\ wire[e] \in Seq(Byte)
  BY <1>1, Types, Zenon
<1> QED BY <1>2, Regroup, ZenonT(60) DEF Stream

LEMMA InvAtStart ==
  ASSUME ProtoInv, NEW e \in Ends, SendStart(e)
  PROVE  ProtoInv'
<1> DEFINE f == Other(e)
           tk == taken[e]
           d == Len(delivered[e])
<1>1. PICK m \in Message : /\ taken' = [taken EXCEPT ![e] = Append(taken[e], m)]
                           /\ SendPacket(e, m, Len(taken[e]) + 1, 0, MarkOf(e, m))
  BY Zenon DEF SendStart
<1>2. /\ ~end[e].closed /\ ~end[e].unfinished /\ conn' = conn /\ delivered' = delivered
      /\ TypeOK /\ EndInv(e) /\ EndInv(f) /\ Direction(e) /\ Direction(f)
      /\ f \in Ends /\ f # e /\ Other(f) = e /\ (\A x \in Ends : x = e \/ x = f)
  BY EndsAre, Zenon DEF SendStart, ProtoInv
<1>3. /\ taken' \in [Ends -> Seq(Message)] /\ taken'[e] = Append(tk, m) /\ taken'[f] = taken[f]
      /\ \A x, y : Marks(x, y, taken["server"]) \subseteq Marks(x, y, taken'["server"])
      /\ Link!Announced => Link!Announced'
  BY <1>1, <1>2, AnnouncedGrows, Zenon
<1>4. /\ tk \in Seq(Message) /\ Len(tk) \in Nat /\ d \in Nat /\ m.zipped \in BOOLEAN
      /\ Size(m) \in Nat /\ 0 <= Size(m) /\ Len(tk) + 1 \in Nat /\ Len(tk) + 1 # 0
  <2>1. tk \in Seq(Message) /\ d \in Nat
    BY <1>2, Types, Zenon
  <2>2. Size(m) \in Nat /\ m.zipped \in BOOLEAN
    BY LenType, Zenon DEF Size
  <2>3. Len(tk) \in Nat
    BY <2>1, LenProperties
  <2> QED BY <2>1, <2>2, <2>3, SMT
<1>5. MarkOf(e, m) \in Marks(e, m, taken'["server"]) /\ MarkOf(e, m) \in BOOLEAN
  <2>1. MarkOf(e, m) \in BOOLEAN
    BY Zenon DEF MarkOf
  <2>2. MarkOf(e, m) => m.zipped /\ (e = "client" => Link!Announced')
    BY <1>3, Zenon DEF MarkOf, ProtoInv
  <2>3. Link!Announced' => \E i \in 1..Len(taken'["server"]) : taken'["server"][i].zipped
    BY Zenon DEF Link!Announced
  <2> QED BY <2>1, <2>2, <2>3, Zenon DEF Marks
<1> DEFINE z == MarkOf(e, m)
<1>6. PICK now \in Nat, t \in Seq(Byte) :
          Sends(conn, m, Len(tk) + 1, z, 0, now, t) /\ Puts(e, now, t, Size(m))
  <2>1. 0 \in Nat
    BY SMT
  <2> HIDE DEF z
  <2> QED BY <1>1, <1>2, <1>4, <1>5, <2>1, SendEffect, Zenon DEF z
<1>8. /\ end' \in [Ends -> End] /\ end'[f] = end[f]
      /\ wire' \in [Ends -> Seq(Byte)] /\ wire'[e] = wire[e] \o t
      /\ wire'[f] = wire[f] /\ \A x \in Ends : Len(wire'[x]) <= SndBuf
      /\ end'[e].bytesSent = now /\ end'[e].unfinished = (now < Size(m))
      /\ end'[e].closed = end[e].closed
      /\ end'[e].got = end[e].got /\ end'[e].rcvState = end[e].rcvState
      /\ end'[e].zipflag = end[e].zipflag
  BY <1>2, <1>4, <1>6, SendShape, Zenon
<1> HIDE DEF f, tk, d, z
<1>9. TypeOK'
  BY <1>2, <1>3, <1>8, Zenon DEF TypeOK, Byte, ProtoInv
<1>10. EndInv(e)' /\ EndInv(f)'
  <2>1. EndInv(f)'
    BY <1>2, <1>3, <1>8, Zenon DEF EndInv
  <2>2. Len(taken'[e]) = Len(tk) + 1 /\ taken'[e][Len(tk) + 1] = m
    BY <1>3, <1>4, AppendProperties
  <2> QED BY <1>2, <1>4, <1>8, <2>1, <2>2, Zenon DEF EndInv
<1>11. Direction(f)'
  <2>1. Flight(conn, f, taken["server"], taken[f], Len(delivered[f]), Stream(f), end[f])
    BY <1>2, Zenon DEF Direction
  <2>2. taken[f] \in Seq(Message) /\ Len(delivered[f]) \in Nat
    BY <1>2, Types, Zenon
  <2>3. Flight(conn, f, taken'["server"], taken[f], Len(delivered[f]), Stream(f), end[f])
    BY <1>3, <2>1, <2>2, FlightGrows, ZenonT(60)
  <2>4. Stream(f)' = Stream(f)
    BY <1>2, <1>8, Zenon DEF Stream
  <2> QED BY <1>2, <1>3, <1>8, <2>3, <2>4, Zenon DEF Direction
<1>12. Direction(e)'
  <2> SUFFICES ASSUME ~end[f].closed
               PROVE  Flight(conn, e, taken'["server"], taken'[e], d, Stream(e)', end'[e])
    BY <1>2, <1>8, Zenon DEF Direction, d, f
  <2>1. Flight(conn, e, taken["server"], tk, d, Stream(e), end[e])
    BY <1>2, Zenon DEF Direction, d, f, tk
  <2>2. Stream(e) \in Seq(Byte) /\ Stream(e)' = Stream(e) \o t
    BY <1>2, <1>8, StreamAppends, Zenon DEF Stream, f
  <2> DEFINE y == [closed |-> FALSE, unfinished |-> TRUE, bytesSent |-> 0]
  <2>3. ~y.closed /\ y.unfinished /\ y.bytesSent = 0 /\ y.bytesSent \in Nat
    BY SMT
  <2> HIDE DEF y
  <2>4. Flight(conn, e, taken'["server"], Append(tk, m), d, Stream(e), y)
    BY <1>2, <1>3, <1>4, <2>1, <2>2, <2>3, FlightTakes, Zenon
  <2>5. /\ Append(tk, m) \in Seq(Message) /\ Len(Append(tk, m)) = Len(tk) + 1
        /\ Append(tk, m)[Len(tk) + 1] = m
    BY <1>4, AppendProperties
  <2>6. /\ Sends(conn, Append(tk, m)[Len(Append(tk, m))], Len(Append(tk, m)), z, y.bytesSent, now, t)
        /\ z \in Marks(e, Append(tk, m)[Len(Append(tk, m))], taken'["server"])
        /\ end'[e].unfinished = (now < Size(Append(tk, m)[Len(Append(tk, m))]))
    BY <1>5, <1>6, <1>8, <2>3, <2>5, Zenon DEF z
  <2>7. Flight(conn, e, taken'["server"], Append(tk, m), d, Stream(e) \o t, end'[e])
    BY <1>4, <1>8, <2>2, <2>3, <2>4, <2>5, <2>6, FlightContinues, Zenon
  <2> QED BY <1>3, <2>2, <2>7, Zenon
<1>13. end'["client"].zipflag => Link!Announced'
  <2>1. "client" \in Ends /\ (end["client"].zipflag => Link!Announced)
    BY EndsAre, Zenon DEF ProtoInv
  <2>2. end'["client"].zipflag = end["client"].zipflag
    BY <1>2, <1>8, <2>1, Zenon
  <2> QED BY <1>3, <2>1, <2>2, Zenon
<1> QED BY <1>2, <1>9, <1>10, <1>11, <1>12, <1>13, Zenon DEF ProtoInv

LEMMA InvAtContinue ==
  ASSUME ProtoInv, NEW e \in Ends, SendContinue(e)
  PROVE  ProtoInv'
<1> DEFINE f == Other(e)
           tk == taken[e]
           n == Len(tk)
           m == tk[n]
           d == Len(delivered[e])
           sent == end[e].bytesSent
<1>1. /\ ~end[e].closed /\ end[e].unfinished /\ conn' = conn /\ delivered' = delivered
      /\ taken' = taken /\ SendPacket(e, m, n, sent, FALSE)
  BY Zenon DEF SendContinue, ResumeAt
<1>2. /\ TypeOK /\ EndInv(e) /\ EndInv(f) /\ Direction(e) /\ Direction(f)
      /\ f \in Ends /\ f # e /\ Other(f) = e /\ (\A x \in Ends : x = e \/ x = f)
  BY EndsAre, Zenon DEF ProtoInv
<1>3. tk \in Seq(Message) /\ d \in Nat /\ sent \in Nat /\ conn \in Nat
  BY Types, <1>2, Zenon
<1>4. n \in Nat /\ n # 0 /\ sent < Size(m)
  BY <1>1, <1>2, <1>3, LenProperties, Zenon DEF EndInv
<1>5. n \in 1..n
  BY <1>4, SMT
<1>6. m \in Message /\ Size(m) \in Nat
  BY <1>3, <1>5, MessageLens, Zenon
<1>7. sent <= Size(m)
  BY <1>3, <1>4, <1>6, SMT
<1> HIDE DEF f, m, n, tk, d, sent
<1>8. PICK now \in Nat, t \in Seq(Byte) :
          Sends(conn, m, n, FALSE, sent, now, t) /\ Puts(e, now, t, Size(m))
  <2>1. FALSE \in BOOLEAN
    OBVIOUS
  <2> QED BY <1>1, <1>2, <1>3, <1>4, <1>6, <1>7, <2>1, SendEffect, Zenon
<1>9. /\ end' \in [Ends -> End] /\ end'[f] = end[f]
      /\ wire' \in [Ends -> Seq(Byte)] /\ wire'[e] = wire[e] \o t
      /\ wire'[f] = wire[f] /\ \A x \in Ends : Len(wire'[x]) <= SndBuf
      /\ end'[e].bytesSent = now /\ end'[e].unfinished = (now < Size(m))
      /\ end'[e].closed = end[e].closed
      /\ end'[e].got = end[e].got /\ end'[e].rcvState = end[e].rcvState
      /\ end'[e].zipflag = end[e].zipflag
  BY <1>2, <1>6, <1>8, SendShape, Zenon DEF f
<1>10. TypeOK'
  BY <1>1, <1>2, <1>9, Zenon DEF TypeOK, Byte
<1>11. EndInv(e)' /\ EndInv(f)'
  <2>1. EndInv(f)'
    BY <1>1, <1>2, <1>9, Zenon DEF EndInv
  <2>2. EndInv(e)'
    BY <1>1, <1>2, <1>4, <1>9, Zenon DEF EndInv, m, n, tk
  <2> QED BY <2>1, <2>2, Zenon
<1>12. Direction(f)'
  <2>1. Stream(f)' = Stream(f)
    BY <1>2, <1>9, Zenon DEF Stream
  <2> QED BY <1>1, <1>2, <1>9, <2>1, Zenon DEF Direction
<1>13. Direction(e)'
  <2> SUFFICES ASSUME ~end[f].closed
               PROVE  Flight(conn, e, taken["server"], tk, d, Stream(e)', end'[e])
    BY <1>1, <1>2, <1>9, Zenon DEF Direction, d, f, tk
  <2>1. Flight(conn, e, taken["server"], tk, d, Stream(e), end[e])
    BY <1>2, Zenon DEF Direction, d, f, tk
  <2>2. Stream(e) \in Seq(Byte) /\ Stream(e)' = Stream(e) \o t
    BY <1>2, <1>9, StreamAppends, Zenon DEF Stream, f
  <2>3. /\ Sends(conn, tk[Len(tk)], Len(tk), FALSE, end[e].bytesSent, now, t)
        /\ FALSE \in Marks(e, tk[Len(tk)], taken["server"])
        /\ end'[e].unfinished = (now < Size(tk[Len(tk)])) /\ end[e].bytesSent \in Nat
    BY <1>3, <1>8, <1>9, UnmarkedFits, Zenon DEF m, n, sent
  <2>4. Flight(conn, e, taken["server"], tk, d, Stream(e) \o t, end'[e])
    BY <1>1, <1>3, <1>9, <2>1, <2>2, <2>3, FlightContinues, Zenon
  <2> QED BY <2>2, <2>4, Zenon
<1>14. end'["client"].zipflag => Link!Announced'
  <2>1. "client" \in Ends /\ (end["client"].zipflag => Link!Announced)
    BY EndsAre, Zenon DEF ProtoInv
  <2>2. end'["client"].zipflag = end["client"].zipflag
    BY <1>2, <1>9, <2>1, Zenon
  <2>3. Link!Announced' <=> Link!Announced
    BY <1>1, Zenon DEF Link!Announced
  <2> QED BY <2>1, <2>2, <2>3, Zenon
<1> QED BY <1>2, <1>10, <1>11, <1>12, <1>13, <1>14, Zenon DEF ProtoInv

\* End e leaves: nothing is in flight to it, and it sends no more.
LEMMA InvAtLeave ==
  ASSUME ProtoInv, NEW e \in Ends, end' = [end EXCEPT ![e] = Left(e)],
         wire'[e] = wire[e], wire' \in [Ends -> Seq(Byte)],
         \A d \in Ends : Len(wire'[d]) <= SndBuf,
         UNCHANGED <<conn, taken, delivered>>
  PROVE  ProtoInv'
<1> DEFINE f == Other(e)
<1>1. /\ TypeOK /\ EndInv(f) /\ Direction(e)
      /\ f \in Ends /\ f # e /\ Other(f) = e /\ (\A x \in Ends : x = e \/ x = f)
      /\ conn' = conn /\ taken' = taken /\ delivered' = delivered
  BY EndsAre, Zenon DEF ProtoInv
<1>2. ClosedEnd \in End /\ ClosedEnd.closed /\ ~ClosedEnd.unfinished /\ ClosedEnd.got = <<>>
      /\ ~ClosedEnd.zipflag
  <2>1. 0 \in Nat /\ <<>> \in Seq(0..255)
    BY SMT
  <2> QED BY <2>1, Zenon DEF ClosedEnd, NewEnd, End
<1>3. end' \in [Ends -> End] /\ end'[e] = ClosedEnd /\ end'[f] = end[f]
  <2>1. end' = [end EXCEPT ![e] = ClosedEnd] /\ end \in [Ends -> End]
    BY <1>1, Zenon DEF Left, ClosedEnd, TypeOK
  <2> QED BY <1>1, <1>2, <2>1, Zenon
<1> HIDE DEF f
<1>4. TypeOK'
  BY <1>1, <1>3, Zenon DEF TypeOK, Byte
<1>5. EndInv(e)' /\ EndInv(f)'
  BY <1>1, <1>2, <1>3, Zenon DEF EndInv
<1>6. Direction(f)'
  BY <1>1, <1>2, <1>3, Zenon DEF Direction
<1>7. Direction(e)'
  <2> SUFFICES ASSUME ~end[f].closed
               PROVE  Flight(conn, e, taken["server"], taken[e], Len(delivered[e]), Stream(e), end'[e])
    <3>1. Stream(e)' = Stream(e)
      BY <1>3, Zenon DEF Stream, f
    <3> QED BY <1>1, <1>3, <3>1, Zenon DEF Direction, f
  <2>1. Flight(conn, e, taken["server"], taken[e], Len(delivered[e]), Stream(e), end[e])
    BY <1>1, Zenon DEF Direction, f
  <2>2. taken[e] \in Seq(Message) /\ Len(delivered[e]) \in Nat
    BY <1>1, Types, Zenon
  <2> QED BY <1>2, <1>3, <2>1, <2>2, FlightGrows, Zenon
<1>8. end'["client"].zipflag => Link!Announced'
  <2>1. "client" \in Ends /\ (end["client"].zipflag => Link!Announced)
    BY EndsAre, Zenon DEF ProtoInv
  <2>2. end'["client"].zipflag => end["client"].zipflag
    BY <1>1, <1>2, <1>3, <2>1, Zenon
  <2>3. Link!Announced' <=> Link!Announced
    BY <1>1, Zenon DEF Link!Announced
  <2> QED BY <2>1, <2>2, <2>3, Zenon
<1> QED BY <1>1, <1>4, <1>5, <1>6, <1>7, <1>8, Zenon DEF ProtoInv

\* A connection begins, the first or another.
Begins ==
    /\ conn \in 1..MaxConns
    /\ end \in [Ends -> End] /\ \A e \in Ends : end[e] = NewEnd
    /\ wire = Link!Nothing /\ taken = Link!Nothing /\ delivered = Link!Nothing

LEMMA InvAtBegin == Begins => ProtoInv
<1> SUFFICES ASSUME Begins PROVE ProtoInv
  OBVIOUS
<1>0. /\ conn \in 1..MaxConns
      /\ end \in [Ends -> End] /\ \A e \in Ends : end[e] = NewEnd
      /\ wire = Link!Nothing /\ taken = Link!Nothing /\ delivered = Link!Nothing
  BY Zenon DEF Begins
<1>1. /\ NewEnd.rcvState = "IO_START" /\ NewEnd.got = <<>> /\ ~NewEnd.unfinished
      /\ ~NewEnd.zipflag /\ ~NewEnd.closed
  BY Zenon DEF NewEnd
<1>2. \A e \in Ends : wire[e] = <<>> /\ taken[e] = <<>> /\ delivered[e] = <<>>
  BY <1>0, Zenon DEF Link!Nothing, Ends
<1>3. Len(<<>>) = 0 /\ <<>> \in Seq(0..255) /\ <<>> \in Seq(Message) /\ 0 <= SndBuf
      /\ <<>> \o <<>> = <<>>
  BY FramingAssumption, SMT
<1>4. TypeOK
  <2>1. wire \in [Ends -> Seq(0..255)] /\ taken \in [Ends -> Seq(Message)]
        /\ delivered \in [Ends -> Seq(Message)]
    BY <1>0, <1>3, Zenon DEF Link!Nothing, Ends
  <2> QED BY <1>0, <1>2, <1>3, <2>1, Zenon DEF TypeOK
<1>5. ASSUME NEW e \in Ends PROVE EndInv(e) /\ Direction(e)
  <2>1. Other(e) \in Ends
    BY EndsAre, Zenon
  <2>2. Stream(e) = <<>>
    BY <1>0, <1>1, <1>2, <1>3, <2>1, Zenon DEF Stream
  <2>3. Flight(conn, e, taken["server"], <<>>, 0, <<>>, end[e])
    BY <1>0, <1>1, FlightBegins, Zenon
  <2>4. Direction(e)
    BY <1>2, <1>3, <2>2, <2>3, Zenon DEF Direction
  <2> QED BY <1>0, <1>1, <2>4, Zenon DEF EndInv
<1>6. ~end["client"].zipflag
  BY <1>0, <1>1, EndsAre, Zenon
<1> QED BY <1>4, <1>5, <1>6, Zenon DEF ProtoInv

LEMMA InvAtInit == Init => ProtoInv
<1> SUFFICES ASSUME Init PROVE ProtoInv
  OBVIOUS
<1>1. NewEnd \in End
  <2>1. 0 \in Nat /\ <<>> \in Seq(0..255)
    BY SMT
  <2> QED BY <2>1, Zenon DEF NewEnd, End
<1>2. end \in [Ends -> End] /\ \A e \in Ends : end[e] = NewEnd
  BY <1>1, Zenon DEF Init
<1>3. conn \in 1..MaxConns
  BY FramingAssumption, SMT DEF Init
<1> QED BY <1>2, <1>3, InvAtBegin, Zenon DEF Init, Begins

LEMMA SameEnd ==
  ASSUME NEW x \in End, NEW y \in End, x.closed = y.closed, x.unfinished = y.unfinished,
         x.bytesSent = y.bytesSent, x.rcvState = y.rcvState, x.got = y.got, x.zipflag = y.zipflag
  PROVE  x = y
  BY SMT DEF End

LEMMA InvAtReconnect ==
  ASSUME ProtoInv, Reconnect
  PROVE  ProtoInv'
<1>1. \A e \in Ends : end[e] = ClosedEnd
  BY Zenon DEF ProtoInv, EndInv, Reconnect
<1>2. [ClosedEnd EXCEPT !.closed = FALSE] = NewEnd /\ NewEnd \in End
  <2>1. 0 \in Nat /\ <<>> \in Seq(0..255)
    BY SMT
  <2> DEFINE x == [ClosedEnd EXCEPT !.closed = FALSE]
  <2>2. /\ x \in End /\ ~x.closed /\ ~x.unfinished /\ x.bytesSent = 0
        /\ x.rcvState = "IO_START" /\ x.got = <<>> /\ ~x.zipflag /\ x.closed \in BOOLEAN
        /\ x.unfinished \in BOOLEAN /\ x.zipflag \in BOOLEAN
    BY <2>1, Zenon DEF ClosedEnd, NewEnd, End
  <2>3. /\ NewEnd \in End /\ ~NewEnd.closed /\ ~NewEnd.unfinished /\ NewEnd.bytesSent = 0
        /\ NewEnd.rcvState = "IO_START" /\ NewEnd.got = <<>> /\ ~NewEnd.zipflag
        /\ NewEnd.closed \in BOOLEAN /\ NewEnd.unfinished \in BOOLEAN /\ NewEnd.zipflag \in BOOLEAN
    BY <2>1, Zenon DEF NewEnd, End
  <2> HIDE DEF x
  <2>4. x = NewEnd
    BY <2>2, <2>3, SameEnd
  <2> QED BY <2>3, <2>4, Zenon DEF x
<1>3. end' \in [Ends -> End] /\ \A e \in Ends : end'[e] = NewEnd
  BY <1>1, <1>2, Zenon DEF Reconnect
<1>4. (conn \in 1..MaxConns)'
  BY FramingAssumption, SMT DEF ProtoInv, TypeOK, Reconnect
<1>5. wire' = Link!Nothing /\ taken' = Link!Nothing /\ delivered' = Link!Nothing
  BY Zenon DEF Reconnect
<1>6. Begins'
  BY <1>3, <1>4, <1>5, Zenon DEF Begins, Link!Nothing
<1> QED BY <1>6, InvAtBegin, PTL

-----------------------------------------------------------------------------
(* Receiving.                                                               *)

LEMMA Cut ==
  ASSUME NEW s \in Seq(Byte), NEW k \in 1..Len(s)
  PROVE  /\ SubSeq(s, 1, k) \in Seq(Byte) /\ SubSeq(s, k + 1, Len(s)) \in Seq(Byte)
         /\ SubSeq(s, 1, k) \o SubSeq(s, k + 1, Len(s)) = s
         /\ SubSeq(s, 1, k) # <<>> /\ Len(SubSeq(s, k + 1, Len(s))) <= Len(s)
<1>1. Len(s) \in Nat /\ \A i \in 1..Len(s) : s[i] \in Byte
  BY LenProperties, ElementOfSeq
<1>2. /\ k \in Int /\ k + 1 \in Int /\ Len(s) \in Int /\ 1 \in Int /\ k >= 1 /\ k <= Len(s)
      /\ 1 \in 1..(Len(s) + 1) /\ k \in (1 - 1)..Len(s) /\ Len(s) \in k..Len(s)
      /\ \A i \in 1..k : i \in 1..Len(s)
      /\ \A i \in (k + 1)..Len(s) : i \in 1..Len(s)
  BY <1>1, SMT
<1>3. SubSeq(s, 1, k) \in Seq(Byte) /\ Len(SubSeq(s, 1, k)) = IF 1 <= k THEN k - 1 + 1 ELSE 0
  BY <1>1, <1>2, SubSeqProperties
<1>4. /\ SubSeq(s, k + 1, Len(s)) \in Seq(Byte)
      /\ Len(SubSeq(s, k + 1, Len(s))) = IF k + 1 <= Len(s) THEN Len(s) - (k + 1) + 1 ELSE 0
  BY <1>1, <1>2, SubSeqProperties
<1>5. SubSeq(s, 1, k) \o SubSeq(s, k + 1, Len(s)) = SubSeq(s, 1, Len(s))
  BY <1>2, ConcatAdjacentSubSeq
<1>6. SubSeq(s, 1, Len(s)) = s
  BY SubSeqFull
<1>7. Len(SubSeq(s, 1, k)) # 0
  BY <1>2, <1>3, SMT
<1>8. Len(<<>>) = 0
  OBVIOUS
<1>9. Len(SubSeq(s, k + 1, Len(s))) <= Len(s)
  BY <1>1, <1>2, <1>4, SMT
<1> QED BY <1>3, <1>4, <1>5, <1>6, <1>7, <1>8, <1>9, Zenon

\* End e has g of the packet it reads, and w stays on the wire.
Reads(e, k, g, w) ==
    /\ g = GotWith(e, k)
    /\ w = SubSeq(wire[Other(e)], k + 1, Len(wire[Other(e)]))

LEMMA Arrival ==
  ASSUME ProtoInv, NEW e \in Ends, NEW f \in Ends, f = Other(e), ~end[e].closed,
         NEW k \in 1..Len(wire[f]), NEW g, NEW w, Reads(e, k, g, w)
  PROVE  /\ g \in Seq(Byte) /\ w \in Seq(Byte) /\ g # <<>> /\ Len(w) <= SndBuf
         /\ Flight(conn, f, taken["server"], taken[f], Len(delivered[f]), g \o w, end[f])
<1>1. /\ TypeOK /\ EndInv(e) /\ Direction(f) /\ Other(f) = e
  BY EndsAre, Zenon DEF ProtoInv
<1>2. /\ end[e].got \in Seq(Byte) /\ wire[f] \in Seq(Byte) /\ Len(wire[f]) <= SndBuf
      /\ Len(wire[f]) \in Nat
  BY <1>1, Types, Zenon
<1> DEFINE a == end[e].got
           r == SubSeq(wire[f], 1, k)
<1>3. g = a \o r /\ w = SubSeq(wire[f], k + 1, Len(wire[f]))
  BY <1>1, Zenon DEF Reads, GotWith, ReadBefore, EndInv
<1>4. /\ r \in Seq(Byte) /\ w \in Seq(Byte) /\ r \o w = wire[f] /\ r # <<>>
      /\ Len(w) <= Len(wire[f])
  BY <1>2, <1>3, Cut, Zenon
<1>5. Stream(f) = a \o (r \o w)
  BY <1>1, <1>4, Zenon DEF Stream
<1>6. a \in Seq(Byte)
  BY <1>2, Zenon
<1> HIDE DEF a, r
<1>7. Stream(f) = g \o w /\ g \in Seq(Byte)
  <2>1. (a \o r) \o w = a \o (r \o w) /\ a \o r \in Seq(Byte)
    BY <1>4, <1>6, Regroup, ZenonT(60)
  <2> QED BY <1>3, <1>5, <2>1, ZenonT(60)
<1>8. g # <<>>
  <2>1. Len(g) = Len(a) + Len(r) /\ Len(a) \in Nat /\ Len(r) \in Nat /\ Len(r) # 0
    BY <1>3, <1>4, <1>6, ConcatProperties, LenProperties, EmptySeq
  <2>2. Len(g) # 0
    BY <2>1, SMT
  <2>3. Len(<<>>) = 0
    OBVIOUS
  <2> QED BY <2>2, <2>3, Zenon
<1>9. Len(w) <= SndBuf
  <2>1. Len(w) \in Nat /\ SndBuf \in Nat
    BY <1>4, LenProperties, FramingAssumption
  <2> QED BY <1>2, <1>4, <2>1, SMT
<1>10. Flight(conn, f, taken["server"], taken[f], Len(delivered[f]), Stream(f), end[f])
  BY <1>1, Zenon DEF Direction
<1> QED BY <1>4, <1>7, <1>8, <1>9, <1>10, Zenon

\* g begins as m, packet n of end f, does.
BeginsAs(f, ts, m, n, g) ==
    /\ \A i \in 1..Len(g) : i \in 1..Size(m) => ByteFits(conn, f, ts, m, n, i, g[i])
    /\ HeaderRead(g) => PackLen(g) = m.len

\* A complete packet is the next one that was taken, but for its mark.
LEMMA PacketIs ==
  ASSUME NEW e, NEW f, f = Other(e), NEW m \in Message, NEW n, n = Len(delivered[f]) + 1,
         NEW g \in Seq(Byte), NEW ts, BeginsAs(f, ts, m, n, g), Complete(g)
  PROVE  Len(g) = Size(m) /\ PacketOf(e, g) = [len |-> m.len, zipped |-> ZippedBit(g)]
<1> DEFINE body == SubSeq(g, HeaderLen + 1, Len(g))
<1>1. HeaderRead(g) /\ Len(g) = HeaderLen + PackLen(g)
  BY Zenon DEF Complete
<1>2. PackLen(g) = m.len
  BY <1>1, Zenon DEF BeginsAs
<1>3. Len(g) = Size(m)
  BY <1>1, <1>2, Zenon DEF Size
<1>5. m.len \in Nat
  BY LenType, Zenon
<1>6. Len(g) = 4 + m.len /\ Len(g) \in Nat
  BY <1>3, <1>5, SMT DEF Size, HeaderLen
<1>7. /\ Len(body) = m.len
      /\ \A i \in 1..m.len : body[i] = g[HeaderLen + i]
  <2>1. HeaderLen + 1 \in Int /\ Len(g) \in Int
    BY <1>6, SMT DEF HeaderLen
  <2>2. \A i \in (HeaderLen + 1)..Len(g) : g[i] \in Byte
    <3>1. \A i \in (HeaderLen + 1)..Len(g) : i \in 1..Len(g)
      BY <1>6, SMT DEF HeaderLen
    <3> QED BY <3>1, ElementOfSeq, Zenon
  <2>3. Len(body) = IF HeaderLen + 1 <= Len(g) THEN Len(g) - (HeaderLen + 1) + 1 ELSE 0
    BY <2>1, <2>2, SubSeqProperties
  <2>4. \A i \in 1..(Len(g) - (HeaderLen + 1) + 1) : body[i] = g[(HeaderLen + 1) + i - 1]
    BY <2>1, <2>2, SubSeqProperties
  <2>5. /\ Len(g) - (HeaderLen + 1) + 1 = m.len
        /\ ~(HeaderLen + 1 <= Len(g)) => m.len = 0
    <3>1. \A x, l \in Nat : x = HeaderLen + l =>
              /\ x - (HeaderLen + 1) + 1 = l
              /\ ~(HeaderLen + 1 <= x) => l = 0
      BY SMT DEF HeaderLen
    <3>2. Len(g) = HeaderLen + m.len
      BY <1>3, Zenon DEF Size
    <3> QED BY <1>5, <1>6, <3>1, <3>2, Zenon
  <2>6. \A i \in Int : (HeaderLen + 1) + i - 1 = HeaderLen + i
    BY SMT DEF HeaderLen
  <2>7. \A i \in 1..m.len : i \in Int
    BY <1>5, SMT
  <2> HIDE DEF body
  <2> QED BY <2>3, <2>4, <2>5, <2>6, <2>7, Zenon
<1> HIDE DEF body
<1>8. ASSUME NEW i \in 1..m.len PROVE body[i] = BodyByte(n, i)
  <2>1. HeaderLen + i \in 1..Len(g) /\ ~(HeaderLen + i <= HeaderLen) /\ (HeaderLen + i) - HeaderLen = i
    BY <1>5, <1>6, SMT DEF HeaderLen
  <2>2. ByteFits(conn, f, ts, m, n, HeaderLen + i, g[HeaderLen + i])
    BY <1>3, <2>1, Zenon DEF BeginsAs
  <2>3. g[HeaderLen + i] = (40 * conn + 10 * n + ((HeaderLen + i) - HeaderLen)) % 256
    BY <2>1, <2>2, ByteFitsBody
  <2>4. g[HeaderLen + i] = BodyByte(n, i)
    BY <2>1, <2>3 DEF BodyByte
  <2> QED BY <1>7, <2>4, Zenon
<1>9. \A i \in 1..Len(body) : body[i] = BodyByte(n, i)
  BY <1>7, <1>8, Zenon
<1>10. PacketOf(e, g) = [len |-> m.len, zipped |-> ZippedBit(g)]
  BY <1>7, <1>9, Zenon DEF PacketOf, body
<1> QED BY <1>3, <1>10, Zenon

\* What end e has in hand after it read g, and what its application got:
\* m is the packet that the other end, f, sent next.
StillSends(e, x) ==
    /\ x \in End
    /\ x.closed = end[e].closed /\ x.unfinished = end[e].unfinished
    /\ x.bytesSent = end[e].bytesSent

Refuses(e, m) ==
    /\ m.len > MaxPacket
    /\ end' = [end EXCEPT ![e] = Left(e)]
    /\ delivered' = delivered

ReadsOn(e, g, x) ==
    /\ end' = [end EXCEPT ![e] = x]
    /\ x.got = g /\ x.rcvState = "IO_CONTINUE"
    /\ delivered' = delivered

Gets(e, f, m, g, x, zipped) ==
    /\ end' = [end EXCEPT ![e] = x]
    /\ x.got = <<>> /\ x.rcvState = "IO_START"
    /\ Len(g) = Size(m)
    /\ zipped \in Marks(f, m, taken["server"])
    /\ delivered' = [delivered EXCEPT ![f] = Append(delivered[f], [len |-> m.len, zipped |-> zipped])]

Outcome(e, f, m, g, w) ==
    /\ wire' = [wire EXCEPT ![f] = w]
    /\ \/ Refuses(e, m)
       \/ \E x : /\ StillSends(e, x)
                 /\ x.zipflag => end[e].zipflag \/ TRUE \in Marks(f, m, taken["server"])
                 /\ \/ ReadsOn(e, g, x)
                    \/ \E zipped : Gets(e, f, m, g, x, zipped)

LEMMA RecvOutcome ==
  ASSUME ProtoInv, NEW e \in Ends, RecvPacket(e), NEW f, f = Other(e)
  PROVE  \E g, w \in Seq(Byte) :
             /\ Len(w) <= SndBuf /\ Len(delivered[f]) < Len(taken[f])
             /\ Flight(conn, f, taken["server"], taken[f], Len(delivered[f]), g \o w, end[f])
             /\ Outcome(e, f, taken[f][Len(delivered[f]) + 1], g, w)
<1>1. ~end[e].closed /\ f \in Ends /\ TypeOK
  BY EndsAre, Zenon DEF RecvPacket, WatchesIn, ProtoInv
<1> DEFINE Flags(g) == end[e].zipflag \/ (HeaderRead(g) /\ ZippedBit(g))
           NewState(g) == [end[e] EXCEPT
                               !.got = IF Complete(g) THEN <<>> ELSE g,
                               !.zipflag = Flags(g),
                               !.rcvState = IF Complete(g) THEN "IO_START" ELSE "IO_CONTINUE"]
<1>2. PICK k \in 1..Len(wire[f]) :
          LET g == GotWith(e, k)
          IN /\ wire' = [wire EXCEPT ![f] = SubSeq(wire[f], k + 1, Len(wire[f]))]
             /\ end' = [end EXCEPT ![e] = IF TooLong(g) THEN Left(e) ELSE NewState(g)]
             /\ delivered' = IF Complete(g) /\ ~TooLong(g)
                             THEN [delivered EXCEPT ![f] = Append(delivered[f], PacketOf(e, g))]
                             ELSE delivered
  BY Zenon DEF RecvPacket
<1> DEFINE g == GotWith(e, k)
           w == SubSeq(wire[f], k + 1, Len(wire[f]))
           tk == taken[f]
           d == Len(delivered[f])
           m == tk[d + 1]
           x == NewState(g)
<1>3. /\ wire' = [wire EXCEPT ![f] = w]
      /\ end' = [end EXCEPT ![e] = IF TooLong(g) THEN Left(e) ELSE x]
      /\ delivered' = IF Complete(g) /\ ~TooLong(g)
                      THEN [delivered EXCEPT ![f] = Append(delivered[f], PacketOf(e, g))]
                      ELSE delivered
  BY <1>2, Zenon
<1>4. Reads(e, k, g, w)
  BY Zenon DEF Reads
<1>5. /\ g \in Seq(Byte) /\ w \in Seq(Byte) /\ g # <<>> /\ Len(w) <= SndBuf
      /\ Flight(conn, f, taken["server"], tk, d, g \o w, end[f])
  BY <1>1, <1>4, Arrival, Zenon
<1>6. tk \in Seq(Message) /\ d \in Nat
  BY <1>1, Types, Zenon
<1>a. x \in End /\ x.got = (IF Complete(g) THEN <<>> ELSE g) /\ x.zipflag = Flags(g)
      /\ x.rcvState = (IF Complete(g) THEN "IO_START" ELSE "IO_CONTINUE")
      /\ x.closed = end[e].closed /\ x.unfinished = end[e].unfinished
      /\ x.bytesSent = end[e].bytesSent
  <2> DEFINE h == IF Complete(g) THEN <<>> ELSE g
             q == IF Complete(g) THEN "IO_START" ELSE "IO_CONTINUE"
             v == Flags(g)
  <2>1. end[e] \in End /\ end[e].zipflag \in BOOLEAN
    BY <1>1, Types, Zenon
  <2>2. h \in Seq(0..255)
    BY <1>5, EmptySeq, Zenon DEF Byte
  <2>3. v \in BOOLEAN /\ q \in {"IO_START", "IO_CONTINUE"}
    BY SMT
  <2>4. x = [end[e] EXCEPT !.got = h, !.zipflag = v, !.rcvState = q]
    BY Zenon
  <2> HIDE DEF h, q, v, x
  <2>5. x \in End /\ x.got = h /\ x.zipflag = v /\ x.rcvState = q
        /\ x.closed = end[e].closed /\ x.unfinished = end[e].unfinished
        /\ x.bytesSent = end[e].bytesSent
    BY <2>1, <2>2, <2>3, <2>4, Zenon DEF End
  <2> QED BY <2>5, Zenon DEF h, q, v
<1> HIDE DEF g, w, tk, d, m, x
<1>7. /\ d < Len(tk)
      /\ \A i \in 1..Len(g) : i \in 1..Size(tk[d + 1]) =>
             ByteFits(conn, f, taken["server"], tk[d + 1], d + 1, i, g[i])
      /\ 4 <= Len(g) => /\ PackLen(g) = tk[d + 1].len
                        /\ ZippedBit(g) \in Marks(f, tk[d + 1], taken["server"])
  BY <1>5, <1>6, FlightArrives, Zenon
<1>8. HeaderRead(g) => PackLen(g) = m.len /\ ZippedBit(g) \in Marks(f, m, taken["server"])
  <2>1. HeaderRead(g) => 4 <= Len(g)
    <3>1. Len(g) \in Nat
      BY <1>5, LenProperties
    <3> QED BY <3>1, SMT DEF HeaderRead, HeaderLen
  <2> QED BY <1>7, <2>1, Zenon DEF m
<1>9. StillSends(e, x) /\ (x.zipflag => end[e].zipflag \/ TRUE \in Marks(f, m, taken["server"]))
  <2>1. x.zipflag => end[e].zipflag \/ (HeaderRead(g) /\ ZippedBit(g))
    BY <1>a, Zenon
  <2>2. HeaderRead(g) /\ ZippedBit(g) => TRUE \in Marks(f, m, taken["server"])
    BY <1>8, Zenon DEF Marks
  <2> QED BY <1>a, <2>1, <2>2, Zenon DEF StillSends
<1>10. Outcome(e, f, m, g, w)
  <2>1. CASE TooLong(g)
    <3>1. HeaderRead(g) /\ PackLen(g) > MaxPacket
      BY <2>1, Zenon DEF TooLong
    <3>2. m.len > MaxPacket
      BY <1>8, <3>1, Zenon
    <3> QED BY <1>3, <2>1, <3>2, Zenon DEF Outcome, Refuses
  <2>2. CASE ~TooLong(g) /\ ~Complete(g)
    BY <1>3, <1>9, <1>a, <2>2, Zenon DEF Outcome, ReadsOn
  <2>3. CASE ~TooLong(g) /\ Complete(g)
    <3>1. HeaderRead(g)
      BY <2>3, Zenon DEF Complete
    <3>2. Len(g) = Size(m) /\ PacketOf(e, g) = [len |-> m.len, zipped |-> ZippedBit(g)]
      <4>1. d + 1 = Len(delivered[f]) + 1
        BY DEF d
      <4>2. BeginsAs(f, taken["server"], m, d + 1, g)
        BY <1>7, <1>8, Zenon DEF BeginsAs, m
      <4>3. m \in Message
        <5>1. Len(tk) \in Nat
          BY <1>6, LenProperties
        <5>2. d + 1 \in 1..Len(tk)
          BY <1>6, <1>7, <5>1, SMT
        <5> QED BY <1>6, <5>2, MessageLens, Zenon DEF m
      <4> QED BY <1>5, <2>3, <4>1, <4>2, <4>3, PacketIs, Zenon
    <3>3. Gets(e, f, m, g, x, ZippedBit(g))
      BY <1>3, <1>8, <1>a, <2>3, <3>1, <3>2, Zenon DEF Gets
    <3> QED BY <1>3, <1>9, <3>3, Zenon DEF Outcome
  <2> QED BY <2>1, <2>2, <2>3, Zenon
<1> QED BY <1>5, <1>7, <1>10, Zenon DEF m, d, tk

LEMMA InvAtRecv ==
  ASSUME ProtoInv, NEW e \in Ends, RecvPacket(e)
  PROVE  ProtoInv'
<1> DEFINE f == Other(e)
           tk == taken[f]
           d == Len(delivered[f])
           m == tk[d + 1]
<1>1. PICK g \in Seq(Byte), w \in Seq(Byte) :
          /\ Len(w) <= SndBuf /\ d < Len(tk)
          /\ Flight(conn, f, taken["server"], tk, d, g \o w, end[f])
          /\ Outcome(e, f, m, g, w)
  BY RecvOutcome, Zenon
<1>2. /\ TypeOK /\ EndInv(e) /\ EndInv(f) /\ Direction(e)
      /\ f \in Ends /\ f # e /\ Other(f) = e /\ (\A x \in Ends : x = e \/ x = f)
      /\ conn' = conn /\ taken' = taken /\ ~end[e].closed
  BY EndsAre, Zenon DEF ProtoInv, RecvPacket, WatchesIn
<1>3. tk \in Seq(Message) /\ d \in Nat /\ end[f].bytesSent \in Nat /\ delivered[f] \in Seq(Message)
      /\ end[e].closed \in BOOLEAN /\ end[e].unfinished \in BOOLEAN
  BY <1>2, Types, Zenon
<1>a. m \in Message
  <2>1. Len(tk) \in Nat
    BY <1>3, LenProperties
  <2>2. d + 1 \in 1..Len(tk)
    BY <1>1, <1>3, <2>1, SMT
  <2> QED BY <1>3, <2>2, MessageLens, Zenon
<1> HIDE DEF f, tk, d, m
<1>4. wire' = [wire EXCEPT ![f] = w]
  BY <1>1, Zenon DEF Outcome
<1>5. /\ wire' \in [Ends -> Seq(Byte)] /\ wire'[e] = wire[e] /\ wire'[f] = w
      /\ \A c \in Ends : Len(wire'[c]) <= SndBuf
  <2>1. wire \in [Ends -> Seq(Byte)] /\ Len(wire[e]) <= SndBuf
    BY <1>2, Types, Zenon DEF TypeOK, Byte
  <2>2. wire' \in [Ends -> Seq(Byte)] /\ wire'[e] = wire[e] /\ wire'[f] = w
    BY <1>2, <1>4, <2>1, Zenon
  <2> QED BY <1>1, <1>2, <2>1, <2>2, Zenon
<1>6. CASE Refuses(e, m)
  BY <1>2, <1>5, <1>6, InvAtLeave, Zenon DEF Refuses
<1>7. CASE \E x : /\ StillSends(e, x)
                  /\ x.zipflag => end[e].zipflag \/ TRUE \in Marks(f, m, taken["server"])
                  /\ \/ ReadsOn(e, g, x)
                     \/ \E zipped : Gets(e, f, m, g, x, zipped)
  <2>1. PICK x : /\ StillSends(e, x)
                 /\ x.zipflag => end[e].zipflag \/ TRUE \in Marks(f, m, taken["server"])
                 /\ \/ ReadsOn(e, g, x)
                    \/ \E zipped : Gets(e, f, m, g, x, zipped)
    BY <1>7, Zenon
  <2>2. end' = [end EXCEPT ![e] = x]
    BY <2>1, Zenon DEF ReadsOn, Gets
  <2>3. /\ x \in End /\ x.closed = end[e].closed /\ x.unfinished = end[e].unfinished
        /\ x.bytesSent = end[e].bytesSent
    BY <2>1, Zenon DEF StillSends
  <2>4. end' \in [Ends -> End] /\ end'[e] = x /\ end'[f] = end[f]
    BY <1>2, <2>2, <2>3, Zenon DEF TypeOK
  <2>5. delivered' \in [Ends -> Seq(Message)] /\ delivered'[e] = delivered[e]
    <3>1. delivered \in [Ends -> Seq(Message)]
      BY <1>2, Zenon DEF TypeOK
    <3>2. CASE ReadsOn(e, g, x)
      BY <3>1, <3>2, Zenon DEF ReadsOn
    <3>3. ASSUME NEW zipped, Gets(e, f, m, g, x, zipped)
          PROVE  delivered' \in [Ends -> Seq(Message)] /\ delivered'[e] = delivered[e]
      <4>1. zipped \in BOOLEAN
        BY <3>3, Zenon DEF Gets, Marks
      <4>2. m.len \in Lens
        BY <1>a, Zenon DEF Message
      <4>3. [len |-> m.len, zipped |-> zipped] \in Message
        BY <4>1, <4>2, Zenon DEF Message
      <4>4. Append(delivered[f], [len |-> m.len, zipped |-> zipped]) \in Seq(Message)
        BY <1>3, <4>3, AppendProperties, Zenon
      <4> QED BY <1>2, <3>1, <3>3, <4>4, Zenon DEF Gets
    <3> QED BY <2>1, <3>2, <3>3, Zenon
  <2>6. TypeOK'
    BY <1>2, <1>5, <2>4, <2>5, Zenon DEF TypeOK, Byte
  <2>7. EndInv(f)'
    BY <1>2, <2>4, Zenon DEF EndInv
  <2>8. EndInv(e)'
    <3>1. x.rcvState = "IO_START" => x.got = <<>>
      <4>1. "IO_CONTINUE" # "IO_START"
        OBVIOUS
      <4> QED BY <2>1, <4>1, Zenon DEF ReadsOn, Gets
    <3> QED BY <1>2, <2>3, <2>4, <3>1, Zenon DEF EndInv
  <2>9. Direction(e)'
    <3>1. Stream(e)' = Stream(e)
      BY <1>5, <2>4, Zenon DEF Stream, f
    <3>2. taken[e] \in Seq(Message) /\ Len(delivered[e]) \in Nat
      BY <1>2, Types, Zenon
    <3>3. ASSUME ~end[f].closed
          PROVE  Flight(conn, e, taken["server"], taken[e], Len(delivered[e]), Stream(e), end'[e])
      <4>1. Flight(conn, e, taken["server"], taken[e], Len(delivered[e]), Stream(e), end[e])
        BY <1>2, <3>3, Zenon DEF Direction, f
      <4> QED BY <2>3, <2>4, <3>2, <4>1, FlightGrows, Zenon
    <3> QED BY <1>2, <2>4, <2>5, <3>1, <3>3, Zenon DEF Direction, f
  <2>10. Direction(f)'
    <3>1. CASE ReadsOn(e, g, x)
      <4>1. Stream(f)' = g \o w /\ delivered'[f] = delivered[f]
        BY <1>2, <1>5, <2>4, <3>1, Zenon DEF Stream, ReadsOn
      <4> QED BY <1>1, <1>2, <2>4, <4>1, Zenon DEF Direction, tk, d
    <3>2. ASSUME NEW zipped, Gets(e, f, m, g, x, zipped)
          PROVE  Direction(f)'
      <4>1. Stream(f)' = w
        <5>1. Stream(f)' = <<>> \o w
          BY <1>2, <1>5, <2>4, <3>2, Zenon DEF Stream, Gets
        <5> QED BY <5>1, ConcatEmptySeq, Zenon
      <4>2. delivered' = [delivered EXCEPT
                              ![f] = Append(delivered[f], [len |-> m.len, zipped |-> zipped])]
            /\ Len(g) = Size(m)
        BY <3>2, Zenon DEF Gets
      <4>3. delivered'[f] = Append(delivered[f], [len |-> m.len, zipped |-> zipped])
        BY <1>2, <4>2, Zenon DEF TypeOK
      <4>4. [len |-> m.len, zipped |-> zipped] \in Message
        <5>1. zipped \in BOOLEAN
          BY <3>2, Zenon DEF Gets, Marks
        <5>2. m.len \in Lens
          BY <1>a, Zenon DEF Message
        <5> QED BY <5>1, <5>2, Zenon DEF Message
      <4>5. Len(delivered'[f]) = d + 1
        <5> DEFINE p == [len |-> m.len, zipped |-> zipped]
        <5>1. p \in Message /\ delivered'[f] = Append(delivered[f], p)
          BY <4>3, <4>4, Zenon
        <5> HIDE DEF p
        <5> QED BY <1>3, <5>1, AppendProperties DEF d
      <4>6. end[f].unfinished => ~end[f].closed /\ end[f].bytesSent \in Nat
                                 /\ end[f].bytesSent < Size(tk[Len(tk)])
        <5>1. ~ClosedEnd.unfinished
          BY Zenon DEF ClosedEnd, NewEnd
        <5> QED BY <1>2, <1>3, <5>1, Zenon DEF EndInv, tk
      <4>7. Flight(conn, f, taken["server"], tk, d + 1, w, end[f])
        <5>1. Len(g) = Size(tk[d + 1])
          BY <4>2, Zenon DEF m
        <5> QED BY <1>1, <1>3, <4>6, <5>1, FlightDelivers, Zenon
      <4> QED BY <1>2, <2>4, <4>1, <4>5, <4>7, Zenon DEF Direction, tk
    <3> QED BY <2>1, <3>1, <3>2, Zenon
  <2>11. end'["client"].zipflag => Link!Announced'
    <3>1. "client" \in Ends /\ (end["client"].zipflag => Link!Announced)
      BY EndsAre, Zenon DEF ProtoInv
    <3>2. Link!Announced' <=> Link!Announced
      BY <1>2, Zenon DEF Link!Announced
    <3>3. CASE e = "client"
      <4>1. f = "server"
        BY <3>3, Zenon DEF f, Other, Link!Other
      <4>2. TRUE \in Marks("server", m, taken["server"]) => m.zipped
        BY Zenon DEF Marks
      <4>3. d + 1 \in 1..Len(tk)
        <5>1. Len(tk) \in Nat
          BY <1>3, LenProperties
        <5> QED BY <1>1, <1>3, <5>1, SMT
      <4>4. m.zipped => Link!Announced
        BY <4>1, <4>3, Zenon DEF Link!Announced, m, tk
      <4> QED BY <2>1, <2>4, <3>1, <3>2, <3>3, <4>1, <4>2, <4>4, Zenon
    <3>4. CASE e # "client"
      <4>1. f = "client"
        BY <1>2, <3>1, <3>4, Zenon
      <4> QED BY <2>4, <3>1, <3>2, <4>1, Zenon
    <3> QED BY <3>3, <3>4, Zenon
  <2> QED BY <1>2, <2>6, <2>7, <2>8, <2>9, <2>10, <2>11, Zenon DEF ProtoInv
<1> QED BY <1>1, <1>6, <1>7, Zenon DEF Outcome

-----------------------------------------------------------------------------
(* The theorems.                                                            *)

LEMMA InvAtStep == ProtoInv /\ [Next]_vars => ProtoInv'
<1> SUFFICES ASSUME ProtoInv, [Next]_vars PROVE ProtoInv'
  OBVIOUS
<1>1. ASSUME NEW e \in Ends, Step(e) PROVE ProtoInv'
  <2>1. CASE SendStart(e)
    BY <2>1, InvAtStart, Zenon
  <2>2. CASE SendContinue(e)
    BY <2>2, InvAtContinue, Zenon
  <2>3. CASE RecvPacket(e)
    BY <2>3, InvAtRecv, Zenon
  <2>4. CASE Leave(e)
    <3>1. TypeOK /\ wire' = wire
      BY <2>4, Zenon DEF Leave, ProtoInv
    <3>2. wire'[e] = wire[e] /\ wire' \in [Ends -> Seq(Byte)]
          /\ \A d \in Ends : Len(wire'[d]) <= SndBuf
      BY <3>1, Zenon DEF TypeOK, Byte
    <3> QED BY <2>4, <3>2, InvAtLeave, Zenon DEF Leave
  <2> QED BY <1>1, <2>1, <2>2, <2>3, <2>4, Zenon DEF Step
<1>2. CASE Reconnect
  BY <1>2, InvAtReconnect, Zenon
<1>3. CASE UNCHANGED vars
  <2>1. TypeOK'
    BY <1>3, Zenon DEF vars, ProtoInv, TypeOK
  <2>2. \A e \in Ends : EndInv(e)'
    BY <1>3, Zenon DEF vars, ProtoInv, EndInv
  <2>3. \A e \in Ends : Direction(e)'
    BY <1>3, Zenon DEF vars, ProtoInv, Direction, Stream
  <2>4. (end["client"].zipflag => Link!Announced)'
    BY <1>3, Zenon DEF vars, ProtoInv, Link!Announced
  <2> QED BY <2>1, <2>2, <2>3, <2>4, Zenon DEF ProtoInv
<1> QED BY <1>1, <1>2, <1>3, Zenon DEF Next

\* What is held and what is on the wire are the packets still to be delivered.
THEOREM FramingInvariant == Spec => []ProtoInv
  BY InvAtInit, InvAtStep, PTL DEF Spec

(* Counters, states and packets of both ends stay in their ranges, and the  *)
(* wire never holds more than there is room for.                            *)
THEOREM FramingTypes == Spec => []TypeOK
<1>1. ProtoInv => TypeOK
  BY DEF ProtoInv
<1> QED BY <1>1, FramingInvariant, PTL

LEMMA StepImplementsLink == ProtoInv /\ [Next]_vars => [Link!LinkNext]_(Link!linkVars)
<1> SUFFICES ASSUME ProtoInv, [Next]_vars PROVE [Link!LinkNext]_(Link!linkVars)
  OBVIOUS
<1>1. ASSUME NEW e \in Ends, SendStart(e) PROVE Link!LinkNext
  BY <1>1, Zenon DEF SendStart, Link!LinkNext, Link!Take, Ends
<1>2. ASSUME NEW e \in Ends, RecvPacket(e) PROVE [Link!LinkNext]_(Link!linkVars)
  <2> DEFINE f == Other(e)
             m == taken[f][Len(delivered[f]) + 1]
  <2>1. f \in Ends
    BY EndsAre, Zenon
  <2>2. PICK g, w : /\ Len(delivered[f]) < Len(taken[f])
                    /\ Outcome(e, f, m, g, w)
    BY <1>2, RecvOutcome, Zenon
  <2>3. taken' = taken
    BY <1>2, Zenon DEF RecvPacket
  <2> HIDE DEF f
  <2>4. delivered' = delivered \/ \E x, zipped : Gets(e, f, m, g, x, zipped)
    BY <2>2, Zenon DEF Outcome, Refuses, ReadsOn
  <2>5. ASSUME NEW x, NEW zipped, Gets(e, f, m, g, x, zipped)
        PROVE  Link!LinkNext
    <3>1. /\ zipped \in Marks(f, m, taken["server"])
          /\ delivered' = [delivered EXCEPT
                              ![f] = Append(delivered[f], [len |-> m.len, zipped |-> zipped])]
      BY <2>5, Zenon DEF Gets
    <3>2. zipped \in {FALSE, Link!MayMark(f, m)}
      <4>1. zipped \in BOOLEAN /\ (zipped => m.zipped /\ (f = "client" => Link!Announced))
        BY <3>1, Zenon DEF Marks, Link!Announced
      <4>2. zipped => Link!MayMark(f, m)
        BY <4>1, Zenon DEF Link!MayMark
      <4> QED BY <4>1, <4>2, Zenon DEF Link!MayMark
    <3>3. Link!DeliverNext(f)
      BY <2>2, <2>3, <3>1, <3>2, Zenon DEF Link!DeliverNext
    <3> QED BY <2>1, <3>3, Zenon DEF Link!LinkNext, Ends
  <2> QED BY <2>3, <2>4, <2>5, Zenon DEF Link!linkVars
<1>3. CASE Reconnect
  BY <1>3, Zenon DEF Reconnect, Link!LinkNext, Link!NewConnection
<1>4. ASSUME NEW e \in Ends, SendContinue(e) \/ Leave(e) PROVE UNCHANGED Link!linkVars
  BY <1>4, Zenon DEF SendContinue, Leave, Link!linkVars
<1>5. CASE UNCHANGED vars
  BY <1>5, Zenon DEF vars, Link!linkVars
<1> QED BY <1>1, <1>2, <1>3, <1>4, <1>5, Zenon DEF Next, Step

(* However send and recv are cut, the packets of each end arrive whole, in  *)
(* order and once, with their lengths; a mark may be lost, but the client   *)
(* marks nothing before the server did.                                     *)
THEOREM FramingImplementsLink == Spec => ImplementsLink
<1>1. Init => Link!LinkInit
  BY DEF Init, Link!LinkInit
<1> QED BY <1>1, FramingInvariant, StepImplementsLink, PTL DEF Spec, ImplementsLink, Link!LinkSpec

LEMMA SendLeavesOpen ==
  ASSUME TypeOK, NEW e \in Ends, NEW f \in Ends, SendStart(f) \/ SendContinue(f)
  PROVE  end'[e].closed = end[e].closed
<1>1. end \in [Ends -> End] /\ end[f] \in End
  BY Zenon DEF TypeOK
<1>2. PICK now, more : end' = [end EXCEPT ![f].bytesSent = now, ![f].unfinished = more]
  BY Zenon DEF SendStart, SendContinue, SendPacket
<1>3. end' = [end EXCEPT ![f] = [end[f] EXCEPT !.bytesSent = now, !.unfinished = more]]
  BY <1>1, <1>2, Zenon
<1>4. [end[f] EXCEPT !.bytesSent = now, !.unfinished = more].closed = end[f].closed
  BY <1>1, Zenon DEF End
<1> QED BY <1>1, <1>3, <1>4, Zenon

LEMMA RefusesTooLong ==
  ASSUME ProtoInv, [Next]_vars, NEW e \in Ends, ~end[e].closed, end'[e].closed, wire' # wire
  PROVE  taken[Other(e)][Len(delivered[Other(e)]) + 1].len > MaxPacket
<1>1. TypeOK /\ end \in [Ends -> End]
  BY Zenon DEF ProtoInv, TypeOK
<1>2. ~UNCHANGED vars /\ ~Reconnect /\ \A f \in Ends : ~Leave(f)
  BY Zenon DEF vars, Reconnect, Leave
<1>3. \A f \in Ends : ~SendStart(f) /\ ~SendContinue(f)
  BY <1>1, SendLeavesOpen, Zenon
<1>4. PICK d \in Ends : RecvPacket(d)
  BY <1>2, <1>3, Zenon DEF Next, Step
<1> DEFINE f == Other(d)
           m == taken[f][Len(delivered[f]) + 1]
<1>5. PICK g, w : Outcome(d, f, m, g, w)
  BY <1>4, RecvOutcome, Zenon
<1>6. CASE Refuses(d, m)
  <2>1. d = e
    BY <1>1, <1>6, Zenon DEF Refuses
  <2> QED BY <1>6, <2>1, Zenon DEF Refuses
<1>7. ASSUME NEW x, StillSends(d, x), end' = [end EXCEPT ![d] = x] PROVE FALSE
  <2>1. x.closed = end[d].closed
    BY <1>7, Zenon DEF StillSends
  <2> QED BY <1>1, <1>7, <2>1, Zenon
<1> QED BY <1>5, <1>6, <1>7, Zenon DEF Outcome, ReadsOn, Gets

(* The receiver gives a connection up over a length only when the packet    *)
(* that the sender took is too long: both agree on where a header begins.   *)
THEOREM FramingRefusesOnlyTooLong == Spec => RefusesOnlyTooLong
<1>1. ProtoInv /\ [Next]_vars =>
          [\A e \in Ends :
               ~end[e].closed /\ end'[e].closed /\ wire' # wire =>
                   taken[Other(e)][Len(delivered[Other(e)]) + 1].len > MaxPacket]_vars
  BY RefusesTooLong, Zenon
<1> QED BY <1>1, FramingInvariant, PTL DEF Spec, RefusesOnlyTooLong
=============================================================================
