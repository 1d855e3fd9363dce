-------------------------- MODULE PeerRegistryProofs --------------------------
(***************************************************************************)
(* The registry keeps its types and its view converges, whatever the       *)
(* descriptors, the connections and the length of the feed.                *)
(***************************************************************************)
EXTENDS PeerRegistry, SequenceTheorems, TLAPS

(* Types: every variable keeps its type.                                    *)
LEMMA RegistryTypes == RegistrySafety => []RegistryTypeOK
<1>1. RegistryInit => RegistryTypeOK
  BY DEF RegistryInit, RegistryTypeOK
<1>2. RegistryTypeOK /\ [RegistryNext]_registryVars => RegistryTypeOK'
  <2> SUFFICES ASSUME RegistryTypeOK, [RegistryNext]_registryVars
               PROVE  RegistryTypeOK'
    OBVIOUS
  <2> USE DEF RegistryTypeOK
  <2>1. CASE \E fd \in Fds, c \in Conns : Open(fd, c)
    <3> PICK fd \in Fds, c \in Conns : Open(fd, c)
      BY <2>1
    <3>1. [type |-> "OPEN", fd |-> fd, conn |-> c] \in Announcement
      BY DEF Announcement
    <3> QED
      BY <3>1 DEF Open
  <2>2. CASE \E fd \in Fds : Close(fd)
    <3> PICK fd \in Fds : Close(fd)
      BY <2>2
    <3>1. [type |-> "CLOSE", fd |-> fd, conn |-> live[fd]] \in Announcement
      BY DEF Announcement, Close
    <3> QED
      BY <3>1 DEF Close
  <2>3. CASE Learn
    <3>1. Head(feed) \in Announcement /\ Tail(feed) \in Seq(Announcement)
      BY <2>3, HeadTailProperties DEF Learn
    <3>2. Effect(Head(feed)) \in Conns \cup {None}
      BY <3>1 DEF Effect, Announcement
    <3> QED
      BY <2>3, <3>1, <3>2 DEF Learn
  <2>4. CASE UNCHANGED registryVars
    BY <2>4 DEF registryVars
  <2> QED
    BY <2>1, <2>2, <2>3, <2>4 DEF RegistryNext
<1> QED
  BY <1>1, <1>2, PTL DEF RegistrySafety

(* One descriptor: what the feed still holds about fd ends with l, or is    *)
(* nothing and the view v is l already.                                     *)
Ends(fd, q, v, l) ==
    \/ \E i \in 1..Len(q) :
           /\ q[i].fd = fd
           /\ \A j \in (i+1)..Len(q) : q[j].fd # fd
           /\ l = Effect(q[i])
    \/ /\ \A j \in 1..Len(q) : q[j].fd # fd
       /\ l = v

(* Announcing the change of a descriptor makes the feed end with it, and    *)
(* leaves the other descriptors as they were.                               *)
LEMMA AnnounceEnds ==
    ASSUME NEW q \in Seq(Announcement), NEW m \in Announcement,
           NEW fd \in Fds, NEW v, NEW l,
           m.fd # fd => Ends(fd, q, v, l),
           m.fd = fd => l = Effect(m)
    PROVE  Ends(fd, Append(q, m), v, l)
<1> DEFINE r == Append(q, m)
<1>1. /\ Len(q) \in Nat
      /\ Len(r) = Len(q) + 1
      /\ \A i \in 1..Len(q) : r[i] = q[i]
      /\ r[Len(q) + 1] = m
  BY AppendProperties, LenProperties
<1> HIDE DEF r
<1>2. CASE m.fd = fd
  <2>1. Len(r) \in 1..Len(r) /\ r[Len(r)] = m
    BY <1>1
  <2>2. \A j \in (Len(r)+1)..Len(r) : r[j].fd # fd
    BY <1>1
  <2> QED
    BY <1>2, <2>1, <2>2 DEF Ends, r
<1>3. CASE m.fd # fd
  <2>1. CASE \E i \in 1..Len(q) : /\ q[i].fd = fd
                                  /\ \A j \in (i+1)..Len(q) : q[j].fd # fd
                                  /\ l = Effect(q[i])
    <3> PICK i \in 1..Len(q) : /\ q[i].fd = fd
                               /\ \A j \in (i+1)..Len(q) : q[j].fd # fd
                               /\ l = Effect(q[i])
      BY <2>1
    <3>1. i \in 1..Len(r) /\ r[i] = q[i]
      BY <1>1
    <3>2. \A j \in (i+1)..Len(r) : r[j].fd # fd
      BY <1>1, <1>3
    <3> QED
      BY <3>1, <3>2 DEF Ends, r
  <2>2. CASE (\A j \in 1..Len(q) : q[j].fd # fd) /\ l = v
    <3>1. \A j \in 1..Len(r) : r[j].fd # fd
      BY <1>1, <1>3, <2>2
    <3> QED
      BY <2>2, <3>1 DEF Ends, r
  <2> QED
    BY <1>3, <2>1, <2>2 DEF Ends
<1> QED
  BY <1>2, <1>3

(* Reading the head of the feed moves its effect into the view.             *)
LEMMA LearnEnds ==
    ASSUME NEW q \in Seq(Announcement), q # <<>>,
           NEW fd \in Fds, NEW v, NEW l, Ends(fd, q, v, l)
    PROVE  Ends(fd, Tail(q), IF Head(q).fd = fd THEN Effect(Head(q)) ELSE v, l)
<1> DEFINE t == Tail(q)
           w == IF Head(q).fd = fd THEN Effect(Head(q)) ELSE v
<1>1. /\ Len(q) \in Nat \ {0}
      /\ Len(t) = Len(q) - 1
      /\ \A i \in 1..Len(t) : t[i] = q[i + 1]
      /\ Head(q) = q[1]
  BY HeadTailProperties, LenProperties, EmptySeq
<1> HIDE DEF t
<1>2. CASE \E i \in 1..Len(q) : /\ q[i].fd = fd
                                /\ \A j \in (i+1)..Len(q) : q[j].fd # fd
                                /\ l = Effect(q[i])
  <2> PICK i \in 1..Len(q) : /\ q[i].fd = fd
                             /\ \A j \in (i+1)..Len(q) : q[j].fd # fd
                             /\ l = Effect(q[i])
    BY <1>2
  <2>1. CASE i = 1
    <3>1. \A j \in 1..Len(t) : t[j].fd # fd
      BY <1>1, <2>1
    <3>2. w = l
      BY <1>1, <2>1
    <3> QED
      BY <3>1, <3>2 DEF Ends, t
  <2>2. CASE i # 1
    <3>1. (i - 1) \in 1..Len(t) /\ t[i - 1] = q[i]
      BY <1>1, <2>2
    <3>2. \A j \in ((i - 1) + 1)..Len(t) : t[j].fd # fd
      BY <1>1, <2>2
    <3> QED
      BY <3>1, <3>2 DEF Ends, t
  <2> QED
    BY <2>1, <2>2
<1>3. CASE (\A j \in 1..Len(q) : q[j].fd # fd) /\ l = v
  <2>1. \A j \in 1..Len(t) : t[j].fd # fd
    BY <1>1, <1>3
  <2>2. w = l
    BY <1>1, <1>3
  <2> QED
    BY <2>1, <2>2 DEF Ends, t
<1> QED
  BY <1>2, <1>3 DEF Ends

(* The view converges: after any sequence of connections, disconnections    *)
(* and reads, with any reuse of descriptors, what is still in the feed      *)
(* brings the application's view to the server's map.                       *)
THEOREM RegistryConverges == RegistrySafety => []ViewConverges
<1>1. RegistryInit => ViewConverges
  BY DEF RegistryInit, ViewConverges
<1>2. RegistryTypeOK /\ ViewConverges /\ [RegistryNext]_registryVars => ViewConverges'
  <2> SUFFICES ASSUME RegistryTypeOK, ViewConverges, [RegistryNext]_registryVars,
                      NEW f \in Fds
               PROVE  Ends(f, feed', view'[f], live'[f])
    BY DEF ViewConverges, Ends
  <2>0. Ends(f, feed, view[f], live[f])
    BY DEF ViewConverges, Ends
  <2>1. CASE \E fd \in Fds, c \in Conns : Open(fd, c)
    <3> PICK fd \in Fds, c \in Conns : Open(fd, c)
      BY <2>1
    <3> DEFINE m == [type |-> "OPEN", fd |-> fd, conn |-> c]
    <3>1. m \in Announcement /\ m.fd = fd /\ Effect(m) = c
      BY DEF Announcement, Effect
    <3>2. feed' = Append(feed, m) /\ view' = view /\ live'[f] = IF f = fd THEN c ELSE live[f]
      BY DEF Open, RegistryTypeOK
    <3> HIDE DEF m
    <3> QED
      BY <2>0, <3>1, <3>2, AnnounceEnds DEF RegistryTypeOK
  <2>2. CASE \E fd \in Fds : Close(fd)
    <3> PICK fd \in Fds : Close(fd)
      BY <2>2
    <3> DEFINE m == [type |-> "CLOSE", fd |-> fd, conn |-> live[fd]]
    <3>1. m \in Announcement /\ m.fd = fd /\ Effect(m) = None
      BY DEF Announcement, Effect, Close, RegistryTypeOK
    <3>2. feed' = Append(feed, m) /\ view' = view /\ live'[f] = IF f = fd THEN None ELSE live[f]
      BY DEF Close, RegistryTypeOK
    <3> HIDE DEF m
    <3> QED
      BY <2>0, <3>1, <3>2, AnnounceEnds DEF RegistryTypeOK
  <2>3. CASE Learn
    <3>1. view'[f] = IF Head(feed).fd = f THEN Effect(Head(feed)) ELSE view[f]
      BY <2>3 DEF Learn, RegistryTypeOK
    <3>2. feed \in Seq(Announcement) /\ feed # <<>> /\ feed' = Tail(feed) /\ live' = live
      BY <2>3 DEF Learn, RegistryTypeOK
    <3> QED
      BY <2>0, <3>1, <3>2, LearnEnds
  <2>4. CASE UNCHANGED registryVars
    BY <2>0, <2>4 DEF registryVars
  <2> QED
    BY <2>1, <2>2, <2>3, <2>4 DEF RegistryNext
<1> QED
  BY <1>1, <1>2, RegistryTypes, PTL DEF RegistrySafety
=============================================================================
