-------------------------- MODULE MessageQueueProofs --------------------------
(* Lemmas about the queue operations, for the proofs about their users.     *)
EXTENDS MessageQueue, SequenceTheorems, TLAPS

(* A new or a cleared queue is a queue of anything.                         *)
LEMMA EmptyQueueType ==
    ASSUME NEW S, NEW q
    PROVE  /\ NewQueue \in QueueOf(S)
           /\ StopAndClear(q) \in QueueOf(S)
  BY EmptySeq DEF NewQueue, StopAndClear, QueueOf

(* Pushing a message of S keeps a queue of S.                               *)
LEMMA PushType ==
    ASSUME NEW S, NEW q \in QueueOf(S), NEW m \in S, NEW f \in BOOLEAN
    PROVE  Push(q, m, f) \in QueueOf(S)
  BY AppendProperties DEF Push, QueueOf

(* A forced push appends, whether or not the queue was started.             *)
LEMMA ForcedPush ==
    ASSUME NEW S, NEW q \in QueueOf(S), NEW m
    PROVE  Push(q, m, TRUE).items = Append(q.items, m)
  BY DEF Push, QueueOf

(* A readable queue gives a message of S and remains a queue of S.          *)
LEMMA PopType ==
    ASSUME NEW S, NEW q \in QueueOf(S), QueueReadable(q)
    PROVE  /\ q.items \in Seq(S) /\ q.items # <<>>
           /\ Head(q.items) \in S
           /\ Pop(q) \in QueueOf(S)
           /\ Pop(q).items = Tail(q.items)
<1>1. q.items \in Seq(S) /\ q.items # <<>>
  BY DEF QueueOf, QueueReadable
<1>2. Head(q.items) \in S /\ Tail(q.items) \in Seq(S)
  BY <1>1, HeadTailProperties
<1> QED
  BY <1>1, <1>2 DEF QueueOf, Pop
=============================================================================
