---------------------------- MODULE MessageQueue ----------------------------
(***************************************************************************)
(* The MessageQueue<T> class of the messagequeue submodule, which this     *)
(* repository only uses: it is modelled from its uses in BasicChannel and  *)
(* the channels, and marked external.                                      *)
(*                                                                         *)
(* A queue is built stopped (basicchannel.h:18).  A push with forceStart   *)
(* starts it (every OPEN announcement is pushed that way); a push without  *)
(* forceStart to a stopped queue is lost; stop_and_clear empties the queue *)
(* and stops it.  The queue converts to a descriptor that epoll finds      *)
(* readable while the queue is not empty.                                  *)
(***************************************************************************)
EXTENDS Sequences

QueueOf(S) == [started : BOOLEAN, items : Seq(S)]

NewQueue == [started |-> FALSE, items |-> <<>>]

Push(q, m, forceStart) ==
    IF q.started \/ forceStart
    THEN [started |-> TRUE, items |-> Append(q.items, m)]
    ELSE q

Pop(q) == [started |-> q.started, items |-> Tail(q.items)]

StopAndClear(q) == [started |-> FALSE, items |-> <<>>]

QueueReadable(q) == q.items # <<>>
=============================================================================
