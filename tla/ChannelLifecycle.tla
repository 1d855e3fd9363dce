-------------------------- MODULE ChannelLifecycle --------------------------
(***************************************************************************)
(* Who keeps whom alive: the pool, which owns the channels (allChan), the  *)
(* channels' threads, which lock the pool through a weak pointer, and the  *)
(* application, which owns the pool and may keep a channel it looked up.   *)
(* Whoever drops the last reference runs the destructor: of the pool, and  *)
(* in it of every channel, which sets exit and joins the channel's thread. *)
(*                                                                         *)
(* All kinds but VirtualChannel lock the pool for the whole of thread_run; *)
(* a virtual channel locks it for one turn of its loop at a time.  What a  *)
(* thread does besides (ClientChannel, TcpServer, DeviceChannel) is left   *)
(* out.  Where the code's behaviour becomes undefined (a call of the pure  *)
(* virtual thread_run, a null pool, a freed object) the model stops.       *)
(***************************************************************************)
EXTENDS Integers, FiniteSets

CONSTANTS N,      \* channels in the configuration
          Kinds   \* "holder": TCP, UDP and Proto channels; "com"; "virtual"

ASSUME LifecycleAssumption ==
    /\ N \in Nat
    /\ Kinds \subseteq {"holder", "com", "virtual"}

Chs == 1..N

App   == 0            \* the application's thread; channel c's thread is c
Actors == 0..N
Nobody == -1

VARIABLES
    kind,       \* kind[c]
    pool,       \* the pool: "alive", its destructor runs, or "gone"
    poolRefs,   \* threads that hold a shared_ptr to it
    poolBy,     \* the thread that runs ~ChanPool
    released,   \* channels the pool's destructor has let go of
    obj,        \* obj[c]: the channel: "none", "alive", "dying" or "gone"
    objBy,      \* objBy[c]: the thread that runs its destructor
    held,       \* channels the application holds a shared_ptr to
    exit,       \* channels whose exit is set
    pc          \* pc[c]: where the channel's thread is

vars == <<kind, pool, poolRefs, poolBy, released, obj, objBy, held, exit, pc>>

Init ==
    /\ kind \in [Chs -> Kinds]
    /\ pool = "alive"
    /\ poolRefs = {App}
    /\ poolBy = Nobody
    /\ released = 0
    /\ obj = [c \in Chs |-> "none"]
    /\ objBy = [c \in Chs |-> Nobody]
    /\ held = {}
    /\ exit = {}
    /\ pc = [c \in Chs |-> "none"]

\* The process is still in a defined state.
Defined == \A c \in Chs : pc[c] # "undefined"

AppFree == poolBy # App /\ \A c \in Chs : objBy[c] # App

-----------------------------------------------------------------------------
(* Releasing references.                                                    *)

\* Thread a lets go of the pool; the last one destroys it.
DropPool(a) ==
    /\ poolRefs' = poolRefs \ {a}
    /\ IF poolRefs = {a}
       THEN pool' = "destroying" /\ poolBy' = a
       ELSE UNCHANGED <<pool, poolBy>>

\* Mutation: the destructor of a channel does not set exit.
DestroyWithoutExit(c, a) ==
    /\ obj' = [obj EXCEPT ![c] = "dying"]
    /\ objBy' = [objBy EXCEPT ![c] = a]
    /\ UNCHANGED exit

\* Thread a runs ~BasicChannel of c as far as the join.
Destroy(c, a) ==
    /\ obj' = [obj EXCEPT ![c] = "dying"]
    /\ objBy' = [objBy EXCEPT ![c] = a]
    /\ exit' = exit \cup {c}

\* The pool still owns c.
Owned(c) == c > released

-----------------------------------------------------------------------------
(* The application.                                                         *)

\* ChanPool::init: one channel after the other, its thread started before it
\* is in allChan; without an epoll descriptor there is a channel but no thread.
AddChannel(c) ==
    /\ AppFree /\ App \in poolRefs
    /\ obj[c] = "none"
    /\ \A d \in Chs : d < c => obj[d] # "none"
    /\ obj' = [obj EXCEPT ![c] = "alive"]
    /\ \/ pc' = [pc EXCEPT ![c] = "created"]
       \/ UNCHANGED pc
    /\ UNCHANGED <<kind, pool, poolRefs, poolBy, released, objBy, held, exit>>

\* channel_by_alias
Lookup(c) ==
    /\ AppFree /\ App \in poolRefs
    /\ obj[c] = "alive"
    /\ held' = held \cup {c}
    /\ UNCHANGED <<kind, pool, poolRefs, poolBy, released, obj, objBy, exit, pc>>

\* The application ends a channel: it sets exit and sends it CLOSE.
AskExit(c) ==
    /\ AppFree /\ (App \in poolRefs \/ c \in held)
    /\ obj[c] = "alive"
    /\ exit' = exit \cup {c}
    /\ UNCHANGED <<kind, pool, poolRefs, poolBy, released, obj, objBy, held, pc>>

LetGo(c) ==
    /\ AppFree /\ c \in held
    /\ held' = held \ {c}
    /\ IF Owned(c) THEN UNCHANGED <<obj, objBy, exit>> ELSE Destroy(c, App)
    /\ UNCHANGED <<kind, pool, poolRefs, poolBy, released, pc>>

AppDropsPool ==
    /\ AppFree /\ App \in poolRefs
    /\ \A c \in Chs : obj[c] # "none"
    /\ DropPool(App)
    /\ UNCHANGED <<kind, released, obj, objBy, held, exit, pc>>

-----------------------------------------------------------------------------
(* The destructors, in the thread that runs them.                           *)

\* Mutation: one past the last.
OneMoreToRelease == released <= N

MoreToRelease == released < N

\* Mutation: the pool deletes its channels, whoever else refers to them.
KeptByNobody(c) == FALSE

KeptByApp(c) == c \in held

\* ~ChanPool comes to the next channel of allChan.
ReleaseNext ==
    /\ pool = "destroying"
    /\ MoreToRelease
    /\ \A c \in Chs : objBy[c] # poolBy
    /\ released' = released + 1
    /\ IF KeptByApp(released + 1)
       THEN UNCHANGED <<obj, objBy, exit>>
       ELSE Destroy(released + 1, poolBy)
    /\ UNCHANGED <<kind, pool, poolRefs, poolBy, held, pc>>

\* Mutation: the thread is not joined.
JoinedAtOnce(c) == TRUE

\* pthread_join: no thread, one that has ended, or the caller itself.
Joined(c) == pc[c] \in {"none", "ended"} \/ objBy[c] = c

Join(c) ==
    /\ obj[c] = "dying"
    /\ Joined(c)
    /\ obj' = [obj EXCEPT ![c] = "gone"]
    /\ objBy' = [objBy EXCEPT ![c] = Nobody]
    /\ UNCHANGED <<kind, pool, poolRefs, poolBy, released, held, exit, pc>>

\* The thread that ran ~ChanPool goes on: the end of thread_run, or, for a
\* virtual channel, the loop it was in, with its object or without.
PoolGone ==
    /\ pool = "destroying"
    /\ released = N
    /\ \A c \in Chs : objBy[c] # poolBy
    /\ pool' = "gone"
    /\ poolBy' = Nobody
    /\ pc' = [c \in Chs |->
                 IF c # poolBy THEN pc[c]
                 ELSE IF kind[c] # "virtual" THEN "ended"
                 ELSE IF obj[c] = "gone" THEN "undefined"
                 ELSE "between"]
    /\ UNCHANGED <<kind, poolRefs, released, obj, objBy, held, exit>>

-----------------------------------------------------------------------------
(* The threads.                                                             *)

\* Mutation: the pool is locked, but not for the whole of thread_run.
LockForAMoment(c) ==
    /\ pc' = [pc EXCEPT ![c] = "running"]
    /\ UNCHANGED poolRefs

LockForAll(c) ==
    /\ pc' = [pc EXCEPT ![c] = "running"]
    /\ poolRefs' = poolRefs \cup {c}

ThreadStep(c) == UNCHANGED <<kind, released, obj, objBy, held, exit>>

\* _entry_func calls thread_run, which is pure in an object being destroyed.
RunsTooLate(c) ==
    /\ pc[c] = "created" /\ obj[c] = "dying"
    /\ pc' = [pc EXCEPT ![c] = "undefined"]
    /\ UNCHANGED <<pool, poolRefs, poolBy>>
    /\ ThreadStep(c)

RunHolder(c) ==
    /\ pc[c] = "created" /\ obj[c] = "alive"
    /\ kind[c] # "virtual"
    /\ IF pool = "alive"
       THEN LockForAll(c)
       ELSE /\ pc' = [pc EXCEPT ![c] = IF kind[c] = "com" THEN "undefined" ELSE "ended"]
            /\ UNCHANGED poolRefs
    /\ UNCHANGED <<pool, poolBy>>
    /\ ThreadStep(c)

\* thread_run returns and lets go of the pool last.
HolderEnds(c) ==
    /\ pc[c] = "running"
    /\ c \in exit
    /\ DropPool(c)
    /\ pc' = [pc EXCEPT ![c] = IF poolRefs = {c} THEN "releasing" ELSE "ended"]
    /\ ThreadStep(c)

\* The socket of a virtual channel is set up, or is not.
RunVirtual(c) ==
    /\ pc[c] = "created" /\ obj[c] = "alive"
    /\ kind[c] = "virtual"
    /\ \E next \in {"between", "ended"} : pc' = [pc EXCEPT ![c] = next]
    /\ UNCHANGED <<pool, poolRefs, poolBy>>
    /\ ThreadStep(c)

\* do_message_loop locks the pool; when it cannot it returns to thread_run,
\* which calls it again.
TurnBegins(c) ==
    /\ pc[c] = "between"
    /\ pool = "alive"
    /\ pc' = [pc EXCEPT ![c] = "turn"]
    /\ poolRefs' = poolRefs \cup {c}
    /\ UNCHANGED <<pool, poolBy>>
    /\ ThreadStep(c)

TurnEnds(c) ==
    /\ pc[c] = "turn"
    /\ DropPool(c)
    /\ pc' = [pc EXCEPT ![c] = IF poolRefs = {c} THEN "releasing" ELSE "between"]
    /\ ThreadStep(c)

VirtualEnds(c) ==
    /\ pc[c] = "between"
    /\ c \in exit
    /\ pc' = [pc EXCEPT ![c] = "ended"]
    /\ UNCHANGED <<pool, poolRefs, poolBy>>
    /\ ThreadStep(c)

Thread(c) ==
    \/ RunsTooLate(c) \/ RunHolder(c) \/ HolderEnds(c)
    \/ RunVirtual(c) \/ TurnBegins(c) \/ TurnEnds(c) \/ VirtualEnds(c)

Application ==
    \/ AppDropsPool
    \/ \E c \in Chs : AddChannel(c) \/ Lookup(c) \/ AskExit(c) \/ LetGo(c)

Destructors == ReleaseNext \/ PoolGone \/ \E c \in Chs : Join(c)

Next == Defined /\ (Application \/ Destructors \/ \E c \in Chs : Thread(c))

Spec == Init /\ [][Next]_vars

(* Every thread runs, and a destructor goes on when it can.  Nothing obliges *)
(* the application to anything but to finish a destructor it is in.          *)
Fairness ==
    /\ \A c \in Chs :
           /\ WF_vars(Defined /\ (RunsTooLate(c) \/ RunHolder(c) \/ RunVirtual(c)))
           /\ WF_vars(Defined /\ (HolderEnds(c) \/ TurnEnds(c)))
           /\ SF_vars(Defined /\ VirtualEnds(c))
           /\ WF_vars(Defined /\ Join(c))
    /\ WF_vars(Defined /\ ReleaseNext)
    /\ WF_vars(Defined /\ PoolGone)

FairSpec == Spec /\ Fairness

-----------------------------------------------------------------------------
(* Properties.                                                              *)

TypeOK ==
    /\ kind \in [Chs -> Kinds]
    /\ pool \in {"alive", "destroying", "gone"}
    /\ poolRefs \subseteq Actors
    /\ poolBy \in Actors \cup {Nobody}
    /\ released \in 0..N
    /\ obj \in [Chs -> {"none", "alive", "dying", "gone"}]
    /\ objBy \in [Chs -> Actors \cup {Nobody}]
    /\ held \subseteq Chs
    /\ exit \subseteq Chs
    /\ pc \in [Chs -> {"none", "created", "running", "between", "turn", "releasing",
                       "ended", "undefined"}]

(* While a thread is serving (all of thread_run, or one turn of a virtual   *)
(* channel), nobody has begun to destroy its channel, however references to *)
(* the pool and the channel are dropped.                                    *)
ServesLiveChannel ==
    \A c \in Chs : pc[c] \in {"running", "turn"} => obj[c] = "alive"

(* A channel is freed when its thread has ended or never was; only the      *)
(* thread that is destroying the pool outlives its channel, and it goes on  *)
(* to use it only if the channel is virtual.                                *)
FreedAfterThread ==
    \A c \in Chs : obj[c] = "gone" =>
        \/ pc[c] \in {"none", "ended"}
        \/ pc[c] = "releasing" /\ poolBy = c
        \/ pc[c] = "undefined" /\ kind[c] = "virtual"

(* A channel is destroyed only when neither the pool nor the application    *)
(* refers to it.                                                            *)
DestroyedUnreferenced ==
    \A c \in Chs : obj[c] \in {"dying", "gone"} => ~Owned(c) /\ c \notin held

AllGone ==
    /\ pool = "gone"
    /\ \A c \in Chs : obj[c] = "gone" /\ pc[c] \in {"none", "ended"}

\* Channels whose threads keep the pool alive by themselves: one that holds
\* it throughout, or two virtual channels, which lock it in turns.
NotTold == Chs \ exit

KeepNothingAlive == Cardinality(NotTold) <= 1 /\ \A c \in NotTold : kind[c] = "virtual"

(* Once the application has let everything go and told the channels to exit *)
(* (all but one, if that one is virtual), the pool and all channels are     *)
(* destroyed and the threads end: the joins never wait for each other, and  *)
(* the destructor stops the thread nobody told.                             *)
ShutdownCompletes ==
    (App \notin poolRefs /\ held = {} /\ KeepNothingAlive) ~> (AllGone \/ ~Defined)
=============================================================================
