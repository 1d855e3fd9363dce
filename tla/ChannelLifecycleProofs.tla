----------------------- MODULE ChannelLifecycleProofs -----------------------
(***************************************************************************)
(* For any number of channels of any kinds: nobody destroys a channel      *)
(* whose thread is serving, a channel is freed after its thread, and only  *)
(* when nothing refers to it.                                              *)
(***************************************************************************)
EXTENDS ChannelLifecycle, TLAPS

\* The pool lives as long as somebody refers to it, and who serves does.
RefsKeepPool ==
    /\ pool = "alive" <=> poolRefs # {}
    /\ \A c \in Chs : pc[c] \in {"running", "turn"} => c \in poolRefs

\* Its destructor runs in one thread, which waits in it, and lets go of the
\* channels only then.
OneDestroyer ==
    /\ pool = "destroying" <=> poolBy # Nobody
    /\ pool = "alive" => released = 0
    /\ \A c \in Chs : pc[c] = "releasing" <=> poolBy = c
    /\ \A c \in Chs : objBy[c] \in {Nobody, App, poolBy}

\* What the application holds is alive, and no thread is without its object.
HeldIsAlive ==
    /\ \A c \in held : obj[c] = "alive"
    /\ \A c \in Chs : obj[c] = "none" => pc[c] = "none"

IInv ==
    /\ TypeOK
    /\ RefsKeepPool
    /\ OneDestroyer
    /\ HeldIsAlive
    /\ FreedAfterThread
    /\ DestroyedUnreferenced

LEMMA LifecycleInit == Init => IInv
  BY LifecycleAssumption, SMTT(30)
  DEF Init, IInv, TypeOK, RefsKeepPool, OneDestroyer, HeldIsAlive, FreedAfterThread,
      DestroyedUnreferenced, Chs, Actors, App, Nobody, Owned

\* Every action keeps the types.
LEMMA TypesStep ==
  ASSUME TypeOK, Next
  PROVE  TypeOK'
<1> USE LifecycleAssumption
<1>1. CASE AppDropsPool
  BY <1>1, SMTT(30) DEF AppDropsPool, AppFree, DropPool, TypeOK, Chs, Actors,
      App, Nobody
<1>2. ASSUME NEW c \in Chs, AddChannel(c) PROVE TypeOK'
  BY <1>2, SMTT(30) DEF AddChannel, AppFree, TypeOK, Chs, Actors, App, Nobody
<1>3. ASSUME NEW c \in Chs, Lookup(c) PROVE TypeOK'
  BY <1>3, SMTT(30) DEF Lookup, AppFree, TypeOK, Chs, Actors, App, Nobody
<1>4. ASSUME NEW c \in Chs, AskExit(c) PROVE TypeOK'
  BY <1>4, SMTT(30) DEF AskExit, AppFree, TypeOK, Chs, Actors, App, Nobody
<1>5. ASSUME NEW c \in Chs, LetGo(c) PROVE TypeOK'
  <2>1. CASE Owned(c)
    BY <1>5, <2>1, SMTT(30) DEF LetGo, TypeOK
  <2>2. CASE ~Owned(c)
    BY <1>5, <2>2, SMTT(30) DEF LetGo, Destroy, TypeOK, Actors, App
  <2> QED BY <2>1, <2>2
<1>6. CASE ReleaseNext
  <2>1. released + 1 \in Chs /\ released' \in 0..N /\ poolBy \in Actors \cup {Nobody}
    BY <1>6, SMTT(30) DEF ReleaseNext, MoreToRelease, TypeOK, Chs
  <2>2. CASE KeptByApp(released + 1)
    BY <1>6, <2>1, <2>2, SMTT(30) DEF ReleaseNext, TypeOK
  <2>3. CASE ~KeptByApp(released + 1)
    BY <1>6, <2>1, <2>3, SMTT(30) DEF ReleaseNext, Destroy, TypeOK
  <2> QED BY <2>2, <2>3
<1>7. ASSUME NEW c \in Chs, Join(c) PROVE TypeOK'
  BY <1>7, SMTT(30) DEF Join, Joined, TypeOK, Chs, Actors, App, Nobody
<1>8. CASE PoolGone
  BY <1>8, SMTT(30) DEF PoolGone, TypeOK, Chs, Actors, App, Nobody
<1>9. ASSUME NEW c \in Chs, RunsTooLate(c) PROVE TypeOK'
  BY <1>9, SMTT(30) DEF RunsTooLate, ThreadStep, TypeOK, Chs, Actors, App,
      Nobody
<1>10. ASSUME NEW c \in Chs, RunHolder(c) PROVE TypeOK'
  <2>1. CASE pool = "alive"
    <3>1. /\ pc' = [pc EXCEPT ![c] = "running"] /\ poolRefs' = poolRefs \cup {c}
          /\ UNCHANGED <<pool, poolBy, kind, released, obj, objBy, held, exit>>
      BY <1>10, <2>1, Zenon DEF RunHolder, LockForAll, ThreadStep
    <3>2. c \in Actors
      BY LifecycleAssumption, SMT DEF Chs, Actors
    <3> QED BY <3>1, <3>2, SMTT(30) DEF TypeOK
  <2>2. CASE pool # "alive"
    <3>1. CASE kind[c] = "com"
      <4>1. pc' = [pc EXCEPT ![c] = "undefined"]
        BY <1>10, <2>2, <3>1, Zenon DEF RunHolder
      <4> QED BY <1>10, <2>2, <4>1, SMTT(30) DEF RunHolder, ThreadStep, TypeOK
    <3>2. CASE kind[c] # "com"
      <4>1. pc' = [pc EXCEPT ![c] = "ended"]
        BY <1>10, <2>2, <3>2, Zenon DEF RunHolder
      <4> QED BY <1>10, <2>2, <4>1, SMTT(30) DEF RunHolder, ThreadStep, TypeOK
    <3> QED BY <3>1, <3>2
  <2> QED BY <2>1, <2>2
<1>11. ASSUME NEW c \in Chs, HolderEnds(c) PROVE TypeOK'
  BY <1>11, SMTT(30) DEF HolderEnds, DropPool, ThreadStep, TypeOK, Chs,
      Actors, App, Nobody
<1>12. ASSUME NEW c \in Chs, RunVirtual(c) PROVE TypeOK'
  BY <1>12, SMTT(30) DEF RunVirtual, ThreadStep, TypeOK, Chs, Actors, App,
      Nobody
<1>13. ASSUME NEW c \in Chs, TurnBegins(c) PROVE TypeOK'
  BY <1>13, SMTT(30) DEF TurnBegins, ThreadStep, TypeOK, Chs, Actors, App,
      Nobody
<1>14. ASSUME NEW c \in Chs, TurnEnds(c) PROVE TypeOK'
  BY <1>14, SMTT(30) DEF TurnEnds, DropPool, ThreadStep, TypeOK, Chs, Actors,
      App, Nobody
<1>15. ASSUME NEW c \in Chs, VirtualEnds(c) PROVE TypeOK'
  BY <1>15, SMTT(30) DEF VirtualEnds, ThreadStep, TypeOK, Chs, Actors, App,
      Nobody
<1> QED
  BY <1>1, <1>2, <1>3, <1>4, <1>5, <1>6, <1>7, <1>8, <1>9, <1>10, <1>11,
      <1>12, <1>13, <1>14, <1>15, Zenon DEF Next, Application, Destructors,
      Thread

\* The last reference takes the pool with it, and only a server's own step
\* drops what it serves with.
LEMMA RefsStep ==
  ASSUME TypeOK, OneDestroyer, RefsKeepPool, Next
  PROVE  RefsKeepPool'
<1> USE LifecycleAssumption
<1>1. CASE AppDropsPool
  BY <1>1, SMTT(30) DEF AppDropsPool, AppFree, DropPool, RefsKeepPool,
      OneDestroyer, TypeOK, Chs, Actors, App, Nobody
<1>2. ASSUME NEW c \in Chs, AddChannel(c) PROVE RefsKeepPool'
  BY <1>2, SMTT(30) DEF AddChannel, AppFree, RefsKeepPool, OneDestroyer,
      TypeOK, Chs, Actors, App, Nobody
<1>3. ASSUME NEW c \in Chs, Lookup(c) PROVE RefsKeepPool'
  BY <1>3, SMTT(30) DEF Lookup, AppFree, RefsKeepPool, OneDestroyer, TypeOK,
      Chs, Actors, App, Nobody
<1>4. ASSUME NEW c \in Chs, AskExit(c) PROVE RefsKeepPool'
  BY <1>4, SMTT(30) DEF AskExit, AppFree, RefsKeepPool, OneDestroyer, TypeOK,
      Chs, Actors, App, Nobody
<1>5. ASSUME NEW c \in Chs, LetGo(c) PROVE RefsKeepPool'
  BY <1>5, SMTT(30) DEF LetGo, AppFree, Destroy, Owned, RefsKeepPool,
      OneDestroyer, TypeOK, Chs, Actors, App, Nobody
<1>6. CASE ReleaseNext
  BY <1>6, SMTT(30) DEF ReleaseNext, MoreToRelease, KeptByApp, Destroy,
      RefsKeepPool, OneDestroyer, TypeOK, Chs, Actors, App, Nobody
<1>7. ASSUME NEW c \in Chs, Join(c) PROVE RefsKeepPool'
  BY <1>7, SMTT(30) DEF Join, Joined, RefsKeepPool, OneDestroyer, TypeOK, Chs,
      Actors, App, Nobody
<1>8. CASE PoolGone
  BY <1>8, SMTT(30) DEF PoolGone, RefsKeepPool, OneDestroyer, TypeOK, Chs,
      Actors, App, Nobody
<1>9. ASSUME NEW c \in Chs, RunsTooLate(c) PROVE RefsKeepPool'
  BY <1>9, SMTT(30) DEF RunsTooLate, ThreadStep, RefsKeepPool, OneDestroyer,
      TypeOK, Chs, Actors, App, Nobody
<1>10. ASSUME NEW c \in Chs, RunHolder(c) PROVE RefsKeepPool'
  BY <1>10, SMTT(30) DEF RunHolder, LockForAll, ThreadStep, RefsKeepPool,
      OneDestroyer, TypeOK, Chs, Actors, App, Nobody
<1>11. ASSUME NEW c \in Chs, HolderEnds(c) PROVE RefsKeepPool'
  BY <1>11, SMTT(30) DEF HolderEnds, DropPool, ThreadStep, RefsKeepPool,
      OneDestroyer, TypeOK, Chs, Actors, App, Nobody
<1>12. ASSUME NEW c \in Chs, RunVirtual(c) PROVE RefsKeepPool'
  BY <1>12, SMTT(30) DEF RunVirtual, ThreadStep, RefsKeepPool, OneDestroyer,
      TypeOK, Chs, Actors, App, Nobody
<1>13. ASSUME NEW c \in Chs, TurnBegins(c) PROVE RefsKeepPool'
  BY <1>13, SMTT(30) DEF TurnBegins, ThreadStep, RefsKeepPool, OneDestroyer,
      TypeOK, Chs, Actors, App, Nobody
<1>14. ASSUME NEW c \in Chs, TurnEnds(c) PROVE RefsKeepPool'
  BY <1>14, SMTT(30) DEF TurnEnds, DropPool, ThreadStep, RefsKeepPool,
      OneDestroyer, TypeOK, Chs, Actors, App, Nobody
<1>15. ASSUME NEW c \in Chs, VirtualEnds(c) PROVE RefsKeepPool'
  BY <1>15, SMTT(30) DEF VirtualEnds, ThreadStep, RefsKeepPool, OneDestroyer,
      TypeOK, Chs, Actors, App, Nobody
<1> QED
  BY <1>1, <1>2, <1>3, <1>4, <1>5, <1>6, <1>7, <1>8, <1>9, <1>10, <1>11,
      <1>12, <1>13, <1>14, <1>15, Zenon DEF Next, Application, Destructors,
      Thread

\* A destructor of the pool begins once, in the thread of the last reference.
LEMMA DestroyerStep ==
  ASSUME TypeOK, RefsKeepPool, OneDestroyer, Next
  PROVE  OneDestroyer'
<1> USE LifecycleAssumption
<1>1. CASE AppDropsPool
  BY <1>1, SMTT(30) DEF AppDropsPool, AppFree, DropPool, OneDestroyer,
      RefsKeepPool, TypeOK, Chs, Actors, App, Nobody
<1>2. ASSUME NEW c \in Chs, AddChannel(c) PROVE OneDestroyer'
  BY <1>2, SMTT(30) DEF AddChannel, AppFree, OneDestroyer, RefsKeepPool,
      TypeOK, Chs, Actors, App, Nobody
<1>3. ASSUME NEW c \in Chs, Lookup(c) PROVE OneDestroyer'
  BY <1>3, SMTT(30) DEF Lookup, AppFree, OneDestroyer, RefsKeepPool, TypeOK,
      Chs, Actors, App, Nobody
<1>4. ASSUME NEW c \in Chs, AskExit(c) PROVE OneDestroyer'
  BY <1>4, SMTT(30) DEF AskExit, AppFree, OneDestroyer, RefsKeepPool, TypeOK,
      Chs, Actors, App, Nobody
<1>5. ASSUME NEW c \in Chs, LetGo(c) PROVE OneDestroyer'
  BY <1>5, SMTT(30) DEF LetGo, AppFree, Destroy, Owned, OneDestroyer,
      RefsKeepPool, TypeOK, Chs, Actors, App, Nobody
<1>6. CASE ReleaseNext
  BY <1>6, SMTT(30) DEF ReleaseNext, MoreToRelease, KeptByApp, Destroy,
      OneDestroyer, RefsKeepPool, TypeOK, Chs, Actors, App, Nobody
<1>7. ASSUME NEW c \in Chs, Join(c) PROVE OneDestroyer'
  BY <1>7, SMTT(30) DEF Join, Joined, OneDestroyer, RefsKeepPool, TypeOK, Chs,
      Actors, App, Nobody
<1>8. CASE PoolGone
  BY <1>8, SMTT(30) DEF PoolGone, OneDestroyer, RefsKeepPool, TypeOK, Chs,
      Actors, App, Nobody
<1>9. ASSUME NEW c \in Chs, RunsTooLate(c) PROVE OneDestroyer'
  BY <1>9, SMTT(30) DEF RunsTooLate, ThreadStep, OneDestroyer, RefsKeepPool,
      TypeOK, Chs, Actors, App, Nobody
<1>10. ASSUME NEW c \in Chs, RunHolder(c) PROVE OneDestroyer'
  BY <1>10, SMTT(30) DEF RunHolder, LockForAll, ThreadStep, OneDestroyer,
      RefsKeepPool, TypeOK, Chs, Actors, App, Nobody
<1>11. ASSUME NEW c \in Chs, HolderEnds(c) PROVE OneDestroyer'
  BY <1>11, SMTT(30) DEF HolderEnds, DropPool, ThreadStep, OneDestroyer,
      RefsKeepPool, TypeOK, Chs, Actors, App, Nobody
<1>12. ASSUME NEW c \in Chs, RunVirtual(c) PROVE OneDestroyer'
  BY <1>12, SMTT(30) DEF RunVirtual, ThreadStep, OneDestroyer, RefsKeepPool,
      TypeOK, Chs, Actors, App, Nobody
<1>13. ASSUME NEW c \in Chs, TurnBegins(c) PROVE OneDestroyer'
  BY <1>13, SMTT(30) DEF TurnBegins, ThreadStep, OneDestroyer, RefsKeepPool,
      TypeOK, Chs, Actors, App, Nobody
<1>14. ASSUME NEW c \in Chs, TurnEnds(c) PROVE OneDestroyer'
  BY <1>14, SMTT(30) DEF TurnEnds, DropPool, ThreadStep, OneDestroyer,
      RefsKeepPool, TypeOK, Chs, Actors, App, Nobody
<1>15. ASSUME NEW c \in Chs, VirtualEnds(c) PROVE OneDestroyer'
  BY <1>15, SMTT(30) DEF VirtualEnds, ThreadStep, OneDestroyer, RefsKeepPool,
      TypeOK, Chs, Actors, App, Nobody
<1> QED
  BY <1>1, <1>2, <1>3, <1>4, <1>5, <1>6, <1>7, <1>8, <1>9, <1>10, <1>11,
      <1>12, <1>13, <1>14, <1>15, Zenon DEF Next, Application, Destructors,
      Thread

\* What the application holds nobody destroys.
LEMMA HeldStep ==
  ASSUME TypeOK, OneDestroyer, DestroyedUnreferenced, HeldIsAlive, Next
  PROVE  HeldIsAlive'
<1> USE LifecycleAssumption
<1>1. CASE AppDropsPool
  BY <1>1, SMTT(30) DEF AppDropsPool, AppFree, DropPool, HeldIsAlive,
      OneDestroyer, DestroyedUnreferenced, Owned, TypeOK, Chs, Actors, App,
      Nobody
<1>2. ASSUME NEW c \in Chs, AddChannel(c) PROVE HeldIsAlive'
  BY <1>2, SMTT(30) DEF AddChannel, AppFree, HeldIsAlive, OneDestroyer,
      DestroyedUnreferenced, Owned, TypeOK, Chs, Actors, App, Nobody
<1>3. ASSUME NEW c \in Chs, Lookup(c) PROVE HeldIsAlive'
  BY <1>3, SMTT(30) DEF Lookup, AppFree, HeldIsAlive, OneDestroyer,
      DestroyedUnreferenced, Owned, TypeOK, Chs, Actors, App, Nobody
<1>4. ASSUME NEW c \in Chs, AskExit(c) PROVE HeldIsAlive'
  BY <1>4, SMTT(30) DEF AskExit, AppFree, HeldIsAlive, OneDestroyer,
      DestroyedUnreferenced, Owned, TypeOK, Chs, Actors, App, Nobody
<1>5. ASSUME NEW c \in Chs, LetGo(c) PROVE HeldIsAlive'
  BY <1>5, SMTT(30) DEF LetGo, AppFree, Destroy, Owned, HeldIsAlive,
      OneDestroyer, DestroyedUnreferenced, TypeOK, Chs, Actors, App, Nobody
<1>6. CASE ReleaseNext
  BY <1>6, SMTT(30) DEF ReleaseNext, MoreToRelease, KeptByApp, Destroy,
      HeldIsAlive, OneDestroyer, DestroyedUnreferenced, Owned, TypeOK, Chs,
      Actors, App, Nobody
<1>7. ASSUME NEW c \in Chs, Join(c) PROVE HeldIsAlive'
  BY <1>7, SMTT(30) DEF Join, Joined, HeldIsAlive, OneDestroyer,
      DestroyedUnreferenced, Owned, TypeOK, Chs, Actors, App, Nobody
<1>8. CASE PoolGone
  BY <1>8, SMTT(30) DEF PoolGone, HeldIsAlive, OneDestroyer,
      DestroyedUnreferenced, Owned, TypeOK, Chs, Actors, App, Nobody
<1>9. ASSUME NEW c \in Chs, RunsTooLate(c) PROVE HeldIsAlive'
  BY <1>9, SMTT(30) DEF RunsTooLate, ThreadStep, HeldIsAlive, OneDestroyer,
      DestroyedUnreferenced, Owned, TypeOK, Chs, Actors, App, Nobody
<1>10. ASSUME NEW c \in Chs, RunHolder(c) PROVE HeldIsAlive'
  BY <1>10, SMTT(30) DEF RunHolder, LockForAll, ThreadStep, HeldIsAlive,
      OneDestroyer, DestroyedUnreferenced, Owned, TypeOK, Chs, Actors, App,
      Nobody
<1>11. ASSUME NEW c \in Chs, HolderEnds(c) PROVE HeldIsAlive'
  BY <1>11, SMTT(30) DEF HolderEnds, DropPool, ThreadStep, HeldIsAlive,
      OneDestroyer, DestroyedUnreferenced, Owned, TypeOK, Chs, Actors, App,
      Nobody
<1>12. ASSUME NEW c \in Chs, RunVirtual(c) PROVE HeldIsAlive'
  BY <1>12, SMTT(30) DEF RunVirtual, ThreadStep, HeldIsAlive, OneDestroyer,
      DestroyedUnreferenced, Owned, TypeOK, Chs, Actors, App, Nobody
<1>13. ASSUME NEW c \in Chs, TurnBegins(c) PROVE HeldIsAlive'
  BY <1>13, SMTT(30) DEF TurnBegins, ThreadStep, HeldIsAlive, OneDestroyer,
      DestroyedUnreferenced, Owned, TypeOK, Chs, Actors, App, Nobody
<1>14. ASSUME NEW c \in Chs, TurnEnds(c) PROVE HeldIsAlive'
  BY <1>14, SMTT(30) DEF TurnEnds, DropPool, ThreadStep, HeldIsAlive,
      OneDestroyer, DestroyedUnreferenced, Owned, TypeOK, Chs, Actors, App,
      Nobody
<1>15. ASSUME NEW c \in Chs, VirtualEnds(c) PROVE HeldIsAlive'
  BY <1>15, SMTT(30) DEF VirtualEnds, ThreadStep, HeldIsAlive, OneDestroyer,
      DestroyedUnreferenced, Owned, TypeOK, Chs, Actors, App, Nobody
<1> QED
  BY <1>1, <1>2, <1>3, <1>4, <1>5, <1>6, <1>7, <1>8, <1>9, <1>10, <1>11,
      <1>12, <1>13, <1>14, <1>15, Zenon DEF Next, Application, Destructors,
      Thread

\* A destructor begins when the pool and the application have let go.
LEMMA UnreferencedStep ==
  ASSUME TypeOK, OneDestroyer, HeldIsAlive, DestroyedUnreferenced, Next
  PROVE  DestroyedUnreferenced'
<1> USE LifecycleAssumption
<1>1. CASE AppDropsPool
  BY <1>1, SMTT(30) DEF AppDropsPool, AppFree, DropPool, HeldIsAlive,
      OneDestroyer, DestroyedUnreferenced, Owned, TypeOK, Chs, Actors, App,
      Nobody
<1>2. ASSUME NEW c \in Chs, AddChannel(c) PROVE DestroyedUnreferenced'
  BY <1>2, SMTT(30) DEF AddChannel, AppFree, HeldIsAlive, OneDestroyer,
      DestroyedUnreferenced, Owned, TypeOK, Chs, Actors, App, Nobody
<1>3. ASSUME NEW c \in Chs, Lookup(c) PROVE DestroyedUnreferenced'
  BY <1>3, SMTT(30) DEF Lookup, AppFree, HeldIsAlive, OneDestroyer,
      DestroyedUnreferenced, Owned, TypeOK, Chs, Actors, App, Nobody
<1>4. ASSUME NEW c \in Chs, AskExit(c) PROVE DestroyedUnreferenced'
  BY <1>4, SMTT(30) DEF AskExit, AppFree, HeldIsAlive, OneDestroyer,
      DestroyedUnreferenced, Owned, TypeOK, Chs, Actors, App, Nobody
<1>5. ASSUME NEW c \in Chs, LetGo(c) PROVE DestroyedUnreferenced'
  BY <1>5, SMTT(30) DEF LetGo, AppFree, Destroy, Owned, HeldIsAlive,
      OneDestroyer, DestroyedUnreferenced, TypeOK, Chs, Actors, App, Nobody
<1>6. CASE ReleaseNext
  BY <1>6, SMTT(30) DEF ReleaseNext, MoreToRelease, KeptByApp, Destroy,
      HeldIsAlive, OneDestroyer, DestroyedUnreferenced, Owned, TypeOK, Chs,
      Actors, App, Nobody
<1>7. ASSUME NEW c \in Chs, Join(c) PROVE DestroyedUnreferenced'
  BY <1>7, SMTT(30) DEF Join, Joined, HeldIsAlive, OneDestroyer,
      DestroyedUnreferenced, Owned, TypeOK, Chs, Actors, App, Nobody
<1>8. CASE PoolGone
  BY <1>8, SMTT(30) DEF PoolGone, HeldIsAlive, OneDestroyer,
      DestroyedUnreferenced, Owned, TypeOK, Chs, Actors, App, Nobody
<1>9. ASSUME NEW c \in Chs, RunsTooLate(c) PROVE DestroyedUnreferenced'
  BY <1>9, SMTT(30) DEF RunsTooLate, ThreadStep, HeldIsAlive, OneDestroyer,
      DestroyedUnreferenced, Owned, TypeOK, Chs, Actors, App, Nobody
<1>10. ASSUME NEW c \in Chs, RunHolder(c) PROVE DestroyedUnreferenced'
  BY <1>10, SMTT(30) DEF RunHolder, LockForAll, ThreadStep, HeldIsAlive,
      OneDestroyer, DestroyedUnreferenced, Owned, TypeOK, Chs, Actors, App,
      Nobody
<1>11. ASSUME NEW c \in Chs, HolderEnds(c) PROVE DestroyedUnreferenced'
  BY <1>11, SMTT(30) DEF HolderEnds, DropPool, ThreadStep, HeldIsAlive,
      OneDestroyer, DestroyedUnreferenced, Owned, TypeOK, Chs, Actors, App,
      Nobody
<1>12. ASSUME NEW c \in Chs, RunVirtual(c) PROVE DestroyedUnreferenced'
  BY <1>12, SMTT(30) DEF RunVirtual, ThreadStep, HeldIsAlive, OneDestroyer,
      DestroyedUnreferenced, Owned, TypeOK, Chs, Actors, App, Nobody
<1>13. ASSUME NEW c \in Chs, TurnBegins(c) PROVE DestroyedUnreferenced'
  BY <1>13, SMTT(30) DEF TurnBegins, ThreadStep, HeldIsAlive, OneDestroyer,
      DestroyedUnreferenced, Owned, TypeOK, Chs, Actors, App, Nobody
<1>14. ASSUME NEW c \in Chs, TurnEnds(c) PROVE DestroyedUnreferenced'
  BY <1>14, SMTT(30) DEF TurnEnds, DropPool, ThreadStep, HeldIsAlive,
      OneDestroyer, DestroyedUnreferenced, Owned, TypeOK, Chs, Actors, App,
      Nobody
<1>15. ASSUME NEW c \in Chs, VirtualEnds(c) PROVE DestroyedUnreferenced'
  BY <1>15, SMTT(30) DEF VirtualEnds, ThreadStep, HeldIsAlive, OneDestroyer,
      DestroyedUnreferenced, Owned, TypeOK, Chs, Actors, App, Nobody
<1> QED
  BY <1>1, <1>2, <1>3, <1>4, <1>5, <1>6, <1>7, <1>8, <1>9, <1>10, <1>11,
      <1>12, <1>13, <1>14, <1>15, Zenon DEF Next, Application, Destructors,
      Thread

\* A join lets a channel go when its thread has ended or is the one that
\* destroys it.
LEMMA FreedStep ==
  ASSUME TypeOK, OneDestroyer, RefsKeepPool, DestroyedUnreferenced, FreedAfterThread, Next
  PROVE  FreedAfterThread'
<1> USE LifecycleAssumption
<1>1. CASE AppDropsPool
  BY <1>1, SMTT(30) DEF AppDropsPool, AppFree, DropPool, FreedAfterThread,
      OneDestroyer, RefsKeepPool, DestroyedUnreferenced, Owned, TypeOK, Chs,
      Actors, App, Nobody
<1>2. ASSUME NEW c \in Chs, AddChannel(c) PROVE FreedAfterThread'
  BY <1>2, SMTT(30) DEF AddChannel, AppFree, FreedAfterThread, OneDestroyer,
      RefsKeepPool, DestroyedUnreferenced, Owned, TypeOK, Chs, Actors, App,
      Nobody
<1>3. ASSUME NEW c \in Chs, Lookup(c) PROVE FreedAfterThread'
  BY <1>3, SMTT(30) DEF Lookup, AppFree, FreedAfterThread, OneDestroyer,
      RefsKeepPool, DestroyedUnreferenced, Owned, TypeOK, Chs, Actors, App,
      Nobody
<1>4. ASSUME NEW c \in Chs, AskExit(c) PROVE FreedAfterThread'
  BY <1>4, SMTT(30) DEF AskExit, AppFree, FreedAfterThread, OneDestroyer,
      RefsKeepPool, DestroyedUnreferenced, Owned, TypeOK, Chs, Actors, App,
      Nobody
<1>5. ASSUME NEW c \in Chs, LetGo(c) PROVE FreedAfterThread'
  BY <1>5, SMTT(30) DEF LetGo, AppFree, Destroy, Owned, FreedAfterThread,
      OneDestroyer, RefsKeepPool, DestroyedUnreferenced, TypeOK, Chs, Actors,
      App, Nobody
<1>6. CASE ReleaseNext
  BY <1>6, SMTT(30) DEF ReleaseNext, MoreToRelease, KeptByApp, Destroy,
      FreedAfterThread, OneDestroyer, RefsKeepPool, DestroyedUnreferenced,
      Owned, TypeOK, Chs, Actors, App, Nobody
<1>7. ASSUME NEW c \in Chs, Join(c) PROVE FreedAfterThread'
  BY <1>7, SMTT(30) DEF Join, Joined, FreedAfterThread, OneDestroyer,
      RefsKeepPool, DestroyedUnreferenced, Owned, TypeOK, Chs, Actors, App,
      Nobody
<1>8. CASE PoolGone
  BY <1>8, SMTT(30) DEF PoolGone, FreedAfterThread, OneDestroyer,
      RefsKeepPool, DestroyedUnreferenced, Owned, TypeOK, Chs, Actors, App,
      Nobody
<1>9. ASSUME NEW c \in Chs, RunsTooLate(c) PROVE FreedAfterThread'
  BY <1>9, SMTT(30) DEF RunsTooLate, ThreadStep, FreedAfterThread,
      OneDestroyer, RefsKeepPool, DestroyedUnreferenced, Owned, TypeOK, Chs,
      Actors, App, Nobody
<1>10. ASSUME NEW c \in Chs, RunHolder(c) PROVE FreedAfterThread'
  BY <1>10, SMTT(30) DEF RunHolder, LockForAll, ThreadStep, FreedAfterThread,
      OneDestroyer, RefsKeepPool, DestroyedUnreferenced, Owned, TypeOK, Chs,
      Actors, App, Nobody
<1>11. ASSUME NEW c \in Chs, HolderEnds(c) PROVE FreedAfterThread'
  BY <1>11, SMTT(30) DEF HolderEnds, DropPool, ThreadStep, FreedAfterThread,
      OneDestroyer, RefsKeepPool, DestroyedUnreferenced, Owned, TypeOK, Chs,
      Actors, App, Nobody
<1>12. ASSUME NEW c \in Chs, RunVirtual(c) PROVE FreedAfterThread'
  BY <1>12, SMTT(30) DEF RunVirtual, ThreadStep, FreedAfterThread,
      OneDestroyer, RefsKeepPool, DestroyedUnreferenced, Owned, TypeOK, Chs,
      Actors, App, Nobody
<1>13. ASSUME NEW c \in Chs, TurnBegins(c) PROVE FreedAfterThread'
  BY <1>13, SMTT(30) DEF TurnBegins, ThreadStep, FreedAfterThread,
      OneDestroyer, RefsKeepPool, DestroyedUnreferenced, Owned, TypeOK, Chs,
      Actors, App, Nobody
<1>14. ASSUME NEW c \in Chs, TurnEnds(c) PROVE FreedAfterThread'
  BY <1>14, SMTT(30) DEF TurnEnds, DropPool, ThreadStep, FreedAfterThread,
      OneDestroyer, RefsKeepPool, DestroyedUnreferenced, Owned, TypeOK, Chs,
      Actors, App, Nobody
<1>15. ASSUME NEW c \in Chs, VirtualEnds(c) PROVE FreedAfterThread'
  BY <1>15, SMTT(30) DEF VirtualEnds, ThreadStep, FreedAfterThread,
      OneDestroyer, RefsKeepPool, DestroyedUnreferenced, Owned, TypeOK, Chs,
      Actors, App, Nobody
<1> QED
  BY <1>1, <1>2, <1>3, <1>4, <1>5, <1>6, <1>7, <1>8, <1>9, <1>10, <1>11,
      <1>12, <1>13, <1>14, <1>15, Zenon DEF Next, Application, Destructors,
      Thread

LEMMA InvariantStep ==
  ASSUME IInv, Next
  PROVE  IInv'
  BY TypesStep, RefsStep, DestroyerStep, HeldStep, UnreferencedStep, FreedStep DEF IInv

\* Nothing changes the invariant when nothing changes.
LEMMA InvariantStutter ==
  ASSUME IInv, UNCHANGED vars
  PROVE  IInv'
  BY DEF vars, IInv, TypeOK, RefsKeepPool, OneDestroyer, HeldIsAlive, FreedAfterThread,
         DestroyedUnreferenced, Owned

\* References, threads and destructors account for each other.
THEOREM LifecycleInvariant == Spec => []IInv
<1>1. Init => IInv
  BY LifecycleInit
<1>2. IInv /\ [Next]_vars => IInv'
  BY InvariantStep, InvariantStutter
<1> QED BY <1>1, <1>2, PTL DEF Spec

(* Every variable of the pool, its channels and their threads keeps its     *)
(* type, for any number of channels.                                        *)
THEOREM LifecycleTypes == Spec => []TypeOK
<1>1. IInv => TypeOK
  BY DEF IInv
<1> QED BY <1>1, LifecycleInvariant, PTL

(* A thread that is serving has a channel nobody has begun to destroy: it   *)
(* holds the pool, so the pool has let go of nothing.                       *)
THEOREM ThreadsServeLiveChannels == Spec => []ServesLiveChannel
<1>1. IInv => ServesLiveChannel
  <2> SUFFICES ASSUME IInv, NEW c \in Chs, pc[c] \in {"running", "turn"}
               PROVE  obj[c] = "alive"
    BY DEF ServesLiveChannel
  <2>1. c \in poolRefs /\ pool = "alive" /\ released = 0
    BY DEF IInv, RefsKeepPool, OneDestroyer
  <2>2. obj[c] \notin {"dying", "gone"}
    BY <2>1, LifecycleAssumption, SMT DEF IInv, DestroyedUnreferenced, Owned, Chs
  <2>3. obj[c] # "none"
    BY DEF IInv, HeldIsAlive
  <2> QED BY <2>2, <2>3, SMT DEF IInv, TypeOK
<1> QED BY <1>1, LifecycleInvariant, PTL

(* The destructor's join comes before the channel is freed, in whatever     *)
(* thread it runs; only the destroyer of the pool outlives its own channel. *)
THEOREM ChannelsFreedAfterThreads == Spec => []FreedAfterThread
<1>1. IInv => FreedAfterThread
  BY DEF IInv
<1> QED BY <1>1, LifecycleInvariant, PTL

(* No channel is destroyed while the pool or the application refers to it.  *)
THEOREM ChannelsDestroyedUnreferenced == Spec => []DestroyedUnreferenced
<1>1. IInv => DestroyedUnreferenced
  BY DEF IInv
<1> QED BY <1>1, LifecycleInvariant, PTL
=============================================================================
