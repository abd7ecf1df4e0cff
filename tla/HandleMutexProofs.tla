------------------------- MODULE HandleMutexProofs -------------------------
(***************************************************************************)
(* Proofs about HandleMutex, for any number of threads, any depth of       *)
(* nesting that the counter can hold, and any number of context switches.  *)
(***************************************************************************)
EXTENDS HandleMutex, TLAPS

(* A thread that is to acquire has room for it, and one that is to release *)
(* has something to release.                                               *)
Pending(t) == pc[t] # "out"
OpsMatchNest ==
  \A t \in Thread : Pending(t) =>
    /\ op[t] = "acquire" => nest[t] < MaxNest
    /\ op[t] = "release" => nest[t] > 0

(* Until it is reset the lock is free exactly when nobody is inside.       *)
LockKnowsOwner ==
  ~reset =>
    /\ tag = NoThread => counter = 0 /\ \A t \in Thread : nest[t] = 0
    /\ tag # NoThread => nest[tag] > 0

IInv == TypeOK /\ OpsMatchNest /\ LockKnowsOwner /\ ExclusiveUnlessReset

-----------------------------------------------------------------------------
(* Counting up and down inside the range of the counter does not wrap.     *)
LEMMA CountUp ==
  ASSUME NEW R \in Nat, NEW n \in Nat, n + 1 < R
  PROVE  (n + 1) % R = n + 1
OBVIOUS

LEMMA CountDown ==
  ASSUME NEW R \in Nat, NEW n \in Nat, n > 0, n < R
  PROVE  (n + R - 1) % R = n - 1
OBVIOUS

LEMMA CountStays ==
  ASSUME NEW R \in Nat, NEW n \in Nat, R > 0
  PROVE  n % R \in 0 .. R - 1
OBVIOUS

-----------------------------------------------------------------------------
LEMMA InitIInv == Init => IInv
<1> USE MutexAssumption
<1>1. Init => TypeOK
  <2> SUFFICES ASSUME Init PROVE TypeOK
    OBVIOUS
  <2>1. reset \in BOOLEAN
    BY DEF Init
  <2> QED BY <2>1 DEF Init, TypeOK
<1>2. Init => OpsMatchNest
  BY DEF Init, OpsMatchNest, Pending
<1>3. Init => LockKnowsOwner /\ ExclusiveUnlessReset
  BY DEF Init, LockKnowsOwner, ExclusiveUnlessReset
<1> QED BY <1>1, <1>2, <1>3 DEF IInv

(* One case for each action; only Lock and Unlock count.                   *)
LEMMA StepIInv == IInv /\ [Next]_vars => IInv'
<1> SUFFICES ASSUME IInv, [Next]_vars PROVE IInv'
  OBVIOUS
<1> USE MutexAssumption DEF IInv
<1>1. ASSUME NEW t \in Thread, Acquire(t) PROVE IInv'
  BY <1>1 DEF Acquire, Goto, lock, TypeOK, OpsMatchNest, Pending,
              LockKnowsOwner, ExclusiveUnlessReset
<1>2. ASSUME NEW t \in Thread, Release(t) PROVE IInv'
  BY <1>2 DEF Release, Goto, lock, TypeOK, OpsMatchNest, Pending,
              LockKnowsOwner, ExclusiveUnlessReset
<1>3. ASSUME NEW t \in Thread, SeeCold(t) PROVE IInv'
  BY <1>3 DEF SeeCold, Goto, lock, TypeOK, OpsMatchNest, Pending,
              LockKnowsOwner, ExclusiveUnlessReset
<1>4. ASSUME NEW t \in Thread, SeeWarm(t) PROVE IInv'
  BY <1>4 DEF SeeWarm, Goto, lock, TypeOK, OpsMatchNest, Pending,
              LockKnowsOwner, ExclusiveUnlessReset
<1>5. ASSUME NEW t \in Thread, InitLock(t) PROVE IInv'
  <2> USE <1>5
  <2>1. reset' \in BOOLEAN
    BY DEF InitLock
  <2>2. TypeOK'
    BY <2>1 DEF InitLock, Goto, TypeOK
  <2>3. OpsMatchNest'
    BY DEF InitLock, Goto, TypeOK, OpsMatchNest, Pending
  <2>4. ~reset' => ~reset /\ tag = NoThread
    BY DEF InitLock
  <2>5. LockKnowsOwner' /\ ExclusiveUnlessReset'
    BY <2>4 DEF InitLock, TypeOK, LockKnowsOwner, ExclusiveUnlessReset
  <2> QED BY <2>2, <2>3, <2>5
<1>6. ASSUME NEW t \in Thread, StoreFlag(t) PROVE IInv'
  BY <1>6 DEF StoreFlag, Goto, lock, TypeOK, OpsMatchNest, Pending,
              LockKnowsOwner, ExclusiveUnlessReset
<1>7. ASSUME NEW t \in Thread, StoreFails(t) PROVE IInv'
  BY <1>7 DEF StoreFails, Goto, lock, TypeOK, OpsMatchNest, Pending,
              LockKnowsOwner, ExclusiveUnlessReset
<1>8. ASSUME NEW t \in Thread, Reload(t) PROVE IInv'
  BY <1>8 DEF Reload, Goto, lock, TypeOK, OpsMatchNest, Pending,
              LockKnowsOwner, ExclusiveUnlessReset
<1>9. ASSUME NEW t \in Thread, Switch(t) PROVE IInv'
  BY <1>9 DEF Switch, lock, TypeOK, OpsMatchNest, Pending,
              LockKnowsOwner, ExclusiveUnlessReset
<1>10. ASSUME NEW t \in Thread, Lock(t) PROVE IInv'
  <2> USE <1>10
  <2>1. nest[t] \in Nat /\ nest[t] < MaxNest
    BY DEF Lock, Goto, TypeOK, OpsMatchNest, Pending
  <2>2. ~reset => counter = nest[t] /\ \A u \in Thread \ {t} : nest[u] = 0
    <3>1. CASE tag = NoThread
      BY <3>1 DEF LockKnowsOwner
    <3>2. CASE tag = t
      BY <3>2 DEF LockKnowsOwner, ExclusiveUnlessReset
    <3> QED BY <3>1, <3>2 DEF Lock
  <2>3. ~reset => counter' = nest[t] + 1
    BY <2>1, <2>2, CountUp DEF Lock
  <2>4. counter' \in 0 .. CounterRange - 1
    BY CountStays DEF Lock, TypeOK
  <2>5. TypeOK'
    BY <2>1, <2>4 DEF Lock, Goto, TypeOK
  <2>6. OpsMatchNest'
    BY <2>1 DEF Lock, Goto, TypeOK, OpsMatchNest, Pending
  <2>7. LockKnowsOwner' /\ ExclusiveUnlessReset'
    BY <2>1, <2>2, <2>3 DEF Lock, TypeOK, LockKnowsOwner, ExclusiveUnlessReset
  <2> QED BY <2>5, <2>6, <2>7
<1>11. ASSUME NEW t \in Thread, Unlock(t) PROVE IInv'
  <2> USE <1>11
  <2>1. nest[t] \in 1 .. MaxNest
    BY DEF Unlock, Goto, TypeOK, OpsMatchNest, Pending
  <2>2. ~reset => tag = t /\ counter = nest[t] /\ \A u \in Thread \ {t} : nest[u] = 0
    BY <2>1 DEF ExclusiveUnlessReset
  <2>3. ~reset => counter' = nest[t] - 1
    BY <2>1, <2>2, CountDown DEF Unlock
  <2>4. counter' \in 0 .. CounterRange - 1
    <3>1. counter + CounterRange - 1 \in Nat
      BY DEF TypeOK
    <3> QED BY <3>1, CountStays DEF Unlock
  <2>5. TypeOK'
    BY <2>1, <2>4 DEF Unlock, Goto, TypeOK
  <2>6. OpsMatchNest'
    BY <2>1 DEF Unlock, Goto, TypeOK, OpsMatchNest, Pending
  <2>7. LockKnowsOwner' /\ ExclusiveUnlessReset'
    BY <2>1, <2>2, <2>3 DEF Unlock, TypeOK, LockKnowsOwner, ExclusiveUnlessReset
  <2> QED BY <2>5, <2>6, <2>7
<1>12. CASE UNCHANGED vars
  BY <1>12 DEF vars, TypeOK, OpsMatchNest, Pending, LockKnowsOwner, ExclusiveUnlessReset
<1> QED
  BY <1>1, <1>2, <1>3, <1>4, <1>5, <1>6, <1>7, <1>8, <1>9, <1>10, <1>11, <1>12
  DEF Next, LazyInit

(* For every number of threads and width of the counter, each thread on    *)
(* its way through acquire, release or initialisation keeps a place in     *)
(* them, and the counter of the lock stays one.                            *)
THEOREM MutexTypes == Spec => []TypeOK
<1>1. IInv => TypeOK
  BY DEF IInv
<1> QED BY <1>1, InitIInv, StepIInv, PTL DEF Spec

(* ctrdl_acquireHandleMtx and ctrdl_releaseHandleMtx exclude unless the    *)
(* lock was initialised under its owner.                                   *)
THEOREM MutexSafety == Spec => []ExclusiveUnlessReset
<1>1. IInv => ExclusiveUnlessReset
  BY DEF IInv
<1> QED BY <1>1, InitIInv, StepIInv, PTL DEF Spec

(* Once the flag is set it stays set, and no further thread gets to        *)
(* initialise the lock: only those that read the flag before can be late.  *)
THEOREM MutexWindow == Spec => WindowCloses
<1> DEFINE A == initialized = 1 =>
                  /\ initialized' = 1
                  /\ \A t \in Thread : pc'[t] = "init" => pc[t] = "init"
<1>1. IInv /\ [Next]_vars => [A]_vars
  <2> SUFFICES ASSUME TypeOK, Next, initialized = 1 PROVE A
    BY DEF IInv
  <2> QED
    BY DEF Next, LazyInit, Acquire, Release, SeeCold, SeeWarm, InitLock, StoreFlag,
           StoreFails, Reload, Switch, Lock, Unlock, Goto, TypeOK
<1> QED BY <1>1, InitIInv, StepIInv, PTL DEF Spec, WindowCloses

-----------------------------------------------------------------------------
(* A step of the lock is a step of the abstract mutex, and every other     *)
(* step leaves the mutex alone.                                            *)
LEMMA LockStep ==
  ASSUME IInv, [Next]_vars, ~reset'
  PROVE  HandleLock!Next \/ UNCHANGED lock
<1> USE MutexAssumption DEF IInv, lock
<1>0. ~reset
  BY DEF Next, LazyInit, Acquire, Release, SeeCold, SeeWarm, InitLock, StoreFlag,
         StoreFails, Reload, Switch, Lock, Unlock, vars
<1>1. ASSUME NEW t \in Thread, Lock(t) PROVE HandleLock!Acquire(t)
  <2>1. nest[t] \in Nat /\ nest[t] < MaxNest
    BY <1>1 DEF Lock, Goto, TypeOK, OpsMatchNest, Pending
  <2>2. counter = nest[t]
    <3>1. tag \in {NoThread, t}
      BY <1>1 DEF Lock
    <3> QED BY <1>0, <3>1 DEF LockKnowsOwner, ExclusiveUnlessReset
  <2>3. counter' = counter + 1
    BY <1>1, <2>1, <2>2, CountUp DEF Lock
  <2> QED BY <1>1, <2>3 DEF Lock, HandleLock!Acquire, HandleLock!Free
<1>2. ASSUME NEW t \in Thread, Unlock(t) PROVE HandleLock!Release(t)
  <2>1. nest[t] \in 1 .. MaxNest
    BY <1>2 DEF Unlock, Goto, TypeOK, OpsMatchNest, Pending
  <2>2. tag = t /\ counter = nest[t]
    BY <1>0, <2>1 DEF ExclusiveUnlessReset
  <2>3. counter' = counter - 1
    BY <1>2, <2>1, <2>2, CountDown DEF Unlock
  <2> QED BY <1>2, <2>1, <2>2, <2>3 DEF Unlock, HandleLock!Release
<1>3. ASSUME NEW t \in Thread, InitLock(t) PROVE UNCHANGED lock
  <2>1. tag = NoThread
    BY <1>3 DEF InitLock
  <2>2. counter = 0
    BY <1>0, <2>1 DEF LockKnowsOwner
  <2> QED BY <1>3, <2>1, <2>2 DEF InitLock
<1>4. ASSUME NEW t \in Thread,
             \/ Acquire(t) \/ Release(t) \/ SeeCold(t) \/ SeeWarm(t)
             \/ StoreFlag(t) \/ StoreFails(t) \/ Reload(t) \/ Switch(t)
      PROVE UNCHANGED lock
  BY <1>4 DEF Acquire, Release, SeeCold, SeeWarm, StoreFlag, StoreFails, Reload,
              Switch, Goto
<1>5. CASE UNCHANGED vars
  BY <1>5 DEF vars
<1> QED BY <1>1, <1>2, <1>3, <1>4, <1>5 DEF Next, LazyInit, HandleLock!Next

(* ctrdl_acquireHandleMtx and ctrdl_releaseHandleMtx act as a recursive    *)
(* mutex, the first use included, until the lock is reset under its owner. *)
THEOREM MutexSteps == Spec => ActsAsMutex
<1>1. IInv /\ [Next]_vars => [~reset' => HandleLock!Next \/ UNCHANGED lock]_vars
  BY LockStep
<1> QED BY <1>1, InitIInv, StepIInv, PTL DEF Spec, ActsAsMutex

(* A program whose first use of the loader does not race implements the    *)
(* recursive mutex that the module Lifecycle takes for granted.            *)
THEOREM MutexRefinement == Spec /\ []~reset => ImplementsMutex
<1>1. Init => HandleLock!Init
  BY DEF Init, HandleLock!Init
<1>2. IInv /\ [Next]_vars /\ ~reset' => [HandleLock!Next]_HandleLock!vars
  BY LockStep DEF HandleLock!vars, lock
<1> QED
  BY <1>1, <1>2, InitIInv, StepIInv, PTL
  DEF Spec, ImplementsMutex, HandleLock!Spec
=============================================================================
