---------------------------- MODULE HandleMutex ----------------------------
(***************************************************************************)
(* The mutex around the handle list: ctrdl_handleMtxLazyInit,              *)
(* ctrdl_acquireHandleMtx and ctrdl_releaseHandleMtx in Source/Handle.c.   *)
(* Every acquire and every release first makes sure that the RecursiveLock *)
(* was initialised, with a flag read and written by ldrexb and strexb.     *)
(*                                                                         *)
(* ldrexb reserves the flag for a thread; strexb stores only while the     *)
(* thread has its reservation, and takes the reservations of all others; a *)
(* context switch takes the reservation of the thread that was running.    *)
(* The RecursiveLock itself (libctru) is external: Lock waits until nobody *)
(* else has the lock and counts up, Unlock counts down and lets go at 0,   *)
(* whoever calls it; Init forgets owner and count.                         *)
(***************************************************************************)
EXTENDS FiniteSets, Naturals

CONSTANTS
  Thread, NoThread,
  CounterRange,  \* the lock counts modulo this: 2^32
  MaxNest,       \* bound: how deep a thread nests its acquires
  MaxSwitches    \* bound: context switches inside the initialisation

ASSUME MutexAssumption ==
  /\ NoThread \notin Thread
  /\ MaxNest \in Nat \ {0}
  /\ CounterRange \in Nat
  /\ MaxNest < CounterRange
  /\ MaxSwitches \in Nat

VARIABLES
  initialized,  \* the flag of ctrdl_handleMtxLazyInit
  monitor,      \* threads that have the flag reserved
  tag,          \* RecursiveLock: the thread that has the lock
  counter,      \* RecursiveLock: how often
  pc,           \* pc[t]: where t is in acquire or release
  op,           \* op[t]: which of the two
  nest,         \* nest[t]: acquires of t that were not released
  switches,     \* context switches that took a reservation
  reset         \* history: Init ran while a thread had the lock

vars == <<initialized, monitor, tag, counter, pc, op, nest, switches, reset>>

lock == <<tag, counter>>

Init ==
  /\ initialized = 0
  /\ monitor = {}
  /\ tag = NoThread
  /\ counter = 0
  /\ pc = [t \in Thread |-> "out"]
  /\ op = [t \in Thread |-> "release"]
  /\ nest = [t \in Thread |-> 0]
  /\ switches = 0
  /\ reset = FALSE

Goto(t, from, to) ==
  /\ pc[t] = from
  /\ pc' = [pc EXCEPT ![t] = to]

-----------------------------------------------------------------------------
Acquire(t) ==
  /\ Goto(t, "out", "check")
  /\ nest[t] < MaxNest
  /\ op' = [op EXCEPT ![t] = "acquire"]
  /\ UNCHANGED <<initialized, monitor, lock, nest, switches, reset>>

Release(t) ==
  /\ Goto(t, "out", "check")
  /\ nest[t] > 0
  /\ op' = [op EXCEPT ![t] = "release"]
  /\ UNCHANGED <<initialized, monitor, lock, nest, switches, reset>>

(* Mutant: the lock is initialised without looking at the flag.            *)
SeeColdUnread(t) ==
  /\ Goto(t, "check", "init")
  /\ monitor' = monitor \cup {t}
  /\ UNCHANGED <<initialized, lock, op, nest, switches, reset>>

(* ldrexb sees 0, or it sees 1 and clrex drops the reservation.            *)
SeeCold(t) ==
  /\ initialized = 0
  /\ Goto(t, "check", "init")
  /\ monitor' = monitor \cup {t}
  /\ UNCHANGED <<initialized, lock, op, nest, switches, reset>>

SeeWarm(t) ==
  /\ initialized = 1
  /\ Goto(t, "check", "ready")
  /\ monitor' = monitor \ {t}
  /\ UNCHANGED <<initialized, lock, op, nest, switches, reset>>

InitLock(t) ==
  /\ Goto(t, "init", "store")
  /\ tag' = NoThread
  /\ counter' = 0
  /\ reset' = (reset \/ tag # NoThread)
  /\ UNCHANGED <<initialized, monitor, op, nest, switches>>

StoreFlag(t) ==
  /\ t \in monitor
  /\ Goto(t, "store", "ready")
  /\ initialized' = 1
  /\ monitor' = {}
  /\ UNCHANGED <<lock, op, nest, switches, reset>>

(* Mutant: strexb is repeated without reserving the flag again.            *)
StoreFailsAgain(t) ==
  /\ t \notin monitor
  /\ Goto(t, "store", "store")
  /\ UNCHANGED <<initialized, monitor, lock, op, nest, switches, reset>>

StoreFails(t) ==
  /\ t \notin monitor
  /\ Goto(t, "store", "reload")
  /\ UNCHANGED <<initialized, monitor, lock, op, nest, switches, reset>>

Reload(t) ==
  /\ Goto(t, "reload", "store")
  /\ monitor' = monitor \cup {t}
  /\ UNCHANGED <<initialized, lock, op, nest, switches, reset>>

Switch(t) ==
  /\ t \in monitor
  /\ switches < MaxSwitches
  /\ monitor' = monitor \ {t}
  /\ switches' = switches + 1
  /\ UNCHANGED <<initialized, lock, pc, op, nest, reset>>

(* Mutant: whether the lock is taken is not looked at.                     *)
LockAnyway(t) ==
  /\ op[t] = "acquire"
  /\ Goto(t, "ready", "out")
  /\ tag' = t
  /\ counter' = (counter + 1) % CounterRange
  /\ nest' = [nest EXCEPT ![t] = @ + 1]
  /\ UNCHANGED <<initialized, monitor, op, switches, reset>>

Lock(t) ==
  /\ op[t] = "acquire"
  /\ Goto(t, "ready", "out")
  /\ tag \in {NoThread, t}
  /\ tag' = t
  /\ counter' = (counter + 1) % CounterRange
  /\ nest' = [nest EXCEPT ![t] = @ + 1]
  /\ UNCHANGED <<initialized, monitor, op, switches, reset>>

(* Mutant: one release lets go of the lock, however often it was acquired. *)
UnlockAtOnce(t) ==
  /\ op[t] = "release"
  /\ Goto(t, "ready", "out")
  /\ counter' = (counter + CounterRange - 1) % CounterRange
  /\ tag' = NoThread
  /\ nest' = [nest EXCEPT ![t] = @ - 1]
  /\ UNCHANGED <<initialized, monitor, op, switches, reset>>

(* Mutant: the count does not wrap around.                                 *)
UnlockWide(t) ==
  /\ op[t] = "release"
  /\ Goto(t, "ready", "out")
  /\ counter' = counter - 1
  /\ tag' = IF counter' = 0 THEN NoThread ELSE tag
  /\ nest' = [nest EXCEPT ![t] = @ - 1]
  /\ UNCHANGED <<initialized, monitor, op, switches, reset>>

Unlock(t) ==
  /\ op[t] = "release"
  /\ Goto(t, "ready", "out")
  /\ counter' = (counter + CounterRange - 1) % CounterRange
  /\ tag' = IF counter' = 0 THEN NoThread ELSE tag
  /\ nest' = [nest EXCEPT ![t] = @ - 1]
  /\ UNCHANGED <<initialized, monitor, op, switches, reset>>

LazyInit(t) ==
  \/ SeeCold(t) \/ SeeWarm(t) \/ InitLock(t)
  \/ StoreFlag(t) \/ StoreFails(t) \/ Reload(t)

Next ==
  \E t \in Thread :
    Acquire(t) \/ Release(t) \/ LazyInit(t) \/ Switch(t) \/ Lock(t) \/ Unlock(t)

Spec == Init /\ [][Next]_vars

(* A thread inside the initialisation is scheduled again and again.        *)
FairSpec == Spec /\ \A t \in Thread : WF_vars(LazyInit(t))

-----------------------------------------------------------------------------
(* The variables hold values of their C types.                             *)
TypeOK ==
  /\ initialized \in {0, 1}
  /\ monitor \subseteq Thread
  /\ tag \in Thread \cup {NoThread}
  /\ counter \in 0 .. CounterRange - 1
  /\ pc \in [Thread -> {"out", "check", "init", "store", "reload", "ready"}]
  /\ op \in [Thread -> {"acquire", "release"}]
  /\ nest \in [Thread -> 0 .. MaxNest]
  /\ switches \in 0 .. MaxSwitches
  /\ reset \in BOOLEAN

(* Unless the lock was initialised while a thread had it, at most one      *)
(* thread is between its acquires and its releases, and the lock knows     *)
(* which one and how deep.                                                 *)
ExclusiveUnlessReset ==
  ~reset => \A t \in Thread :
    nest[t] > 0 => /\ tag = t
                   /\ counter = nest[t]
                   /\ \A u \in Thread \ {t} : nest[u] = 0

(* The lock can be initialised late only by threads that read the flag     *)
(* before it was set: once it is set, no thread joins them.                *)
WindowCloses ==
  [][initialized = 1 =>
        /\ initialized' = 1
        /\ \A t \in Thread : pc'[t] = "init" => pc[t] = "init"]_vars

(* The strexb loop ends, however the reservations are taken away.          *)
InitialisationEnds ==
  \A t \in Thread : pc[t] \in {"init", "store", "reload"} ~> pc[t] = "ready"

HandleLock == INSTANCE Mutex WITH owner <- tag, depth <- counter

(* As long as the lock is not initialised under an owner, acquiring and    *)
(* releasing it are those of the recursive mutex the loader relies on, and *)
(* the lazy initialisation does not disturb it.                            *)
ActsAsMutex == [][~reset' => HandleLock!Next \/ UNCHANGED lock]_vars

(* The loader's mutex as a whole: see HandleMutexProofs.                   *)
ImplementsMutex == HandleLock!Spec
=============================================================================
