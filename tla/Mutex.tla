------------------------------- MODULE Mutex -------------------------------
(***************************************************************************)
(* What the rest of the loader relies on when it calls                     *)
(* ctrdl_acquireHandleMtx and ctrdl_releaseHandleMtx (Source/Handle.c): a  *)
(* lock that one thread at a time owns, and that its owner may acquire     *)
(* again as long as it releases it as often.                               *)
(***************************************************************************)
EXTENDS Naturals

CONSTANTS Thread, NoThread

VARIABLES
  owner,  \* the thread that owns the lock, or NoThread
  depth   \* how often the owner has acquired it

vars == <<owner, depth>>

Init ==
  /\ owner = NoThread
  /\ depth = 0

(* A thread can enter a critical section.                                  *)
Free(t) == owner \in {NoThread, t}

Acquire(t) ==
  /\ Free(t)
  /\ owner' = t
  /\ depth' = depth + 1

Release(t) ==
  /\ owner = t
  /\ depth' = depth - 1
  /\ owner' = IF depth = 1 THEN NoThread ELSE owner

Next == \E t \in Thread : Acquire(t) \/ Release(t)

Spec == Init /\ [][Next]_vars
=============================================================================
