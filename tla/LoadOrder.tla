----------------------------- MODULE LoadOrder -----------------------------
(***************************************************************************)
(* What the loader promises about its table of open objects, whatever the  *)
(* table is made of: a bounded set of handles together with the order in   *)
(* which they were loaded.  The symbol searches over the global objects    *)
(* (Source/API.c, dlsym; Source/Relocs.c, ctrdl_resolveSymbol) walk the    *)
(* table from first to last, so the load order decides which of two        *)
(* definitions of a name wins: closing one object must never change the    *)
(* relative order of the others.                                           *)
(***************************************************************************)
EXTENDS FiniteSets, Naturals

CONSTANTS
  Handle,      \* handles the table may hold
  MaxHandles   \* CTRDL_MAX_HANDLES

VARIABLES
  members,  \* the handles of the open objects
  before    \* <<a, b>> \in before: a was loaded before b

vars == <<members, before>>

Init ==
  /\ members = {}
  /\ before = {}

(* A newly loaded object comes after every object that is already open.    *)
Insert(h) ==
  /\ h \notin members
  /\ Cardinality(members) < MaxHandles
  /\ members' = members \cup {h}
  /\ before' = before \cup (members \X {h})

(* Closing an object takes away that object and nothing else.              *)
Remove(h) ==
  /\ h \in members
  /\ members' = members \ {h}
  /\ before' = {p \in before : p[1] # h /\ p[2] # h}

Next == \E h \in Handle : Insert(h) \/ Remove(h)

Spec == Init /\ [][Next]_vars
=============================================================================
