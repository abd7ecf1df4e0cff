----------------------------- MODULE RefCounted -----------------------------
(***************************************************************************)
(* What reference counting promises about the open objects of the loader:  *)
(* an object starts with one reference, references are taken only from     *)
(* objects that still have one, and an object without references can only  *)
(* be reclaimed: nobody gets hold of an object that is being unloaded.     *)
(***************************************************************************)
EXTENDS Naturals

CONSTANT Handle

VARIABLES
  loaded,  \* the objects that exist
  refs     \* refs[h]: references to h

vars == <<loaded, refs>>

Init ==
  /\ loaded = {}
  /\ refs = [h \in Handle |-> 0]

Create(h) ==
  /\ h \notin loaded
  /\ loaded' = loaded \cup {h}
  /\ refs' = [refs EXCEPT ![h] = 1]

Take(h) ==
  /\ h \in loaded
  /\ refs[h] > 0
  /\ refs' = [refs EXCEPT ![h] = @ + 1]
  /\ UNCHANGED loaded

Give(h) ==
  /\ h \in loaded
  /\ refs[h] > 0
  /\ refs' = [refs EXCEPT ![h] = @ - 1]
  /\ UNCHANGED loaded

Reclaim(h) ==
  /\ h \in loaded
  /\ refs[h] = 0
  /\ loaded' = loaded \ {h}
  /\ UNCHANGED refs

Next == \E h \in Handle : Create(h) \/ Take(h) \/ Give(h) \/ Reclaim(h)

Spec == Init /\ [][Next]_vars
=============================================================================
