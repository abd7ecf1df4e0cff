---------------------------- MODULE MCLifecycle ----------------------------
(* Model values for Lifecycle: the files and what each of them needs.      *)
EXTENDS Lifecycle, TLC

CONSTANTS a, b, c, bb

Symmetry == Permutations(Handle) \cup Permutations(Thread)

(* a needs b and c, b needs c: c has two dependents.  Nothing needs bb.    *)
DiamondNeeds == (a :> <<b, c>>) @@ (b :> <<c>>) @@ (c :> <<>>) @@ (bb :> <<>>)
PairNeeds == (a :> <<b>>) @@ (b :> <<>>)
(* With MaxDeps = 1, c needs more than it may.                             *)
ExcessNeeds == (a :> <<b>>) @@ (b :> <<>>) @@ (c :> <<a, b>>)
LeafNeeds == [p \in Path |-> <<>>]

(* No path is part of another one; the path of b is part of that of bb, so *)
(* that who asks for b gets bb if it is open.                              *)
SamePath == {<<p, p>> : p \in Path}
PartPath == SamePath \cup {<<b, bb>>}

NoFaults == {}
(* A file is missing or no ELF object.                                     *)
ReadFaults == {"open", "parse"} \X Path
(* Loads can fail, but not once a dependency has been bound: c, which may  *)
(* be the second one, is there, and only bb, which needs nothing, can fail *)
(* while it is mapped.                                                     *)
EarlyFaults == ({"open", "parse"} \X {a, b, bb}) \cup {<<"map", bb>>}
(* The table cannot grow; code pages cannot be given back; any object can  *)
(* fail while it is mapped or relocated.                                   *)
InsertFaults == {"insert"} \X Path
FreeFaults == {"free"} \X Path
MapFaults == {"map"} \X Path

Mode(g, n, r) == [global |-> g, noload |-> n, resolver |-> r]
GlobalMode == {Mode(TRUE, FALSE, FALSE)}
AllModes ==
  {Mode(g, n, r) : g \in BOOLEAN, n \in BOOLEAN, r \in BOOLEAN}
PlainModes == {Mode(g, FALSE, FALSE) : g \in BOOLEAN}
=============================================================================
