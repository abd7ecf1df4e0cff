---------------------------- MODULE MCSegmentMap ----------------------------
(***************************************************************************)
(* Program headers for SegmentMap: none, one or two segments, code and     *)
(* data, in either order; linked at 0 or not, on a page or not, aligned to *)
(* less than a page, a page or more, with more in the file than in memory  *)
(* or the other way round, and at the end of the address space.            *)
(***************************************************************************)
EXTENDS SegmentMap

Code ==
  [vaddr : {0, 2}, filesz : {3, 4}, memsz : {3}, align : {1, 4, 8},
   flags : {{"r", "x"}, {"r", "w", "x"}}]
Data ==
  [vaddr : {4, 5, 8, 30}, filesz : {0, 1}, memsz : {1, 3}, align : {2, 8},
   flags : {{"r", "w"}}]

AllHeaders ==
  {<<>>} \cup {<<s>> : s \in Code \cup Data}
  \cup {<<s, t>> : s \in Code, t \in Data} \cup {<<t, s>> : s \in Code, t \in Data}
PlainHeaders ==
  {<<[vaddr |-> 0, filesz |-> 3, memsz |-> 3, align |-> 4, flags |-> {"r", "x"}]>>}

(* Relocations and segments do not meet in ctrdl_mapObject: they are       *)
(* varied one at a time.                                                   *)
VariedHeaders ==
  [o \in Object |-> IF o.plt = "none" /\ o.rel = 0 /\ o.rela = 0 /\ o.jmp = 0
                    THEN AllHeaders ELSE PlainHeaders]
=============================================================================
