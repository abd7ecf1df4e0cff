----------------------------- MODULE SegmentMap -----------------------------
(***************************************************************************)
(* Where the segments of an object go: the arithmetic of ctrdl_mapObject   *)
(* (Source/Loader.c), which computes how many pages an object takes, reads *)
(* its segments into them and gives each its permissions, on top of the    *)
(* steps of ElfLoad, any of which can fail.                                *)
(*                                                                         *)
(* Addresses are numbers below Space, which is 2^32 in the code.  The code *)
(* reads to origin + p_vaddr and protects base + p_vaddr, so that offsets  *)
(* from either are what counts: origin and base are left out.              *)
(***************************************************************************)
EXTENDS ElfLoad, FiniteSetsExt

CONSTANTS
  PageSize,  \* CTRL_PAGE_SIZE
  Space,     \* addresses there are
  Headers    \* Headers[o]: the PT_LOAD headers of an object with relocations o

(* Alignments are powers of two, like PageSize, as ELF and ctrlAlignUp ask *)
(* for; what counts is that one divides the other.                         *)
Alignment ==
  {n \in 0 .. Space - 1 : n <= 1 \/ n % PageSize = 0 \/ PageSize % n = 0}

(* An Elf32_Phdr, but for where it is in the file.                         *)
Segment ==
  [vaddr : 0 .. Space - 1, filesz : 0 .. Space - 1, memsz : 0 .. Space - 1,
   align : Alignment, flags : SUBSET {"r", "w", "x"}]

ASSUME SegmentAssumption ==
  /\ PageSize \in Nat \ {0} /\ Space \in Nat \ {0} /\ Space % PageSize = 0
  /\ \A o \in Object : Headers[o] \subseteq Seq(Segment)

VARIABLES
  segments,  \* the PT_LOAD headers: do not change while they are used
  numPages,  \* handle->numPages
  filled,    \* history: offsets that segments were read to
  perms      \* history: permissions of the pages that were changed

mapping == <<segments, numPages, filled, perms>>
allVars == <<vars, mapping>>

SegmentInit ==
  /\ Init
  /\ segments = <<>> /\ numPages = 0 /\ filled = {} /\ perms = <<>>

-----------------------------------------------------------------------------
(* ctrlAlignDown, ctrlAlignUp, ctrlSizeToNumPages.                         *)
AlignDown(n, to) == n - (n % to)
AlignUp(n, to) == AlignDown(n + to - 1, to) % Space
PagesOfSize(size) == AlignUp(size, PageSize) \div PageSize

(* The first and the last address, rounded to pages or to the alignment.   *)
VirtualBegin(s) == AlignDown(s.vaddr, PageSize)
VirtualEnd(s) ==
  AlignUp((s.vaddr + s.memsz) % Space, Max({s.align, PageSize}))

Lowest == Min({Space - 1} \cup {VirtualBegin(segments[i]) : i \in DOMAIN segments})

(* Mutant: what is in the file counts, not what it takes in memory.        *)
HighestInFile ==
  Max({0} \cup {VirtualEnd([segments[i] EXCEPT !.memsz = segments[i].filesz]) :
                  i \in DOMAIN segments})

Highest == Max({0} \cup {VirtualEnd(segments[i]) : i \in DOMAIN segments})

SizesFit == \A i \in DOMAIN segments : segments[i].memsz >= segments[i].filesz

(* What a segment is read to, and the pages that ctrlChangeMemoryPerms is  *)
(* called for.                                                             *)
Offsets(s) == {(s.vaddr + k) % Space : k \in 0 .. s.filesz - 1}
Touched(from, size) ==
  {q \in 0 .. Space : q * PageSize < from + size /\ (q + 1) * PageSize > from}
Protected(s) ==
  Touched(s.vaddr, IF s.align > 1 THEN AlignUp(s.memsz, s.align) ELSE s.memsz)

(* ctrdl_wrapPerms: a segment to be written and executed gets none.        *)
WrapPerms(flags) ==
  IF flags \in {{"r"}, {"w"}, {"x"}, {"r", "w"}, {"r", "x"}} THEN flags ELSE {}

(* The loop over the segments: the last one that takes a page protects it. *)
PermsSet ==
  LET taken(q) == {i \in DOMAIN segments : q \in Protected(segments[i])}
      all == UNION {Protected(segments[i]) : i \in DOMAIN segments}
  IN [q \in DOMAIN perms \cup all |->
        IF taken(q) = {} THEN perms[q] ELSE WrapPerms(segments[Max(taken(q))].flags)]

-----------------------------------------------------------------------------
(* The steps of MapSteps that segments decide, or that change the mapping. *)
AtMap(n) == phase = "map" /\ step = n
MappingSteps == {1, 4, 5, 6, 8, 10, 12}

Checked ==
  /\ StepSucceeds
  /\ \/ AtMap(1) /\ segments # <<>>
     \/ AtMap(4) /\ SizesFit
     \/ AtMap(5) /\ Highest > Lowest
  /\ UNCHANGED mapping

PagesAllocated ==
  /\ StepSucceeds /\ AtMap(6)
  /\ numPages' = PagesOfSize(Highest - Lowest)
  /\ UNCHANGED <<segments, filled, perms>>

SegmentsRead ==
  /\ StepSucceeds /\ AtMap(8)
  /\ filled' = UNION {Offsets(segments[i]) : i \in DOMAIN segments}
  /\ UNCHANGED <<segments, numPages, perms>>

(* All pages can be written until relocations are applied ...              *)
MadeWritable ==
  /\ StepSucceeds /\ AtMap(10)
  /\ perms' = [q \in 0 .. numPages - 1 |-> {"r", "w"}]
  /\ UNCHANGED <<segments, numPages, filled>>

(* ... and get the permissions of their segment then.                      *)
SegmentsProtected ==
  /\ StepSucceeds /\ AtMap(12)
  /\ perms' = PermsSet
  /\ UNCHANGED <<segments, numPages, filled>>

OtherStep ==
  /\ StepSucceeds /\ ~(phase = "map" /\ step \in MappingSteps)
  /\ UNCHANGED mapping

(* numPages is set before the pages are there, and reset with them.        *)
Unmaps ==
  /\ numPages' = IF pages # "none" /\ pages' = "none" THEN 0 ELSE numPages
  /\ UNCHANGED <<segments, filled, perms>>

SegmentsFail ==
  /\ MapFails
  /\ AtMap(1) => segments = <<>>
  /\ AtMap(4) => ~SizesFit
  /\ AtMap(5) => Highest <= Lowest
  /\ IF AtMap(6)
     THEN /\ numPages' = PagesOfSize(Highest - Lowest)
          /\ UNCHANGED <<segments, filled, perms>>
     ELSE Unmaps

(* Headers come with the object; they matter from here.                    *)
HeadersTaken ==
  /\ DepsLoaded
  /\ segments' \in Headers[object]
  /\ UNCHANGED <<numPages, filled, perms>>

SegmentNext ==
  \/ Checked \/ PagesAllocated \/ SegmentsRead \/ MadeWritable
  \/ SegmentsProtected \/ OtherStep
  \/ (ParseFails \/ Parsed \/ DepsFail \/ Mapped) /\ UNCHANGED mapping
  \/ HeadersTaken \/ SegmentsFail
  \/ (Drop \/ Close) /\ Unmaps
  \/ Over /\ UNCHANGED mapping

SegmentSpec == SegmentInit /\ [][SegmentNext]_allVars

-----------------------------------------------------------------------------
End(s) == s.vaddr + s.memsz
NoWrap ==
  \A i \in DOMAIN segments :
    End(segments[i]) + Max({segments[i].align, PageSize}) <= Space

(* "we assume segments are contiguous and non-overlapping": no page is     *)
(* shared, and they come in the order of their addresses, as ELF asks for. *)
Apart ==
  \A i, j \in DOMAIN segments : i < j =>
    AlignUp(End(segments[i]), PageSize) <= VirtualBegin(segments[j])

(* The mapping of an object that is linked at 0 and whose addresses do not *)
(* wrap around: no byte of it is read behind the pages it was given; if    *)
(* segments share no page, each page of a segment gets the permissions the *)
(* segment asks for, whatever the alignment of the ones before it; and no  *)
(* page of anybody else is changed if segments begin at a multiple of      *)
(* their alignment, which ctrdl_mapObject rounds sizes to.                 *)
MappedAsDeclared ==
  phase = "loaded" /\ Lowest = 0 /\ NoWrap =>
    /\ filled \subseteq 0 .. numPages * PageSize - 1
    /\ Apart => \A i \in DOMAIN segments :
         \A q \in Touched(segments[i].vaddr, segments[i].memsz) :
           perms[q] = IF {"w", "x"} \subseteq segments[i].flags
                      THEN {} ELSE segments[i].flags
    /\ (\A i \in DOMAIN segments :
          segments[i].align > 1 => segments[i].vaddr % segments[i].align = 0) =>
         DOMAIN perms = 0 .. numPages - 1
=============================================================================
