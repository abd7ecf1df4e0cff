------------------------------ MODULE ElfLoad ------------------------------
(***************************************************************************)
(* What one load allocates, reads and reports: ctrdl_parseELF with its     *)
(* forty early returns, ctrdl_mapObject and ctrdl_loadObject on top of it, *)
(* and the unloading of the object (Source/ELFUtil.c, Source/Loader.c,     *)
(* Source/Stream.c, Source/Error.c), once the handle is created.           *)
(*                                                                         *)
(* A function that is a sequence of steps, each with its error, is written *)
(* as that sequence; the actions carry out a step, or fail at it.  Which   *)
(* object provides a symbol, the dependencies themselves, and what other   *)
(* threads do to the handle are the subject of SymbolSearch and Lifecycle. *)
(***************************************************************************)
EXTENDS Integers, Sequences

CONSTANT MaxEntries  \* bound on the entries of each relocation table

ASSUME LoadAssumption == MaxEntries \in Nat

Kept == {"symBuckets", "symChains", "symEntries", "stringTable"}
RelTable == {"relArray", "relaArray"}
ElfTable == {"segments", "dynEntries"} \cup Kept \cup RelTable
Table == ElfTable \cup {"loadSegments"}

Error ==
  {"OK", "InvalidParam", "ReadFailed", "NoMemory", "HandleLimit", "NotFound",
   "InvalidObject", "InvalidBit", "NotSO", "InvalidArch", "MapFailed",
   "RelocFailed", "DepsLimit", "DepFailed", "FreeFailed"}

(* The relocations of an object: the type of its PLT relocations, if it    *)
(* has any, how many these are, and how many others of each type there are.*)
Object ==
  [plt : {"none", "rel", "rela", "other"}, jmp : 0 .. MaxEntries,
   rel : 0 .. MaxEntries, rela : 0 .. MaxEntries]

VARIABLES
  stream,      \* what the object is read from, a file or memory
  object,      \* the object: does not change
  phase,       \* how far the load is
  step,        \* next step of the function that is running
  live,        \* tables that are allocated
  elf,         \* tables the CTRDLElf points to
  handle,      \* tables the handle points to
  doubleFree,  \* a table was freed that was not allocated
  written,     \* entries of the relocation tables that were read
  pages,       \* code pages of the handle: origin and base
  deps,        \* what kinds of dependencies are bound
  lastError,   \* g_LastError of the thread
  cause        \* the error of the step that failed

vars == <<stream, object, phase, step, live, elf, handle, doubleFree, written,
          pages, deps, lastError, cause>>
given == <<stream, object>>
memory == <<live, elf, handle, doubleFree>>

Init ==
  /\ stream \in {"file", "memory"}
  /\ object \in Object
  /\ phase = "parse" /\ step = 1
  /\ live = {} /\ elf = {} /\ handle = {} /\ doubleFree = FALSE
  /\ written = [t \in RelTable |-> {}]
  /\ pages = "none"
  /\ deps = {}
  /\ lastError = "OK" /\ cause = "OK"

-----------------------------------------------------------------------------
(* The steps.  A test is a seek, a comparison or a search for an entry.    *)
Step(op, table, entries, error) ==
  [op |-> op, table |-> table, entries |-> entries, error |-> error]
Test(error) == Step("test", "none", {}, error)
Refuse(error) == Step("refuse", "none", {}, error)
Read(error) == Step("read", "none", {}, error)
Alloc(table) == Step("alloc", table, {}, "NoMemory")
Fill(table, entries) == Step("read", table, entries, "ReadFailed")

HeaderSteps ==
  <<Test("ReadFailed"), Read("ReadFailed"), Test("InvalidObject"),
    Test("InvalidBit"), Test("InvalidObject"), Test("NotSO"),
    Test("InvalidArch"), Test("ReadFailed"), Alloc("segments")>>

SegmentSteps ==
  <<Read("ReadFailed"), Test("InvalidObject"), Test("InvalidObject"),
    Alloc("dynEntries"), Read("InvalidObject")>>

HashSteps ==
  <<Test("InvalidObject"), Test("ReadFailed"), Read("ReadFailed"),
    Read("ReadFailed"), Alloc("symBuckets"), Alloc("symChains"),
    Read("ReadFailed"), Read("ReadFailed")>>

SymbolSteps ==
  <<Test("InvalidObject"), Test("ReadFailed"), Alloc("symEntries"),
    Read("ReadFailed"), Test("InvalidObject"), Test("ReadFailed"),
    Test("InvalidObject"), Alloc("stringTable"), Read("ReadFailed")>>

(* numActuallyJmpRel, where PLT relocations of that type are there.        *)
Jumps(type) == IF object.plt = type THEN object.jmp ELSE 0

(* relArraySize and relaArraySize.                                         *)
Room(table) ==
  IF table = "relArray"
  THEN Jumps("rel") + object.rel
  ELSE Jumps("rela") + object.rela

(* A table is read first with the entries that are not of the PLT, from an *)
(* address that was never set if there are none: the seek may fail then.   *)
RelocSteps(table, entries) ==
  IF Room(table) = 0
  THEN <<>>
  ELSE <<Alloc(table), Test("ReadFailed"), Fill(table, 0 .. entries - 1)>>

(* Mutant: the relocations of the PLT are read to the start of the table.  *)
JumpStepsAtStart ==
  CASE object.plt = "rel" ->
         <<Test("ReadFailed"), Fill("relArray", 0 .. object.jmp - 1)>>
    [] object.plt = "rela" ->
         <<Test("ReadFailed"), Fill("relaArray", 0 .. object.jmp - 1)>>
    [] OTHER -> <<>>

(* Those of the PLT come behind.                                           *)
JumpSteps ==
  CASE object.plt = "rel" ->
         <<Test("ReadFailed"),
           Fill("relArray", object.rel .. Room("relArray") - 1)>>
    [] object.plt = "rela" ->
         <<Test("ReadFailed"),
           Fill("relaArray", object.rela .. Room("relaArray") - 1)>>
    [] OTHER -> <<>>

(* ctrdl_parseELF.                                                         *)
ParseSteps ==
  HeaderSteps \o SegmentSteps \o HashSteps \o SymbolSteps
  \o (IF object.plt = "other" THEN <<Refuse("InvalidObject")>> ELSE <<>>)
  \o RelocSteps("relArray", object.rel) \o RelocSteps("relaArray", object.rela)
  \o JumpSteps

(* ctrdl_mapObject, after the dependencies.                                *)
MapSteps ==
  <<Test("InvalidObject"), Alloc("loadSegments"), Test("InvalidObject"),
    Test("InvalidObject"), Test("InvalidObject"),
    Step("pages", "allocated", {}, "NoMemory"),
    Test("ReadFailed"), Read("ReadFailed"),
    Step("pages", "committed", {}, "MapFailed"),
    Test("MapFailed"), Test("RelocFailed"), Test("MapFailed")>>

Steps == IF phase = "parse" THEN ParseSteps ELSE MapSteps
Now == Steps[step]
Running == phase \in {"parse", "map"} /\ step <= Len(Steps)

(* ctrdl_makeMemStream sets the size of the stream to 0: nothing can be    *)
(* read from it.                                                           *)
CanSucceed == Now.op # "refuse" /\ (Now.op = "read" => stream = "file")

(* To read no entries always succeeds.                                     *)
CanFail == ~(Now.op = "read" /\ Now.table \in RelTable /\ Now.entries = {})

StepSucceeds ==
  /\ Running /\ CanSucceed
  /\ step' = step + 1
  /\ IF Now.op = "alloc"
     THEN /\ live' = live \cup {Now.table}
          /\ elf' = elf \cup ({Now.table} \cap ElfTable)
     ELSE UNCHANGED <<live, elf>>
  /\ IF Now.op = "read" /\ Now.table \in RelTable
     THEN written' = [written EXCEPT ![Now.table] = @ \cup Now.entries]
     ELSE UNCHANGED written
  /\ pages' = IF Now.op = "pages" THEN Now.table ELSE pages
  /\ UNCHANGED <<given, phase, handle, doubleFree, deps, lastError, cause>>

-----------------------------------------------------------------------------
Free(tables) ==
  /\ live' = live \ tables
  /\ doubleFree' = (doubleFree \/ ~(tables \subseteq live))

(* The errors that may be the last one when the dependencies are unlocked: *)
(* an object may fail to be unloaded, CTRDL_MAIN_HANDLE is no parameter.   *)
AfterRelease(bound, error) ==
  (IF "main" \in bound THEN {"InvalidParam"} ELSE {error})
  \cup (IF "object" \in bound THEN {"FreeFailed"} ELSE {})

(* ctrdl_unloadObject, with the error there was before.                    *)
UnloadSucceeds(error) ==
  /\ pages' = "none"
  /\ lastError' \in AfterRelease(deps, error)

UnloadFails ==
  /\ \/ pages = "committed" /\ pages' = "committed"
     \/ pages # "none" /\ pages' = "allocated"
  /\ lastError' = "FreeFailed"

(* Up to the table of the segments nothing is there to be freed.           *)
FreesOnFailure == step > Len(HeaderSteps)

(* Mutant: no error is set.                                                *)
ParseFailsSilently ==
  /\ Running /\ CanFail /\ phase = "parse"
  /\ cause' = Now.error
  /\ phase' = "drop"
  /\ IF FreesOnFailure THEN Free(elf) ELSE UNCHANGED <<live, doubleFree>>
  /\ elf' = {}
  /\ UNCHANGED <<given, step, handle, written, pages, deps, lastError>>

ParseFails ==
  /\ Running /\ CanFail /\ phase = "parse"
  /\ lastError' = Now.error /\ cause' = Now.error
  /\ phase' = "drop"
  /\ IF FreesOnFailure THEN Free(elf) ELSE UNCHANGED <<live, doubleFree>>
  /\ elf' = {}
  /\ UNCHANGED <<given, step, handle, written, pages, deps>>

Parsed ==
  /\ phase = "parse" /\ step > Len(Steps)
  /\ phase' = "deps" /\ step' = 1
  /\ UNCHANGED <<given, memory, written, pages, deps, lastError, cause>>

(* ctrdl_loadDeps.  With a resolver its failures are passed over, but the  *)
(* error of the dependency stays, which may be any that a load of its own  *)
(* ends with; so may a call that the code of a dependency makes leave one. *)
DepsLoaded ==
  /\ phase = "deps"
  /\ phase' = "map"
  /\ deps' \in SUBSET {"object", "main"}
  /\ lastError' \in {lastError} \cup (Error \ {"OK"})
  /\ UNCHANGED <<given, step, memory, written, pages, cause>>

DepsFail ==
  /\ phase = "deps"
  /\ phase' = "drop"
  /\ \E bound \in SUBSET {"object", "main"}, error \in {"DepFailed", "DepsLimit"} :
       /\ error = "DepsLimit" => bound = {}
       /\ deps' = bound
       /\ cause' = error
       /\ lastError' \in AfterRelease(bound, error)
  /\ UNCHANGED <<given, step, memory, written, pages>>

MapFails ==
  /\ Running /\ phase = "map"
  /\ cause' = Now.error
  /\ UnloadSucceeds(Now.error) \/ UnloadFails
  /\ Free(live \cap {"loadSegments"})
  /\ phase' = "drop"
  /\ UNCHANGED <<given, step, elf, handle, written, deps>>

(* Mutant: the handle takes all tables over.                              *)
MappedHandsAll ==
  /\ phase = "map" /\ step > Len(Steps)
  /\ Free({"loadSegments"})
  /\ handle' = elf /\ elf' = {}
  /\ phase' = "loaded"
  /\ UNCHANGED <<given, step, written, pages, deps, lastError, cause>>

(* The handle takes four tables over, the others are freed.                *)
Mapped ==
  /\ phase = "map" /\ step > Len(Steps)
  /\ Free({"loadSegments"} \cup (elf \ Kept))
  /\ handle' = Kept /\ elf' = {}
  /\ phase' = "loaded"
  /\ UNCHANGED <<given, step, written, pages, deps, lastError, cause>>

(* ctrdl_loadObject unlocks the handle, which unloads the object again.    *)
Drop ==
  /\ phase = "drop"
  /\ \/ UnloadSucceeds(lastError) /\ phase' = "failed"
     \/ UnloadFails /\ phase' = "kept"
  /\ Free(elf)
  /\ elf' = {}
  /\ UNCHANGED <<given, step, handle, written, deps, cause>>

(* Mutant: the tables are freed before it is known that the pages are.     *)
CloseFreesFirst ==
  /\ phase \in {"loaded", "kept"}
  /\ Free(handle)
  /\ \/ UnloadSucceeds(lastError) /\ phase' = "closed" /\ handle' = {}
     \/ UnloadFails /\ UNCHANGED <<phase, handle>>
  /\ UNCHANGED <<given, step, elf, written, deps, cause>>

(* The last unlock of an object that was loaded, or that stayed in the     *)
(* table when its load failed and was found there.                         *)
Close ==
  /\ phase \in {"loaded", "kept"}
  /\ \/ /\ UnloadSucceeds(lastError)
        /\ Free(handle) /\ handle' = {}
        /\ phase' = "closed"
     \/ UnloadFails /\ UNCHANGED <<live, doubleFree, handle, phase>>
  /\ UNCHANGED <<given, step, elf, written, deps, cause>>

Over == phase \in {"failed", "closed"} /\ UNCHANGED vars

Next ==
  \/ StepSucceeds \/ ParseFails \/ Parsed \/ DepsLoaded \/ DepsFail
  \/ MapFails \/ Mapped \/ Drop \/ Close \/ Over

Spec == Init /\ [][Next]_vars

-----------------------------------------------------------------------------
Phases == {"parse", "deps", "map", "drop", "loaded", "kept", "failed", "closed"}

(* Types of the variables, the state of ctrdl_loadObject.                  *)
TypeOK ==
  /\ stream \in {"file", "memory"} /\ object \in Object
  /\ phase \in Phases
  /\ step \in Nat \ {0}
  /\ live \subseteq Table /\ elf \subseteq ElfTable /\ handle \subseteq Kept
  /\ doubleFree \in BOOLEAN
  /\ written \in [RelTable -> SUBSET Nat]
  /\ pages \in {"none", "allocated", "committed"}
  /\ deps \subseteq {"object", "main"}
  /\ lastError \in Error /\ cause \in Error

(* Every table that is allocated has one owner, the CTRDLElf, the handle   *)
(* or ctrdl_mapObject, which gives it back exactly once: nothing is freed  *)
(* twice, and when a load failed or its object was unloaded nothing of it  *)
(* is left, neither tables nor code pages.                                 *)
TablesOwned ==
  /\ ~doubleFree
  /\ elf \cap handle = {}
  /\ elf \cup handle = live \ {"loadSegments"}
  /\ "loadSegments" \in live => phase = "map"
  /\ phase = "loaded" => live = Kept
  /\ phase \in {"failed", "kept", "closed"} => live = {}
  /\ phase \in {"failed", "closed"} => pages = "none"

(* When relocations are applied, every entry of the two tables was read    *)
(* from the object, and none outside of them: those of the PLT and the     *)
(* others share a table, whatever the types are (ctrdl_parseELF).          *)
RelocationsRead ==
  phase \in {"deps", "map", "loaded"} =>
    \A t \in RelTable : written[t] = 0 .. Room(t) - 1

(* The error of a failed load is that of the step that failed, and not one *)
(* of the cleaning up after it; except that a dependency or, for the       *)
(* errors that code pages can be there for, pages that cannot be given     *)
(* back replace it, and so does the program among the dependencies.        *)
CauseReported ==
  phase \in {"failed", "kept"} =>
    \/ lastError = cause /\ cause # "OK"
    \/ /\ lastError = "FreeFailed"
       /\ "object" \in deps \/ cause \in {"ReadFailed", "MapFailed", "RelocFailed"}
    \/ lastError = "InvalidParam" /\ "main" \in deps
=============================================================================
