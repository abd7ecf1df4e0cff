---------------------------- MODULE SymbolSearch ----------------------------
(***************************************************************************)
(* How the loader finds the object that provides a symbol, and what is     *)
(* made of it:                                                             *)
(*   - by the relocations of an object (Source/Relocs.c), one behind the   *)
(*     other, each of which asks the resolver of the open call, the        *)
(*     program, the global objects in load order, the object itself, and   *)
(*     its dependencies depth first (Source/Symbol.c,                      *)
(*     ctrdl_symNameLookupLoadOrder);                                      *)
(*   - by dlsym of the program, which asks the program and then the global *)
(*     objects in load order (Source/API.c);                               *)
(*   - by dlsym of another handle, which means to search breadth first,    *)
(*     with a queue (Source/Symbol.c, ctrdl_symNameLookupDepOrder);        *)
(*   - by dladdr, ctrdlHandleByAddress and ctrdlThisHandle, which look for *)
(*     the object at an address, the first of them for a symbol too.       *)
(* One search is one behaviour, over any of the worlds it can meet.        *)
(*                                                                         *)
(* The symbol table of an object is a sequence of entries, those of one    *)
(* name in the order of their hash chain; entry 0, STN_UNDEF, is not in    *)
(* it.  Nothing else runs: the table of objects is walked with the mutex   *)
(* held, and a search in dependencies holds references to what it visits.  *)
(***************************************************************************)
EXTENDS FiniteSets, Naturals, Sequences

CONSTANTS
  Handle,      \* the objects in the table
  Main,        \* CTRDL_MAIN_HANDLE: not the address of a structure
  Nobody,      \* NULL: nobody provides the symbol
  Resolver,    \* the resolver given to the open call ...
  Program,     \* ... and ctrdlProgramResolver, as providers of a symbol
  Junk,        \* a value of an uninitialised variable that is no handle
  Name,        \* symbol names
  MaxHandles,  \* CTRDL_MAX_HANDLES, the size of the queue
  Searches     \* what can be asked for, and what the search can meet

Entry == [name : Name, weak : BOOLEAN, value : Nat, size : Nat]
(* Junk: dladdr answers with what the caller had in dli_fbase.             *)
Provider == Handle \cup {Nobody, Resolver, Program, Junk}

(* RelEntry: the types that add the base of the object, those that write a *)
(* symbol, and any other.  Index 0 stands for no symbol, and addend says   *)
(* whether it is not 0, which it always is without DT_RELA.                *)
Reloc ==
  [type : {"relative", "symbol", "other"}, index : Nat, addend : BOOLEAN]

(* What a relocation makes of its word.                                    *)
Word ==
  [by : Provider, base : Provider, plus : {"nothing", "addend", "itself"}]

(* loading: objects whose symbol table was not handed to the handle yet;   *)
(* base and size: the pages of an object.                                  *)
World ==
  [order : Seq(Handle), global : SUBSET Handle, loading : SUBSET Handle,
   deps : [Handle -> Seq(Handle \cup {Main})], chain : [Handle -> Seq(Entry)],
   resolver : SUBSET Name, program : SUBSET Name,
   base : [Handle -> Nat], size : [Handle -> Nat]]

(* "reloc" stands for the relocations of h, in the order of the tables;    *)
(* "main" and "handle" are the two cases of dlsym, "object" is             *)
(* ctrdlHandleByAddress and "this" ctrdlThisHandle.                        *)
ByAddress == {"dladdr", "object", "this"}
Query ==
  [kind : {"reloc", "main", "handle"} \cup ByAddress, h : Handle,
   name : Name, table : Seq(Reloc), addr : Nat]

(* No two objects have pages in common; one that is being loaded has none  *)
(* yet, and its base is 0.                                                 *)
Apart(w) ==
  \A g, h \in Handle :
    \/ g = h \/ {g, h} \subseteq w.loading
    \/ w.base[g] + w.size[g] <= w.base[h]
    \/ w.base[h] + w.size[h] <= w.base[g]

ASSUME SearchAssumption ==
  /\ Main \notin Handle /\ Junk \notin Handle \cup {Main}
  /\ Cardinality({Nobody, Resolver, Program}) = 3
  /\ {Nobody, Resolver, Program} \cap Handle = {}
  /\ MaxHandles \in Nat \ {0} /\ IsFiniteSet(Handle)
  /\ \A s \in Searches :
       /\ s.world \in World /\ Apart(s.world) /\ s.query \in Query
       /\ \A n \in DOMAIN s.query.table :
            s.query.table[n].index \in 0 .. Len(s.world.chain[s.query.h])

VARIABLES
  world,    \* what the search meets: does not change
  query,    \* what it looks for: does not change
  pc,       \* how far it is
  i,        \* index of the loop it is in
  stack,    \* calls of ctrdl_symNameLookupLoadOrder: handle, next dependency
  queue,    \* DepQueue: deps, size and index
  current,  \* the handle popped last
  locks,    \* locks[h]: times the search has locked h
  result,   \* who provides the symbol, and whose base is added to its value
  words,    \* what the relocations so far made of their words
  crashed   \* a pointer that is none was followed

vars ==
  <<world, query, pc, i, stack, queue, current, locks, result, words, crashed>>

(* ctrdl_depQueueInit: the entries keep what was on the stack.             *)
EmptyQueue(stale) == [deps |-> stale, size |-> 0, index |-> 0]

NotFound == [by |-> Nobody, base |-> Nobody]
FoundIn(h) == [by |-> h, base |-> h]

Init ==
  /\ \E s \in Searches : world = s.world /\ query = s.query
  /\ \/ query.kind = "reloc" /\ pc = "next"
     \/ query.kind = "main" /\ pc = "program"
     \/ query.kind = "handle" /\ pc = "start"
     \/ query.kind \in ByAddress /\ pc = "range"
  /\ i = 1
  /\ stack = <<>>
  /\ queue = EmptyQueue([k \in 0 .. MaxHandles - 1 |-> Junk])
  /\ current = Nobody
  /\ locks = [h \in Handle |-> 0]
  /\ result = NotFound /\ words = <<>>
  /\ crashed = FALSE

constant == <<world, query>>
searching == <<stack, queue, current>>

-----------------------------------------------------------------------------
(* The relocation that is handled, and the entry of its symbol.            *)
Current == query.table[Len(words) + 1]
EntryOf(w, h, rel) == w.chain[h][rel.index]
Sought ==
  IF query.kind = "reloc" THEN EntryOf(world, query.h, Current).name ELSE query.name

(* ctrdl_symNameLookupSingle: the first entry of the chain with the name;  *)
(* whether the entry is a definition is not looked at.  An object that is  *)
(* being loaded has no chains.                                             *)
Listed(w, h, name) == \E k \in DOMAIN w.chain[h] : w.chain[h][k].name = name
Has(w, h, name) == h \notin w.loading /\ Listed(w, h, name)
HasSymbol(h) == Has(world, h, Sought)

At(stage) == pc = stage /\ ~crashed
Done(r) ==
  /\ pc' = IF query.kind = "reloc" THEN "apply" ELSE "done"
  /\ result' = r

-----------------------------------------------------------------------------
(* ctrdl_handleRel and ctrdl_handleRela.  Without a symbol nothing is      *)
(* searched, and the address is 0.                                         *)
NextReloc ==
  /\ At("next") /\ Len(words) < Len(query.table)
  /\ pc' = IF Current.index = 0 THEN "apply" ELSE "resolver"
  /\ UNCHANGED <<constant, i, searching, locks, result, words, crashed>>

RelocsDone ==
  /\ At("next") /\ Len(words) = Len(query.table)
  /\ pc' = "done"
  /\ UNCHANGED <<constant, i, searching, locks, result, words, crashed>>

(* ctrdl_handleSingleReloc.                                                *)
WeakReloc == Current.index # 0 /\ EntryOf(world, query.h, Current).weak

Relative ==
  /\ Current.type = "relative"
  /\ words' = Append(words, [by |-> query.h, base |-> query.h,
                             plus |-> IF Current.addend THEN "addend" ELSE "itself"])

WithSymbol ==
  /\ Current.type = "symbol" /\ result.by # Nobody
  /\ words' = Append(words, [by |-> result.by, base |-> result.base,
                             plus |-> IF Current.addend THEN "addend" ELSE "nothing"])

Left == [by |-> Nobody, base |-> Nobody, plus |-> "itself"]
WithoutSymbol ==
  /\ Current.type = "symbol" /\ result.by = Nobody /\ WeakReloc
  /\ words' = Append(words, Left)

(* Mutant: a failed relocation does not end the loop.                      *)
ApplyAnyway ==
  /\ At("apply")
  /\ \/ Relative \/ WithSymbol \/ WithoutSymbol
     \/ result.by = Nobody /\ words' = Append(words, Left)
  /\ pc' = "next" /\ i' = 1 /\ result' = NotFound
  /\ UNCHANGED <<constant, searching, locks, crashed>>

Apply ==
  /\ At("apply")
  /\ Relative \/ WithSymbol \/ WithoutSymbol
  /\ pc' = "next" /\ i' = 1 /\ result' = NotFound
  /\ UNCHANGED <<constant, searching, locks, crashed>>

RelocFails ==
  /\ At("apply")
  /\ \/ Current.type = "other"
     \/ Current.type = "symbol" /\ result.by = Nobody /\ ~WeakReloc
  /\ pc' = "failed"
  /\ UNCHANGED <<constant, i, searching, locks, result, words, crashed>>

-----------------------------------------------------------------------------
(* ctrdl_resolveSymbol, and dlsym of the program.                          *)
AskResolver ==
  /\ At("resolver")
  /\ IF Sought \in world.resolver
     THEN Done([by |-> Resolver, base |-> Resolver])
     ELSE pc' = "program" /\ UNCHANGED result
  /\ UNCHANGED <<constant, i, searching, locks, words, crashed>>

AskProgram ==
  /\ At("program")
  /\ IF Sought \in world.program
     THEN Done([by |-> Program, base |-> Program])
     ELSE pc' = "global" /\ UNCHANGED result
  /\ UNCHANGED <<constant, i, searching, locks, words, crashed>>

(* One turn of the loop over the table.                                    *)
AskGlobal ==
  /\ At("global")
  /\ i <= Len(world.order)
  /\ LET h == world.order[i]
     IN IF h \in world.global /\ HasSymbol(h)
        THEN Done(FoundIn(h)) /\ UNCHANGED i
        ELSE i' = i + 1 /\ UNCHANGED <<pc, result>>
  /\ UNCHANGED <<constant, searching, locks, words, crashed>>

NoGlobal ==
  /\ At("global")
  /\ i > Len(world.order)
  /\ IF query.kind = "reloc" THEN pc' = "self" /\ UNCHANGED result ELSE Done(NotFound)
  /\ UNCHANGED <<constant, i, searching, locks, words, crashed>>

(* Mutant: a weak entry does not pass itself over.                         *)
OwnEntries ==
  {k \in DOMAIN world.chain[query.h] : world.chain[query.h][k].name = Sought}

(* The object's own chain, in which a weak symbol passes its own entry.    *)
OwnCandidates ==
  {k \in DOMAIN world.chain[query.h] :
     /\ world.chain[query.h][k].name = Sought
     /\ ~(k = Current.index /\ world.chain[query.h][k].weak)}

AskSelf ==
  /\ At("self")
  /\ IF OwnCandidates # {}
     THEN Done(FoundIn(query.h)) /\ UNCHANGED stack
     ELSE /\ pc' = "deps"
          /\ stack' = <<[h |-> query.h, i |-> 0]>>
          /\ UNCHANGED result
  /\ UNCHANGED <<constant, i, queue, current, locks, words, crashed>>

-----------------------------------------------------------------------------
(* ctrdl_symNameLookupLoadOrder.                                           *)
Frame == stack[Len(stack)]
Below == SubSeq(stack, 1, Len(stack) - 1)
Lock(h) == locks' = [locks EXCEPT ![h] = @ + 1]
Unlock(h) == locks' = [locks EXCEPT ![h] = @ - 1]

(* Locking CTRDL_MAIN_HANDLE does nothing, looking into it follows it.     *)
VisitMain ==
  /\ At("deps") /\ stack # <<>> /\ Frame.i = 0 /\ result = NotFound
  /\ Frame.h = Main
  /\ crashed' = TRUE
  /\ UNCHANGED <<constant, pc, i, searching, locks, result, words>>

Visit ==
  /\ At("deps") /\ stack # <<>> /\ Frame.i = 0 /\ result = NotFound
  /\ Frame.h # Main
  /\ Lock(Frame.h)
  /\ stack' = Append(Below, [Frame EXCEPT !.i = 1])
  /\ result' = IF HasSymbol(Frame.h) THEN FoundIn(Frame.h) ELSE NotFound
  /\ UNCHANGED <<constant, pc, i, queue, current, words, crashed>>

DepsLeft == Frame.i <= Len(world.deps[Frame.h])

(* Mutant: the loop over the dependencies stays where it is.               *)
DescendAgain ==
  /\ At("deps") /\ stack # <<>> /\ Frame.i > 0 /\ result = NotFound
  /\ DepsLeft
  /\ stack' = Append(stack, [h |-> world.deps[Frame.h][Frame.i], i |-> 0])
  /\ UNCHANGED <<constant, pc, i, queue, current, locks, result, words, crashed>>

Descend ==
  /\ At("deps") /\ stack # <<>> /\ Frame.i > 0 /\ result = NotFound
  /\ DepsLeft
  /\ stack' = Append(Append(Below, [Frame EXCEPT !.i = @ + 1]),
                     [h |-> world.deps[Frame.h][Frame.i], i |-> 0])
  /\ UNCHANGED <<constant, pc, i, queue, current, locks, result, words, crashed>>

(* Mutant: a search that was successful returns before it unlocks.         *)
ReturnLocked ==
  /\ At("deps") /\ stack # <<>> /\ Frame.i > 0
  /\ result # NotFound \/ ~DepsLeft
  /\ IF result = NotFound THEN Unlock(Frame.h) ELSE UNCHANGED locks
  /\ stack' = Below
  /\ UNCHANGED <<constant, pc, i, queue, current, result, words, crashed>>

Return ==
  /\ At("deps") /\ stack # <<>> /\ Frame.i > 0
  /\ result # NotFound \/ ~DepsLeft
  /\ Unlock(Frame.h)
  /\ stack' = Below
  /\ UNCHANGED <<constant, pc, i, queue, current, result, words, crashed>>

DepsSearched ==
  /\ At("deps") /\ stack = <<>>
  /\ pc' = "apply"
  /\ UNCHANGED <<constant, i, searching, locks, result, words, crashed>>

-----------------------------------------------------------------------------
(* ctrdl_symNameLookupDepOrder, with ctrdl_depQueuePush and Pop.           *)
Queued(q, h) == \E k \in 0 .. q.size - 1 : q.deps[k] = h

(* The place after the last one would be index + size.                     *)
Pushed(q, h) ==
  IF q.size >= MaxHandles \/ Queued(q, h)
  THEN q
  ELSE [q EXCEPT !.deps[q.size % MaxHandles] = h, !.size = @ + 1]

(* Mutant: the index does not wrap around.                                 *)
PoppedUnwrapped(q) == [q EXCEPT !.index = @ + 1, !.size = @ - 1]

Popped(q) == [q EXCEPT !.index = (@ + 1) % MaxHandles, !.size = @ - 1]

(* The queue is a local variable: an earlier search, for one, leaves       *)
(* addresses of handles where it will be.                                  *)
Start ==
  /\ At("start")
  /\ Lock(query.h)
  /\ \E stale \in [0 .. MaxHandles - 1 -> Handle \cup {Junk}] :
       queue' = Pushed(EmptyQueue(stale), query.h)
  /\ pc' = "pop"
  /\ UNCHANGED <<constant, i, stack, current, result, words, crashed>>

(* Anything else than the address of a handle, CTRDL_MAIN_HANDLE too, is   *)
(* followed.                                                               *)
PopCrashes ==
  /\ At("pop") /\ queue.size > 0
  /\ queue.deps[queue.index] \in {Junk, Main}
  /\ crashed' = TRUE
  /\ UNCHANGED <<constant, pc, i, searching, locks, result, words>>

(* Mutant: the index is moved before the entry is read.                    *)
PopNext ==
  /\ At("pop") /\ queue.size > 0
  /\ LET h == queue.deps[(queue.index + 1) % MaxHandles]
     IN /\ h \in Handle
        /\ current' = h
        /\ queue' = Popped(queue)
        /\ IF HasSymbol(h)
           THEN /\ Unlock(query.h)
                /\ Done([by |-> h, base |-> query.h])
           ELSE /\ pc' = "push"
                /\ UNCHANGED <<locks, result>>
  /\ i' = 1
  /\ UNCHANGED <<constant, stack, words, crashed>>

(* dlsym adds the base of the handle it was given, whoever was found.      *)
Pop ==
  /\ At("pop") /\ queue.size > 0
  /\ LET h == queue.deps[queue.index]
     IN /\ h \in Handle
        /\ current' = h
        /\ queue' = Popped(queue)
        /\ IF HasSymbol(h)
           THEN /\ Unlock(query.h)
                /\ Done([by |-> h, base |-> query.h])
           ELSE /\ pc' = "push"
                /\ UNCHANGED <<locks, result>>
  /\ i' = 1
  /\ UNCHANGED <<constant, stack, words, crashed>>

PushDep ==
  /\ At("push")
  /\ i <= Len(world.deps[current])
  /\ queue' = Pushed(queue, world.deps[current][i])
  /\ i' = i + 1
  /\ UNCHANGED <<constant, pc, stack, current, locks, result, words, crashed>>

DepsPushed ==
  /\ At("push")
  /\ i > Len(world.deps[current])
  /\ pc' = "pop"
  /\ UNCHANGED <<constant, i, searching, locks, result, words, crashed>>

QueueEmpty ==
  /\ At("pop") /\ queue.size = 0
  /\ Unlock(query.h)
  /\ Done(NotFound)
  /\ UNCHANGED <<constant, i, searching, words, crashed>>

-----------------------------------------------------------------------------
(* ctrdl_unsafeFindHandleByAddr: the end of the pages is included.         *)
(* Mutant: the first address is not.                                       *)
InRangeBehind(h) ==
  query.addr > world.base[h] /\ query.addr <= world.base[h] + world.size[h]

InRange(h) ==
  query.addr >= world.base[h] /\ query.addr <= world.base[h] + world.size[h]

(* The handle found is locked, for the caller of ctrdlHandleByAddress and  *)
(* ctrdlThisHandle to unlock.                                              *)
AskRange ==
  /\ At("range") /\ i <= Len(world.order)
  /\ LET h == world.order[i]
     IN \/ /\ InRange(h)
           /\ current' = h /\ Lock(h)
           /\ IF query.kind = "dladdr"
              THEN pc' = "value" /\ UNCHANGED result
              ELSE pc' = "done" /\ result' = FoundIn(h)
           /\ UNCHANGED i
        \/ /\ ~InRange(h)
           /\ i' = i + 1
           /\ UNCHANGED <<pc, current, locks, result>>
  /\ UNCHANGED <<constant, stack, queue, words, crashed>>

(* Outside of all objects ctrdlThisHandle takes the program for the caller,*)
(* and dladdr leaves the caller's Dl_info as it was: an object is found if *)
(* its dli_fbase is not NULL.                                              *)
Process == [by |-> Program, base |-> Program]
Leftover == [by |-> Junk, base |-> Junk]
Outside ==
  CASE query.kind = "object" -> {NotFound}
    [] query.kind = "this" -> {Process}
    [] query.kind = "dladdr" -> {NotFound, Leftover}

NoRange ==
  /\ At("range") /\ i > Len(world.order)
  /\ pc' = "done"
  /\ result' \in Outside
  /\ UNCHANGED <<constant, i, searching, locks, words, crashed>>

(* ctrdl_symValueLookupSingle: the first entry that begins at the address  *)
(* or behind it, and dladdr, which unlocks the object.                     *)
Values(h) ==
  LET offset == query.addr - world.base[h]
  IN {k \in DOMAIN world.chain[h] :
        LET e == world.chain[h][k]
        IN h \notin world.loading /\ e.value >= offset /\ offset < e.value + e.size}

AskValue ==
  /\ At("value")
  /\ Unlock(current)
  /\ pc' = "done"
  /\ \/ /\ Values(current) = {}
        /\ result' = [by |-> Nobody, base |-> current]
        /\ UNCHANGED i
     \/ /\ \E k \in Values(current) :
             i' = k /\ \A j \in Values(current) : k <= j
        /\ result' = FoundIn(current)
  /\ UNCHANGED <<constant, searching, words, crashed>>

Over == (pc \in {"done", "failed"} \/ crashed) /\ UNCHANGED vars

Search ==
  \/ NextReloc \/ RelocsDone \/ Apply \/ RelocFails
  \/ AskRange \/ NoRange \/ AskValue
  \/ AskResolver \/ AskProgram \/ AskGlobal \/ NoGlobal \/ AskSelf
  \/ VisitMain \/ Visit \/ Descend \/ Return \/ DepsSearched
  \/ Start \/ PopCrashes \/ Pop \/ PushDep \/ DepsPushed \/ QueueEmpty

Next == Search \/ Over

Spec == Init /\ [][Next]_vars

(* A search is a sequential function of one thread: it goes on.            *)
FairSpec == Spec /\ WF_vars(Search)

-----------------------------------------------------------------------------
Frames == [h : Handle \cup {Main}, i : Nat]
Stages ==
  {"next", "apply", "resolver", "program", "global", "self", "deps",
   "start", "pop", "push", "range", "value", "done", "failed"}

(* Types of the variables: the state a search of Relocs.c, Symbol.c or     *)
(* API.c keeps.  The queue never counts more entries than it has.          *)
TypeOK ==
  /\ world \in World /\ query \in Query
  /\ pc \in Stages
  /\ i \in Nat \ {0}
  /\ stack \in Seq(Frames)
  /\ queue \in [deps : [0 .. MaxHandles - 1 -> Handle \cup {Main, Junk}],
                size : 0 .. MaxHandles, index : 0 .. MaxHandles - 1]
  /\ current \in Handle \cup {Nobody}
  /\ locks \in [Handle -> Nat]
  /\ result \in [by : Provider, base : Provider]
  /\ words \in Seq(Word)
  /\ crashed \in BOOLEAN

(* Who provides the name where a search enters h, if low says who does     *)
(* below each dependency: h, or the first dependency below which one does. *)
Provides(w, name, low) ==
  [h \in Handle \cup {Main} |->
     IF h = Main THEN Nobody
     ELSE IF Has(w, h, name) THEN h
     ELSE LET found == {k \in DOMAIN w.deps[h] : low[w.deps[h][k]] # Nobody}
          IN IF found = {} THEN Nobody
             ELSE low[w.deps[h][CHOOSE k \in found : \A j \in found : k <= j]]]

(* The same over at most n levels of dependencies.                         *)
Levels(w, name) ==
  LET Level[n \in Nat] ==
        IF n = 0 THEN [h \in Handle \cup {Main} |-> Nobody]
        ELSE Provides(w, name, Level[n - 1])
  IN Level

(* The first object with the name among h and what it needs, depth first.  *)
FirstBelow(w, h, name) == Levels(w, name)[Cardinality(Handle)][h]

GlobalPlaces(w, name) ==
  {k \in DOMAIN w.order : w.order[k] \in w.global /\ Has(w, w.order[k], name)}

InProgram(w, name, otherwise) ==
  LET places == GlobalPlaces(w, name)
  IN IF name \in w.program THEN Program
     ELSE IF places # {}
     THEN w.order[CHOOSE k \in places : \A j \in places : k <= j]
     ELSE otherwise

(* The object h itself has the symbol, the weak one it looks for apart.    *)
DefinesIt(w, h, rel) ==
  \E k \in DOMAIN w.chain[h] :
    LET e == w.chain[h][k]
    IN e.name = EntryOf(w, h, rel).name /\ (e.weak => k # rel.index)

(* Who should provide the symbol of a relocation of h.                     *)
Expected(w, h, rel) ==
  LET name == EntryOf(w, h, rel).name
  IN IF rel.index = 0 THEN Nobody
     ELSE IF name \in w.resolver THEN Resolver
     ELSE InProgram(w, name,
                    IF DefinesIt(w, h, rel) THEN h ELSE FirstBelow(w, h, name))

Unresolved(w, h, rel) ==
  \/ rel.type = "other"
  \/ /\ rel.type = "symbol" /\ Expected(w, h, rel) = Nobody
     /\ rel.index = 0 \/ ~EntryOf(w, h, rel).weak

(* A symbol is taken from the first scope that has it: the resolver of the *)
(* open call, which precedes everything else for a relocation and is not   *)
(* asked by dlsym (README.md), the program, the global object loaded       *)
(* first, the object itself, its dependencies depth first; and the base    *)
(* added to its value is that of the object that has it.                   *)
FirstScopeWins ==
  /\ query.kind = "main" /\ pc = "done" =>
       LET e == InProgram(world, query.name, Nobody) IN result = [by |-> e, base |-> e]
  /\ \A n \in DOMAIN words :
       query.table[n].type = "symbol" =>
         LET e == Expected(world, query.h, query.table[n])
         IN words[n].by = e /\ words[n].base = e

(* The relocations of an object are all done or end at the first one that  *)
(* no scope has a symbol for and that is not weak, or whose type is not    *)
(* known; what no scope has leaves its word as it was (Relocs.c, the loops *)
(* of ctrdl_handleRel and ctrdl_handleRela).                               *)
RelocatedOrFailed ==
  query.kind = "reloc" =>
    /\ \A n \in DOMAIN words :
         /\ ~Unresolved(world, query.h, query.table[n])
         /\ query.table[n].type = "relative" => words[n].by = query.h
         /\ words[n].by = Nobody => words[n] = Left
    /\ pc = "failed" => Unresolved(world, query.h, Current)
    /\ pc = "done" => Len(words) = Len(query.table)

(* A search holds a reference to each object it is inside of, or hands to  *)
(* its caller, and to no other, so it gives back every reference it takes, *)
(* however it ends; what it leaves locked could never be unloaded          *)
(* (ctrdl_symNameLookupLoadOrder, ctrdl_symNameLookupDepOrder, dladdr).    *)
Holds(h) ==
  \/ h = query.h /\ pc \in {"pop", "push"}
  \/ h = current /\ pc = "value"
  \/ h = current /\ pc = "done" /\ query.kind \in {"object", "this"}
LocksBalanced ==
  \A h \in Handle :
    locks[h] =
      Cardinality({k \in DOMAIN stack : stack[k].h = h /\ stack[k].i > 0})
      + IF Holds(h) THEN 1 ELSE 0

(* What a search by address may find: an object that has the address, or   *)
(* one that ends there, since the end is included.                         *)
Covers(h) ==
  query.addr >= world.base[h] /\ query.addr < world.base[h] + world.size[h]
EndsThere(h) == h \in Handle /\ query.addr = world.base[h] + world.size[h]

(* An address inside of an object is found to be in that object, unless    *)
(* another one ends there; for an address inside of none no object is      *)
(* looked into, unless one ends there, though dladdr may then answer with  *)
(* what its caller had; and dladdr names a symbol, of the object it found, *)
(* if one begins at the address (ctrdlHandleByAddress, ctrdlThisHandle).   *)
AddressFound ==
  query.kind \in ByAddress /\ pc = "done" =>
    /\ result.base \in Handle => Covers(result.base) \/ EndsThere(result.base)
    /\ \A n \in DOMAIN world.order :
         Covers(world.order[n]) /\ world.order[n] \notin world.loading =>
           result.base = world.order[n] \/ EndsThere(result.base)
    /\ query.kind = "dladdr" /\ result.base \in Handle \ world.loading =>
         /\ result.by \in {Nobody, result.base}
         /\ result.by = Nobody =>
              ~ \E k \in DOMAIN world.chain[result.base] :
                  LET e == world.chain[result.base][k]
                  IN e.size > 0 /\ world.base[result.base] + e.value = query.addr

(* dlsym of an object that has the symbol finds that one, whatever the     *)
(* entries of the queue were before and whatever the object needs.         *)
OwnSymbolFirst ==
  query.kind = "handle" /\ HasSymbol(query.h) =>
    /\ ~crashed
    /\ pc = "done" => result = FoundIn(query.h)

(* A relocation and dlsym of the program come to an end where no object    *)
(* needs itself (the recursion over dependencies has no other bound).      *)
SearchEnds ==
  query.kind # "handle" => <>(pc \in {"done", "failed"} \/ crashed)

Reachable(h) ==
  LET Step[n \in Nat] ==
        IF n = 0 THEN {h}
        ELSE Step[n - 1] \cup
             UNION {{world.deps[g][k] : k \in DOMAIN world.deps[g]} :
                      g \in Step[n - 1] \cap Handle}
  IN Step[Cardinality(Handle)] \cap Handle

(* API.c says that dlsym handles other handles in dependency order: it     *)
(* finds a symbol if an object the handle needs has it.                    *)
DlsymSearchesDeps ==
  query.kind = "handle" /\ pc = "done" =>
    (result # NotFound <=> \E h \in Reachable(query.h) : HasSymbol(h))
=============================================================================
