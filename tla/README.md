# A verification of CTRDL

CTRDL loads ELF shared objects on the Nintendo 3DS behind a `dlopen`-like
interface.  This directory holds TLA+ models of its loader, the TLC runs that
check them on small instances, and theorems proved with TLAPS for every
instance.  Paths and line numbers refer to the sources in `src/`.

## 1. The system

| Component | State | Operations | Used by |
|---|---|---|---|
| Handle mutex, `Source/Handle.c:23-46` | a flag, a `RecursiveLock` | acquire, release, each with a lazy initialisation in `ldrexb`/`strexb` | everything that touches the handle list |
| Handle list, `Handle.c:48-121` | array block, size, capacity | insert, remove, walk | open, unlock, searches |
| Handles, `Handle.c:123-256` | per object: path, flags, refcount, dependencies, pages, tables | create, lock, unlock, find by name or address | API, loader, searches |
| Loader, `Source/Loader.c` | one call's `LdrData`; fills in the handle | load (recursive in dependencies), unload (recursive in dependencies) | API, handles (last unlock) |
| API, `Source/API.c` | none of its own | `dlopen`, `ctrdlOpen`, `ctrdlFOpen`, `ctrdlMap`, `dlclose`, `dlsym`, `dladdr`, `ctrdlHandleByAddress`, `ctrdlThisHandle`, `ctrdlEnumerate`, `ctrdlInfo` | the program, initialisers, finalisers, callbacks |
| Symbol searches, `Source/Symbol.c` | a recursion, or a queue on the stack | one object, load order, dependency order, by value | relocations, `dlsym`, `dladdr` |
| Relocations, `Source/Relocs.c` | none | resolve a symbol, write a word | loader |
| ELF reading, `Source/ELFUtil.c` | eight tables in a `CTRDLElf` | parse, free, search entries | loader |
| Streams, `Source/Stream.c` | file or buffer, position | seek, read | ELF reading, loader |
| Last error, `Source/Error.c` | one value per thread | set, get and clear | all |
| ResGen, front: `ResGen/Source/{Main,CmdArgs,Binary,Symbol}.cpp` | list of symbols, rules, the map made of both | read inputs and rule files, apply rules | builds of programs |
| ResGen, table: `ResGen/Source/{SymTable,ResGenerator}.cpp` | string table, buckets, words of the generated file | build, write; the generated resolver searches | the program, as its resolver |

Interaction: the program's threads call the API; opening an object creates a
handle (list, mutex), reads it (streams, ELF), opens what it needs (the API
again), maps and relocates it (searches, which lock and unlock handles) and runs
its initialisers, which may call the API.  The last unlock of a handle unloads
its object with the mutex held: finalisers run (and may call the API), pages and
dependencies are given back, and these may be last unlocks again.

What is hard here: threads that meet between two critical sections of one open;
foreign code called in the middle of a load, an unload or an enumeration; errors
at any step of a load, and during the clean-up; memory whose owner changes; a
table at its limit; and the order in which the same name is found in several
objects.  In ResGen it is the arithmetic of a hash table that one program writes
and another one reads, and rules whose effect depends on the order of files.
`PROJECT.json` lists these hazards line by line.

What makes the components correct: the mutex is a mutex from its first use; the
list holds each open object once and in load order; refcounts count references;
an object stays mapped while anybody may use it, and not longer; dependencies
come first and go last; a failed load leaves nothing behind and says why; a name
is found in the first scope that has it; an address is found in the object that
has it; a generated resolver answers what the rules say; every call returns.

## 2. The modules

    LoadOrder     <- HandleList (HandleListProofs)      the table of handles
    Mutex         <- HandleMutex (HandleMutexProofs)    the mutex
    LoadOrder, Mutex, RefCounted <- Lifecycle           the life of an object
                     (LifecycleProofs, RefcountProofs, ReclaimProofs)
                     SymbolSearch (SymbolSearchProofs)  one search or relocation
    ElfLoad       <- SegmentMap (ElfLoadProofs)         one load: memory, errors,
                                                        where its segments go
    ResolverTable <- ResGen (ResGenProofs)              the host tool, its output

`A <- B` reads: B implements A.  The refinements are proved, that of RefCounted
under the provisos of `CountsReferences` (section 5).  Lifecycle is composed of the abstract sides of
the others: it instantiates LoadOrder for its table and Mutex for its mutex, and
LifecycleProofs shows that it uses both as they allow; what it relies on is
exactly what HandleList and HandleMutex are shown to provide.

**HandleList.**  `block`, `size`, `capacity` and `array` are the fields of
`g_HandleList`; the array may hold `Junk` where nothing was written.  One action
per path through `ctrdl_handleListInsert` and `ctrdl_handleListRemove`,
including every failing `malloc` and `realloc`.  `LoadOrder` is the same table
as a set with an order.

**HandleMutex.**  A thread is in `acquire` or `release`; `check`, `init`,
`store`, `reload` and `ready` are the places between the exclusive loads and
stores.  `monitor` is the set of threads whose reservation is intact; a context
switch may clear one.  The `RecursiveLock` of libctru is external.  The history
variable `reset` remembers that the lock was initialised while it was owned.

**Lifecycle.**  Every thread has a stack of frames, one per call that has not
returned: `find`, `create` (`ctrdlOpen`, `ctrdl_createHandle`), `parse`, `deps`,
`map`, `reloc`, `fix`, `init`, `drop` (`ctrdl_loadObject`, `ctrdl_mapObject`),
`unlock`, `unlocking` (`ctrdl_unlockHandle`), `fini`, `pages`, `release`,
`unloaded`, `unfreed` (`ctrdl_unloadObject`), `lookup`, `enum` (walks), and
`done` with the result for the caller.  A critical section that calls nothing is
one action, enabled while no other thread owns the mutex; the mutex is owned
over several actions where the code holds it while it calls out.  The program
opens, closes, inspects and enumerates, from threads, initialisers, finalisers
and callbacks (`Callers`), and closes only what it was given.  An object can be
found by address before it is mapped, since its base is then 0 (`HasAddress`).  Faults are chosen
by a constant, per kind and file.  `image`, `released` and `finis` are history.

**SymbolSearch.**  One behaviour is the relocation of an object (both loops of
`ctrdl_handleRelocs`, with a search by `ctrdl_resolveSymbol` for each symbol and
what is written where), or one search: `dlsym` of the program or of an object,
`ctrdlHandleByAddress`, or `dladdr`, in any of the worlds of `Searches`.  A world
says which objects are open, in which order, what they need, which symbols their
hash chains hold, and where their pages are; an object that is still being loaded
has pages but no symbols, or no pages.  The recursion over dependencies is an
explicit stack with the locks it holds, and the queue has its three fields and
the arithmetic of the code.  What an uninitialised entry of the queue holds is a
choice among all handles and a value that is none.

**ElfLoad.**  One load, from the created handle to the unloaded object.
`ctrdl_parseELF` and `ctrdl_mapObject` are long sequences of steps, each with an
error and a clean-up, and are written as such sequences; a step succeeds or
fails.  Three sets of owned tables (`elf`, `handle`, and the local
`loadSegments`) are held against what is allocated.  The error that a dependency
leaves which a resolver lets pass is any error; errors that finalisers of a
dependency set, by calls of their own while a failed load gives it back, are left
out.

**SegmentMap** adds to ElfLoad the arithmetic of `ctrdl_mapObject`: how many
pages an object takes, which offsets its segments are read to, and which pages
get which permissions.  The headers decide which steps succeed; `numPages` is the
field of the handle, `filled` and `perms` are history.  Addresses are numbers
below `Space` and wrap around as 32-bit words do; origin and base are left out,
since the code only adds offsets to them.

**ResolverTable** is `SymTable` and what `ResGenerator` writes of it: strings one
behind the other, buckets of offsets, the words of `starts` and `entries` with an
end mark per bucket, the declarations of weak names, the linker's verdict, and
the loop of the generated assembler code that searches one bucket.  The hash is
any function of the name.

**ResGen** is `main` in front of it: inputs (lists of names, binaries) and rule
files are read in any order, as the code keeps them in unordered sets, each to
its end or to one of its errors, then rules are applied to symbols, first match
first.

**The proof modules** hold theorems and lemmas only.  RefcountProofs extends
LifecycleProofs, and ReclaimProofs extends RefcountProofs.

Decisions that hold for all of them: undefined behaviour that no choice of value
covers (a pointer to nothing followed, freed memory used) stops the model with
`crashed`; arguments that are refused at once (`NULL`, unsupported flags) are
left out; the contents of files and the addresses inside an object are
abstracted.  In Lifecycle a search that locks and unlocks a handle with
references is no step of its own, one that meets a handle without references is
(`PassUnreferred`), one search stands for all the searches of a load, and a
failing `malloc` of a path is left out.

## 3. The runs

| Run | Bounds | Shows |
|---|---|---|
| `handle_list` | 6 handles, maximum 5 | fills the array through 1, 2, 4 and the clamped 5 and back, with any allocation failing: block, capacity and entries agree; it implements LoadOrder |
| `mutex` | 3 threads, nesting 2, 2 context switches, counter modulo 4 | exclusive unless `reset`; `reset` needs a thread that read the flag before it was set; steps are those of a recursive mutex; the store loop ends |
| `one_thread` | 4 files, three in a diamond (a needs b and c, b needs c) and bb, whose path contains that of b; 4 handles, 3 calls plus closes, initialisers and callbacks that call | dependencies are complete, first in and last out; files are loaded once, finalised once, and nothing leaks, whatever fails before a dependency is bound |
| `threads` | 2 threads, 3 files, 4 handles, 3 calls, files missing, malformed or needing too much | refcounts are exact, nothing dangles, nothing is unmapped while referred to, it implements RefCounted |
| `failed_unloads` | 2 threads, 2 files, 3 handles, 3 calls, pages that cannot be given back | refcounts and the mutex stay exact around handles with refcount 0 |
| `live` | 2 threads, 2 files, 3 handles, 2 calls, finalisers that call, a table that cannot grow | every call returns; what nobody refers to is reclaimed |
| `symbol_search` | 18536 searches of 3 objects, queue of 3, tables of up to 3 relocations, 11 addresses | the first scope wins; all relocations are done, or the table ends at the one without a symbol; an address is found in the object that has it; locks are given back; the object's own symbol is found whatever the queue held before; searches end |
| `elf_load` | at most 2 entries per relocation table; 0 to 2 segments of 56 shapes, pages of 2 among 32 addresses | any of the 53 returns with an error, any error of the clean-up; bytes and permissions of segments |
| `res_gen` | 81 command lines of up to 3 inputs and 2 rule files, 4 names in 2 buckets | symbols are mapped as the rules say, whatever the order of the files; the program links unless a strong name is missing; every name, mapped or not, is answered right; searches stay in their bucket and end |
| `forever_global` | 1 thread, 2 files | violated: "Once GLOBAL, forever GLOBAL." |
| `double_release` | 1 thread, 2 files | violated: `refc` is the refcount, after a load that fails behind its dependencies |
| `dep_order` | the same searches | violated: "Handle other handles (dep order)." |

Why the bounds are enough to be of interest: five entries reach every branch of
growing, clamping and halving; three threads let two wait while one initialises;
a diamond is the smallest graph in which a dependency is shared and indirect at
once; a table as large as the graph is full in the middle of a load; three calls
let one thread act between the two sections of another's open and a third call
meet the result; tables of relocations get a symbol before and after one that
has none; segments are aligned to less than a page, a page and more, and begin on
a page, off it, and where the end wraps around; two objects one behind the other and one apart have an address inside,
at the end of and outside of each; four names in two buckets make buckets of
several entries, and a binary without symbols makes none.  The 32 entries of the
table and the queue, a 2^32 counter and 16 dependencies behave as these do at
their limits, which are parameters.  The `MaxCalls`, `MaxNest`, `MaxSwitches`
and `MaxEntries` bounds are not in the code.

Symmetry of threads and handles is used where no temporal property is checked
that it could hide; the `threads` run checks action properties and a refinement
without fairness, which are symmetric formulas.

Properties by run are in `PROJECT.json`, stated above their definitions.  The
ones with most to say: `RefcountExact` counts the references there are in
program variables, stack frames and dependency arrays and compares `refc`;
`NothingDangles` that none of them leads to freed memory; `DepsOutlive`, made of
`DepsStay` (what an initialised object has bound keeps a reference, its mapping
and its finalisers) and `DepsReady` (it is initialised, or still being loaded,
when an initialiser opened the object meanwhile), and
`NothingLeaks` that the recursion over shared dependencies is right in any order
of closes; `ImplementsRefCounted` that a count that reached zero is not revived
(where unloading does not fail); `ExclusiveUnlessReset` and `WindowCloses`
describe precisely how the lazy initialisation can go wrong; `FirstScopeWins`
compares the search with the declared precedence, `RelocatedOrFailed` the two
loops with what each relocation should have written, `AddressFound` the search by
address with the pages of all objects; `TablesOwned` with `CauseReported` sum up
the clean-up of a load; `MappedAsDeclared` says for which headers the three
roundings of `ctrdl_mapObject` (addresses down to a page, ends up to an
alignment, sizes up to an alignment) agree; `MappedAsRuled` compares the maps ResGen walks with the
effect of the rules in their order, and `ResolverFaithful` the words it wrote, as
the generated code reads them, with the map.

### Fairness

`HandleMutex` assumes weak fairness of each thread inside the initialisation,
which is straight-line code of a scheduled thread, and a bounded number of
context switches in it.  `Lifecycle!FairSpec` assumes weak fairness of each
thread inside the loader.  The mutex is not fair, but a program of finitely many
calls cannot keep it busy for ever, which is why `MaxCalls` matters for liveness
and weak fairness is enough.  Nothing is assumed about calls: the program need
not make them.  `SymbolSearch!FairSpec` lets the one search go on; ends of
searches are shown for acyclic dependencies only, which is where the code ends.
`ResGen!FairSpec` lets a search of the generated code go on, which is a loop of
the program's own thread.

## 4. Where the code does not do what it says

The three runs above that are expected to be violated, in `PROJECT.json` under
`findings`, with the line of the comment and of the code.  In short: opening
again replaces the flags; a failed load unloads its object twice and gives its
dependencies back twice; and `dlsym` of an
object searches a queue whose push overwrites and whose pop reads what was never
written, and adds the wrong base to what it finds in a dependency.

Met while reading, without a run.  In the searches: `ctrdl_symValueLookupSingle`
(`Symbol.c:133`) compares `>=` where "symbol which overlaps the address"
(`dlfcn.h:22`) needs `<=`, so that `dladdr` names the first entry that begins at
the address or behind it; the end of an object's address range is inclusive
(`Handle.c:249`); entries of imports match like definitions (`Relocs.c:79`); the
addend of a REL relocation against a symbol is taken to be 0 (`Relocs.c:134`);
`dladdr` leaves `dli_fbase` unset where no object has the address (`API.c:110`)
and then answers with what its caller left there (`Leftover` in SymbolSearch),
and its names point into an object that may be closed; an object that binds the
program as a dependency makes searches read through `CTRDL_MAIN_HANDLE`.  In
loads: two threads that open one file at the same time load it twice, "Avoid
reading if already open." (`API.c:122`) notwithstanding, as the search and the
insertion are two critical sections; dependencies are always opened global,
since `flags & RTLD_LOCAL` is 0 (`Loader.c:98`); a memory stream has size 0
(`Stream.c:65`), so `ctrdlMap` never succeeds; a full table leaks the copied
path (`Handle.c:137-141`); an object with only PLT relocations is read from an
address that was never set (`ELFUtil.c:280`); a handle that could not be listed
is freed and used (`Handle.c:153-157`); `dlsym` reads the base of a handle after
the look-up unlocked it (`API.c:63`), which frees it if an unload of it had failed
before; a segment is read to origin + `p_vaddr`
(`Loader.c:205`), while the allocation covers highest minus lowest address, so
that an object not linked at 0 is read behind its pages; permissions are changed
for a size rounded up to `p_align` (`Loader.c:242`), which reaches further than
the segment's pages, and behind those of the object, if the segment does not begin
at a multiple of it; a segment that is written and executed gets no permissions
(`Loader.c:44`);
objects that need each other are never unloaded, and searches over them do not
end.  In ResGen: `readMulti` returns true whatever was read
(`Binary.cpp:21-25`), and if it did not, a string table that could not be read
would be reported but used (`Binary.cpp:187-192`); the comments its README shows
in a rule file are not accepted by the parser; of two rules with one pattern the
first file's is kept, in an order of files that is not defined; without symbols
the generated code divides by zero.

## 5. What is proved

The theorems hold for every value of the constants that satisfies the named
assumptions; the proofs are checked by `tlapm` with Z3, Zenon and LS4.

**The table** (`HandleListProofs`, from `MaxHandlesAssumption`).  `ListTypes`,
`ListSafety`, `ListUnique`: however handles are inserted and removed and
whichever allocation fails, the array never outgrows its block, never counts an
entry that was not written, and lists no handle twice.  The three are inductive
only together: that a removal
shifts written entries needs the size to be inside the block, that growing makes
room needs the capacity to agree with the block, and that exactly one entry goes
needs each handle to be listed once.  The arithmetic of growing, clamping and
halving is in `GrowthMakesRoom` and `HalfInside`.  `ListRefinement`: under the
mapping of the array to the set of its handles and the order of its entries,
every step is a step of LoadOrder; inserting puts a handle after all others, and
removing leaves the order of all others alone.

**The mutex** (`HandleMutexProofs`, from `MutexAssumption`: the counter can hold
the nesting).  `MutexTypes`, `MutexSafety`: two threads are inside only after a
`reset`.  Its invariant adds that a thread on its way through acquire or release
has room or a reason for it (`OpsMatchNest`), without which the counter might
wrap, and that the lock is free exactly when nobody is inside
(`LockKnowsOwner`), without which initialising a free lock might forget someone.
`MutexWindow`: after the flag is set, only threads that had read it before may
still initialise.  `MutexSteps` and `MutexRefinement`: until and unless there is
a reset, every step is a step of Mutex, the interface Lifecycle is built on.

**Searches** (`SymbolSearchProofs`, from `SearchAssumption`: the program, `NULL`
and a stale value are no handles, there are finitely many handles, and the table
has an entry).  `SearchTypes`,
`SearchLocks`: wherever a search stops, it holds one reference per call that is
inside an object and none else.  The invariant adds that a call stack exists only
in the recursion (`StackUsed`), that the program is never entered
(`EntersObjects`), so that what is unlocked was locked, and that what the queue
expands is an object (`PushesDeps`).  Counting the calls inside an object is a
cardinality, of which entering adds and returning removes the running call.
`OwnSymbolFound`: `dlsym` of an object that has the symbol finds it there; until
the first pop the handle is alone in the queue and at its front (`OwnQueued`),
so neither the stale entries nor the place where a push writes can matter.

`AddressesFound`, where the pages of no two objects overlap (`Apart`): an address
inside an object is found to be in that one or in one that ends there, an address
inside of none in no object or in one that ends there, and `dladdr` misses no symbol
that begins at it.

`ScopesInOrder` and `RelocationsFollow` compare the searches with the declared
order of scopes, for any finite set of objects, cyclic ones too.  The properties
give the order as recursive functions over levels of dependencies (`Levels`), as
many as there are objects.  Their invariant `SInv` says that scopes asked before
have no such symbol (`Missed`), that the calls of the recursion are a path from
the object, and that whatever was searched before on that path has nothing
(`Recursion`), what is handed to the relocation or the caller (`Answered`), and
what words have been written (`WordsOK`).  That the recursion of the code, which
has no bound, agrees with a function that has one is `PathApart`: a path that leads
to something without meeting it before meets no object twice, so by the pigeonhole
principle it has no more steps than there are objects.  If objects need each other
and none has the symbol, the search does not end (`world` has no such case in the
runs), and the theorems say only that it then returns nothing wrong.  Induction
is done without the theorems that take an operator: there is no least number
outside a set that holds 0 and with each number the next (`AllNumbers`, from
`WellFoundedInduction`), and that a recursive function exists, hence that it
satisfies its own definition, is shown by the same argument (`Iterates`).

**Calls** (`LifecycleProofs`, from `LoaderAssumption`).  `LifecycleTypes` and
`LifecycleMutex`, for any threads, dependencies, faults and callers.  Their
invariant `IInv` says that every frame on a stack has what its call works on
(`Shaped`), and that the frames of a thread that own the mutex are as many as
`depth` says if it is the owner and none if not.  Each action pushes, changes or
pops one frame, so one lemma about stacks (`StackStep`, `Balances`) serves all.
From the same invariant follow the two sides of the composition:
`LifecycleKeepsOrder`, that all threads together do to the table what LoadOrder
allows, and `LifecycleUsesMutex`, that they do to the mutex what Mutex allows.

**References** (`RefcountProofs`).  `RefcountsExact`: the refcount of a handle
is the number of references to it, for any threads and any dependencies, cyclic
ones too, with loads and unloads that fail anywhere; `FreedUnreferred`: what is
freed has none.  Two conditions.  Finalisers do not call the loader (`"fini"
\notin Callers`): they run while an object without references is listed, and a
reference taken to it then is not counted when it is freed.  And no dependency
is given back twice (`GivesBackOnce`): this the code does not guarantee, as the
run `double_release` shows, and the theorem says that this is the only way in
which counts go wrong.  `GivesBackOnce` restricts steps of unloading
(`ReleaseDep`), not counts.  The invariant `RInv` counts, per handle, what the
program holds, the frames that work on a reference, and the entries of
dependency arrays not yet given back; it needs that at most one call unloads a
handle, and the shape of stacks (`Good`): which call runs above which, that the
handle under `unlocking` is allocated and has no reference, and that an unload
which returns to it has given all dependencies back.  Only then may the handle
be freed without losing entries of the count.

**Freed memory** (`ReclaimProofs`).  `NeverDangles`: under the same two conditions
nothing that was freed is used, filled in or kept, and `CountsReferences`: every
step is one of RefCounted.  Both need two more things, named `Reliable`, because
the code does without neither: the table can grow (else `ctrdl_createHandle`
fills in the handle it has just freed, as it may in the run `live`), and code
pages can be given back (else the handle stays listed without a reference, and
the next search locks and unloads it again, as in the run `failed_unloads`).  The
invariant `CInv` adds to `RInv` that a listed handle without references is always
below a call that unloads it (`Attended`), so no search can meet it at rest.
`FinalisersRunOnce` adds `FInv`: one call loads a handle (`LoadsAlone`), its
finalisers are not recorded before that call ends, and none has run when an unload
begins or while there is a reference; of a failed load, which is unloaded twice,
none is recorded.  `MappedIfReferred` adds that a load that may be undone has not
mapped its object (`LoadsUnmapped`), which holds if none fails behind its
dependencies (`Mappable`): then only the last unlock unmaps an object.  Without
`Mappable` another thread, an initialiser or a cycle of dependencies can get an
object whose load fails after that, and keep it unmapped (with two threads and
such a fault TLC finds it in a few steps; it is a hazard of `PROJECT.json`).
`MappedIfUnready` rules these three out instead.

**Dependencies** (`ReclaimProofs`).  `FilesLoadOnce`, with one thread and under no
other condition: a file that is open is found.  Between a search that finds
nothing and the insertion only `create` runs, with nothing above it
(`CreatesLast`), and a search among finitely many handles in a total order
finds the first that matches (`Ranked`).  Two threads, or a path that contains
another, are why no more is true: `Found` may return another object, but never
misses one with the path.  `DependenciesComplete`, under the conditions of
`NeverDangles`: who runs initialisers has bound all the file needs, in order.  Its
invariant `DInv` says what a load has bound so far (`BoundOK`), what a call below
waits for and that what runs above it opens, loads or returns just that
(`CallOK`), and that an entry not given back names an object whose path contains
one that is needed (`HandleOK`).  The name of a handle must not change while it is
an entry: that is `EntryAlive`, from the exactness of counts.  `DependenciesStay`
adds that an object in use that was initialised is mapped and has given nothing
back (`UsedOK`).  `ClosedIsUnloaded` needs that no file needs itself (`Ordered`): of the
objects left when all is closed, the one of least rank has a count, hence an entry
of another object, which has a smaller rank.
`DependenciesOutlive` adds that dependencies are initialised first, with one thread
and initialisers that do not call the loader, also for `Ordered` files.  Its
invariant `AInv` says that the loads under way wait for each other in the order of
ranks (`Neat`), and that what a call hands out, the program holds or an object
in use has bound is initialised; an object that is not is held only by the call
that loads it or gives it back (`UnreadyHeld`).  What is searched for above such
a call has a higher rank, so it is never that object (`FoundReady`).  The same
invariant gives `MappedIfUnready`: a load that is undone is the one reference to
its object (`UnreadyCount`, `DroppingAlone`), so what it unmaps nobody has.

**The resolver** (`ResGenProofs`, from `TableAssumption` and `ResGenAssumption`).
`ResolverIsFaithful` and `SearchStaysInBucket`: for any map, hash, number of
buckets, and order of walking maps, the generated code answers every name as the
map says, and reads no entry of another bucket.  The invariant follows the table
through its stages: offsets of strings differ (`StringsInv`), every symbol is in
its bucket and nothing else is (`BucketsInv`), each start leaves room for the
bucket before it and its end mark (`StartsInv`), entries stand where starts say
(`EntriesInv`), and a search has passed no entry of its name (`SearchInv`).
`ImplementsTable` and `ProgramResolves` carry this over to ResGen as a whole.
`MapsAsRuled`: the map is that of the rules, for any files in any order.  Its
invariant says of the rules read so far that each is of a file that was read, in
front of those that come later in it, and that none is missing whose pattern no
other file has; the first rule that matches is then one that may decide.
`LinksByRules`: while entries are written, the weak name of each entry behind the
writer has been declared weak (`WeakInv`), so a program that does not link lacks a
strong name.

**One load** (`ElfLoadProofs`, from `LoadAssumption` and, for segments,
`SegmentAssumption`: alignments divide a page or are multiples of it).  `LoadTypes`,
`LoadOwnsTables`, `LoadReadsRelocations` and `LoadReportsCause`, for any numbers
of relocations.  The invariant ties what is allocated and read to how far the
load has come: while parsing, the live tables and the entries read are those of
the steps before `step` (`ParseInv`), while mapping, what a whole parse leaves
(`MapInv`), afterwards what the handle keeps or nothing (`EndInv`).  That a
failed load reports its cause needs `ErrorInv`: code pages are there only when
the step that failed has one of the three errors after which giving them back
may fail in turn.  `SegmentsLoad`: SegmentMap implements ElfLoad, so that the
same holds with all arithmetic (`SegmentsOwnTables`), for any headers and also
where the arithmetic goes wrong.  `SegmentsMapped`: for any segments and any page
size, an object that is linked at 0 is read into its pages; each page of a
segment that shares none gets what the segment asks for; and no other page is
touched if segments begin at multiples of their alignment.  Its invariant
(`SegInv`) lists what is computed before each step.  The arithmetic is that the
highest address is a multiple of a page (`HighestRounded`), so that page counts
lose nothing (`PagesCover`), and that rounding a size up from a multiple of the
alignment ends at or before the rounded end (`ProtectsInside`).

Every invariant and action property of a passing run is stated by a theorem.
Model-checked only: all liveness (fairness and ENABLED are out of reach of the
provers) and, of Lifecycle, the part `DepsReady` of `DepsOutlive` where
initialisers open objects.
`DepsReady` is not true in general: if an initialiser opens an object that needs
one whose load is under way, and that load fails later, the object is left with
a dependency that never becomes ready, kept by its count.  The run `one_thread`
leaves out the faults that do this, and other threads can do the same.

## 6. Not modelled

Contents of files, cache maintenance;
positions in streams; errors that calls other than a load leave; checks of
arguments; how ResGen parses text, and the syntax of what it writes; build files
and the test programs.  Reasons are in `PROJECT.json` under `components`.

Two limits of the models are choices.  Dependencies are acyclic in the runs,
because the code's own searches do not end otherwise; only three theorems assume
it, `ClosedIsUnloaded`, `DependenciesOutlive` and `MappedIfUnready`.  And a symbol table entry is
one kind of thing, definition or import, because the code does not tell them
apart.

## 7. Plan

Done: HandleList, HandleMutex, Lifecycle, SymbolSearch with relocations and
addresses, ElfLoad and SegmentMap, ResolverTable and ResGen; proofs about all of them.
Left: LastError, which error each call of the API leaves, per thread.
