------------------------------ MODULE Lifecycle ------------------------------
(***************************************************************************)
(* The life of a shared object in the loader: opening by path or by file,  *)
(* the recursive loading of its dependencies, locking and unlocking, and   *)
(* the unloading that the last unlock starts (Source/API.c, Handle.c and   *)
(* Loader.c), called by several threads of the program.                    *)
(*                                                                         *)
(* Each thread has a stack of frames, one per call of the loader that has  *)
(* not returned; pc names where the call is.  A section of code that runs  *)
(* with the handle mutex held and calls nothing that can block is one      *)
(* action, enabled only while no other thread owns the mutex; the mutex is *)
(* owned over several actions in ctrdl_unlockHandle, which keeps it while  *)
(* an object is unloaded.  What happens outside the mutex interleaves.     *)
(*                                                                         *)
(* The table of open objects is the state of LoadOrder, which HandleList   *)
(* implements, and the mutex the state of Mutex, which HandleMutex does.   *)
(* Undefined behaviour (memory used after it was freed) stops the model in *)
(* a state with crashed = TRUE.                                            *)
(***************************************************************************)
EXTENDS FiniteSets, Naturals, Sequences

CONSTANTS
  Thread, NoThread,
  Handle,      \* addresses of handle structures
  Null,        \* NULL
  Main,        \* CTRDL_MAIN_HANDLE
  Path,        \* the files, each named by its path
  NoPath,      \* handle->path == NULL
  Needs,       \* Needs[p]: paths of the DT_NEEDED entries of file p, in order
  Inside,      \* <<p, q>> \in Inside: strstr(q, p) finds the path p in q
  Faults,      \* <<kind, p>>: what may fail for the object read from file p
  Callers,     \* which foreign code calls the loader: "init", initialisers,
               \* "fini", finalisers, "enum", callbacks of ctrdlEnumerate
  Modes,       \* [global, noload, resolver] arguments the program opens with
  MaxHandles,  \* CTRDL_MAX_HANDLES
  MaxDeps,     \* CTRDL_MAX_DEPS
  MaxCalls     \* bound: calls of the program, those of dlclose not counted

ASSUME LoaderAssumption ==
  /\ NoThread \notin Thread
  /\ Null \notin Handle /\ Main \notin Handle /\ Null # Main
  /\ Path # {} /\ NoPath \notin Path
  /\ Needs \in [Path -> Seq(Path)]
  /\ Inside \subseteq Path \X Path
  /\ \A p \in Path : <<p, p>> \in Inside
  /\ Callers \subseteq {"init", "fini", "enum"}
  /\ Modes \subseteq [global : BOOLEAN, noload : BOOLEAN, resolver : BOOLEAN]
  /\ MaxHandles \in Nat \ {0} /\ MaxDeps \in Nat /\ MaxCalls \in Nat

VARIABLES
  alive,    \* handle structures that are allocated
  members,  \* handles in the table ...
  before,   \* ... and the order in which they were inserted
  obj,      \* obj[h]: the fields of the handle structure at h
  owner,    \* thread that owns the handle mutex ...
  depth,    \* ... and how often it has acquired it
  stack,    \* stack[t]: the frames of thread t, the running one last
  held,     \* held[h]: references to h that the program has to give back
  calls,    \* calls the program has made
  crashed   \* freed memory was used

vars == <<alive, members, before, obj, owner, depth, stack, held, calls, crashed>>

Table == INSTANCE LoadOrder
Mtx == INSTANCE Mutex

(* deps holds the entries of handle->deps up to the first empty one; pages *)
(* is "none", "origin" (allocated: origin # 0) or "mapped" (committed:     *)
(* base # 0 as well); fini says that finiArray is set.  Three fields are   *)
(* history and not in the code: image, the file the object was read from,  *)
(* released, how many of deps have been given back, and finis, how often   *)
(* the finalisers ran.                                                     *)
Object ==
  [path : Path \cup {NoPath}, image : Path, global : BOOLEAN, refc : Nat,
   deps : Seq(Handle \cup {Main}), pages : {"none", "origin", "mapped"},
   fini : BOOLEAN, released : Nat, finis : Nat]

FreshObject(req) ==
  [path |-> req.path, image |-> req.image, global |-> req.global, refc |-> 1,
   deps |-> <<>>, pages |-> "none", fini |-> FALSE, released |-> 0, finis |-> 0]

(* What is in the memory of a structure that is not allocated is never     *)
(* told apart.                                                             *)
Unallocated ==
  FreshObject([path |-> NoPath, image |-> CHOOSE p \in Path : TRUE,
               global |-> FALSE])

Request ==
  [path : Path \cup {NoPath}, image : Path, global : BOOLEAN,
   noload : BOOLEAN, resolver : BOOLEAN]

OpenPC == {"find", "create"}                   \* ctrdlOpen
LoadPC ==                                      \* ctrdl_loadObject
  {"parse", "deps", "map", "reloc", "fix", "init", "drop"}
UnlockPC == {"unlock", "unlocking"}            \* ctrdl_unlockHandle
UnloadPC == {"fini", "pages", "release", "unloaded", "unfreed"}
WalkPC == {"lookup", "enum"}                   \* walks over the table

(* A frame: h is the handle the call works on, or its result when it is    *)
(* done; i the next dependency, or the next position in the table; req     *)
(* what was asked for, <<>> if nothing.                                    *)
Frame ==
  [pc : OpenPC \cup LoadPC \cup UnlockPC \cup UnloadPC \cup WalkPC \cup {"done"},
   h : Handle \cup {Null, Main}, i : Nat, req : Request \cup {<<>>}]

OpenFrame(pc, req) == [pc |-> pc, h |-> Null, i |-> 0, req |-> req]
UnlockFrame(h) == [pc |-> "unlock", h |-> h, i |-> 0, req |-> <<>>]
UnloadFrame(h) == [pc |-> "fini", h |-> h, i |-> 1, req |-> <<>>]
WalkFrame(pc) == [pc |-> pc, h |-> Null, i |-> 0, req |-> <<>>]
DoneFrame(h) == [pc |-> "done", h |-> h, i |-> 0, req |-> <<>>]

Top(t) == stack[t][Len(stack[t])]
Under(t) == SubSeq(stack[t], 1, Len(stack[t]) - 1)
Caller(t) == stack[t][Len(stack[t]) - 1]
UnderCaller(t) == SubSeq(stack[t], 1, Len(stack[t]) - 2)

Running(t) == stack[t] # <<>>
At(t, pc) == Running(t) /\ Top(t).pc = pc
CalledFrom(t, pcs) == Len(stack[t]) > 1 /\ Caller(t).pc \in pcs

(* The running frame becomes f; it becomes f and calls g; the program      *)
(* calls g; the running frame returns and its caller becomes f.            *)
Become(t, f) == stack' = [stack EXCEPT ![t] = Append(Under(t), f)]
BecomeAndCall(t, f, g) ==
  stack' = [stack EXCEPT ![t] = Append(Append(Under(t), f), g)]
Enter(t, g) == stack' = [stack EXCEPT ![t] = Append(@, g)]
ReturnTo(t, f) == stack' = [stack EXCEPT ![t] = Append(UnderCaller(t), f)]

MayFail(kind, p) == <<kind, p>> \in Faults

(* The object whose load or unload the running frame is doing.             *)
This(t) == obj[Top(t).h]

Init ==
  /\ alive = {}
  /\ Table!Init
  /\ obj = [h \in Handle |-> Unallocated]
  /\ Mtx!Init
  /\ stack = [t \in Thread |-> <<>>]
  /\ held = [h \in Handle |-> 0]
  /\ calls = 0
  /\ crashed = FALSE

table == <<alive, members, before>>
mutex == <<owner, depth>>
program == <<held, calls>>

-----------------------------------------------------------------------------
(* The program.  Its threads call the loader from their own code and, if   *)
(* Callers says so, from initialisers and finalisers.                      *)
InProgram(t) ==
  Running(t) =>
    /\ Top(t).pc \in Callers
    /\ Top(t).pc = "fini" => This(t).fini

MayCall(t) == InProgram(t) /\ calls < MaxCalls

(* dlopen, ctrdlOpen: ctrdl_checkFlags passed and the path is not NULL.    *)
CallOpen(t) ==
  /\ MayCall(t)
  /\ calls' = calls + 1
  /\ \E p \in Path, m \in Modes :
       Enter(t, OpenFrame("find",
         [path |-> p, image |-> p, global |-> m.global,
          noload |-> m.noload, resolver |-> m.resolver]))
  /\ UNCHANGED <<table, obj, mutex, held, crashed>>

(* ctrdlFOpen, ctrdlMap: the object has no path.                           *)
CallOpenFile(t) ==
  /\ MayCall(t)
  /\ calls' = calls + 1
  /\ \E p \in Path, m \in Modes :
       /\ ~m.noload
       /\ Enter(t, OpenFrame("create",
            [path |-> NoPath, image |-> p, global |-> m.global,
             noload |-> FALSE, resolver |-> m.resolver]))
  /\ UNCHANGED <<table, obj, mutex, held, crashed>>

(* dlclose of a handle the program was given and has not closed yet.       *)
CallClose(t) ==
  /\ InProgram(t)
  /\ \E h \in Handle :
       /\ held[h] > 0
       /\ held' = [held EXCEPT ![h] = @ - 1]
       /\ Enter(t, UnlockFrame(h))
  /\ UNCHANGED <<table, obj, mutex, calls, crashed>>

(* ctrdl_lockHandle.                                                       *)
Locked(h) == obj' = [obj EXCEPT ![h].refc = @ + 1]

(* handle->numPages is 0: dependencies are loaded before pages are got.    *)
NoPages(h) ==
  \E t \in Thread : \E k \in DOMAIN stack[t] :
    stack[t][k].h = h /\ stack[t][k].pc \in {"parse", "deps"}

(* ctrdl_unsafeFindHandleByAddr finds h for some address: h is the first   *)
(* of the table with the address between base and base + size, the end     *)
(* included.  Where the pages are not committed base is 0, and address 0   *)
(* finds h unless a handle before it has base 0 as well; once numPages may *)
(* be more than 0, its size is left open.                                  *)
HasAddress(h) ==
  /\ h \in members
  /\ NoPages(h) =>
       \A g \in members : <<g, h>> \in before => obj[g].pages = "mapped"

(* ctrdlHandleByAddress, ctrdlThisHandle: a reference for the program.     *)
CallByAddress(t) ==
  /\ MayCall(t)
  /\ Mtx!Free(t)
  /\ calls' = calls + 1
  /\ \E h \in Handle :
       /\ HasAddress(h)
       /\ Locked(h)
       /\ held' = [held EXCEPT ![h] = @ + 1]
  /\ UNCHANGED <<table, mutex, stack, crashed>>

(* Mutant: the handle is unlocked without having been locked.              *)
CallInfoUnlocked(t) ==
  /\ MayCall(t)
  /\ Mtx!Free(t)
  /\ calls' = calls + 1
  /\ \E h \in Handle :
       /\ \/ held[h] > 0
          \/ HasAddress(h)
          \/ At(t, "enum") /\ h \in members
       /\ Enter(t, UnlockFrame(h))
  /\ UNCHANGED <<table, obj, mutex, held, crashed>>

(* ctrdlInfo or dlsym of a handle of the program or of one an enumeration  *)
(* shows, dladdr of an address inside an object: the handle is locked,     *)
(* read and unlocked again.                                                *)
CallInfo(t) ==
  /\ MayCall(t)
  /\ Mtx!Free(t)
  /\ calls' = calls + 1
  /\ \E h \in Handle :
       /\ \/ held[h] > 0
          \/ HasAddress(h)
          \/ At(t, "enum") /\ h \in members
       /\ Locked(h)
       /\ Enter(t, UnlockFrame(h))
  /\ UNCHANGED <<table, mutex, held, crashed>>

(* dlsym of CTRDL_MAIN_HANDLE, and ctrdlEnumerate: a walk over the table.  *)
CallWalk(t) ==
  /\ MayCall(t)
  /\ calls' = calls + 1
  /\ Mtx!Acquire(t)
  /\ \E pc \in WalkPC : Enter(t, WalkFrame(pc))
  /\ UNCHANGED <<table, obj, held, crashed>>

(* The call a thread made from the program's code returns: a handle that   *)
(* was opened is the program's to close.                                   *)
ReturnToProgram(t) ==
  /\ At(t, "done")
  /\ Len(stack[t]) = 1 \/ CalledFrom(t, {"init", "fini", "enum"})
  /\ held' = IF Top(t).h \in Handle THEN [held EXCEPT ![Top(t).h] = @ + 1] ELSE held
  /\ stack' = [stack EXCEPT ![t] = Under(t)]
  /\ UNCHANGED <<table, obj, mutex, calls, crashed>>

-----------------------------------------------------------------------------
(* ctrdlOpen and ctrdl_createHandle.                                       *)

(* ctrdl_unsafeFindHandleByName: the first handle of the table whose path  *)
(* contains the one asked for.                                             *)
Matches(h, p) == obj[h].path # NoPath /\ <<p, obj[h].path>> \in Inside
(* Mutant: objects that are still being loaded are not found.              *)
FoundInitialised(p) ==
  {h \in members : Matches(h, p) /\ obj[h].fini}

Found(p) ==
  {h \in members : Matches(h, p) /\ \A g \in members :
                                      Matches(g, p) => <<g, h>> \notin before}

(* Mutant: an object that is already open is not locked.                   *)
OpenHitUnlocked(t) ==
  /\ At(t, "find")
  /\ Mtx!Free(t)
  /\ \E h \in Found(Top(t).req.path) :
       /\ obj' = [obj EXCEPT ![h].global = Top(t).req.global]
       /\ Become(t, DoneFrame(h))
  /\ UNCHANGED <<table, mutex, program, crashed>>

(* Mutant: the table is searched without the mutex.                        *)
OpenHitWithoutMutex(t) ==
  /\ At(t, "find")
  /\ \E h \in Found(Top(t).req.path) :
       /\ obj' = [obj EXCEPT ![h].refc = @ + 1, ![h].global = Top(t).req.global]
       /\ Become(t, DoneFrame(h))
  /\ UNCHANGED <<table, mutex, program, crashed>>

(* RTLD_LOCAL is 0, so the flags of this call replace those of the handle. *)
OpenHit(t) ==
  /\ At(t, "find")
  /\ Mtx!Free(t)
  /\ \E h \in Found(Top(t).req.path) :
       /\ obj' = [obj EXCEPT ![h].refc = @ + 1, ![h].global = Top(t).req.global]
       /\ Become(t, DoneFrame(h))
  /\ UNCHANGED <<table, mutex, program, crashed>>

OpenMiss(t) ==
  /\ At(t, "find")
  /\ Mtx!Free(t)
  /\ Found(Top(t).req.path) = {}
  /\ Become(t, IF Top(t).req.noload
               THEN DoneFrame(Null)
               ELSE [Top(t) EXCEPT !.pc = "create"])
  /\ UNCHANGED <<table, obj, mutex, program, crashed>>

(* fopen and the allocations of ctrdl_createHandle come before the insert. *)
Create(t) ==
  /\ At(t, "create")
  /\ Mtx!Free(t)
  /\ \E h \in Handle \ alive :
       /\ Table!Insert(h)
       /\ alive' = alive \cup {h}
       /\ obj' = [obj EXCEPT ![h] = FreshObject(Top(t).req)]
       /\ Become(t, [Top(t) EXCEPT !.pc = "parse", !.h = h])
  /\ UNCHANGED <<mutex, program, crashed>>

(* The file is missing, memory is short, or the table is full.             *)
CreateFails(t) ==
  /\ At(t, "create")
  /\ \/ MayFail("open", Top(t).req.image)
     \/ Cardinality(members) >= MaxHandles /\ Mtx!Free(t)
  /\ Become(t, DoneFrame(Null))
  /\ UNCHANGED <<table, obj, mutex, program, crashed>>

(* ctrdl_handleListInsert fails: the handle is freed and then filled in.   *)
CreateFilledAfterFree(t) ==
  /\ At(t, "create")
  /\ Mtx!Free(t)
  /\ Cardinality(members) < MaxHandles
  /\ MayFail("insert", Top(t).req.image)
  /\ crashed' = TRUE
  /\ UNCHANGED <<table, obj, mutex, program, stack>>

-----------------------------------------------------------------------------
(* ctrdl_loadObject, ctrdl_mapObject and ctrdl_loadDeps.                   *)

Parse(t) ==
  /\ At(t, "parse")
  /\ Become(t, [Top(t) EXCEPT !.pc = "deps", !.i = 1])
  /\ UNCHANGED <<table, obj, mutex, program, crashed>>

ParseFails(t) ==
  /\ At(t, "parse")
  /\ MayFail("parse", Top(t).req.image)
  /\ Become(t, UnlockFrame(Top(t).h))
  /\ UNCHANGED <<table, obj, mutex, program, crashed>>

Needed(f) == Needs[f.req.image]

(* A failure of ctrdl_mapObject unloads the object at once, without the    *)
(* mutex, and ctrdl_loadObject then unlocks it.                            *)
LoadFailed(f) == [f EXCEPT !.pc = "drop"]

(* With a resolver, dependencies that cannot be loaded end the loop only.  *)
TooManyDeps(t) ==
  /\ At(t, "deps")
  /\ Len(Needed(Top(t))) > MaxDeps
  /\ IF Top(t).req.resolver
     THEN Become(t, [Top(t) EXCEPT !.pc = "map"])
     ELSE BecomeAndCall(t, LoadFailed(Top(t)), UnloadFrame(Top(t).h))
  /\ UNCHANGED <<table, obj, mutex, program, crashed>>

DepsRemain(t) ==
  /\ At(t, "deps")
  /\ Len(Needed(Top(t))) <= MaxDeps
  /\ Top(t).i <= Len(Needed(Top(t)))

(* Dependencies are always opened RTLD_GLOBAL: flags & RTLD_LOCAL is 0.    *)
OpenDep(t) ==
  /\ DepsRemain(t)
  /\ This(t).path # NoPath
  /\ LET p == Needed(Top(t))[Top(t).i]
     IN Enter(t, OpenFrame("find",
          [path |-> p, image |-> p, global |-> TRUE,
           noload |-> FALSE, resolver |-> Top(t).req.resolver]))
  /\ UNCHANGED <<table, obj, mutex, program, crashed>>

(* Without a path ctrdl_getDepPath gives NULL, which opens the program.    *)
BindMain(t) ==
  /\ DepsRemain(t)
  /\ This(t).path = NoPath
  /\ obj' = [obj EXCEPT ![Top(t).h].deps = Append(@, Main)]
  /\ Become(t, [Top(t) EXCEPT !.i = @ + 1])
  /\ UNCHANGED <<table, mutex, program, crashed>>

(* Mutant: the result of opening a dependency is not checked.              *)
BindDepUnchecked(t) ==
  /\ At(t, "done")
  /\ CalledFrom(t, {"deps"})
  /\ obj' = [obj EXCEPT ![Caller(t).h].deps = Append(@, Top(t).h)]
  /\ ReturnTo(t, [Caller(t) EXCEPT !.i = @ + 1])
  /\ UNCHANGED <<table, mutex, program, crashed>>

BindDep(t) ==
  /\ At(t, "done")
  /\ CalledFrom(t, {"deps"})
  /\ Top(t).h # Null
  /\ obj' = [obj EXCEPT ![Caller(t).h].deps = Append(@, Top(t).h)]
  /\ ReturnTo(t, [Caller(t) EXCEPT !.i = @ + 1])
  /\ UNCHANGED <<table, mutex, program, crashed>>

(* Mutant: a missing dependency is tolerated without a resolver, too.      *)
DepFailsIgnored(t) ==
  /\ At(t, "done")
  /\ CalledFrom(t, {"deps"})
  /\ Top(t).h = Null
  /\ stack' = [stack EXCEPT ![t] =
       Append(UnderCaller(t), [Caller(t) EXCEPT !.pc = "map"])]
  /\ UNCHANGED <<table, obj, mutex, program, crashed>>

DepFails(t) ==
  /\ At(t, "done")
  /\ CalledFrom(t, {"deps"})
  /\ Top(t).h = Null
  /\ stack' = [stack EXCEPT ![t] =
       IF Caller(t).req.resolver
       THEN Append(UnderCaller(t), [Caller(t) EXCEPT !.pc = "map"])
       ELSE Append(Append(UnderCaller(t), LoadFailed(Caller(t))),
                   UnloadFrame(Caller(t).h))]
  /\ UNCHANGED <<table, obj, mutex, program, crashed>>

DepsLoaded(t) ==
  /\ At(t, "deps")
  /\ Len(Needed(Top(t))) <= MaxDeps
  /\ Top(t).i > Len(Needed(Top(t)))
  /\ Become(t, [Top(t) EXCEPT !.pc = "map"])
  /\ UNCHANGED <<table, obj, mutex, program, crashed>>

(* Pages are allocated, filled from the file and committed.                *)
Map(t) ==
  /\ At(t, "map")
  /\ obj' = [obj EXCEPT ![Top(t).h].pages = "mapped"]
  /\ Become(t, [Top(t) EXCEPT !.pc = "reloc"])
  /\ UNCHANGED <<table, mutex, program, crashed>>

(* Before the allocation, before the commit, or after it.                  *)
MapFails(t) ==
  /\ At(t, "map")
  /\ MayFail("map", Top(t).req.image)
  /\ \E got \in {"none", "origin", "mapped"} :
       obj' = [obj EXCEPT ![Top(t).h].pages = got]
  /\ BecomeAndCall(t, LoadFailed(Top(t)), UnloadFrame(Top(t).h))
  /\ UNCHANGED <<table, mutex, program, crashed>>

(* A relocation looks its symbol up in the table (bound: one for every     *)
(* object).  The search through the object's own dependencies only locks   *)
(* and unlocks handles it refers to.                                       *)
Resolve(t) ==
  /\ At(t, "reloc")
  /\ Mtx!Acquire(t)
  /\ BecomeAndCall(t, [Top(t) EXCEPT !.pc = "fix"], WalkFrame("lookup"))
  /\ UNCHANGED <<table, obj, program, crashed>>

Relocated(t) ==
  /\ At(t, "fix")
  /\ Become(t, [Top(t) EXCEPT !.pc = "init"])
  /\ UNCHANGED <<table, obj, mutex, program, crashed>>

RelocFails(t) ==
  /\ At(t, "fix")
  /\ MayFail("map", Top(t).req.image)
  /\ BecomeAndCall(t, LoadFailed(Top(t)), UnloadFrame(Top(t).h))
  /\ UNCHANGED <<table, obj, mutex, program, crashed>>

(* The initialisers have run; the finalisers are recorded after them.      *)
Initialise(t) ==
  /\ At(t, "init")
  /\ obj' = [obj EXCEPT ![Top(t).h].fini = TRUE]
  /\ Become(t, DoneFrame(Top(t).h))
  /\ UNCHANGED <<table, mutex, program, crashed>>

(* Mutant: the handle of a failed load is not unlocked.                    *)
DropFailedLoadForgets(t) ==
  /\ At(t, "unloaded") \/ At(t, "unfreed")
  /\ CalledFrom(t, {"drop"})
  /\ ReturnTo(t, DoneFrame(Null))
  /\ UNCHANGED <<table, obj, mutex, program, crashed>>

DropFailedLoad(t) ==
  /\ At(t, "unloaded") \/ At(t, "unfreed")
  /\ CalledFrom(t, {"drop"})
  /\ ReturnTo(t, UnlockFrame(Caller(t).h))
  /\ UNCHANGED <<table, obj, mutex, program, crashed>>

-----------------------------------------------------------------------------
(* ctrdl_unlockHandle.  Only the last unlock keeps the mutex.              *)
Unlock(t) ==
  /\ At(t, "unlock")
  /\ Mtx!Free(t)
  /\ This(t).refc > 1
  /\ obj' = [obj EXCEPT ![Top(t).h].refc = @ - 1]
  /\ Become(t, DoneFrame(Null))
  /\ UNCHANGED <<table, mutex, program, crashed>>

(* Mutant: unloads while there is one more reference.                      *)
LastUnlockEarly(t) ==
  /\ At(t, "unlock")
  /\ This(t).refc <= 2
  /\ obj' = [obj EXCEPT ![Top(t).h].refc = 0]
  /\ Mtx!Acquire(t)
  /\ BecomeAndCall(t, [Top(t) EXCEPT !.pc = "unlocking"], UnloadFrame(Top(t).h))
  /\ UNCHANGED <<table, program, crashed>>

LastUnlock(t) ==
  /\ At(t, "unlock")
  /\ This(t).refc <= 1
  /\ obj' = [obj EXCEPT ![Top(t).h].refc = 0]
  /\ Mtx!Acquire(t)
  /\ BecomeAndCall(t, [Top(t) EXCEPT !.pc = "unlocking"], UnloadFrame(Top(t).h))
  /\ UNCHANGED <<table, program, crashed>>

(* Mutant: an unloaded handle stays in the table.                          *)
ReclaimForgets(t) ==
  /\ At(t, "unloaded")
  /\ CalledFrom(t, {"unlocking"})
  /\ Mtx!Release(t)
  /\ ReturnTo(t, DoneFrame(Null))
  /\ UNCHANGED <<table, obj, program, crashed>>

(* Unlisted and freed.                                                     *)
Reclaim(t) ==
  /\ At(t, "unloaded")
  /\ CalledFrom(t, {"unlocking"})
  /\ Table!Remove(Top(t).h)
  /\ alive' = alive \ {Top(t).h}
  /\ obj' = [obj EXCEPT ![Top(t).h] = Unallocated]
  /\ Mtx!Release(t)
  /\ ReturnTo(t, DoneFrame(Null))
  /\ UNCHANGED <<program, crashed>>

(* Mutant: the early return of the failure path keeps the mutex.           *)
KeepUnfreedKeepsMutex(t) ==
  /\ At(t, "unfreed")
  /\ CalledFrom(t, {"unlocking"})
  /\ ReturnTo(t, DoneFrame(Null))
  /\ UNCHANGED <<table, obj, mutex, program, crashed>>

(* Mutant: the handle is freed although its object was not unloaded.       *)
KeepUnfreedFrees(t) ==
  /\ At(t, "unfreed")
  /\ CalledFrom(t, {"unlocking"})
  /\ Mtx!Release(t)
  /\ alive' = alive \ {Top(t).h}
  /\ ReturnTo(t, DoneFrame(Null))
  /\ UNCHANGED <<members, before, obj, program, crashed>>

(* Unloading failed: the handle stays in the table, with a refcount of 0.  *)
KeepUnfreed(t) ==
  /\ At(t, "unfreed")
  /\ CalledFrom(t, {"unlocking"})
  /\ Mtx!Release(t)
  /\ ReturnTo(t, DoneFrame(Null))
  /\ UNCHANGED <<table, obj, program, crashed>>

-----------------------------------------------------------------------------
(* ctrdl_unloadObject.                                                     *)
Finalise(t) ==
  /\ At(t, "fini")
  /\ obj' = [obj EXCEPT ![Top(t).h].finis = IF This(t).fini THEN @ + 1 ELSE @]
  /\ Become(t, [Top(t) EXCEPT !.pc = "pages"])
  /\ UNCHANGED <<table, mutex, program, crashed>>

FreePages(t) ==
  /\ At(t, "pages")
  /\ obj' = [obj EXCEPT ![Top(t).h].pages = "none"]
  /\ Become(t, [Top(t) EXCEPT !.pc = "release"])
  /\ UNCHANGED <<table, mutex, program, crashed>>

(* ctrlReleaseCodePages fails, or it succeeds and ctrlFreeCodePages fails. *)
FreePagesFails(t) ==
  /\ At(t, "pages")
  /\ This(t).pages # "none"
  /\ MayFail("free", This(t).image)
  /\ \E left \in {"origin", This(t).pages} :
       obj' = [obj EXCEPT ![Top(t).h].pages = left]
  /\ Become(t, [Top(t) EXCEPT !.pc = "unfreed"])
  /\ UNCHANGED <<table, mutex, program, crashed>>

(* handle->deps keeps its entries; unlocking the program does nothing.     *)
ReleaseDep(t) ==
  /\ At(t, "release")
  /\ Top(t).i <= Len(This(t).deps)
  /\ LET d == This(t).deps[Top(t).i]
         f == [Top(t) EXCEPT !.i = @ + 1]
     IN IF d = Main THEN Become(t, f) ELSE BecomeAndCall(t, f, UnlockFrame(d))
  /\ obj' = [obj EXCEPT ![Top(t).h].released = IF @ < Top(t).i THEN Top(t).i ELSE @]
  /\ UNCHANGED <<table, mutex, program, crashed>>

(* The unlock of a dependency, or of a handle a search passed, returns.    *)
UnlockReturns(t) ==
  /\ At(t, "done")
  /\ CalledFrom(t, {"release", "lookup"})
  /\ stack' = [stack EXCEPT ![t] = Under(t)]
  /\ UNCHANGED <<table, obj, mutex, program, crashed>>

DepsReleased(t) ==
  /\ At(t, "release")
  /\ Top(t).i > Len(This(t).deps)
  /\ Become(t, [Top(t) EXCEPT !.pc = "unloaded"])
  /\ UNCHANGED <<table, obj, mutex, program, crashed>>

-----------------------------------------------------------------------------
(* The loops over the table in dlsym, ctrdl_resolveSymbol, ctrdlEnumerate. *)
Position(h) == Cardinality({g \in members : <<g, h>> \in before})

(* A search locks and unlocks the global handles it passes, which changes  *)
(* nothing unless the handle has no reference: then it is unloaded (again).*)
(* If the symbol is found there, the handle is used once more after that.  *)
PassUnreferred(t) ==
  /\ At(t, "lookup")
  /\ Top(t).h = Null
  /\ \E h \in members, found \in BOOLEAN :
       /\ obj[h].refc = 0
       /\ obj[h].global
       /\ Position(h) >= Top(t).i
       /\ Locked(h)
       /\ BecomeAndCall(t,
            [Top(t) EXCEPT !.i = Position(h) + 1, !.h = IF found THEN h ELSE Null],
            UnlockFrame(h))
  /\ UNCHANGED <<table, mutex, program, crashed>>

(* Mutant: a walk over the table keeps the mutex.                          *)
WalkEndsKeepsMutex(t) ==
  /\ At(t, "lookup") \/ At(t, "enum")
  /\ stack' = [stack EXCEPT ![t] = Under(t)]
  /\ UNCHANGED <<table, obj, mutex, program, crashed>>

WalkEnds(t) ==
  /\ At(t, "lookup") \/ At(t, "enum")
  /\ Mtx!Release(t)
  /\ stack' = [stack EXCEPT ![t] = Under(t)]
  /\ UNCHANGED <<table, obj, program, crashed>>

-----------------------------------------------------------------------------
(* The running call was given a handle that is no longer allocated.        *)
Dangling(t) ==
  Running(t) /\ Top(t).pc # "done" /\ Top(t).h \in Handle \ alive

UseAfterFree(t) ==
  /\ Dangling(t)
  /\ crashed' = TRUE
  /\ UNCHANGED <<table, obj, mutex, program, stack>>

(* What the loader does in the calls of thread t.                          *)
Load(t) ==
  \/ OpenHit(t) \/ OpenMiss(t)
  \/ Create(t) \/ CreateFails(t) \/ CreateFilledAfterFree(t)
  \/ Parse(t) \/ ParseFails(t)
  \/ TooManyDeps(t) \/ OpenDep(t) \/ BindMain(t) \/ BindDep(t) \/ DepFails(t)
  \/ DepsLoaded(t)
  \/ Map(t) \/ MapFails(t) \/ Resolve(t) \/ Relocated(t) \/ RelocFails(t)
  \/ Initialise(t) \/ DropFailedLoad(t)

Unload(t) ==
  \/ Unlock(t) \/ LastUnlock(t) \/ Reclaim(t) \/ KeepUnfreed(t)
  \/ Finalise(t) \/ FreePages(t) \/ FreePagesFails(t)
  \/ ReleaseDep(t) \/ UnlockReturns(t) \/ DepsReleased(t)
  \/ PassUnreferred(t) \/ WalkEnds(t)

Step(t) ==
  /\ ~crashed
  /\ \/ UseAfterFree(t)
     \/ ~Dangling(t) /\ (Load(t) \/ Unload(t) \/ ReturnToProgram(t))

Call(t) ==
  /\ ~crashed
  /\ \/ CallOpen(t) \/ CallOpenFile(t) \/ CallClose(t)
     \/ CallByAddress(t) \/ CallInfo(t) \/ CallWalk(t)

(* The program has made its calls and closed what it opened; or it crashed.*)
Finished ==
  /\ \/ crashed
     \/ /\ calls = MaxCalls
        /\ \A t \in Thread : ~Running(t)
        /\ \A h \in Handle : held[h] = 0
  /\ UNCHANGED vars

Next == Finished \/ \E t \in Thread : Call(t) \/ Step(t)

Spec == Init /\ [][Next]_vars

(* The scheduler runs every thread, and calls made by the program end.     *)
FairSpec == Spec /\ \A t \in Thread : WF_vars(Step(t))

-----------------------------------------------------------------------------
(* The variables hold values of the types of the code's state.             *)
TypeOK ==
  /\ alive \subseteq Handle
  /\ members \subseteq Handle
  /\ before \subseteq Handle \X Handle
  /\ obj \in [Handle -> Object]
  /\ owner \in Thread \cup {NoThread}
  /\ depth \in Nat
  /\ stack \in [Thread -> Seq(Frame)]
  /\ held \in [Handle -> Nat]
  /\ calls \in 0 .. MaxCalls
  /\ crashed \in BOOLEAN

(* Who may still use h: the program, the calls that work on a reference    *)
(* (the loader on the one the handle was created with, ctrdl_unlockHandle  *)
(* on the one it gives back, a returning open on the one it hands over),   *)
(* and the deps entries that were not given back.                          *)
FrameRefers(f, h) ==
  f.h = h /\ f.pc \in LoadPC \cup {"unlock", "done"}

References(h) ==
  held[h]
  + Cardinality({e \in UNION {{t} \X DOMAIN stack[t] : t \in Thread} :
                   FrameRefers(stack[e[1]][e[2]], h)})
  + Cardinality({e \in UNION {{g} \X DOMAIN obj[g].deps : g \in alive} :
                   /\ e[2] > obj[e[1]].released
                   /\ obj[e[1]].deps[e[2]] = h})

(* The reference count the code keeps in refc is the number of references  *)
(* there are, through recursive loading, failures, and other threads.      *)
RefcountExact ==
  \A h \in alive : obj[h].refc = References(h)

(* No call is made on, and no object or program variable keeps, a handle   *)
(* whose structure was freed; freed memory is never used.                  *)
NothingDangles ==
  /\ ~crashed
  /\ \A h \in Handle \ alive : References(h) = 0

(* The calls that own the handle mutex over several actions.               *)
Owning == {"unlocking"} \cup WalkPC
OwningFrames(t) == {k \in DOMAIN stack[t] : stack[t][k].pc \in Owning}

(* The handle mutex is owned exactly by a thread inside the last unlock of *)
(* a handle or a walk over the table, and acquired as often as these are   *)
(* nested: every early return of ctrdl_unlockHandle, ctrdl_unloadObject    *)
(* and the searches gives it back.                                         *)
MutexBalanced ==
  /\ \A t \in Thread :
       Cardinality(OwningFrames(t)) = IF owner = t THEN depth ELSE 0
  /\ owner = NoThread <=> depth = 0

Initialised(h) == h \in alive /\ obj[h].fini /\ obj[h].finis = 0
Loading(h) ==
  \E t \in Thread : \E k \in DOMAIN stack[t] :
    stack[t][k].h = h /\ stack[t][k].pc \in LoadPC \ {"drop"}

(* What an initialised object that is not being unloaded has bound stays:  *)
(* it has a reference to each of its dependencies, and what is initialised *)
(* of them is mapped and not finalised.                                    *)
DepsStay ==
  \A h \in Handle : Initialised(h) /\ obj[h].refc > 0 =>
    \A k \in DOMAIN obj[h].deps :
      LET d == obj[h].deps[k]
      IN d # Main => /\ obj[d].refc > 0
                     /\ obj[d].fini => Initialised(d) /\ obj[d].pages = "mapped"

(* And it is initialised.  Only if an initialiser opened the object may a  *)
(* dependency be one that was being loaded when the initialiser ran; such  *)
(* a load is still under way.                                              *)
DepsReady ==
  \A h \in Handle : Initialised(h) /\ obj[h].refc > 0 =>
    \A k \in DOMAIN obj[h].deps :
      LET d == obj[h].deps[k]
      IN d # Main => obj[d].fini \/ Loading(d)

(* Dependencies are there first and go last.                               *)
DepsOutlive == DepsStay /\ DepsReady

(* An object that was opened without a resolver and got as far as its      *)
(* initialisers has bound every dependency its file names, in that order.  *)
DepsComplete ==
  \A t \in Thread : \A k \in DOMAIN stack[t] :
    LET f == stack[t][k]
    IN f.pc = "init" /\ ~f.req.resolver =>
         /\ Len(obj[f.h].deps) = Len(Needed(f))
         /\ obj[f.h].path # NoPath => \A i \in DOMAIN Needed(f) :
              /\ obj[f.h].deps[i] # Main
              /\ <<Needed(f)[i], obj[obj[f.h].deps[i]].path>> \in Inside

(* Finalisers run at most once for one load of an object.                  *)
FinalisedOnce == \A h \in alive : obj[h].finis <= 1

(* The threads that undo a failed load of h.                               *)
LoadersDropping(h) ==
  {t \in Thread : \E k \in DOMAIN stack[t] :
                   stack[t][k].h = h /\ stack[t][k].pc = "drop"}

(* Only an object to which nobody refers loses its mapping, or one whose   *)
(* load failed and which only its loader knows.                            *)
MappedWhileReferred ==
  [][\A h \in alive : obj[h].pages = "mapped" /\ obj'[h].pages # "mapped" =>
        References(h) = Cardinality(LoadersDropping(h))]_vars

(* When no call is under way and the program has closed everything it      *)
(* opened, nothing is left loaded: no reference was forgotten.             *)
NothingLeaks ==
  (\A t \in Thread : ~Running(t)) /\ (\A h \in Handle : held[h] = 0) =>
    members = {}

(* The abstract counter: a structure that is not allocated has no count.   *)
Counted == INSTANCE RefCounted WITH
  loaded <- alive,
  refs <- [h \in Handle |-> IF h \in alive THEN obj[h].refc ELSE 0]

(* The reference counts of the code do what reference counting promises:   *)
(* in particular, an unlock that found the last reference is not overtaken *)
(* by a lock, and an object is unloaded before its memory is reused.       *)
ImplementsRefCounted == Counted!Spec

(* A file is loaded at most once ("Avoid reading if already open.").       *)
LoadedOnce ==
  \A g, h \in members : obj[g].path = obj[h].path /\ obj[g].path # NoPath => g = h

(* "Once GLOBAL, forever GLOBAL": as long as it is open, an object does    *)
(* not lose the flag.                                                      *)
ForeverGlobal ==
  [][\A h \in members \cap members' : obj[h].global => obj'[h].global]_vars

(* Every call of the loader returns, unless freed memory was used first.   *)
CallsReturn == \A t \in Thread : Running(t) ~> ~Running(t) \/ crashed

Unreferred(h) == h \in alive /\ References(h) = 0

(* A handle to which the last reference is given back gets unloaded, or    *)
(* is given a new reference first.                                         *)
EventuallyReclaimed ==
  \A h \in Handle : Unreferred(h) ~> ~Unreferred(h) \/ crashed
=============================================================================
