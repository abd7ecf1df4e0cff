----------------------------- MODULE HandleList -----------------------------
(***************************************************************************)
(* The growable array of handle pointers behind the loader's table of open *)
(* objects: HandleList in Source/Handle.c with ctrdl_handleListInsert and  *)
(* ctrdl_handleListRemove.  Both run with the handle mutex held, so each   *)
(* call is one action.  malloc and realloc may fail at any call.           *)
(*                                                                         *)
(* A C array of n entries is a function on 0..n-1; handles == NULL is the  *)
(* function with the empty domain.                                         *)
(***************************************************************************)
EXTENDS Naturals

CONSTANTS
  Handle,      \* addresses of handle structures
  MaxHandles,  \* CTRDL_MAX_HANDLES
  Junk         \* content of an array entry that was never written

ASSUME MaxHandlesAssumption == MaxHandles \in Nat \ {0}
ASSUME JunkAssumption == Junk \notin Handle

VARIABLES
  handles,   \* HandleList.handles: the allocated block
  size,      \* HandleList.size
  capacity,  \* HandleList.capacity
  ok         \* what the last call of ctrdl_handleListInsert returned

vars == <<handles, size, capacity, ok>>

NullBlock == [i \in {} |-> Junk]
HasBlock == DOMAIN handles # {}

IsFull == size >= MaxHandles

(* The entries in use.                                                     *)
Used == 0 .. size - 1
Listed == {handles[i] : i \in Used}

(* realloc: the new block keeps the entries that fit.                      *)
Resized(n) ==
  [i \in 0 .. n - 1 |-> IF i \in DOMAIN handles THEN handles[i] ELSE Junk]

(* A store into an array.  A store outside the block would widen the       *)
(* domain, which BlockCoversList forbids.                                  *)
Stored(block, i, h) ==
  [j \in DOMAIN block \cup {i} |-> IF j = i THEN h ELSE block[j]]

(* Mutant: the capacity is not clamped.                                    *)
GrownCapacityUnclamped ==
  capacity * 2

(* Doubled, but never above the maximum.                                   *)
GrownCapacity ==
  IF capacity * 2 > MaxHandles THEN MaxHandles ELSE capacity * 2

Init ==
  /\ handles = NullBlock
  /\ size = 0
  /\ capacity = 0
  /\ ok = TRUE

-----------------------------------------------------------------------------
(* ctrdl_handleListInsert, called by ctrdl_createHandle with a structure   *)
(* malloc just returned and only if the list is not full.                  *)
MayInsert(h) ==
  /\ ~IsFull
  /\ h \notin Listed

InsertFirst(h) ==
  /\ MayInsert(h)
  /\ ~HasBlock
  /\ handles' = Stored(Resized(1), 0, h)
  /\ size' = 1
  /\ capacity' = 1
  /\ ok' = TRUE

InsertInRoom(h) ==
  /\ MayInsert(h)
  /\ HasBlock
  /\ size < capacity
  /\ handles' = Stored(handles, size, h)
  /\ size' = size + 1
  /\ ok' = TRUE
  /\ UNCHANGED capacity

InsertGrow(h) ==
  /\ MayInsert(h)
  /\ HasBlock
  /\ size >= capacity
  /\ handles' = Stored(Resized(GrownCapacity), size, h)
  /\ size' = size + 1
  /\ capacity' = GrownCapacity
  /\ ok' = TRUE

(* malloc of the first block, or realloc of a full one, returns NULL.      *)
InsertFails(h) ==
  /\ MayInsert(h)
  /\ ~HasBlock \/ size >= capacity
  /\ ok' = FALSE
  /\ UNCHANGED <<handles, size, capacity>>

-----------------------------------------------------------------------------
(* ctrdl_handleListRemove.                                                 *)
IndexOf(h) ==
  CHOOSE i \in Used : handles[i] = h /\ \A j \in Used : handles[j] = h => i <= j

(* Mutant: the loop stops one entry early.                                 *)
ShiftedDownShort(k) ==
  [i \in DOMAIN handles |->
     IF i >= k /\ i < size - 2 THEN handles[i + 1] ELSE handles[i]]

(* Mutant: the last entry fills the gap.                                   *)
LastMovedDown(k) ==
  [i \in DOMAIN handles |->
     IF i = k THEN handles[size - 1] ELSE handles[i]]

(* Every entry above the removed one moves down by one.                    *)
ShiftedDown(k) ==
  [i \in DOMAIN handles |->
     IF i >= k /\ i < size - 1 THEN handles[i + 1] ELSE handles[i]]

(* Half of the block or less is still in use: try to give half back.       *)
Shrinks == size - 1 <= capacity \div 2

RemoveKeepBlock(h) ==
  /\ h \in Listed
  /\ ~Shrinks
  /\ handles' = ShiftedDown(IndexOf(h))
  /\ size' = size - 1
  /\ UNCHANGED <<capacity, ok>>

RemoveLast(h) ==
  /\ h \in Listed
  /\ Shrinks
  /\ size = 1
  /\ handles' = NullBlock
  /\ size' = 0
  /\ capacity' = 0
  /\ UNCHANGED ok

RemoveShrink(h) ==
  /\ h \in Listed
  /\ Shrinks
  /\ size > 1
  /\ LET half == capacity \div 2
         moved == ShiftedDown(IndexOf(h))
     IN /\ handles' = [i \in 0 .. half - 1 |-> moved[i]]
        /\ capacity' = half
  /\ size' = size - 1
  /\ UNCHANGED ok

(* Mutant: the capacity is halved although realloc failed.                 *)
RemoveShrinkUnchecked(h) ==
  /\ h \in Listed
  /\ Shrinks
  /\ size > 1
  /\ handles' = ShiftedDown(IndexOf(h))
  /\ size' = size - 1
  /\ capacity' = capacity \div 2
  /\ UNCHANGED ok

(* realloc to the smaller size failed: the old block and capacity stay.    *)
RemoveShrinkFails(h) ==
  /\ h \in Listed
  /\ Shrinks
  /\ size > 1
  /\ handles' = ShiftedDown(IndexOf(h))
  /\ size' = size - 1
  /\ UNCHANGED <<capacity, ok>>

Remove(h) ==
  \/ RemoveKeepBlock(h)
  \/ RemoveLast(h)
  \/ RemoveShrink(h)
  \/ RemoveShrinkFails(h)

Insert(h) ==
  \/ InsertFirst(h)
  \/ InsertInRoom(h)
  \/ InsertGrow(h)
  \/ InsertFails(h)

Next == \E h \in Handle : Insert(h) \/ Remove(h)

Spec == Init /\ [][Next]_vars

-----------------------------------------------------------------------------
(* The variables hold values of their C types.                             *)
TypeOK ==
  /\ size \in Nat
  /\ capacity \in Nat
  /\ handles \in [0 .. capacity - 1 -> Handle \cup {Junk}]
  /\ ok \in BOOLEAN

(* ctrdl_handleListInsert and ctrdl_handleListRemove keep size, capacity   *)
(* and the allocated block in step: the entries in use lie inside the      *)
(* block, the block has exactly capacity entries, and it never outgrows    *)
(* CTRDL_MAX_HANDLES, whichever of malloc and realloc fail on the way.     *)
BlockCoversList ==
  /\ size <= capacity
  /\ capacity <= MaxHandles
  /\ DOMAIN handles = 0 .. capacity - 1

(* No entry in use is uninitialised, and no handle is listed twice, so     *)
(* that one removal unlists a handle for good.                             *)
ListedOnce ==
  /\ \A i \in Used : handles[i] \in Handle
  /\ \A i, j \in Used : handles[i] = handles[j] => i = j

(* The load order the array stands for.                                    *)
Loaded == INSTANCE LoadOrder WITH
  members <- Listed,
  before <- {<<handles[p[1]], handles[p[2]]>> :
               p \in {q \in Used \X Used : q[1] < q[2]}}

(* The array implements the load order: inserting appends, removing keeps  *)
(* the order of the rest through shifts, growth, shrinking and failures.   *)
ImplementsLoadOrder == Loaded!Spec
=============================================================================
