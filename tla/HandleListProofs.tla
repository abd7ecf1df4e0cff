-------------------------- MODULE HandleListProofs --------------------------
(***************************************************************************)
(* Proofs about HandleList, for any set of handles and any maximum: the    *)
(* array never leaves its block, lists nothing twice, and implements the   *)
(* load order.                                                             *)
(***************************************************************************)
EXTENDS HandleList, FiniteSetTheorems, TLAPS

(* The three invariants are inductive together.                            *)
IInv == TypeOK /\ BlockCoversList /\ ListedOnce

(* What the four ways through ctrdl_handleListRemove have in common: the   *)
(* list shrinks by one and its entries are the shifted ones.               *)
Removed(h) ==
  /\ h \in Listed
  /\ size' = size - 1
  /\ \A i \in 0 .. size - 2 : handles'[i] = ShiftedDown(IndexOf(h))[i]

(* What the three ways to insert have in common.                           *)
Appended(h) ==
  /\ MayInsert(h)
  /\ size' = size + 1
  /\ handles'[size] = h
  /\ \A i \in Used : handles'[i] = handles[i]

-----------------------------------------------------------------------------
(* The half of a capacity lies between nothing and the capacity.           *)
LEMMA HalfInside ==
  ASSUME NEW n \in Nat
  PROVE  /\ n \div 2 \in Nat
         /\ n \div 2 <= n
OBVIOUS

(* A full block that must grow below the maximum gets a larger one.        *)
LEMMA GrowthMakesRoom ==
  ASSUME IInv, ~IsFull, HasBlock, size >= capacity
  PROVE  /\ GrownCapacity \in Nat
         /\ GrownCapacity <= MaxHandles
         /\ size < GrownCapacity
         /\ size = capacity
<1>1. capacity \in Nat /\ capacity # 0 /\ size = capacity
  BY DEF IInv, TypeOK, BlockCoversList, HasBlock
<1> QED
  BY <1>1, MaxHandlesAssumption DEF GrownCapacity, IsFull

(* IndexOf finds the one entry of a listed handle.                         *)
LEMMA IndexFound ==
  ASSUME IInv, NEW h \in Listed
  PROVE  /\ IndexOf(h) \in Used
         /\ handles[IndexOf(h)] = h
         /\ \A j \in Used : handles[j] = h => j = IndexOf(h)
<1> DEFINE Found(i) ==
      handles[i] = h /\ \A j \in Used : handles[j] = h => i <= j
<1>1. PICK i \in Used : handles[i] = h
  BY DEF Listed
<1>2. \A j \in Used : handles[j] = h => j = i
  BY <1>1 DEF IInv, ListedOnce
<1>3. i <= i
  BY <1>1 DEF Used, IInv, TypeOK
<1>4. Found(i)
  BY <1>1, <1>2, <1>3
<1>5. IndexOf(h) \in Used /\ Found(IndexOf(h))
  BY <1>1, <1>4 DEF IndexOf
<1> QED BY <1>2, <1>5

-----------------------------------------------------------------------------
LEMMA InitIInv == Init => IInv
BY MaxHandlesAssumption
DEF Init, IInv, TypeOK, BlockCoversList, ListedOnce, NullBlock, Used

(* Each insertion that succeeds appends, inside a block of the right size. *)
LEMMA InsertAppends ==
  ASSUME IInv, NEW h \in Handle,
         InsertFirst(h) \/ InsertInRoom(h) \/ InsertGrow(h)
  PROVE  Appended(h) /\ TypeOK' /\ BlockCoversList'
<1> USE MaxHandlesAssumption DEF IInv, Appended, TypeOK, BlockCoversList
<1>1. CASE InsertFirst(h)
  <2>1. /\ MayInsert(h) /\ size' = 1 /\ capacity' = 1 /\ ok' = TRUE
        /\ handles' = Stored(Resized(1), 0, h)
    BY <1>1 DEF InsertFirst
  <2>2. size = 0
    <3>1. 0 .. capacity - 1 = {}
      BY <1>1 DEF InsertFirst, HasBlock
    <3>2. 0 \notin 0 .. capacity - 1
      BY <3>1
    <3> QED BY <3>2
  <2>3. Resized(1) \in [0 .. 0 -> Handle \cup {Junk}]
    BY DEF Resized
  <2>4. handles' \in [0 .. 0 -> Handle \cup {Junk}] /\ handles'[0] = h
    <3>1. DOMAIN Resized(1) \cup {0} = 0 .. 0
      BY <2>3
    <3>2. handles' =
            [j \in 0 .. 0 |-> IF j = 0 THEN h ELSE Resized(1)[j]]
      BY <2>1, <3>1 DEF Stored
    <3> QED BY <2>3, <3>2
  <2>5. Used = {}
    BY <2>2 DEF Used
  <2>6. TypeOK' /\ BlockCoversList'
    BY <2>1, <2>4
  <2> QED BY <2>1, <2>2, <2>4, <2>5, <2>6
<1>2. CASE InsertInRoom(h)
  BY <1>2 DEF InsertInRoom, MayInsert, IsFull, Stored, Used
<1>3. CASE InsertGrow(h)
  <2> DEFINE grown == GrownCapacity
  <2>1. MayInsert(h) /\ grown \in Nat /\ grown <= MaxHandles /\ size < grown
    BY <1>3, GrowthMakesRoom DEF InsertGrow, MayInsert
  <2>2. /\ handles' = Stored(Resized(grown), size, h)
        /\ size' = size + 1
        /\ capacity' = grown
        /\ ok' = TRUE
        /\ size = capacity
    BY <1>3, GrowthMakesRoom DEF InsertGrow, MayInsert
  <2> HIDE DEF grown
  <2>3. Resized(grown) \in [0 .. grown - 1 -> Handle \cup {Junk}]
    BY <2>1 DEF Resized
  <2>4. handles' \in [0 .. grown - 1 -> Handle \cup {Junk}]
    BY <2>1, <2>2, <2>3 DEF Stored
  <2>5. \A i \in Used : handles'[i] = handles[i]
    BY <2>1, <2>2 DEF Stored, Resized, Used
  <2>6. handles'[size] = h
    BY <2>1, <2>2 DEF Stored, Resized
  <2> QED BY <2>1, <2>2, <2>4, <2>5, <2>6
<1> QED BY <1>1, <1>2, <1>3

(* Each removal closes the gap, inside a block of the right size.          *)
LEMMA RemoveCloses ==
  ASSUME IInv, NEW h \in Handle, Remove(h)
  PROVE  Removed(h) /\ TypeOK' /\ BlockCoversList' /\ size > 0
<1> DEFINE k == IndexOf(h)
           moved == ShiftedDown(k)
<1>1. h \in Listed
  BY DEF Remove, RemoveKeepBlock, RemoveLast, RemoveShrink, RemoveShrinkFails
<1>2. k \in Used
  BY <1>1, IndexFound
<1>3. size \in Nat /\ size > 0 /\ capacity \in Nat /\ size <= capacity
  BY <1>2 DEF IInv, TypeOK, BlockCoversList, Used
<1>4. moved \in [0 .. capacity - 1 -> Handle \cup {Junk}]
  BY <1>2, <1>3 DEF IInv, TypeOK, BlockCoversList, ShiftedDown, Used
<1>5. size' = size - 1 /\ ok' = ok
  BY <1>3 DEF Remove, RemoveKeepBlock, RemoveLast, RemoveShrink, RemoveShrinkFails
<1>6. CASE handles' = moved /\ capacity' = capacity
  BY <1>1, <1>3, <1>4, <1>5, <1>6
  DEF Removed, IInv, TypeOK, BlockCoversList
<1>7. CASE RemoveLast(h)
  BY <1>1, <1>3, <1>5, <1>7, MaxHandlesAssumption
  DEF RemoveLast, NullBlock, Removed, IInv, TypeOK, BlockCoversList
<1>8. CASE RemoveShrink(h)
  <2> DEFINE half == capacity \div 2
  <2>1. /\ handles' = [i \in 0 .. half - 1 |-> moved[i]]
        /\ capacity' = half
        /\ size - 1 <= half
    BY <1>8 DEF RemoveShrink, Shrinks
  <2>2. half \in Nat /\ half <= capacity
    BY <1>3, HalfInside
  <2> HIDE DEF half, moved
  <2>3. handles' \in [0 .. half - 1 -> Handle \cup {Junk}]
    BY <1>3, <1>4, <2>1, <2>2
  <2>6. ok' \in BOOLEAN
    BY <1>5 DEF IInv, TypeOK
  <2>7. size' \in Nat /\ capacity' \in Nat /\ size' <= capacity'
    BY <1>3, <1>5, <2>1, <2>2
  <2>8. capacity' <= MaxHandles
    BY <1>3, <2>1, <2>2, MaxHandlesAssumption DEF IInv, BlockCoversList
  <2>4. TypeOK' /\ BlockCoversList'
    BY <2>1, <2>3, <2>6, <2>7, <2>8 DEF TypeOK, BlockCoversList
  <2>5. \A i \in 0 .. size - 2 : handles'[i] = moved[i]
    BY <1>3, <2>1, <2>2
  <2> QED BY <1>1, <1>3, <1>5, <2>4, <2>5 DEF Removed, moved
<1> QED
  BY <1>6, <1>7, <1>8
  DEF Remove, RemoveKeepBlock, RemoveShrinkFails

(* Entry i of the list after a removal is entry i or i + 1 of the old one. *)
Source(k, i) == IF i < k THEN i ELSE i + 1

LEMMA RemovedEntries ==
  ASSUME IInv, NEW h \in Handle, Removed(h)
  PROVE  LET k == IndexOf(h)
         IN /\ Used' = 0 .. size - 2
            /\ \A i \in Used' : /\ Source(k, i) \in Used \ {k}
                                /\ handles'[i] = handles[Source(k, i)]
            /\ \A j \in Used \ {k} : \E i \in Used' : Source(k, i) = j
            /\ \A i, j \in Used' : i < j <=> Source(k, i) < Source(k, j)
<1> DEFINE k == IndexOf(h)
<1>1. k \in Used /\ size \in Nat /\ size' = size - 1
  BY IndexFound DEF Removed, IInv, TypeOK
<1>2. Used' = 0 .. size - 2
  BY <1>1 DEF Removed, Used
<1> HIDE DEF k
<1>3. \A i \in Used' : Source(k, i) \in Used \ {k}
  <2> TAKE i \in Used'
  <2>1. i \in 0 .. size - 2 /\ k \in 0 .. size - 1
    BY <1>1, <1>2 DEF Used
  <2> QED BY <1>1, <2>1 DEF Source, Used
<1>4. \A i \in Used' : handles'[i] = handles[Source(k, i)]
  <2>1. \A i \in Used' : handles'[i] = ShiftedDown(k)[i]
    BY <1>2 DEF Removed, k
  <2>2. \A i \in Used' : i \in DOMAIN handles
    BY <1>1, <1>2 DEF IInv, TypeOK, BlockCoversList
  <2> TAKE i \in Used'
  <2>3. i \in 0 .. size - 2 /\ k \in 0 .. size - 1
    BY <1>1, <1>2 DEF Used
  <2>4. ShiftedDown(k)[i] = IF i >= k THEN handles[i + 1] ELSE handles[i]
    BY <1>1, <2>2, <2>3 DEF ShiftedDown
  <2> QED BY <1>1, <2>1, <2>3, <2>4 DEF Source
<1>5. \A j \in Used \ {k} : \E i \in Used' : Source(k, i) = j
  <2> TAKE j \in Used \ {k}
  <2>1. CASE j < k
    <3>1. j \in 0 .. size - 2 /\ Source(k, j) = j
      BY <1>1, <2>1 DEF Source, Used
    <3> QED BY <1>2, <3>1
  <2>2. CASE j > k
    <3>1. j - 1 \in 0 .. size - 2 /\ Source(k, j - 1) = j
      BY <1>1, <2>2 DEF Source, Used
    <3> QED BY <1>2, <3>1
  <2> QED BY <1>1, <2>1, <2>2 DEF Used
<1>6. \A i, j \in Used' : i < j <=> Source(k, i) < Source(k, j)
  BY <1>1, <1>2 DEF Source, Used
<1> QED BY <1>2, <1>3, <1>4, <1>5, <1>6 DEF k

-----------------------------------------------------------------------------
LEMMA AppendedListsOnce ==
  ASSUME IInv, NEW h \in Handle, Appended(h)
  PROVE  ListedOnce'
<1>1. size \in Nat /\ Used' = Used \cup {size} /\ size \notin Used
  BY DEF IInv, TypeOK, Appended, Used
<1>2. \A i \in Used : handles[i] # h
  BY DEF Appended, MayInsert, Listed
<1> QED
  BY <1>1, <1>2 DEF IInv, ListedOnce, Appended

LEMMA RemovedListsOnce ==
  ASSUME IInv, NEW h \in Handle, Removed(h)
  PROVE  ListedOnce'
<1> DEFINE k == IndexOf(h)
           src(i) == Source(k, i)
<1>1. size \in Nat
  BY DEF IInv, TypeOK
<1>2. /\ Used' = 0 .. size - 2
      /\ \A i \in Used' : src(i) \in Used /\ handles'[i] = handles[src(i)]
      /\ \A i, j \in Used' : i < j <=> src(i) < src(j)
  BY RemovedEntries
<1> HIDE DEF src
<1>3. \A i, j \in Used' : src(i) = src(j) => i = j
  BY <1>1, <1>2 DEF Used
<1> QED
  BY <1>2, <1>3 DEF IInv, ListedOnce

LEMMA StepIInv == IInv /\ [Next]_vars => IInv'
<1> SUFFICES ASSUME IInv, [Next]_vars PROVE IInv'
  OBVIOUS
<1>1. CASE UNCHANGED vars
  BY <1>1
  DEF vars, IInv, TypeOK, BlockCoversList, ListedOnce, Used
<1>2. ASSUME NEW h \in Handle,
             InsertFirst(h) \/ InsertInRoom(h) \/ InsertGrow(h)
      PROVE  IInv'
  BY <1>2, InsertAppends, AppendedListsOnce DEF IInv
<1>3. ASSUME NEW h \in Handle, InsertFails(h)
      PROVE  IInv'
  BY <1>3
  DEF InsertFails, IInv, TypeOK, BlockCoversList, ListedOnce, Used
<1>4. ASSUME NEW h \in Handle, Remove(h)
      PROVE  IInv'
  BY <1>4, RemoveCloses, RemovedListsOnce DEF IInv
<1> QED BY <1>1, <1>2, <1>3, <1>4 DEF Next, Insert

(* No insertion or removal of Source/Handle.c takes the size or the        *)
(* capacity below zero, and the array always has capacity entries.         *)
THEOREM ListTypes == Spec => []TypeOK
<1>1. IInv => TypeOK
  BY DEF IInv
<1> QED BY InitIInv, StepIInv, <1>1, PTL DEF Spec

(* Whatever the order of insertions, removals and failed allocations, the  *)
(* array of Source/Handle.c stays inside its block, and every entry it     *)
(* counts was written.                                                     *)
THEOREM ListSafety == Spec => []BlockCoversList
<1>1. IInv => BlockCoversList
  BY DEF IInv
<1> QED BY InitIInv, StepIInv, <1>1, PTL DEF Spec

(* The array lists each open handle once, so that removing it leaves no    *)
(* entry of a freed handle behind.                                         *)
THEOREM ListUnique == Spec => []ListedOnce
<1>1. IInv => ListedOnce
  BY DEF IInv
<1> QED BY InitIInv, StepIInv, <1>1, PTL DEF Spec

-----------------------------------------------------------------------------
(* The order the array stands for, as ImplementsLoadOrder maps it.         *)
Before ==
  {<<handles[p[1]], handles[p[2]]>> :
     p \in {q \in Used \X Used : q[1] < q[2]}}

(* Membership in that order, without the pairs of the comprehension.       *)
LEMMA BeforeMeans ==
  /\ \A p : p \in Before <=>
       \E i, j \in Used : i < j /\ p = <<handles[i], handles[j]>>
  /\ \A p : p \in Before' <=>
       \E i, j \in Used' : i < j /\ p = <<handles'[i], handles'[j]>>
<1> DEFINE Pairs(U, a) ==
      {<<a[p[1]], a[p[2]]>> : p \in {q \in U \X U : q[1] < q[2]}}
<1>1. ASSUME NEW U, NEW a, NEW p
      PROVE  p \in Pairs(U, a) <=>
               \E i, j \in U : i < j /\ p = <<a[i], a[j]>>
  <2>1. ASSUME p \in Pairs(U, a)
        PROVE  \E i, j \in U : i < j /\ p = <<a[i], a[j]>>
    <3>1. PICK q \in U \X U : q[1] < q[2] /\ p = <<a[q[1]], a[q[2]]>>
      BY <2>1
    <3> QED BY <3>1
  <2>2. ASSUME NEW i \in U, NEW j \in U, i < j, p = <<a[i], a[j]>>
        PROVE  p \in Pairs(U, a)
    <3>1. <<i, j>> \in {q \in U \X U : q[1] < q[2]}
      BY <2>2
    <3> QED BY <2>2, <3>1
  <2> QED BY <2>1, <2>2
<1>2. Before = Pairs(Used, handles) /\ Before' = Pairs(Used', handles')
  BY DEF Before
<1> QED BY <1>1, <1>2

(* The list has room whenever the abstract table has.                      *)
LEMMA ListedFits ==
  ASSUME IInv
  PROVE  Cardinality(Listed) <= size
<1> DEFINE at == [i \in Used |-> handles[i]]
<1>1. size \in Nat
  BY DEF IInv, TypeOK
<1>2. IsFiniteSet(Used) /\ Cardinality(Used) = size
  BY <1>1, FS_Interval DEF Used
<1>3. at \in Surjection(Used, Listed)
  BY DEF Surjection, Listed
<1> QED BY <1>2, <1>3, FS_Surjection

LEMMA AppendedInserts ==
  ASSUME IInv, NEW h \in Handle, Appended(h)
  PROVE  Loaded!Insert(h)
<1>1. /\ size \in Nat
      /\ Used' = Used \cup {size}
      /\ size \notin Used
      /\ \A i \in Used : i < size /\ ~(size < i)
  BY DEF IInv, TypeOK, Appended, Used
<1>2. handles'[size] = h /\ \A i \in Used : handles'[i] = handles[i]
  BY DEF Appended
<1>3. h \notin Listed /\ size < MaxHandles
  BY <1>1, MaxHandlesAssumption DEF Appended, MayInsert, IsFull
<1>4. Cardinality(Listed) < MaxHandles
  <2>1. Cardinality(Listed) <= size
    BY ListedFits
  <2>2. IsFiniteSet(Listed)
    <3> DEFINE at == [i \in Used |-> handles[i]]
    <3>1. IsFiniteSet(Used)
      BY <1>1, FS_Interval DEF Used
    <3>2. at \in Surjection(Used, Listed)
      BY DEF Surjection, Listed
    <3> QED BY <3>1, <3>2, FS_Surjection
  <2>3. Cardinality(Listed) \in Nat
    BY <2>2, FS_CardinalityType
  <2> QED BY <1>1, <1>3, <2>1, <2>3, MaxHandlesAssumption
<1>5. Listed' = Listed \cup {h}
  BY <1>1, <1>2 DEF Listed
<1>6. Before' = Before \cup (Listed \X {h})
  <2>1. ASSUME NEW p \in Before'
        PROVE  p \in Before \cup (Listed \X {h})
    <3>1. PICK i \in Used', j \in Used' :
            i < j /\ p = <<handles'[i], handles'[j]>>
      BY BeforeMeans
    <3>2. i \in Used /\ handles'[i] = handles[i]
      <4>1. ~(size < size)
        BY <1>1
      <4> QED BY <1>1, <1>2, <3>1, <4>1
    <3>3. CASE j \in Used
      BY <1>2, <3>1, <3>2, <3>3, BeforeMeans
    <3>4. CASE j = size
      BY <1>2, <3>1, <3>2, <3>4 DEF Listed
    <3> QED BY <1>1, <3>3, <3>4
  <2>2. ASSUME NEW p \in Before
        PROVE  p \in Before'
    BY <1>1, <1>2, BeforeMeans
  <2>3. ASSUME NEW g \in Listed
        PROVE  <<g, h>> \in Before'
    <3>1. PICK i \in Used : g = handles[i]
      BY DEF Listed
    <3>2. i \in Used' /\ size \in Used' /\ i < size
      BY <1>1
    <3>3. <<g, h>> = <<handles'[i], handles'[size]>>
      BY <1>2, <3>1
    <3> QED BY <3>2, <3>3, BeforeMeans
  <2> QED BY <2>1, <2>2, <2>3
<1>7. Loaded!Cardinality(Listed) = Cardinality(Listed)
  BY DEF Loaded!Cardinality, Cardinality
<1> QED BY <1>3, <1>4, <1>5, <1>6, <1>7 DEF Loaded!Insert, Before

LEMMA RemovedRemoves ==
  ASSUME IInv, NEW h \in Handle, Removed(h)
  PROVE  Loaded!Remove(h)
<1> DEFINE k == IndexOf(h)
           src(i) == Source(k, i)
<1>1. h \in Listed
  BY DEF Removed
<1>2. k \in Used /\ handles[k] = h /\ \A j \in Used : handles[j] = h => j = k
  BY <1>1, IndexFound
<1>3. /\ \A i \in Used' : /\ src(i) \in Used \ {k}
                          /\ handles'[i] = handles[src(i)]
      /\ \A j \in Used \ {k} : \E i \in Used' : src(i) = j
      /\ \A i, j \in Used' : i < j <=> src(i) < src(j)
  BY RemovedEntries
<1> HIDE DEF src, k
<1>4. Listed' = Listed \ {h}
  BY <1>2, <1>3 DEF Listed
<1>5. Before' = {p \in Before : p[1] # h /\ p[2] # h}
  <2>1. ASSUME NEW p \in Before'
        PROVE  p \in Before /\ p[1] # h /\ p[2] # h
    <3>1. PICK i \in Used', j \in Used' :
            i < j /\ p = <<handles'[i], handles'[j]>>
      BY BeforeMeans
    <3>2. /\ src(i) \in Used \ {k}
          /\ src(j) \in Used \ {k}
          /\ src(i) < src(j)
          /\ p = <<handles[src(i)], handles[src(j)]>>
      BY <1>3, <3>1
    <3> QED BY <1>2, <3>2, BeforeMeans
  <2>2. ASSUME NEW p \in Before, p[1] # h, p[2] # h
        PROVE  p \in Before'
    <3>1. PICK i \in Used, j \in Used :
            i < j /\ p = <<handles[i], handles[j]>>
      BY BeforeMeans
    <3>2. i \in Used \ {k} /\ j \in Used \ {k}
      BY <1>2, <2>2, <3>1
    <3>3. PICK x \in Used', y \in Used' : src(x) = i /\ src(y) = j
      BY <1>3, <3>2
    <3>4. x < y /\ p = <<handles'[x], handles'[y]>>
      BY <1>3, <3>1, <3>3
    <3> QED BY <3>4, BeforeMeans
  <2> QED BY <2>1, <2>2
<1> QED BY <1>1, <1>4, <1>5 DEF Loaded!Remove, Before

LEMMA StepLoadOrder ==
  IInv /\ [Next]_vars => [Loaded!Next]_(Loaded!vars)
<1> SUFFICES ASSUME IInv, [Next]_vars
             PROVE  [Loaded!Next]_(Loaded!vars)
  OBVIOUS
<1>1. ASSUME UNCHANGED <<handles, size>>
      PROVE  UNCHANGED Loaded!vars
  BY <1>1 DEF Loaded!vars, Listed, Used
<1>2. CASE UNCHANGED vars
  BY <1>1, <1>2 DEF vars
<1>3. ASSUME NEW h \in Handle, InsertFails(h)
      PROVE  UNCHANGED Loaded!vars
  BY <1>1, <1>3 DEF InsertFails
<1>4. ASSUME NEW h \in Handle,
             InsertFirst(h) \/ InsertInRoom(h) \/ InsertGrow(h)
      PROVE  Loaded!Next
  BY <1>4, InsertAppends, AppendedInserts DEF Loaded!Next
<1>5. ASSUME NEW h \in Handle, Remove(h)
      PROVE  Loaded!Next
  BY <1>5, RemoveCloses, RemovedRemoves DEF Loaded!Next
<1> QED BY <1>2, <1>3, <1>4, <1>5 DEF Next, Insert

(* The array is a load order: an insertion puts the handle after all       *)
(* others and a removal keeps the order of those that remain, through      *)
(* growth, shrinking, shifts and failed allocations.                       *)
THEOREM ListRefinement == Spec => ImplementsLoadOrder
<1>1. Init => Loaded!Init
  BY DEF Init, Loaded!Init, Listed, Used
<1> QED
  BY <1>1, InitIInv, StepIInv, StepLoadOrder, PTL
  DEF Spec, ImplementsLoadOrder, Loaded!Spec
=============================================================================
