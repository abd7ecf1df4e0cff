------------------------- MODULE SymbolSearchProofs -------------------------
(***************************************************************************)
(* Proofs about SymbolSearch for any finite set of objects, any size of    *)
(* the queue and any worlds: its variables keep their types, a search      *)
(* gives back every reference it takes, dlsym of an object that has the    *)
(* symbol finds it, symbols come from the first scope that has them, and   *)
(* relocations are done with them or end the load.                         *)
(***************************************************************************)
EXTENDS SymbolSearch, FiniteSetTheorems, WellFoundedInduction, TLAPS

(* The calls of the recursion that are inside of h: they hold a lock of it.*)
Inside(h) == {k \in DOMAIN stack : stack[k].h = h /\ stack[k].i > 0}

(* Only a search that recurses has calls.                                  *)
StackUsed == stack # <<>> => pc = "deps"

(* The dependencies that are pushed are those of an object.                *)
PushesDeps == pc = "push" => current \in Handle

(* Which searches go where: those by address do not ask for names, and do  *)
(* nothing else than walk over the objects until they found one.           *)
KindsApart ==
  /\ query.kind \in ByAddress => pc \in {"range", "value", "done"}
  /\ pc \in {"range", "value"} => query.kind \in ByAddress
  /\ pc = "range" => current = Nobody
  /\ pc = "value" => query.kind = "dladdr" /\ current \in Handle

(* Until it is popped, the handle that was asked is alone in the queue.    *)
OwnQueued ==
  query.kind = "handle" /\ HasSymbol(query.h) =>
    /\ ~crashed
    /\ \/ pc = "start"
       \/ pc = "pop" /\ queue.size = 1 /\ queue.index = 0 /\ queue.deps[0] = query.h
       \/ pc = "done" /\ result = FoundIn(query.h)

(* CTRDL_MAIN_HANDLE is never entered.                                     *)
EntersObjects ==
  \A k \in DOMAIN stack : stack[k].i > 0 => stack[k].h \in Handle

IInv ==
  /\ TypeOK /\ StackUsed /\ PushesDeps /\ KindsApart /\ EntersObjects
  /\ LocksBalanced

(* Indices of the queue stay inside of it.                                 *)
LEMMA Wrapped ==
  ASSUME NEW n \in Nat \ {0}, NEW k \in Nat
  PROVE  k % n \in 0 .. n - 1
  OBVIOUS

LEMMA InsideFinite ==
  ASSUME TypeOK, NEW h
  PROVE  IsFiniteSet(Inside(h)) /\ Cardinality(Inside(h)) \in Nat
<1>1. stack \in Seq(Frames)
  BY DEF TypeOK
<1>2. IsFiniteSet(1 .. Len(stack))
  BY <1>1, FS_Interval
<1>3. Inside(h) \subseteq 1 .. Len(stack)
  BY <1>1 DEF Inside
<1> QED BY <1>2, <1>3, FS_Subset, FS_CardinalityType

(* A search that is inside of an object can unlock it.                     *)
LEMMA LockedInside ==
  ASSUME IInv, NEW h \in Handle,
         Inside(h) # {} \/ Holds(h)
  PROVE  locks[h] - 1 \in Nat
<1>1. IsFiniteSet(Inside(h)) /\ Cardinality(Inside(h)) \in Nat
  BY InsideFinite DEF IInv
<1>2. locks[h] = Cardinality(Inside(h)) + IF Holds(h) THEN 1 ELSE 0
  BY DEF IInv, LocksBalanced, Inside
<1>3. Inside(h) # {} => Cardinality(Inside(h)) # 0
  BY <1>1, FS_EmptySet
<1> QED BY <1>1, <1>2, <1>3

(* The call that runs, and those below it.                                 *)
LEMMA TopOfStack ==
  ASSUME TypeOK, stack # <<>>
  PROVE  /\ Len(stack) \in Nat \ {0}
         /\ Frame \in Frames
         /\ Below \in Seq(Frames)
         /\ Len(Below) = Len(stack) - 1
         /\ \A k \in 1 .. Len(stack) - 1 : Below[k] = stack[k]
<1>1. stack \in Seq(Frames)
  BY DEF TypeOK
<1>2. Len(stack) \in Nat \ {0}
  BY <1>1
<1>3. Frame \in Frames
  BY <1>1, <1>2 DEF Frame
<1>4. Len(stack) - 1 \in 0 .. Len(stack)
  BY <1>2
<1>5. Below = [k \in 1 .. Len(stack) - 1 |-> stack[k]]
  BY <1>1, <1>2 DEF Below
<1>6. \A k \in 1 .. Len(stack) - 1 : stack[k] \in Frames
  BY <1>1, <1>2
<1>7. Below \in Seq(Frames) /\ Len(Below) = Len(stack) - 1
  BY <1>2, <1>5, <1>6
<1> QED BY <1>2, <1>3, <1>5, <1>7

(* The queue stays a queue.                                                *)
Queues ==
  [deps : [0 .. MaxHandles - 1 -> Handle \cup {Main, Junk}],
   size : 0 .. MaxHandles, index : 0 .. MaxHandles - 1]

LEMMA QueueKept ==
  ASSUME NEW q \in Queues
  PROVE  /\ \A h \in Handle \cup {Main} : Pushed(q, h) \in Queues
         /\ q.size > 0 => Popped(q) \in Queues
<1>1. MaxHandles \in Nat \ {0}
  BY SearchAssumption
<1>2. /\ q.deps \in [0 .. MaxHandles - 1 -> Handle \cup {Main, Junk}]
      /\ q.size \in 0 .. MaxHandles
      /\ q.index \in 0 .. MaxHandles - 1
  BY DEF Queues
<1>3. q.size \in Nat /\ q.index + 1 \in Nat
  BY <1>1, <1>2
<1>4. q.size % MaxHandles \in 0 .. MaxHandles - 1
  BY <1>1, <1>3, Wrapped
<1>5. (q.index + 1) % MaxHandles \in 0 .. MaxHandles - 1
  BY <1>1, <1>3, Wrapped
<1>6. ASSUME NEW h \in Handle \cup {Main} PROVE Pushed(q, h) \in Queues
  <2>1. CASE q.size >= MaxHandles \/ Queued(q, h)
    BY <2>1 DEF Pushed
  <2>2. CASE ~(q.size >= MaxHandles \/ Queued(q, h))
    <3>1. Pushed(q, h) = [q EXCEPT !.deps[q.size % MaxHandles] = h, !.size = @ + 1]
      BY <2>2 DEF Pushed
    <3>2. q.size + 1 \in 0 .. MaxHandles
      BY <1>1, <1>2, <2>2
    <3>3. PICK p \in 0 .. MaxHandles - 1 : p = q.size % MaxHandles
      BY <1>4
    <3>4. PICK d : d = [q.deps EXCEPT ![p] = h]
      OBVIOUS
    <3>5. d \in [0 .. MaxHandles - 1 -> Handle \cup {Main, Junk}]
      BY <1>2, <3>4
    <3>6. Pushed(q, h) = [deps |-> d, size |-> q.size + 1, index |-> q.index]
      BY <3>1, <3>3, <3>4 DEF Queues
    <3> QED BY <1>2, <3>2, <3>5, <3>6 DEF Queues
  <2> QED BY <2>1, <2>2
<1>7. ASSUME q.size > 0 PROVE Popped(q) \in Queues
  <2>1. q.size - 1 \in 0 .. MaxHandles
    BY <1>1, <1>2, <1>7
  <2> QED BY <1>2, <1>5, <2>1 DEF Popped, Queues
<1> QED BY <1>6, <1>7

LEMMA InitIInv == Init => IInv
<1> SUFFICES ASSUME Init PROVE IInv
  OBVIOUS
<1> USE SearchAssumption
<1>1. world \in World /\ query \in Query
  BY DEF Init
<1>2. /\ query.h \in Handle
      /\ query.kind \in {"reloc", "main", "handle"} \cup ByAddress
  BY <1>1 DEF Query
<1>3. queue \in Queues
  BY DEF Init, EmptyQueue, Queues
<1>4. TypeOK
  <2>1. /\ pc \in {"next", "program", "start", "range"}
        /\ query.kind \in ByAddress <=> pc = "range"
        /\ i \in Nat \ {0} /\ stack \in Seq(Frames)
        /\ current \in Handle \cup {Nobody} /\ crashed \in BOOLEAN
    <3>1. /\ pc \in {"next", "program", "start", "range"}
          /\ query.kind \in ByAddress <=> pc = "range"
      BY <1>2 DEF Init, ByAddress
    <3>2. i \in Nat \ {0} /\ stack \in Seq(Frames)
      BY DEF Init
    <3>3. current \in Handle \cup {Nobody} /\ crashed \in BOOLEAN
      BY DEF Init
    <3> QED BY <3>1, <3>2, <3>3
  <2>2. result \in [by : Provider, base : Provider] /\ words \in Seq(Word)
    BY DEF Init, NotFound, Provider
  <2>3. locks \in [Handle -> Nat]
    BY DEF Init
  <2> QED BY <1>1, <1>3, <2>1, <2>2, <2>3 DEF TypeOK, Queues, Stages
<1>5. \A h \in Handle : Inside(h) = {}
  BY DEF Init, Inside
<1>6. /\ pc \in {"next", "program", "start", "range"}
      /\ query.kind \in ByAddress <=> pc = "range"
  BY <1>2 DEF Init, ByAddress
<1>7. \A h \in Handle : locks[h] = 0 /\ ~Holds(h)
  BY <1>6 DEF Init, Holds
<1>8. LocksBalanced
  <2>1. \A h \in Handle : locks[h] = Cardinality(Inside(h)) + IF Holds(h) THEN 1 ELSE 0
    <3>1. \A h \in Handle : Cardinality(Inside(h)) = 0
      <4>1. Cardinality({}) = 0
        BY FS_EmptySet
      <4> QED BY <1>5, <4>1
    <3>2. \A h \in Handle : 0 = 0 + IF Holds(h) THEN 1 ELSE 0
      BY <1>7
    <3> QED BY <1>7, <3>1, <3>2
  <2> QED BY <2>1 DEF LocksBalanced, Inside
<1>9. current = Nobody /\ stack = <<>>
  BY DEF Init
<1> QED BY <1>4, <1>6, <1>8, <1>9
    DEF IInv, StackUsed, PushesDeps, EntersObjects, KindsApart

(* Where neither calls nor locks change, and no lock is held for another   *)
(* reason than before, the locks stay balanced.                            *)
LEMMA LocksKept ==
  ASSUME IInv, UNCHANGED <<stack, locks>>,
         \A h \in Handle : Holds(h)' <=> Holds(h)
  PROVE  LocksBalanced'
BY DEF IInv, LocksBalanced

(* Between stages in which a search by name holds no lock of its own.      *)
LEMMA NothingHeld ==
  ASSUME IInv, UNCHANGED <<query, stack, locks, current>>,
         pc \notin {"pop", "push", "range", "value", "done"},
         pc' \notin {"pop", "push", "range", "value"}
  PROVE  LocksBalanced' /\ KindsApart'
<1>1. query.kind \notin ByAddress
  BY DEF IInv, KindsApart
<1>2. \A h \in Handle : ~Holds(h) /\ ~Holds(h)'
  BY <1>1 DEF Holds, ByAddress
<1>3. LocksBalanced'
  BY <1>2, LocksKept
<1> QED BY <1>1, <1>3 DEF KindsApart

(* While the object itself and its dependencies are asked, the calls hold  *)
(* all the locks there are.                                                *)
LEMMA OnlyCallsHold ==
  ASSUME IInv, pc \in {"self", "deps"}
  PROVE  /\ query.kind \notin ByAddress
         /\ \A h \in Handle : locks[h] = Cardinality(Inside(h)) + 0
<1>1. query.kind \notin ByAddress
  BY DEF IInv, KindsApart
<1>2. \A h \in Handle : ~Holds(h)
  BY DEF Holds
<1>3. \A h \in Handle : locks[h] = Cardinality(Inside(h)) + IF Holds(h) THEN 1 ELSE 0
  BY DEF IInv, LocksBalanced, Inside
<1> QED BY <1>1, <1>2, <1>3

LEMMA CallsHoldAll ==
  ASSUME pc' = "deps", UNCHANGED query, query.kind \notin ByAddress,
         \A h \in Handle : locks'[h] = Cardinality(Inside(h)') + 0
  PROVE  LocksBalanced' /\ KindsApart'
<1>1. \A h \in Handle : ~Holds(h)'
  BY DEF Holds
<1>2. LocksBalanced'
  BY <1>1 DEF LocksBalanced, Inside
<1> QED BY <1>2 DEF KindsApart

(* The steps around one relocation.                                        *)
LEMMA RelocsKeepIInv ==
  ASSUME IInv, NextReloc \/ RelocsDone \/ Apply \/ RelocFails
  PROVE  IInv'
<1> USE SearchAssumption DEF constant, searching, At
<1>0. TypeOK /\ StackUsed
  BY DEF IInv
<1>1. /\ pc \in {"next", "apply"} /\ pc' \in {"next", "apply", "resolver", "done", "failed"}
      /\ UNCHANGED <<world, query, stack, queue, current, locks, crashed>>
  BY DEF NextReloc, RelocsDone, Apply, RelocFails
<1>2. LocksBalanced' /\ KindsApart'
  BY <1>1, NothingHeld
<1>3. query.h \in Handle
  BY <1>0 DEF TypeOK, Query
<1>4. /\ i' \in Nat \ {0} /\ result' \in [by : Provider, base : Provider]
      /\ words' \in Seq(Word)
  <2>1. CASE Apply
    <3>1. i' = 1 /\ result' = NotFound
      BY <2>1 DEF Apply
    <3>2. words \in Seq(Word) /\ result.by \in Provider /\ result.base \in Provider
      BY <1>0 DEF TypeOK
    <3>3. \E w \in Word : words' = Append(words, w)
      BY <1>3, <2>1, <3>2
         DEF Apply, Relative, WithSymbol, WithoutSymbol, Left, Word, Provider
    <3> QED BY <3>1, <3>2, <3>3 DEF NotFound, Provider
  <2>2. CASE NextReloc \/ RelocsDone \/ RelocFails
    BY <1>0, <2>2 DEF NextReloc, RelocsDone, RelocFails, TypeOK
  <2> QED BY <2>1, <2>2
<1>5. TypeOK'
  BY <1>0, <1>1, <1>4 DEF TypeOK, Stages
<1> QED BY <1>0, <1>1, <1>2, <1>5 DEF IInv, StackUsed, PushesDeps, EntersObjects

(* The steps before the dependencies are searched.                         *)
LEMMA ScopesKeepIInv ==
  ASSUME IInv,
         AskResolver \/ AskProgram \/ AskGlobal \/ NoGlobal \/ AskSelf
  PROVE  IInv'
<1> USE SearchAssumption DEF constant, searching, At, Done, Stages
<1>0. TypeOK /\ StackUsed
  BY DEF IInv
<1>1. CASE AskResolver
  <2>1. TypeOK'
    BY <1>0, <1>1 DEF AskResolver, TypeOK, Provider
  <2>2. LocksBalanced' /\ KindsApart'
    BY <1>1, NothingHeld DEF AskResolver
  <2> QED BY <1>0, <1>1, <2>1, <2>2 DEF AskResolver, IInv, StackUsed, PushesDeps, EntersObjects
<1>2. CASE AskProgram
  <2>1. TypeOK'
    BY <1>0, <1>2 DEF AskProgram, TypeOK, Provider
  <2>2. LocksBalanced' /\ KindsApart'
    BY <1>2, NothingHeld DEF AskProgram
  <2> QED BY <1>0, <1>2, <2>1, <2>2 DEF AskProgram, IInv, StackUsed, PushesDeps, EntersObjects
<1>3. CASE AskGlobal
  <2>1. world.order \in Seq(Handle)
    BY <1>0 DEF TypeOK, World
  <2>2. i \in 1 .. Len(world.order)
    BY <1>0, <1>3, <2>1 DEF AskGlobal, TypeOK
  <2>3. world.order[i] \in Handle
    BY <2>1, <2>2
  <2>4. PICK h \in Handle : h = world.order[i]
    BY <2>3
  <2>6. /\ i' \in Nat \ {0} /\ pc' \in {"global", "apply", "done"}
        /\ result' = result \/ result' = FoundIn(h)
        /\ UNCHANGED <<world, query, stack, queue, current, locks, words, crashed>>
    BY <1>0, <1>3, <2>4 DEF AskGlobal, TypeOK
  <2>7. TypeOK'
    BY <1>0, <2>6 DEF FoundIn, TypeOK, Provider
  <2>5. LocksBalanced' /\ KindsApart'
    BY <1>3, NothingHeld DEF AskGlobal
  <2> QED BY <1>0, <1>3, <2>5, <2>7 DEF AskGlobal, IInv, StackUsed, PushesDeps, EntersObjects
<1>4. CASE NoGlobal
  <2>1. TypeOK'
    BY <1>0, <1>4 DEF NoGlobal, NotFound, TypeOK, Provider
  <2>2. LocksBalanced' /\ KindsApart'
    BY <1>4, NothingHeld DEF NoGlobal
  <2> QED BY <1>0, <1>4, <2>1, <2>2 DEF NoGlobal, IInv, StackUsed, PushesDeps, EntersObjects
<1>5. CASE AskSelf
  <2>1. query.h \in Handle
    BY <1>0 DEF TypeOK, Query
  <2>2. stack = <<>>
    BY <1>0, <1>5 DEF AskSelf, StackUsed
  <2>3. CASE OwnCandidates # {}
    <3>1. TypeOK'
      BY <1>0, <1>5, <2>1, <2>3 DEF AskSelf, FoundIn, TypeOK, Provider
    <3>2. LocksBalanced' /\ KindsApart'
      BY <1>5, <2>3, NothingHeld DEF AskSelf
    <3> QED BY <1>0, <1>5, <2>2, <2>3, <3>1, <3>2
        DEF AskSelf, IInv, StackUsed, PushesDeps, EntersObjects
  <2>4. CASE OwnCandidates = {}
    <3>1. [h |-> query.h, i |-> 0] \in Frames
      BY <2>1 DEF Frames
    <3>2. <<[h |-> query.h, i |-> 0]>> \in Seq(Frames)
      BY <3>1
    <3>3. stack' = <<[h |-> query.h, i |-> 0]>>
      BY <1>5, <2>4 DEF AskSelf
    <3>4. TypeOK'
      BY <1>0, <1>5, <2>4, <3>2, <3>3 DEF AskSelf, TypeOK
    <3>5. \A h \in Handle : Inside(h) = {} /\ Inside(h)' = {}
      BY <2>2, <3>3 DEF Inside
    <3>6. UNCHANGED locks /\ UNCHANGED query /\ pc = "self" /\ pc' = "deps"
      BY <1>5, <2>4 DEF AskSelf
    <3>7. /\ query.kind \notin ByAddress
          /\ \A h \in Handle : locks[h] = Cardinality(Inside(h)) + 0
      BY <3>6, OnlyCallsHold
    <3>8. \A h \in Handle : locks'[h] = Cardinality(Inside(h)') + 0
      BY <3>5, <3>6, <3>7
    <3>9. LocksBalanced' /\ KindsApart'
      BY <3>6, <3>7, <3>8, CallsHoldAll
    <3>10. EntersObjects'
      BY <3>3 DEF EntersObjects
    <3> QED BY <3>4, <3>6, <3>9, <3>10 DEF IInv, StackUsed, PushesDeps
  <2> QED BY <2>3, <2>4
<1> QED BY <1>1, <1>2, <1>3, <1>4, <1>5

(* What entering and leaving objects does to the counts of a set of calls. *)
LEMMA OneMore ==
  ASSUME NEW S, IsFiniteSet(S), NEW n, n \notin S
  PROVE  Cardinality(S \cup {n}) = Cardinality(S) + 1
BY FS_AddElement

LEMMA OneLess ==
  ASSUME NEW S, IsFiniteSet(S), NEW n \in S
  PROVE  Cardinality(S \ {n}) = Cardinality(S) - 1
BY FS_RemoveElement

(* Locking the object that the running call enters keeps the balance.      *)
LEMMA VisitKeepsIInv == IInv /\ Visit => IInv'
<1> SUFFICES ASSUME IInv, Visit PROVE IInv'
  OBVIOUS
<1> USE DEF constant, searching, At, Lock
<1>1. TypeOK /\ stack # <<>> /\ pc = "deps"
  BY DEF IInv, Visit
<1>2. PICK n \in Nat \ {0}, f \in Frames, g \in Frames :
        /\ n = Len(stack) /\ f = Frame /\ g = [h |-> f.h, i |-> 1]
  BY <1>1, TopOfStack DEF Frames
<1>3. /\ Below \in Seq(Frames) /\ Len(Below) = n - 1
      /\ \A k \in 1 .. n - 1 : Below[k] = stack[k]
  BY <1>1, <1>2, TopOfStack
<1>4. f.h \in Handle /\ f.i = 0 /\ g.h = f.h /\ g.i = 1
  BY <1>2 DEF Visit, Frames
<1>5. [Frame EXCEPT !.i = 1] = g
  BY <1>2 DEF Frames
<1>6. stack' = Append(Below, g)
  BY <1>5 DEF Visit
<1>7. /\ stack' \in Seq(Frames) /\ Len(stack') = n
      /\ \A k \in 1 .. n - 1 : stack'[k] = stack[k]
      /\ stack'[n] = g
  BY <1>2, <1>3, <1>6
<1>8. DOMAIN stack = 1 .. n /\ DOMAIN stack' = 1 .. n
  BY <1>1, <1>2, <1>7 DEF TypeOK
<1>9. stack[n] = f
  BY <1>2 DEF Frame
<1>10. n \notin Inside(f.h)
  BY <1>4, <1>9 DEF Inside
<1>11. Inside(f.h)' = Inside(f.h) \cup {n}
  <2>1. ASSUME NEW k PROVE k \in Inside(f.h)' <=> k \in Inside(f.h) \cup {n}
    <3>1. CASE k \in 1 .. n - 1
      BY <1>2, <1>7, <1>8, <3>1 DEF Inside
    <3>2. CASE k = n
      BY <1>2, <1>4, <1>7, <1>8, <3>2 DEF Inside
    <3>3. CASE k \notin 1 .. n
      BY <1>2, <1>8, <3>3 DEF Inside
    <3> QED BY <1>2, <3>1, <3>2, <3>3
  <2> QED BY <2>1
<1>12. ASSUME NEW h \in Handle, h # f.h PROVE Inside(h)' = Inside(h)
  BY <1>2, <1>4, <1>7, <1>8, <1>9, <1>12 DEF Inside
<1>13. /\ query.kind \notin ByAddress
       /\ \A h \in Handle : locks[h] = Cardinality(Inside(h)) + 0
  BY <1>1, OnlyCallsHold
<1>14. Cardinality(Inside(f.h)') = Cardinality(Inside(f.h)) + 1
  BY <1>1, <1>10, <1>11, InsideFinite, OneMore
<1>15. locks \in [Handle -> Nat] /\ locks' = [locks EXCEPT ![f.h] = @ + 1]
  BY <1>1, <1>2 DEF TypeOK, Visit
<1>16. ASSUME NEW h \in Handle PROVE locks'[h] = Cardinality(Inside(h)') + 0
  <2>1. CASE h = f.h
    <3>1. locks'[f.h] = locks[f.h] + 1 /\ locks[f.h] \in Nat
      BY <1>4, <1>15
    <3>2. locks[f.h] = Cardinality(Inside(f.h)) + 0
      BY <1>4, <1>13
    <3>3. locks'[f.h] = Cardinality(Inside(f.h)') + 0
      BY <1>1, <1>14, <3>1, <3>2, InsideFinite
    <3> QED BY <2>1, <3>3
  <2>2. CASE h # f.h
    BY <1>12, <1>13, <1>15, <2>2
  <2> QED BY <2>1, <2>2
<1>17. pc' = "deps" /\ UNCHANGED <<query, world, i, queue, current, words, crashed>>
  BY <1>1 DEF Visit
<1>18. LocksBalanced' /\ KindsApart'
  BY <1>13, <1>16, <1>17, CallsHoldAll
<1>19. locks' \in [Handle -> Nat]
  BY <1>4, <1>15
<1>20. result' \in [by : Provider, base : Provider]
  BY <1>2, <1>4 DEF Visit, FoundIn, NotFound, Provider
<1>21. TypeOK'
  BY <1>1, <1>7, <1>17, <1>19, <1>20 DEF TypeOK
<1>22. EntersObjects'
  BY <1>4, <1>7, <1>8 DEF IInv, EntersObjects
<1> QED BY <1>17, <1>18, <1>21, <1>22 DEF IInv, StackUsed, PushesDeps

(* Returning gives back the lock of the running call and no other.         *)
LEMMA ReturnKeepsIInv == IInv /\ Return => IInv'
<1> SUFFICES ASSUME IInv, Return PROVE IInv'
  OBVIOUS
<1> USE DEF constant, searching, At, Unlock
<1>1. TypeOK /\ stack # <<>> /\ pc = "deps"
  BY DEF IInv, Return
<1>2. PICK n \in Nat \ {0}, f \in Frames : n = Len(stack) /\ f = Frame
  BY <1>1, TopOfStack
<1>3. /\ Below \in Seq(Frames) /\ Len(Below) = n - 1
      /\ \A k \in 1 .. n - 1 : Below[k] = stack[k]
  BY <1>1, <1>2, TopOfStack
<1>4. stack' = Below /\ f.i > 0
  BY <1>2 DEF Return
<1>5. DOMAIN stack = 1 .. n /\ DOMAIN stack' = 1 .. n - 1
  BY <1>1, <1>2, <1>3, <1>4 DEF TypeOK
<1>6. stack[n] = f /\ n \in DOMAIN stack
  BY <1>2, <1>5 DEF Frame
<1>7. f.h \in Handle /\ n \in Inside(f.h)
  BY <1>4, <1>6 DEF Inside, IInv, EntersObjects
<1>8. Inside(f.h)' = Inside(f.h) \ {n}
  <2>1. ASSUME NEW k PROVE k \in Inside(f.h)' <=> k \in Inside(f.h) \ {n}
    <3>1. CASE k \in 1 .. n - 1
      BY <1>2, <1>3, <1>4, <1>5, <3>1 DEF Inside
    <3>2. CASE k \notin 1 .. n - 1
      BY <1>2, <1>5, <3>2 DEF Inside
    <3> QED BY <3>1, <3>2
  <2> QED BY <2>1
<1>9. ASSUME NEW h \in Handle, h # f.h PROVE Inside(h)' = Inside(h)
  BY <1>2, <1>3, <1>4, <1>5, <1>6, <1>9 DEF Inside
<1>10. /\ query.kind \notin ByAddress
       /\ \A h \in Handle : locks[h] = Cardinality(Inside(h)) + 0
  BY <1>1, OnlyCallsHold
<1>11. Cardinality(Inside(f.h)') = Cardinality(Inside(f.h)) - 1
  BY <1>1, <1>7, <1>8, InsideFinite, OneLess
<1>12. locks \in [Handle -> Nat] /\ locks' = [locks EXCEPT ![f.h] = @ - 1]
  BY <1>1, <1>2 DEF TypeOK, Return
<1>13. ASSUME NEW h \in Handle PROVE locks'[h] = Cardinality(Inside(h)') + 0
  <2>1. CASE h = f.h
    <3>1. locks'[f.h] = locks[f.h] - 1 /\ locks[f.h] \in Nat
      BY <1>7, <1>12
    <3>2. locks[f.h] = Cardinality(Inside(f.h)) + 0
      BY <1>7, <1>10
    <3>3. locks'[f.h] = Cardinality(Inside(f.h)') + 0
      BY <1>1, <1>11, <3>1, <3>2, InsideFinite
    <3> QED BY <2>1, <3>3
  <2>2. CASE h # f.h
    BY <1>9, <1>10, <1>12, <2>2
  <2> QED BY <2>1, <2>2
<1>14. pc' = "deps"
       /\ UNCHANGED <<query, world, i, queue, current, result, words, crashed>>
  BY <1>1 DEF Return
<1>15. LocksBalanced' /\ KindsApart'
  BY <1>10, <1>13, <1>14, CallsHoldAll
<1>16. locks[f.h] - 1 \in Nat
  BY <1>7, LockedInside
<1>17. locks' \in [Handle -> Nat]
  BY <1>12, <1>16
<1>18. TypeOK'
  BY <1>1, <1>3, <1>4, <1>14, <1>17 DEF TypeOK
<1>19. EntersObjects'
  BY <1>3, <1>4, <1>5 DEF IInv, EntersObjects
<1> QED BY <1>14, <1>15, <1>18, <1>19 DEF IInv, StackUsed, PushesDeps

(* A dependency that was not entered yet is not locked.                    *)
LEMMA DescendKeepsIInv == IInv /\ Descend => IInv'
<1> SUFFICES ASSUME IInv, Descend PROVE IInv'
  OBVIOUS
<1> USE DEF constant, searching, At
<1>1. TypeOK /\ stack # <<>> /\ pc = "deps"
  BY DEF IInv, Descend
<1>2. PICK n \in Nat \ {0}, f \in Frames, g \in Frames :
        n = Len(stack) /\ f = Frame /\ g = [h |-> f.h, i |-> f.i + 1]
  <2>1. Len(stack) \in Nat \ {0} /\ Frame \in Frames
    BY <1>1, TopOfStack
  <2>2. Frame.h \in Handle \cup {Main} /\ Frame.i + 1 \in Nat
    BY <2>1 DEF Frames
  <2>3. [h |-> Frame.h, i |-> Frame.i + 1] \in Frames
    BY <2>2 DEF Frames
  <2> QED BY <2>1, <2>3
<1>3. /\ Below \in Seq(Frames) /\ Len(Below) = n - 1
      /\ \A k \in 1 .. n - 1 : Below[k] = stack[k]
  BY <1>1, <1>2, TopOfStack
<1>4. stack \in Seq(Frames) /\ DOMAIN stack = 1 .. n /\ stack[n] = f
  BY <1>1, <1>2 DEF TypeOK, Frame
<1>5. f.i \in Nat /\ f.i > 0 /\ f.h \in Handle
  BY <1>2, <1>4 DEF Descend, Frames, IInv, EntersObjects
<1>6. world.deps[f.h] \in Seq(Handle \cup {Main}) /\ f.i \in 1 .. Len(world.deps[f.h])
  <2>1. world.deps \in [Handle -> Seq(Handle \cup {Main})]
    BY <1>1 DEF TypeOK, World
  <2>2. f.i <= Len(world.deps[f.h])
    BY <1>2 DEF Descend, DepsLeft
  <2>3. world.deps[f.h] \in Seq(Handle \cup {Main})
    BY <1>5, <2>1
  <2> QED BY <1>5, <2>2, <2>3
<1>7. PICK d \in Handle \cup {Main} : d = world.deps[f.h][f.i]
  BY <1>6
<1>8. [Frame EXCEPT !.i = @ + 1] = g /\ g.h = f.h /\ g.i = f.i + 1
  BY <1>2 DEF Frames
<1>9. PICK e \in Frames : e = [h |-> d, i |-> 0]
  BY DEF Frames
<1>10. stack' = Append(Append(Below, g), e) /\ e.i = 0
  BY <1>2, <1>7, <1>8, <1>9 DEF Descend
<1>11. /\ Append(Below, g) \in Seq(Frames) /\ Len(Append(Below, g)) = n
       /\ \A k \in 1 .. n - 1 : Append(Below, g)[k] = stack[k]
       /\ Append(Below, g)[n] = g
  BY <1>2, <1>3
<1>12. /\ stack' \in Seq(Frames) /\ Len(stack') = n + 1
       /\ \A k \in 1 .. n - 1 : stack'[k] = stack[k]
       /\ stack'[n] = g /\ stack'[n + 1] = e
  BY <1>2, <1>10, <1>11
<1>13. DOMAIN stack' = 1 .. n + 1
  BY <1>2, <1>12
<1>14. ASSUME NEW h \in Handle PROVE Inside(h)' = Inside(h)
  <2>1. ASSUME NEW k PROVE k \in Inside(h)' <=> k \in Inside(h)
    <3>1. CASE k \in 1 .. n - 1
      BY <1>2, <1>4, <1>12, <1>13, <3>1 DEF Inside
    <3>2. CASE k = n
      BY <1>2, <1>4, <1>5, <1>8, <1>12, <1>13, <3>2 DEF Inside
    <3>3. CASE k = n + 1
      BY <1>2, <1>4, <1>10, <1>12, <1>13, <3>3 DEF Inside
    <3>4. CASE k \notin 1 .. n + 1
      BY <1>2, <1>4, <1>13, <3>4 DEF Inside
    <3> QED BY <1>2, <3>1, <3>2, <3>3, <3>4
  <2> QED BY <2>1
<1>15. pc' = "deps"
       /\ UNCHANGED <<query, world, i, queue, current, locks, result, words, crashed>>
  BY <1>1 DEF Descend
<1>16. /\ query.kind \notin ByAddress
       /\ \A h \in Handle : locks[h] = Cardinality(Inside(h)) + 0
  BY <1>1, OnlyCallsHold
<1>17. \A h \in Handle : locks'[h] = Cardinality(Inside(h)') + 0
  BY <1>14, <1>15, <1>16
<1>18. LocksBalanced' /\ KindsApart'
  BY <1>15, <1>16, <1>17, CallsHoldAll
<1>19. TypeOK'
  BY <1>1, <1>12, <1>15 DEF TypeOK
<1>20. EntersObjects'
  <2>1. ASSUME NEW k \in 1 .. n + 1, stack'[k].i > 0 PROVE stack'[k].h \in Handle
    <3>1. CASE k \in 1 .. n - 1
      BY <1>2, <1>4, <1>12, <2>1, <3>1 DEF IInv, EntersObjects
    <3>2. CASE k = n
      BY <1>5, <1>8, <1>12, <3>2
    <3>3. CASE k = n + 1
      BY <1>10, <1>12, <2>1, <3>3
    <3> QED BY <1>2, <3>1, <3>2, <3>3
  <2> QED BY <1>13, <2>1 DEF EntersObjects
<1> QED BY <1>15, <1>18, <1>19, <1>20 DEF IInv, StackUsed, PushesDeps

(* The remaining steps of the recursion.                                   *)
LEMMA DepsKeepIInv == IInv /\ (VisitMain \/ DepsSearched) => IInv'
<1> SUFFICES ASSUME IInv, VisitMain \/ DepsSearched PROVE IInv'
  OBVIOUS
<1> USE DEF constant, searching, At
<1>1. TypeOK /\ StackUsed /\ EntersObjects /\ pc = "deps"
  BY DEF IInv, VisitMain, DepsSearched
<1>2. UNCHANGED <<world, query, i, stack, queue, current, locks, result, words>>
  BY DEF VisitMain, DepsSearched
<1>3. /\ pc' \in {"deps", "apply"} /\ crashed' \in BOOLEAN
      /\ stack # <<>> => pc' = "deps"
  BY <1>1 DEF VisitMain, DepsSearched, TypeOK
<1>4. TypeOK'
  BY <1>1, <1>2, <1>3 DEF TypeOK, Stages
<1>5. LocksBalanced' /\ KindsApart'
  BY <1>1, <1>2, <1>3, NothingHeld
<1> QED BY <1>1, <1>2, <1>3, <1>4, <1>5 DEF IInv, StackUsed, PushesDeps, EntersObjects

(* dlsym of a handle and the searches by address make no calls: what they  *)
(* hold is one lock.                                                       *)
LEMMA QueueLocks ==
  ASSUME IInv, pc \in {"start", "pop", "push", "range", "value"}
  PROVE  /\ stack = <<>> /\ \A h \in Handle : Inside(h) = {}
         /\ \A h \in Handle : locks[h] = IF Holds(h) THEN 1 ELSE 0
<1>1. stack = <<>>
  BY DEF IInv, StackUsed
<1>2. \A h \in Handle : Inside(h) = {}
  BY <1>1 DEF Inside
<1>3. \A h \in Handle : locks[h] = Cardinality(Inside(h)) + IF Holds(h) THEN 1 ELSE 0
  BY DEF IInv, LocksBalanced, Inside
<1>4. Cardinality({}) = 0
  BY FS_EmptySet
<1>5. ASSUME NEW h \in Handle
      PROVE  locks[h] = IF Holds(h) THEN 1 ELSE 0
  <2>1. locks[h] = 0 + IF Holds(h) THEN 1 ELSE 0
    BY <1>2, <1>3, <1>4
  <2> QED BY <2>1
<1> QED BY <1>1, <1>2, <1>5

(* A step that leaves the stack empty keeps the balance if what it has     *)
(* locked then is what it holds then.                                      *)
LEMMA QueueBalanced ==
  ASSUME stack' = <<>>,
         \A h \in Handle : locks'[h] = IF Holds(h)' THEN 1 ELSE 0
  PROVE  LocksBalanced' /\ EntersObjects' /\ StackUsed'
<1>1. \A h \in Handle : Inside(h)' = {}
  BY DEF Inside
<1>2. Cardinality({}) = 0
  BY FS_EmptySet
<1>3. \A h \in Handle :
        locks'[h] = Cardinality(Inside(h)') + IF Holds(h)' THEN 1 ELSE 0
  <2>1. ASSUME NEW h \in Handle
        PROVE  locks'[h] = 0 + IF Holds(h)' THEN 1 ELSE 0
    OBVIOUS
  <2> QED BY <1>1, <1>2, <2>1
<1>4. LocksBalanced'
  BY <1>3 DEF LocksBalanced, Inside
<1> QED BY <1>4 DEF EntersObjects, StackUsed

LEMMA StartKeepsIInv == IInv /\ Start => IInv'
<1> SUFFICES ASSUME IInv, Start PROVE IInv'
  OBVIOUS
<1> USE DEF constant, searching, At, Lock
<1>1. TypeOK /\ pc = "start" /\ pc' = "pop"
  BY DEF IInv, Start
<1>2. UNCHANGED <<world, query, i, stack, current, result, words, crashed>>
      /\ query.kind \notin ByAddress
  BY DEF Start, IInv, KindsApart
<1>3. query.h \in Handle
  BY <1>1 DEF TypeOK, Query
<1>4. PICK stale \in [0 .. MaxHandles - 1 -> Handle \cup {Junk}] :
        queue' = Pushed(EmptyQueue(stale), query.h)
  BY DEF Start
<1>5. EmptyQueue(stale) \in Queues
  BY SearchAssumption DEF EmptyQueue, Queues
<1>6. queue' \in Queues
  BY <1>3, <1>4, <1>5, QueueKept
<1>7. locks \in [Handle -> Nat] /\ locks' = [locks EXCEPT ![query.h] = @ + 1]
  BY <1>1 DEF TypeOK, Start
<1>8. /\ stack' = <<>>
      /\ \A h \in Handle : locks[h] = 0
      /\ \A h \in Handle : Holds(h)' <=> h = query.h
  BY <1>1, <1>2, QueueLocks DEF Holds
<1>9. \A h \in Handle : locks'[h] = IF Holds(h)' THEN 1 ELSE 0
  BY <1>3, <1>7, <1>8
<1>10. LocksBalanced' /\ EntersObjects' /\ StackUsed'
  BY <1>8, <1>9, QueueBalanced
<1>11. locks' \in [Handle -> Nat]
  BY <1>3, <1>7
<1>12. TypeOK'
  BY <1>1, <1>2, <1>6, <1>11 DEF TypeOK, Queues, Stages
<1> QED BY <1>1, <1>2, <1>10, <1>12 DEF IInv, PushesDeps, KindsApart

LEMMA PopKeepsIInv == IInv /\ (PopCrashes \/ Pop \/ QueueEmpty) => IInv'
<1> SUFFICES ASSUME IInv, PopCrashes \/ Pop \/ QueueEmpty PROVE IInv'
  OBVIOUS
<1> USE DEF constant, searching, At, Done, Unlock
<1>1. TypeOK /\ pc = "pop" /\ stack = <<>>
  BY QueueLocks DEF IInv, PopCrashes, Pop, QueueEmpty
<1>2. query.h \in Handle /\ queue \in Queues /\ locks \in [Handle -> Nat]
  BY <1>1 DEF TypeOK, Query, Queues
<1>3. /\ query.kind \notin ByAddress
      /\ \A h \in Handle : locks[h] = IF h = query.h THEN 1 ELSE 0
  BY <1>1, QueueLocks DEF Holds, IInv, KindsApart
<1>4. UNCHANGED <<world, query, stack, words>>
  BY DEF PopCrashes, Pop, QueueEmpty
<1>5. CASE PopCrashes
  <2>1. UNCHANGED <<pc, i, queue, current, locks, result>> /\ crashed' = TRUE
    BY <1>5 DEF PopCrashes
  <2>2. LocksBalanced'
    <3>1. \A h \in Handle : Holds(h)' <=> Holds(h)
      BY <1>4, <2>1 DEF Holds
    <3> QED BY <1>4, <2>1, <3>1, LocksKept
  <2>3. TypeOK'
    BY <1>1, <1>4, <2>1 DEF TypeOK
  <2> QED BY <1>1, <1>4, <2>1, <2>2, <2>3
      DEF IInv, StackUsed, PushesDeps, EntersObjects, KindsApart
<1>6. CASE QueueEmpty
  <2>1. /\ UNCHANGED <<i, queue, current, crashed>>
        /\ locks' = [locks EXCEPT ![query.h] = @ - 1]
        /\ pc' \in {"done", "apply"} /\ result' = NotFound
    BY <1>6 DEF QueueEmpty
  <2>2. \A h \in Handle : locks'[h] = 0 /\ ~Holds(h)'
    <3>1. \A h \in Handle : ~Holds(h)'
      BY <1>3, <1>4, <2>1 DEF Holds, ByAddress
    <3> QED BY <1>2, <1>3, <2>1, <3>1
  <2>3. LocksBalanced' /\ EntersObjects' /\ StackUsed'
    BY <1>1, <1>4, <2>1, <2>2, QueueBalanced
  <2>4. locks' \in [Handle -> Nat]
    BY <1>2, <2>1, <2>2
  <2>5. TypeOK'
    BY <1>1, <1>4, <2>1, <2>4 DEF TypeOK, NotFound, Provider, Stages
  <2> QED BY <1>3, <1>4, <2>1, <2>3, <2>5 DEF IInv, PushesDeps, KindsApart
<1>7. CASE Pop
  <2>1. PICK h \in Handle : h = queue.deps[queue.index]
    BY <1>7 DEF Pop
  <2>2. /\ current' = h /\ queue' = Popped(queue)
        /\ i' = 1 /\ UNCHANGED crashed
        /\ queue.size > 0
    BY <1>7, <2>1 DEF Pop
  <2>3. queue' \in Queues
    BY <1>2, <2>2, QueueKept
  <2>4. CASE HasSymbol(h)
    <3>1. /\ locks' = [locks EXCEPT ![query.h] = @ - 1]
          /\ pc' \in {"done", "apply"} /\ result' = [by |-> h, base |-> query.h]
      BY <1>7, <2>1, <2>4 DEF Pop
    <3>2. \A g \in Handle : locks'[g] = 0 /\ ~Holds(g)'
      <4>1. \A g \in Handle : ~Holds(g)'
        BY <1>3, <1>4, <3>1 DEF Holds, ByAddress
      <4> QED BY <1>2, <1>3, <3>1, <4>1
    <3>3. LocksBalanced' /\ EntersObjects' /\ StackUsed'
      BY <1>1, <1>4, <3>1, <3>2, QueueBalanced
    <3>4. locks' \in [Handle -> Nat]
      BY <1>2, <3>1, <3>2
    <3>5. TypeOK'
      BY <1>1, <1>2, <1>4, <2>2, <2>3, <3>1, <3>4 DEF TypeOK, Queues, Provider, Stages
    <3> QED BY <1>3, <1>4, <3>1, <3>3, <3>5 DEF IInv, PushesDeps, KindsApart
  <2>5. CASE ~HasSymbol(h)
    <3>1. pc' = "push" /\ UNCHANGED <<locks, result>>
      BY <1>7, <2>1, <2>5 DEF Pop
    <3>2. LocksBalanced'
      <4>1. \A g \in Handle : Holds(g)' <=> Holds(g)
        BY <1>1, <1>4, <3>1 DEF Holds
      <4> QED BY <1>4, <3>1, <4>1, LocksKept
    <3>3. TypeOK'
      BY <1>1, <1>4, <2>2, <2>3, <3>1 DEF TypeOK, Queues, Stages
    <3> QED BY <1>1, <1>3, <1>4, <2>2, <3>1, <3>2, <3>3
        DEF IInv, StackUsed, PushesDeps, EntersObjects, KindsApart
  <2> QED BY <2>4, <2>5
<1> QED BY <1>5, <1>6, <1>7

LEMMA PushKeepsIInv == IInv /\ (PushDep \/ DepsPushed) => IInv'
<1> SUFFICES ASSUME IInv, PushDep \/ DepsPushed PROVE IInv'
  OBVIOUS
<1> USE DEF constant, searching, At
<1>1. TypeOK /\ pc = "push" /\ stack = <<>> /\ current \in Handle
  BY QueueLocks DEF IInv, PushesDeps, PushDep, DepsPushed
<1>2. UNCHANGED <<world, query, stack, current, locks, result, words, crashed>>
      /\ pc' \in {"pop", "push"} /\ query.kind \notin ByAddress
  BY <1>1 DEF PushDep, DepsPushed, IInv, KindsApart
<1>3. LocksBalanced'
  <2>1. \A h \in Handle : Holds(h)' <=> Holds(h)
    BY <1>1, <1>2 DEF Holds
  <2> QED BY <1>2, <2>1, LocksKept
<1>4. queue \in Queues /\ i \in Nat \ {0}
  BY <1>1 DEF TypeOK, Queues
<1>5. queue' \in Queues /\ i' \in Nat \ {0}
  <2>1. CASE PushDep
    <3>1. world.deps[current] \in Seq(Handle \cup {Main})
      BY <1>1 DEF TypeOK, World
    <3>2. i \in 1 .. Len(world.deps[current])
      BY <1>4, <2>1, <3>1 DEF PushDep
    <3>3. world.deps[current][i] \in Handle \cup {Main}
      BY <3>1, <3>2
    <3>4. queue' = Pushed(queue, world.deps[current][i]) /\ i' = i + 1
      BY <2>1 DEF PushDep
    <3> QED BY <1>4, <3>3, <3>4, QueueKept
  <2>2. CASE DepsPushed
    BY <1>4, <2>2 DEF DepsPushed
  <2> QED BY <2>1, <2>2
<1>6. TypeOK'
  BY <1>1, <1>2, <1>5 DEF TypeOK, Queues, Stages
<1> QED BY <1>1, <1>2, <1>3, <1>6
    DEF IInv, StackUsed, PushesDeps, EntersObjects, KindsApart

(* The searches by address: an object that is found gets locked, for the   *)
(* time of the search by value or for the caller.                          *)
LEMMA AddressKeepsIInv == IInv /\ (AskRange \/ NoRange \/ AskValue) => IInv'
<1> SUFFICES ASSUME IInv, AskRange \/ NoRange \/ AskValue PROVE IInv'
  OBVIOUS
<1> USE DEF constant, searching, At, Lock, Unlock
<1>1. /\ TypeOK /\ pc \in {"range", "value"} /\ stack = <<>>
      /\ \A h \in Handle : locks[h] = IF Holds(h) THEN 1 ELSE 0
  BY QueueLocks DEF IInv, AskRange, NoRange, AskValue
<1>2. UNCHANGED <<world, query, stack, queue, words, crashed>>
  BY DEF AskRange, NoRange, AskValue
<1>3. /\ query.kind \in ByAddress /\ locks \in [Handle -> Nat]
      /\ i \in Nat \ {0} /\ world.order \in Seq(Handle)
      /\ world.chain \in [Handle -> Seq(Entry)]
  BY <1>1 DEF IInv, KindsApart, TypeOK, World
<1>4. CASE AskRange
  <2>1. i \in 1 .. Len(world.order) /\ pc = "range" /\ current = Nobody
    BY <1>3, <1>4 DEF AskRange, IInv, KindsApart
  <2>2. PICK h \in Handle : h = world.order[i]
    BY <1>3, <2>1
  <2>3. Nobody \notin Handle /\ \A g \in Handle : locks[g] = 0
    BY <1>1, <2>1, SearchAssumption DEF Holds
  <2>4. CASE InRange(h)
    <3>1. /\ current' = h /\ locks' = [locks EXCEPT ![h] = @ + 1] /\ i' = i
          /\ \/ query.kind = "dladdr" /\ pc' = "value" /\ result' = result
             \/ query.kind # "dladdr" /\ pc' = "done" /\ result' = FoundIn(h)
      BY <1>4, <2>2, <2>4 DEF AskRange
    <3>2. \A g \in Handle : Holds(g)' <=> g = h
      BY <1>2, <1>3, <3>1 DEF Holds, ByAddress
    <3>3. \A g \in Handle : locks'[g] = IF Holds(g)' THEN 1 ELSE 0
      BY <1>3, <2>3, <3>1, <3>2
    <3>4. LocksBalanced' /\ EntersObjects' /\ StackUsed'
      BY <1>1, <1>2, <3>3, QueueBalanced
    <3>5. locks' \in [Handle -> Nat]
      BY <1>3, <3>1
    <3>6. TypeOK'
      BY <1>1, <1>2, <3>1, <3>5 DEF TypeOK, Stages, FoundIn, Provider
    <3> QED BY <1>2, <1>3, <3>1, <3>4, <3>6 DEF IInv, PushesDeps, KindsApart
  <2>5. CASE ~InRange(h)
    <3>1. i' = i + 1 /\ UNCHANGED <<pc, current, locks, result>>
      BY <1>4, <2>2, <2>5 DEF AskRange
    <3>2. \A g \in Handle : Holds(g)' <=> Holds(g)
      BY <1>2, <3>1 DEF Holds
    <3>3. LocksBalanced'
      BY <1>2, <3>1, <3>2, LocksKept
    <3>4. TypeOK'
      BY <1>1, <1>2, <1>3, <3>1 DEF TypeOK
    <3> QED BY <1>1, <1>2, <1>3, <2>1, <3>1, <3>3, <3>4
        DEF IInv, StackUsed, PushesDeps, EntersObjects, KindsApart
  <2> QED BY <2>4, <2>5
<1>5. CASE NoRange
  <2>1. /\ pc = "range" /\ current = Nobody /\ pc' = "done"
        /\ UNCHANGED <<i, current, locks>>
        /\ result' \in {Process, NotFound, Leftover}
    BY <1>5 DEF NoRange, Outside, IInv, KindsApart, ByAddress
  <2>2. \A h \in Handle : ~Holds(h) /\ ~Holds(h)'
    BY <2>1, SearchAssumption DEF Holds
  <2>3. LocksBalanced'
    BY <1>2, <2>1, <2>2, LocksKept
  <2>4. TypeOK'
    BY <1>1, <1>2, <2>1 DEF TypeOK, Stages, Process, NotFound, Leftover, Provider
  <2> QED BY <1>1, <1>2, <2>1, <2>3, <2>4
      DEF IInv, StackUsed, PushesDeps, EntersObjects, KindsApart
<1>6. CASE AskValue
  <2>1. /\ pc = "value" /\ query.kind = "dladdr" /\ current \in Handle
        /\ pc' = "done" /\ locks' = [locks EXCEPT ![current] = @ - 1]
        /\ UNCHANGED current
    BY <1>6 DEF AskValue, IInv, KindsApart
  <2>2. \A h \in Handle : locks[h] = IF h = current THEN 1 ELSE 0
    BY <1>1, <2>1 DEF Holds
  <2>3. \A h \in Handle : locks'[h] = 0 /\ ~Holds(h)'
    <3>1. \A h \in Handle : ~Holds(h)'
      BY <1>2, <2>1 DEF Holds
    <3> QED BY <1>3, <2>1, <2>2, <3>1
  <2>4. LocksBalanced' /\ EntersObjects' /\ StackUsed'
    BY <1>1, <1>2, <2>3, QueueBalanced
  <2>5. locks' \in [Handle -> Nat]
    BY <1>3, <2>1, <2>3
  <2>6. i' \in Nat \ {0} /\ result' \in [by : Provider, base : Provider]
    <3>1. Values(current) \subseteq Nat \ {0}
      BY <1>3, <2>1 DEF Values
    <3> QED BY <1>3, <1>6, <2>1, <3>1 DEF AskValue, FoundIn, Provider
  <2>7. TypeOK'
    BY <1>1, <1>2, <2>1, <2>5, <2>6 DEF TypeOK, Stages
  <2> QED BY <1>2, <1>3, <2>1, <2>4, <2>7 DEF IInv, PushesDeps, KindsApart
<1> QED BY <1>4, <1>5, <1>6

LEMMA StepIInv == IInv /\ [Next]_vars => IInv'
<1> SUFFICES ASSUME IInv, [Next]_vars PROVE IInv'
  OBVIOUS
<1>1. CASE Search
  BY <1>1, RelocsKeepIInv, AddressKeepsIInv, ScopesKeepIInv, DepsKeepIInv, VisitKeepsIInv, DescendKeepsIInv,
     ReturnKeepsIInv, StartKeepsIInv, PopKeepsIInv, PushKeepsIInv DEF Search
<1>2. CASE UNCHANGED vars
  <2>1. UNCHANGED <<world, query, pc, i, stack, queue, current, locks, result,
                    words, crashed>>
    BY <1>2 DEF vars
  <2>2. LocksBalanced'
    <3>1. \A h \in Handle : Holds(h)' <=> Holds(h)
      BY <2>1 DEF Holds
    <3> QED BY <2>1, <3>1, LocksKept
  <2> QED BY <2>1, <2>2
      DEF IInv, TypeOK, StackUsed, PushesDeps, EntersObjects, KindsApart
<1> QED BY <1>1, <1>2 DEF Next, Over

(* Every variable of a search keeps its type, whatever the objects need    *)
(* and however many there are: the size and the index of the queue stay    *)
(* inside of it, and no lock is given back that was not taken.             *)
THEOREM SearchTypes == Spec => []TypeOK
<1>1. IInv => TypeOK
  BY DEF IInv
<1> QED BY <1>1, InitIInv, StepIInv, PTL DEF Spec

(* A search gives back every reference it takes: at every moment it holds  *)
(* one of each object it is inside of, and none of any other.              *)
THEOREM SearchLocks == Spec => []LocksBalanced
<1>1. IInv => LocksBalanced
  BY DEF IInv
<1> QED BY <1>1, InitIInv, StepIInv, PTL DEF Spec

-----------------------------------------------------------------------------
(* What is pushed first is popped first.                                   *)
LEMMA FirstPushed ==
  ASSUME NEW stale \in [0 .. MaxHandles - 1 -> Handle \cup {Junk}], NEW h
  PROVE  LET q == Pushed(EmptyQueue(stale), h)
         IN q.size = 1 /\ q.index = 0 /\ q.deps[0] = h
<1> DEFINE e == EmptyQueue(stale)
<1>1. MaxHandles \in Nat \ {0} /\ 0 \in 0 .. MaxHandles - 1
  BY SearchAssumption
<1>2. e = [deps |-> stale, size |-> 0, index |-> 0]
  BY DEF EmptyQueue
<1>3. ~(e.size >= MaxHandles \/ Queued(e, h))
  BY <1>1, <1>2 DEF Queued
<1>4. 0 % MaxHandles = 0
  BY <1>1
<1>5. Pushed(e, h) = [e EXCEPT !.deps[e.size % MaxHandles] = h, !.size = @ + 1]
  BY <1>3 DEF Pushed
<1>6. e.deps = stale /\ e.size = 0 /\ e.index = 0
  BY <1>2
<1> HIDE DEF e
<1>7. Pushed(e, h) = [e EXCEPT !.deps[0] = h, !.size = @ + 1]
  BY <1>4, <1>5, <1>6
<1>8. /\ [e EXCEPT !.deps[0] = h, !.size = @ + 1].size = 1
      /\ [e EXCEPT !.deps[0] = h, !.size = @ + 1].index = 0
      /\ [e EXCEPT !.deps[0] = h, !.size = @ + 1].deps[0] = h
  BY <1>1, <1>2, <1>6
<1> QED BY <1>7, <1>8 DEF e

LEMMA InitOwnQueued == Init => OwnQueued
BY DEF Init, OwnQueued, ByAddress

LEMMA StepOwnQueued == IInv /\ OwnQueued /\ [Next]_vars => OwnQueued'
<1> SUFFICES ASSUME IInv, OwnQueued, [Next]_vars,
                    query'.kind = "handle", HasSymbol(query.h)'
             PROVE  OwnQueued'
  BY DEF OwnQueued
<1> USE DEF constant, searching, At, Done
<1>1. UNCHANGED <<world, query>>
  BY DEF Next, Search, Over, vars, AskResolver, AskProgram, AskGlobal, NoGlobal,
         AskSelf, VisitMain, Visit, Descend, Return, DepsSearched, Start,
         PopCrashes, Pop, PushDep, DepsPushed, QueueEmpty, NextReloc,
         RelocsDone, Apply, RelocFails, AskRange, NoRange, AskValue
<1>2. query.kind = "handle" /\ HasSymbol(query.h)
  BY <1>1 DEF HasSymbol, Has, Listed, Sought
<1>3. ~crashed /\ pc \in {"start", "pop", "done"}
  BY <1>2 DEF OwnQueued
<1>4. query.h \in Handle /\ query.h \notin {Main, Junk}
  BY SearchAssumption DEF IInv, TypeOK, Query
<1>5. CASE Start
  <2>1. PICK stale \in [0 .. MaxHandles - 1 -> Handle \cup {Junk}] :
          queue' = Pushed(EmptyQueue(stale), query.h)
    BY <1>5 DEF Start
  <2>2. queue'.size = 1 /\ queue'.index = 0 /\ queue'.deps[0] = query.h
    BY <2>1, FirstPushed
  <2> QED BY <1>1, <1>3, <1>5, <2>2 DEF Start, OwnQueued
<1>6. CASE Pop
  <2>1. queue.deps[queue.index] = query.h
    BY <1>2, <1>6 DEF Pop, OwnQueued
  <2>2. pc' = "done" /\ result' = FoundIn(query.h) /\ UNCHANGED crashed
    BY <1>2, <1>6, <2>1 DEF Pop, FoundIn
  <2>3. FoundIn(query.h)' = FoundIn(query.h)
    BY <1>1 DEF FoundIn
  <2> QED BY <1>3, <2>2, <2>3 DEF OwnQueued
<1>7. ~PopCrashes /\ ~QueueEmpty
  BY <1>2, <1>4 DEF PopCrashes, QueueEmpty, OwnQueued
<1>8. CASE UNCHANGED vars
  BY <1>1, <1>2, <1>8 DEF vars, OwnQueued, FoundIn
<1>9. ~(\/ AskResolver \/ AskProgram \/ AskGlobal \/ NoGlobal \/ AskSelf
        \/ VisitMain \/ Visit \/ Descend \/ Return \/ DepsSearched
        \/ PushDep \/ DepsPushed \/ NextReloc \/ RelocsDone \/ Apply
        \/ RelocFails \/ AskRange \/ NoRange \/ AskValue)
  BY <1>3 DEF AskResolver, AskProgram, AskGlobal, NoGlobal, AskSelf, VisitMain,
              Visit, Descend, Return, DepsSearched, PushDep, DepsPushed,
              NextReloc, RelocsDone, Apply, RelocFails, AskRange, NoRange, AskValue
<1> QED BY <1>5, <1>6, <1>7, <1>8, <1>9 DEF Next, Search, Over

(* dlsym of an object that has the symbol finds it there, with any size of *)
(* the queue, whatever was on the stack and whatever the objects need.     *)
THEOREM OwnSymbolFound == Spec => []OwnSymbolFirst
<1>1. OwnQueued => OwnSymbolFirst
  BY DEF OwnQueued, OwnSymbolFirst
<1> QED BY <1>1, InitIInv, StepIInv, InitOwnQueued, StepOwnQueued, PTL DEF Spec

-----------------------------------------------------------------------------
(* A search by address knows of the objects it walked past that they do    *)
(* not have the address, and of the one it locked that it does.            *)
AddressInv ==
  /\ Apart(world)
  /\ pc = "range" =>
       \A k \in DOMAIN world.order : k < i => ~InRange(world.order[k])
  /\ pc = "value" => InRange(current)
  /\ AddressFound

(* The objects apart, an address is in no more than one of them.           *)
LEMMA FoundIsIt ==
  ASSUME IInv, Apart(world), NEW h \in Handle, InRange(h)
  PROVE  /\ Covers(h) \/ EndsThere(h)
         /\ \A g \in Handle :
              Covers(g) /\ g \notin world.loading => h = g \/ EndsThere(h)
<1>1. /\ query.addr \in Nat
      /\ world.base \in [Handle -> Nat] /\ world.size \in [Handle -> Nat]
  BY DEF IInv, TypeOK, World, Query
<1>2. \A g \in Handle : world.base[g] \in Nat /\ world.size[g] \in Nat
  BY <1>1
<1>3. query.addr >= world.base[h] /\ query.addr <= world.base[h] + world.size[h]
  BY DEF InRange
<1>4. Covers(h) \/ EndsThere(h)
  BY <1>1, <1>2, <1>3 DEF Covers, EndsThere
<1>5. ASSUME NEW g \in Handle, Covers(g), g \notin world.loading, ~EndsThere(h), g # h
      PROVE  FALSE
  <2>1. /\ query.addr >= world.base[g]
        /\ query.addr < world.base[g] + world.size[g]
        /\ query.addr < world.base[h] + world.size[h]
    BY <1>4, <1>5 DEF Covers
  <2>2. \/ world.base[g] + world.size[g] <= world.base[h]
        \/ world.base[h] + world.size[h] <= world.base[g]
    BY <1>5 DEF Apart
  <2> QED BY <1>1, <1>2, <1>3, <2>1, <2>2
<1> QED BY <1>4, <1>5

LEMMA InitAddressInv == Init => AddressInv
<1> SUFFICES ASSUME Init PROVE AddressInv
  OBVIOUS
<1>1. Apart(world)
  BY SearchAssumption DEF Init
<1>2. IInv
  BY InitIInv
<1>3. world.order \in Seq(Handle) /\ i = 1
  BY <1>2 DEF IInv, TypeOK, World, Init
<1>4. pc \notin {"done", "value"}
  BY DEF Init
<1> QED BY <1>1, <1>3, <1>4 DEF AddressInv, AddressFound

(* What is said of the result where an object is found.                    *)
LEMMA FoundAddress ==
  ASSUME IInv, IInv', UNCHANGED <<world, query>>, Apart(world),
         NEW h \in Handle, InRange(h), result'.base = h,
         query.kind = "dladdr" /\ h \notin world.loading =>
           /\ result'.by \in {Nobody, h}
           /\ result'.by = Nobody => Values(h) = {}
  PROVE  AddressFound'
<1> DEFINE Begins(k) ==
      LET e == world.chain[h][k]
      IN e.size > 0 /\ world.base[h] + e.value = query.addr
<1>1. /\ Covers(h) \/ EndsThere(h)
      /\ \A g \in Handle :
           Covers(g) /\ g \notin world.loading => h = g \/ EndsThere(h)
  BY FoundIsIt
<1>2. \A g \in Handle : Covers(g)' = Covers(g) /\ EndsThere(g)' = EndsThere(g)
  BY DEF Covers, EndsThere
<1>3. world.order \in Seq(Handle)
  BY DEF IInv, TypeOK, World
<1>4. \A n \in DOMAIN world.order : world.order[n] \in Handle
  BY <1>3
<1>5. ASSUME h \notin world.loading, NEW k \in DOMAIN world.chain[h],
             Begins(k), Values(h) = {}
      PROVE  FALSE
  <2>1. /\ world.chain[h] \in Seq(Entry) /\ query.addr \in Nat
        /\ world.base[h] \in Nat
    BY DEF IInv, TypeOK, World, Query
  <2>2. world.chain[h][k].value \in Nat /\ world.chain[h][k].size \in Nat
    <3>1. world.chain[h][k] \in Entry
      BY <1>5, <2>1
    <3> QED BY <3>1 DEF Entry
  <2>3. query.addr - world.base[h] = world.chain[h][k].value
    BY <1>5, <2>1, <2>2
  <2>4. /\ world.chain[h][k].value >= query.addr - world.base[h]
        /\ query.addr - world.base[h] < world.chain[h][k].value + world.chain[h][k].size
    BY <1>5, <2>2, <2>3
  <2>5. k \in Values(h)
    BY <1>5, <2>4 DEF Values
  <2> QED BY <1>5, <2>5
<1>6. /\ result'.base = h
      /\ \A k \in DOMAIN world.chain[h] :
           Values(h) = {} /\ h \notin world.loading => ~Begins(k)
  BY <1>5
<1>7. UNCHANGED <<world, query>>
  OBVIOUS
<1> QED BY <1>1, <1>2, <1>4, <1>6, <1>7 DEF AddressFound

LEMMA StepAddressInv ==
  IInv /\ AddressInv /\ [Next]_vars => AddressInv'
<1> SUFFICES ASSUME IInv, AddressInv, [Next]_vars PROVE AddressInv'
  OBVIOUS
<1> USE DEF constant, searching, At, Done
<1>0. IInv'
  BY StepIInv
<1>1. UNCHANGED <<world, query>>
  BY DEF Next, Search, Over, vars, AskResolver, AskProgram, AskGlobal, NoGlobal,
         AskSelf, VisitMain, Visit, Descend, Return, DepsSearched, Start,
         PopCrashes, Pop, PushDep, DepsPushed, QueueEmpty, NextReloc,
         RelocsDone, Apply, RelocFails, AskRange, NoRange, AskValue
<1>2. Apart(world) /\ Apart(world)'
  BY <1>1 DEF AddressInv, Apart
<1>3. \A h : InRange(h)' = InRange(h)
  BY <1>1 DEF InRange
<1>4. world.order \in Seq(Handle) /\ i \in Nat \ {0}
  BY DEF IInv, TypeOK, World
<1>5. CASE AskRange
  <2>1. i \in 1 .. Len(world.order) /\ pc = "range"
    BY <1>4, <1>5 DEF AskRange
  <2>2. PICK h \in Handle : h = world.order[i]
    BY <1>4, <2>1
  <2>3. CASE InRange(h)
    <3>1. CASE query.kind = "dladdr"
      <4>1. pc' = "value" /\ current' = h
        BY <1>5, <2>2, <2>3, <3>1 DEF AskRange
      <4> QED BY <1>2, <1>3, <2>3, <4>1 DEF AddressInv, AddressFound
    <3>2. CASE query.kind # "dladdr"
      <4>1. pc' = "done" /\ result' = FoundIn(h)
        BY <1>5, <2>2, <2>3, <3>2 DEF AskRange
      <4>2. result'.base = h
        BY <4>1 DEF FoundIn
      <4>3. AddressFound'
        BY <1>0, <1>1, <1>2, <2>3, <3>2, <4>2, FoundAddress
      <4> QED BY <1>2, <4>1, <4>3 DEF AddressInv
    <3> QED BY <3>1, <3>2
  <2>4. CASE ~InRange(h)
    <3>1. i' = i + 1 /\ pc' = "range"
      BY <1>5, <2>1, <2>2, <2>4 DEF AskRange
    <3>2. \A k \in DOMAIN world.order : k < i => ~InRange(world.order[k])
      BY <2>1 DEF AddressInv
    <3>3. ASSUME NEW k \in DOMAIN world.order, k < i + 1
          PROVE  ~InRange(world.order[k])
      <4>1. k \in Nat
        BY <1>4
      <4>2. CASE k < i
        BY <3>2, <4>2
      <4>3. CASE k = i
        BY <2>2, <2>4, <4>3
      <4> QED BY <1>4, <3>3, <4>1, <4>2, <4>3
    <3>4. \A k \in DOMAIN world'.order : k < i' => ~InRange(world.order[k])'
      <4>1. ASSUME NEW k \in DOMAIN world.order, k < i'
            PROVE  ~InRange(world.order[k])'
        <5>1. ~InRange(world.order[k])
          BY <3>1, <3>3, <4>1
        <5> QED BY <1>1, <5>1 DEF InRange
      <4> QED BY <1>1, <4>1
    <3> QED BY <1>2, <3>1, <3>4 DEF AddressInv, AddressFound
  <2> QED BY <2>3, <2>4
<1>6. CASE NoRange
  <2>1. /\ pc = "range" /\ pc' = "done" /\ result' \in {Process, NotFound, Leftover}
        /\ i > Len(world.order)
    BY <1>6 DEF NoRange, Outside, ByAddress, AddressInv, IInv, KindsApart
  <2>2. result'.base \notin Handle
    BY <2>1, SearchAssumption DEF Process, NotFound, Leftover
  <2>3. \A k \in DOMAIN world.order : ~InRange(world.order[k])
    <3>1. ASSUME NEW k \in DOMAIN world.order PROVE k < i
      BY <1>4, <2>1
    <3> QED BY <2>1, <3>1 DEF AddressInv
  <2>4. ASSUME NEW k \in DOMAIN world.order PROVE ~Covers(world.order[k])
    <3>1. world.order[k] \in Handle
      BY <1>4
    <3>2. PICK h \in Handle : h = world.order[k]
      BY <3>1
    <3>3. /\ query.addr \in Nat /\ world.base[h] \in Nat /\ world.size[h] \in Nat
      BY DEF IInv, TypeOK, World, Query
    <3>4. ~InRange(h)
      BY <2>3, <3>2
    <3>5. ~Covers(h)
      BY <3>3, <3>4 DEF Covers, InRange
    <3> QED BY <3>2, <3>5
  <2>5. \A k \in DOMAIN world'.order : ~Covers(world.order[k])'
    BY <1>1, <2>4 DEF Covers
  <2>6. AddressFound'
    BY <1>1, <2>2, <2>5 DEF AddressFound
  <2> QED BY <1>2, <2>1, <2>6 DEF AddressInv
<1>7. CASE AskValue
  <2>1. /\ pc = "value" /\ pc' = "done" /\ current \in Handle
        /\ \/ result' = [by |-> Nobody, base |-> current] /\ Values(current) = {}
           \/ result' = FoundIn(current)
    BY <1>7 DEF AskValue, IInv, KindsApart
  <2>2. InRange(current) /\ Nobody \notin Handle
    BY <2>1, SearchAssumption DEF AddressInv
  <2>3. /\ result'.base = current
        /\ result'.by \in {Nobody, current}
        /\ result'.by = Nobody => Values(current) = {}
    BY <2>1, <2>2 DEF FoundIn
  <2>4. AddressFound'
    BY <1>0, <1>1, <1>2, <2>1, <2>2, <2>3, FoundAddress
  <2> QED BY <1>2, <2>1, <2>4 DEF AddressInv
<1>8. CASE UNCHANGED vars
  BY <1>8 DEF vars, AddressInv, Apart, InRange, AddressFound, Covers, EndsThere
<1>9. CASE \/ AskResolver \/ AskProgram \/ AskGlobal \/ NoGlobal \/ AskSelf
          \/ VisitMain \/ Visit \/ Descend \/ Return \/ DepsSearched
          \/ Start \/ PopCrashes \/ Pop \/ PushDep \/ DepsPushed
          \/ QueueEmpty \/ NextReloc \/ RelocsDone \/ Apply \/ RelocFails
  <2>1. pc' \notin {"range", "value"}
    BY <1>9 DEF AskResolver, AskProgram, AskGlobal, NoGlobal,
         AskSelf, VisitMain, Visit, Descend, Return, DepsSearched, Start,
         PopCrashes, Pop, PushDep, DepsPushed, QueueEmpty, NextReloc,
         RelocsDone, Apply, RelocFails
  <2>2. pc \notin {"range", "value", "done"}
    BY <1>9 DEF AskResolver, AskProgram, AskGlobal, NoGlobal,
         AskSelf, VisitMain, Visit, Descend, Return, DepsSearched, Start,
         PopCrashes, Pop, PushDep, DepsPushed, QueueEmpty, NextReloc,
         RelocsDone, Apply, RelocFails
  <2>3. query'.kind \notin ByAddress
    BY <1>1, <2>2 DEF IInv, KindsApart
  <2> QED BY <1>2, <2>1, <2>3 DEF AddressInv, AddressFound
<1> QED BY <1>5, <1>6, <1>7, <1>8, <1>9 DEF Next, Search, Over

(* An address inside of an object is found to be in that one or in one     *)
(* that ends there, and one inside of none in none or in one that ends     *)
(* there, for any layout of any number of objects whose pages are apart;   *)
(* and dladdr misses no symbol that begins at the address.                 *)
THEOREM AddressesFound == Spec => []AddressFound
<1>1. AddressInv => AddressFound
  BY DEF AddressInv
<1> QED BY <1>1, InitIInv, StepIInv, InitAddressInv, StepAddressInv, PTL DEF Spec

-----------------------------------------------------------------------------
(* A set that has 0, and the successor of all it has, has all numbers.     *)
LEMMA AllNumbers ==
  ASSUME NEW S, 0 \in S, \A n \in Nat : n \in S => n + 1 \in S
  PROVE  \A n \in Nat : n \in S
<1> DEFINE T == Nat \ S
<1> SUFFICES ASSUME T # {} PROVE FALSE
  OBVIOUS
<1>0. T \subseteq Nat
  OBVIOUS
<1>1. PICK m \in T : \A y \in T : ~(<<y, m>> \in OpToRel(<, Nat))
  BY <1>0, NatLessThanWellFounded, WFMin
<1>2. \A y \in T : ~(y < m)
  BY <1>1 DEF OpToRel
<1>3. m \in Nat /\ m # 0 /\ m - 1 \in Nat
  OBVIOUS
<1>4. m - 1 \in S
  BY <1>2, <1>3
<1> QED BY <1>3, <1>4


(* A function can be applied any number of times.                          *)
Iteration(f, X, a, F) ==
  f \in [Nat -> X] /\ f[0] = a /\ \A n \in Nat : f[n + 1] = F[f[n]]

LEMMA Iterates ==
  ASSUME NEW X, NEW a \in X, NEW F \in [X -> X]
  PROVE  \E f : Iteration(f, X, a, F)
<1> DEFINE Upto(n, g) == g \in [0 .. n -> X] /\ g[0] = a
                         /\ \A k \in 0 .. n - 1 : g[k + 1] = F[g[k]]
           S == {n \in Nat : \E g : Upto(n, g)}
<1>1. 0 \in S
  <2>1. PICK g : g = [k \in 0 .. 0 |-> a]
    OBVIOUS
  <2>2. g \in [0 .. 0 -> X] /\ g[0] = a /\ \A k \in 0 .. 0 - 1 : g[k + 1] = F[g[k]]
    BY <2>1
  <2> QED BY <2>2
<1>2. ASSUME NEW n \in Nat, n \in S PROVE n + 1 \in S
  <2>1. PICK g : Upto(n, g)
    BY <1>2
  <2>2. PICK h : h = [k \in 0 .. n + 1 |-> IF k = n + 1 THEN F[g[n]] ELSE g[k]]
    OBVIOUS
  <2>3. n \in 0 .. n /\ g[n] \in X /\ F[g[n]] \in X
    BY <2>1
  <2>4. h \in [0 .. n + 1 -> X] /\ h[0] = a
    BY <2>1, <2>2, <2>3
  <2>5. \A k \in 0 .. n : h[k + 1] = F[h[k]]
    BY <2>1, <2>2, <2>3
  <2> QED BY <2>4, <2>5
<1>3. \A n \in Nat : \E g : Upto(n, g)
  <2> HIDE DEF S
  <2>1. \A n \in Nat : n \in S
    BY <1>1, <1>2, AllNumbers
  <2> QED BY <2>1 DEF S
<1>4. ASSUME NEW n \in Nat, NEW m \in Nat, n <= m, NEW g, NEW h, Upto(n, g), Upto(m, h)
      PROVE  \A k \in 0 .. n : g[k] = h[k]
  <2> DEFINE E == {k \in Nat : k <= n => g[k] = h[k]}
  <2>1. 0 \in E
    BY <1>4
  <2>2. ASSUME NEW k \in Nat, k \in E PROVE k + 1 \in E
    BY <1>4, <2>2
  <2>3. \A k \in Nat : k \in E
    <3> HIDE DEF E
    <3> QED BY <2>1, <2>2, AllNumbers
  <2> QED BY <2>3
<1> DEFINE G(n) == CHOOSE g : Upto(n, g)
<1>5. \A n \in Nat : Upto(n, G(n))
  BY <1>3
<1> HIDE DEF G, S
<1> DEFINE f == [n \in Nat |-> G(n)[n]]
<1>6. f \in [Nat -> X] /\ f[0] = a
  BY <1>5
<1>7. ASSUME NEW n \in Nat PROVE f[n + 1] = F[f[n]]
  <2>1. Upto(n, G(n)) /\ Upto(n + 1, G(n + 1))
    BY <1>5
  <2>2. G(n)[n] = G(n + 1)[n]
    <3>1. n + 1 \in Nat /\ n <= n + 1 /\ n \in 0 .. n
      OBVIOUS
    <3> HIDE DEF Upto
    <3> QED BY <1>4, <2>1, <3>1
  <2>3. n \in 0 .. (n + 1) - 1
    OBVIOUS
  <2>4. G(n + 1)[n + 1] = F[G(n + 1)[n]]
    BY <2>1, <2>3
  <2> QED BY <2>2, <2>4
<1>8. Iteration(f, X, a, F)
  BY <1>6, <1>7 DEF Iteration
<1> QED BY <1>8
(* The first of some places.                                               *)
LEMMA FirstPlace ==
  ASSUME NEW S \in SUBSET Nat, S # {}
  PROVE  LET first == CHOOSE k \in S : \A j \in S : k <= j
         IN first \in S /\ \A j \in S : first <= j
<1>0. S \subseteq Nat /\ S # {}
  OBVIOUS
<1>1. PICK n \in S : \A m \in S : ~(<<m, n>> \in OpToRel(<, Nat))
  BY <1>0, NatLessThanWellFounded, WFMin
<1>2. \A m \in S : ~(m < n)
  BY <1>1 DEF OpToRel
<1>3. \A m \in S : n <= m
  BY <1>2
<1> QED BY <1>3

(* What Provides makes of who provides the name below.                     *)
Lows == [Handle \cup {Main} -> Provider]

LEMMA DepsAreSeqs ==
  ASSUME NEW w \in World, NEW h \in Handle
  PROVE  /\ w.deps[h] \in Seq(Handle \cup {Main})
         /\ DOMAIN w.deps[h] = 1 .. Len(w.deps[h])
         /\ Len(w.deps[h]) \in Nat
         /\ \A k \in DOMAIN w.deps[h] : w.deps[h][k] \in Handle \cup {Main}
<1>1. w.deps \in [Handle -> Seq(Handle \cup {Main})]
  BY DEF World
<1>2. w.deps[h] \in Seq(Handle \cup {Main})
  BY <1>1
<1> QED BY <1>2

LEMMA ProvidesType ==
  ASSUME NEW w \in World, NEW name, NEW low \in Lows
  PROVE  Provides(w, name, low) \in Lows
<1> SUFFICES ASSUME NEW h \in Handle, ~Has(w, h, name)
             PROVE  LET found == {k \in DOMAIN w.deps[h] : low[w.deps[h][k]] # Nobody}
                    IN found # {} =>
                         low[w.deps[h][CHOOSE k \in found : \A j \in found : k <= j]]
                           \in Provider
  BY DEF Provides, Lows, Provider
<1> DEFINE found == {k \in DOMAIN w.deps[h] : low[w.deps[h][k]] # Nobody}
<1>1. found \in SUBSET Nat /\ \A k \in found : low[w.deps[h][k]] \in Provider
  BY DepsAreSeqs DEF Lows
<1> HIDE DEF found
<1>2. found # {} => (CHOOSE k \in found : \A j \in found : k <= j) \in found
  BY <1>1, FirstPlace
<1>3. found # {} =>
        low[w.deps[h][CHOOSE k \in found : \A j \in found : k <= j]] \in Provider
  BY <1>1, <1>2
<1> QED BY <1>3 DEF found

LEMMA LevelsAre ==
  ASSUME NEW w \in World, NEW name
  PROVE  /\ Levels(w, name) \in [Nat -> Lows]
         /\ Levels(w, name)[0] = [h \in Handle \cup {Main} |-> Nobody]
         /\ \A n \in Nat : Levels(w, name)[n + 1] = Provides(w, name, Levels(w, name)[n])
<1>0. PICK none : none = [h \in Handle \cup {Main} |-> Nobody]
  OBVIOUS
<1>1. none \in Lows
  BY <1>0 DEF Lows, Provider
<1>2. PICK F \in [Lows -> Lows] : F = [low \in Lows |-> Provides(w, name, low)]
  <2>1. [low \in Lows |-> Provides(w, name, low)] \in [Lows -> Lows]
    BY ProvidesType
  <2> QED BY <2>1
<1>3. PICK f \in [Nat -> Lows] : f[0] = none /\ \A n \in Nat : f[n + 1] = F[f[n]]
  <2>1. \E f : Iteration(f, Lows, none, F)
    BY <1>1, <1>2, Iterates
  <2> QED BY <2>1 DEF Iteration
<1>4. \A n \in Nat : f[n + 1] = Provides(w, name, f[n])
  BY <1>2, <1>3
<1>5. f = [n \in Nat |-> IF n = 0 THEN none ELSE Provides(w, name, f[n - 1])]
  <2>1. ASSUME NEW n \in Nat
        PROVE  f[n] = IF n = 0 THEN none ELSE Provides(w, name, f[n - 1])
    <3>1. CASE n = 0
      BY <1>3, <3>1
    <3>2. CASE n # 0
      <4>1. n - 1 \in Nat /\ (n - 1) + 1 = n
        BY <3>2
      <4>2. f[(n - 1) + 1] = Provides(w, name, f[n - 1])
        BY <1>4, <4>1
      <4> QED BY <3>2, <4>1, <4>2
    <3> QED BY <3>1, <3>2
  <2> QED BY <1>3, <2>1
<1>6. PICK L : L = Levels(w, name)
  OBVIOUS
<1>7. L = [n \in Nat |-> IF n = 0 THEN none ELSE Provides(w, name, L[n - 1])]
  <2>1. L = CHOOSE Level : Level = [n \in Nat |->
              IF n = 0 THEN none ELSE Provides(w, name, Level[n - 1])]
    BY <1>0, <1>6 DEF Levels
  <2>2. \E Level : Level = [n \in Nat |-> IF n = 0 THEN none ELSE Provides(w, name, Level[n - 1])]
    BY <1>5
  <2> QED BY <2>1, <2>2
<1>8. L[0] = none
  BY <1>7
<1>9. ASSUME NEW n \in Nat PROVE L[n + 1] = Provides(w, name, L[n])
  <2>1. n + 1 \in Nat /\ n + 1 # 0 /\ (n + 1) - 1 = n
    OBVIOUS
  <2> QED BY <1>7, <2>1
<1>10. \A n \in Nat : L[n] \in Lows
  <2> DEFINE S == {n \in Nat : L[n] \in Lows}
  <2>1. 0 \in S
    BY <1>1, <1>8
  <2>2. \A n \in Nat : n \in S => n + 1 \in S
    BY <1>9, ProvidesType
  <2>3. \A n \in Nat : n \in S
    <3> HIDE DEF S
    <3> QED BY <2>1, <2>2, AllNumbers
  <2> QED BY <2>3
<1>11. L \in [Nat -> Lows]
  BY <1>7, <1>10
<1> QED BY <1>0, <1>6, <1>8, <1>9, <1>11

LEMMA ProvidesIs ==
  ASSUME NEW w \in World, NEW name, NEW low \in Lows, NEW h \in Handle
  PROVE  /\ Has(w, h, name) => Provides(w, name, low)[h] = h
         /\ ~Has(w, h, name) =>
              /\ (\A j \in DOMAIN w.deps[h] : low[w.deps[h][j]] = Nobody) =>
                   Provides(w, name, low)[h] = Nobody
              /\ \A k \in DOMAIN w.deps[h] :
                   /\ low[w.deps[h][k]] # Nobody
                   /\ \A j \in DOMAIN w.deps[h] : j < k => low[w.deps[h][j]] = Nobody
                   => Provides(w, name, low)[h] = low[w.deps[h][k]]
<1>0. h # Main
  BY SearchAssumption
<1> DEFINE found == {k \in DOMAIN w.deps[h] : low[w.deps[h][k]] # Nobody}
           first == CHOOSE k \in found : \A j \in found : k <= j
<1>1. Provides(w, name, low)[h] =
        IF Has(w, h, name) THEN h
        ELSE IF found = {} THEN Nobody ELSE low[w.deps[h][first]]
  BY <1>0 DEF Provides
<1>2. found \in SUBSET Nat
  BY DepsAreSeqs
<1>3. ASSUME NEW k \in DOMAIN w.deps[h], low[w.deps[h][k]] # Nobody,
             \A j \in DOMAIN w.deps[h] : j < k => low[w.deps[h][j]] = Nobody
      PROVE  found # {} /\ first = k
  <2>1. k \in found /\ \A j \in found : ~(j < k)
    BY <1>3
  <2> HIDE DEF found
  <2>2. first \in found /\ \A j \in found : first <= j
    BY <1>2, <2>1, FirstPlace
  <2>3. k \in Nat /\ first \in Nat /\ ~(first < k) /\ first <= k
    BY <1>2, <2>1, <2>2
  <2> QED BY <2>1, <2>3
<1>4. (\A j \in DOMAIN w.deps[h] : low[w.deps[h][j]] = Nobody) => found = {}
  OBVIOUS
<1> HIDE DEF found, first
<1> QED BY <1>1, <1>3, <1>4

(* Nothing with the name is at h or below it.                              *)
NoneBelow(w, name, h) == \A n \in Nat : Levels(w, name)[n][h] = Nobody

LEMMA NoneThere ==
  ASSUME NEW w \in World, NEW name, NEW h \in Handle, ~Has(w, h, name),
         \A k \in DOMAIN w.deps[h] : NoneBelow(w, name, w.deps[h][k])
  PROVE  NoneBelow(w, name, h)
<1> SUFFICES ASSUME NEW n \in Nat PROVE Levels(w, name)[n][h] = Nobody
  BY DEF NoneBelow
<1>1. CASE n = 0
  BY <1>1, LevelsAre
<1>2. CASE n # 0
  <2>1. n - 1 \in Nat /\ (n - 1) + 1 = n
    BY <1>2
  <2>2. PICK low \in Lows : low = Levels(w, name)[n - 1]
    BY <2>1, LevelsAre
  <2>3. Levels(w, name)[n] = Provides(w, name, low)
    BY <2>1, <2>2, LevelsAre
  <2>4. \A k \in DOMAIN w.deps[h] : low[w.deps[h][k]] = Nobody
    BY <2>1, <2>2 DEF NoneBelow
  <2> QED BY <2>3, <2>4, ProvidesIs
<1> QED BY <1>1, <1>2

(* The call f waits for the search in h, which is its dependency; itself   *)
(* and those before h do not have the name.                                *)
Waits(w, name, f, h) ==
  /\ f.h \in Handle /\ ~Has(w, f.h, name)
  /\ f.i - 1 \in DOMAIN w.deps[f.h] /\ w.deps[f.h][f.i - 1] = h
  /\ \A j \in DOMAIN w.deps[f.h] :
       j < f.i - 1 => NoneBelow(w, name, w.deps[f.h][j])

Path(w, name, s) == \A k \in 1 .. Len(s) - 1 : Waits(w, name, s[k], s[k + 1].h)

(* Counting from the end.                                                  *)
LEMMA FromTheEnd ==
  ASSUME NEW L \in Nat, NEW d \in Nat, d + 1 < L
  PROVE  /\ L - (d + 1) \in 1 .. L - 1 /\ (L - (d + 1)) + 1 = L - d /\ d < L
         /\ \A j \in 1 .. L : j < L - (d + 1) =>
              j + 1 \in 1 .. L /\ j + 1 < L - d /\ j \in 1 .. L - 1
         /\ L - d \in 1 .. L
  OBVIOUS

(* At the end of a path, an object with the name is found from every place *)
(* on it, if there are enough levels.                                      *)
LEMMA FoundOnPath ==
  ASSUME NEW w \in World, NEW name, NEW s \in Seq(Frames), NEW L \in Nat \ {0}, L = Len(s),
         Path(w, name, s), NEW g \in Handle, s[L].h = g, Has(w, g, name)
  PROVE  \A k \in 1 .. L : \A n \in Nat : n > L - k => Levels(w, name)[n][s[k].h] = g
<1> DEFINE S == {d \in Nat : d < L =>
                   \A n \in Nat : n > d => Levels(w, name)[n][s[L - d].h] = g}
<1>0. /\ Levels(w, name) \in [Nat -> Lows]
      /\ \A n \in Nat : Levels(w, name)[n + 1] = Provides(w, name, Levels(w, name)[n])
      /\ g # Nobody
  BY LevelsAre, SearchAssumption
<1>1. 0 \in S
  <2>1. ASSUME NEW n \in Nat, n > 0 PROVE Levels(w, name)[n][g] = g
    <3>1. n - 1 \in Nat /\ (n - 1) + 1 = n
      BY <2>1
    <3>2. PICK low \in Lows : low = Levels(w, name)[n - 1]
      BY <1>0, <3>1
    <3>3. Levels(w, name)[n] = Provides(w, name, low)
      BY <1>0, <3>1, <3>2
    <3> QED BY <3>3, ProvidesIs
  <2>2. L - 0 = L
    OBVIOUS
  <2> QED BY <2>1, <2>2
<1>2. ASSUME NEW d \in Nat, d \in S PROVE d + 1 \in S
  <2> SUFFICES ASSUME d + 1 < L, NEW n \in Nat, n > d + 1
               PROVE  Levels(w, name)[n][s[L - (d + 1)].h] = g
    OBVIOUS
  <2>1. PICK k \in 1 .. L - 1 : k = L - (d + 1)
    BY FromTheEnd
  <2>2. k + 1 = L - d /\ d < L
    BY <2>1, FromTheEnd
  <2>3. \A m \in Nat : m > d => Levels(w, name)[m][s[k + 1].h] = g
    BY <1>2, <2>2
  <2>4. Waits(w, name, s[k], s[k + 1].h)
    BY DEF Path
  <2>5. n - 1 \in Nat /\ n - 1 > d /\ (n - 1) + 1 = n
    OBVIOUS
  <2>6. PICK low \in Lows : low = Levels(w, name)[n - 1]
    BY <1>0, <2>5
  <2>7. Levels(w, name)[n] = Provides(w, name, low)
    BY <1>0, <2>5, <2>6
  <2>8. low[s[k + 1].h] = g
    BY <2>3, <2>5, <2>6
  <2>9. PICK p \in DOMAIN w.deps[s[k].h] : p = s[k].i - 1
    BY <2>4 DEF Waits
  <2>10. /\ low[w.deps[s[k].h][p]] = g
         /\ \A j \in DOMAIN w.deps[s[k].h] :
              j < p => low[w.deps[s[k].h][j]] = Nobody
    BY <2>4, <2>5, <2>6, <2>8, <2>9 DEF Waits, NoneBelow
  <2>11. s[k].h \in Handle /\ ~Has(w, s[k].h, name)
    BY <2>4 DEF Waits
  <2>12. Provides(w, name, low)[s[k].h] = g
    <3>1. PICK h \in Handle : h = s[k].h
      BY <2>11
    <3>2. p \in DOMAIN w.deps[h] /\ ~Has(w, h, name) /\ g # Nobody
      BY <1>0, <2>9, <2>11, <3>1
    <3>3. low[w.deps[h][p]] # Nobody /\ low[w.deps[h][p]] = g
      BY <1>0, <2>10, <3>1
    <3>4. \A j \in DOMAIN w.deps[h] : j < p => low[w.deps[h][j]] = Nobody
      BY <2>10, <3>1
    <3>5. Provides(w, name, low)[h] = low[w.deps[h][p]]
      BY <3>2, <3>3, <3>4, ProvidesIs
    <3> QED BY <3>1, <3>3, <3>5
  <2> QED BY <2>1, <2>7, <2>12
<1>3. \A d \in Nat : d \in S
  <2> HIDE DEF S
  <2> QED BY <1>1, <1>2, AllNumbers
<1>4. ASSUME NEW k \in 1 .. L, NEW n \in Nat, n > L - k
      PROVE  Levels(w, name)[n][s[k].h] = g
  <2>1. L - k \in Nat /\ L - k < L /\ L - (L - k) = k
    OBVIOUS
  <2> QED BY <1>3, <1>4, <2>1
<1> QED BY <1>4

(* No object is on the path twice: what it needs would be searched in the  *)
(* same order, so the path would go on from there as it did before.        *)
LEMMA PathApart ==
  ASSUME NEW w \in World, NEW name, NEW s \in Seq(Frames), NEW L \in Nat \ {0}, L = Len(s),
         Path(w, name, s), NEW g \in Handle, s[L].h = g, Has(w, g, name)
  PROVE  \A j, k \in 1 .. L : j < k => s[j].h # s[k].h
<1>0. \A k \in 1 .. L : \A n \in Nat : n > L - k => Levels(w, name)[n][s[k].h] = g
  BY FoundOnPath
<1> DEFINE S == {d \in Nat : d < L => \A j \in 1 .. L : j < L - d => s[j].h # s[L - d].h}
<1>1. 0 \in S
  <2>1. ASSUME NEW j \in 1 .. L, j < L PROVE s[j].h # g
    <3>1. j \in 1 .. L - 1
      BY <2>1
    <3>2. ~Has(w, s[j].h, name)
      BY <3>1 DEF Path, Waits
    <3> QED BY <3>2
  <2>2. L - 0 = L
    OBVIOUS
  <2> QED BY <2>1, <2>2
<1>2. ASSUME NEW d \in Nat, d \in S PROVE d + 1 \in S
  <2> SUFFICES ASSUME d + 1 < L, NEW j \in 1 .. L, j < L - (d + 1),
                      s[j].h = s[L - (d + 1)].h
               PROVE  FALSE
    OBVIOUS
  <2>1. PICK k \in 1 .. L - 1 : k = L - (d + 1)
    BY FromTheEnd
  <2>2. /\ k + 1 = L - d /\ d < L /\ j + 1 \in 1 .. L /\ j + 1 < L - d
        /\ j \in 1 .. L - 1 /\ k + 1 \in 1 .. L
    BY <2>1, FromTheEnd
  <2>3. s[j + 1].h # s[k + 1].h
    BY <1>2, <2>2
  <2>4. Waits(w, name, s[j], s[j + 1].h) /\ Waits(w, name, s[k], s[k + 1].h)
    BY <2>2 DEF Path
  <2>5. ~NoneBelow(w, name, s[j + 1].h) /\ ~NoneBelow(w, name, s[k + 1].h)
    <3>1. \A n \in 1 .. L : L \in Nat /\ L > L - n
      OBVIOUS
    <3>2. \A n \in 1 .. L : Levels(w, name)[L][s[n].h] = g
      BY <1>0, <3>1
    <3>5. Levels(w, name)[L][s[j + 1].h] = g /\ Levels(w, name)[L][s[k + 1].h] = g
      BY <2>2, <3>2
    <3>3. g # Nobody
      BY SearchAssumption
    <3> QED BY <3>3, <3>5 DEF NoneBelow
  <2>6. PICK p \in DOMAIN w.deps[s[j].h], q \in DOMAIN w.deps[s[j].h] :
          p = s[j].i - 1 /\ q = s[k].i - 1
    BY <2>1, <2>4 DEF Waits
  <2>7. p \in Nat /\ q \in Nat
    <3>1. PICK h \in Handle : h = s[j].h
      BY <2>4 DEF Waits
    <3>2. DOMAIN w.deps[h] = 1 .. Len(w.deps[h]) /\ Len(w.deps[h]) \in Nat
      BY DepsAreSeqs
    <3> QED BY <3>1, <3>2
  <2>8. ~(p < q) /\ ~(q < p)
    BY <2>1, <2>4, <2>5, <2>6 DEF Waits
  <2>9. p = q
    BY <2>7, <2>8
  <2> QED BY <2>1, <2>3, <2>4, <2>6, <2>9 DEF Waits
<1>3. \A d \in Nat : d \in S
  <2> HIDE DEF S
  <2> QED BY <1>1, <1>2, AllNumbers
<1>4. ASSUME NEW j \in 1 .. L, NEW k \in 1 .. L, j < k PROVE s[j].h # s[k].h
  <2>1. L - k \in Nat /\ L - k < L /\ L - (L - k) = k
    OBVIOUS
  <2> QED BY <1>3, <1>4, <2>1
<1> QED BY <1>4

(* So there are as many levels as it takes, whether or not some object     *)
(* needs itself.                                                           *)
LEMMA PathProvides ==
  ASSUME NEW w \in World, NEW name, NEW s \in Seq(Frames), NEW L \in Nat \ {0}, L = Len(s),
         Path(w, name, s), NEW g \in Handle, s[L].h = g, Has(w, g, name)
  PROVE  Levels(w, name)[Cardinality(Handle)][s[1].h] = g
<1>1. IsFiniteSet(Handle) /\ Cardinality(Handle) \in Nat
  BY SearchAssumption, FS_CardinalityType
<1>2. IsFiniteSet(1 .. L) /\ Cardinality(1 .. L) = L
  <2>1. L \in Nat /\ 1 \in Int /\ L \in Int /\ 1 <= L /\ (L - 1) + 1 = L
    OBVIOUS
  <2>2. IsFiniteSet(1 .. L) /\ Cardinality(1 .. L) = IF 1 > L THEN 0 ELSE L - 1 + 1
    BY <2>1, FS_Interval
  <2> QED BY <2>1, <2>2
<1>3. \A k \in 1 .. L : s[k].h \in Handle
  <2>1. \A k \in 1 .. L : k \in 1 .. L - 1 \/ k = L
    OBVIOUS
  <2> QED BY <2>1 DEF Path, Waits
<1>4. L <= Cardinality(Handle)
  <2> SUFFICES ASSUME Cardinality(Handle) < L PROVE FALSE
    BY <1>1
  <2>1. PICK f \in [1 .. L -> Handle] : f = [k \in 1 .. L |-> s[k].h]
    BY <1>3
  <2>2. PICK j \in 1 .. L, k \in 1 .. L : j # k /\ f[j] = f[k]
    <3>1. Cardinality(Handle) < Cardinality(1 .. L)
      BY <1>2
    <3> QED BY <1>1, <1>2, <2>1, <3>1, FS_PigeonHole
  <2>3. j < k \/ k < j
    BY <2>2
  <2> QED BY <2>1, <2>2, <2>3, PathApart
<1>5. Cardinality(Handle) > L - 1 /\ 1 \in 1 .. L
  BY <1>1, <1>4
<1> QED BY <1>1, <1>5, FoundOnPath

-----------------------------------------------------------------------------
By(p) == [by |-> p, base |-> p]

(* The first global object with the name, if the program has none.         *)
LEMMA InProgramIs ==
  ASSUME NEW w \in World, NEW name, NEW other
  PROVE  /\ name \in w.program => InProgram(w, name, other) = Program
         /\ name \notin w.program =>
              /\ GlobalPlaces(w, name) = {} => InProgram(w, name, other) = other
              /\ \A k \in GlobalPlaces(w, name) :
                   (\A j \in GlobalPlaces(w, name) : k <= j) =>
                     InProgram(w, name, other) = w.order[k]
<1>1. PICK places : places = GlobalPlaces(w, name)
  OBVIOUS
<1>2. places \in SUBSET Nat
  <2>1. w.order \in Seq(Handle)
    BY DEF World
  <2> QED BY <1>1, <2>1 DEF GlobalPlaces
<1>3. InProgram(w, name, other) =
        IF name \in w.program THEN Program
        ELSE IF places # {} THEN w.order[CHOOSE k \in places : \A j \in places : k <= j]
        ELSE other
  BY <1>1 DEF InProgram
<1>4. ASSUME NEW k \in places, \A j \in places : k <= j
      PROVE  k = CHOOSE n \in places : \A j \in places : n <= j
  <2>1. PICK first : first = CHOOSE n \in places : \A j \in places : n <= j
    OBVIOUS
  <2>2. first \in places /\ \A j \in places : first <= j
    BY <1>2, <1>4, <2>1, FirstPlace
  <2>3. k \in Nat /\ first \in Nat /\ k <= first /\ first <= k
    BY <1>2, <1>4, <2>2
  <2>4. k = first
    BY <2>3
  <2> QED BY <2>1, <2>4
<1> QED BY <1>1, <1>3, <1>4

-----------------------------------------------------------------------------
(* Which searches reach which stages, and when.                            *)
Searching == pc \in {"resolver", "program", "global", "self", "deps"}
StageInv ==
  /\ pc \in {"next", "apply", "resolver", "self", "deps", "failed"} =>
       query.kind = "reloc"
  /\ pc \in {"start", "pop", "push"} => query.kind = "handle"
  /\ pc \in {"program", "global"} => query.kind \in {"reloc", "main"}
  /\ pc \in {"range", "value"} => query.kind \in ByAddress
  /\ query.kind # "reloc" => words = <<>>
  /\ query.kind = "reloc" => Len(words) <= Len(query.table)
  /\ query.kind = "reloc" /\ pc = "done" => Len(words) = Len(query.table)
  /\ query.kind = "reloc" /\ pc \notin {"next", "done"} =>
       Len(words) < Len(query.table)
  /\ query.kind = "reloc" /\ Searching => Current.index # 0

(* The scopes that were asked do not have the symbol.                      *)
Missed ==
  /\ pc \in {"next", "resolver", "program", "global", "self"} => result = NotFound
  /\ pc \in {"next", "resolver", "program"} => i = 1
  /\ query.kind = "reloc" /\ pc \in {"program", "global", "self", "deps"} =>
       Sought \notin world.resolver
  /\ pc \in {"global", "self", "deps"} => Sought \notin world.program
  /\ pc = "global" => \A k \in GlobalPlaces(world, Sought) : i <= k
  /\ pc \in {"self", "deps"} => GlobalPlaces(world, Sought) = {}
  /\ pc = "deps" => ~DefinesIt(world, query.h, Current)

(* What the running call of the recursion has asked.                       *)
Asked(w, name, f) ==
  f.i > 0 =>
    /\ f.h \in Handle /\ ~Has(w, f.h, name)
    /\ \A j \in DOMAIN w.deps[f.h] : j < f.i => NoneBelow(w, name, w.deps[f.h][j])

(* While nothing was found, the calls are a path from the object that is   *)
(* relocated; once something was, it is the first that is there.           *)
Recursion ==
  /\ result # NotFound => result = By(FirstBelow(world, query.h, Sought))
  /\ result = NotFound =>
       /\ stack = <<>> => NoneBelow(world, Sought, query.h)
       /\ stack # <<>> =>
            /\ stack[1].h = query.h
            /\ Path(world, Sought, stack)
            /\ Asked(world, Sought, Frame)

(* What a search has come to.                                              *)
Answered ==
  /\ pc = "apply" => result = By(Expected(world, query.h, Current))
  /\ pc = "done" /\ query.kind = "main" =>
       result = By(InProgram(world, query.name, Nobody))
  /\ pc = "failed" => Unresolved(world, query.h, Current)

WordOK(w, h, rel, word) ==
  /\ rel.type = "symbol" => word.by = Expected(w, h, rel) /\ word.base = Expected(w, h, rel)
  /\ ~Unresolved(w, h, rel)
  /\ rel.type = "relative" => word.by = h
  /\ word.by = Nobody => word = Left
WordsOK ==
  \A n \in DOMAIN words : WordOK(world, query.h, query.table[n], words[n])

SInv ==
  StageInv /\ Missed /\ Answered /\ WordsOK /\ (pc = "deps" => Recursion)

LEMMA SInvShows == SInv => FirstScopeWins /\ RelocatedOrFailed
<1> SUFFICES ASSUME SInv PROVE FirstScopeWins /\ RelocatedOrFailed
  OBVIOUS
<1>1. WordsOK /\ Answered /\ StageInv
  BY DEF SInv
<1>2. FirstScopeWins
  BY <1>1 DEF WordsOK, WordOK, Answered, By, FirstScopeWins
<1>3. RelocatedOrFailed
  BY <1>1 DEF WordsOK, WordOK, Answered, StageInv, RelocatedOrFailed
<1> QED BY <1>2, <1>3

LEMMA InitSInv == Init => SInv
<1> SUFFICES ASSUME Init PROVE SInv
  OBVIOUS
<1>1. /\ words = <<>> /\ i = 1 /\ result = NotFound
      /\ \/ query.kind = "reloc" /\ pc = "next"
         \/ query.kind = "main" /\ pc = "program"
         \/ query.kind = "handle" /\ pc = "start"
         \/ query.kind \in ByAddress /\ pc = "range"
  BY DEF Init
<1>2. query.table \in Seq(Reloc)
  BY SearchAssumption DEF Init, Query
<1>3. WordsOK
  BY <1>1 DEF WordsOK
<1>4. StageInv
  <2>1. Len(words) = 0 /\ Len(query.table) \in Nat
    BY <1>1, <1>2
  <2> QED BY <1>1, <2>1 DEF StageInv, ByAddress, Searching
<1>5. Missed /\ Answered /\ pc # "deps"
  BY <1>1 DEF Missed, Answered, ByAddress
<1> QED BY <1>3, <1>4, <1>5 DEF SInv

(* Between two relocations.                                                *)
LEMMA SameWords ==
  ASSUME UNCHANGED <<world, query, words>>
  PROVE  /\ Current' = Current /\ Sought' = Sought /\ WordsOK' = WordsOK
         /\ \A h : HasSymbol(h)' = HasSymbol(h)
<1>1. Current' = Current
  BY DEF Current
<1>2. Sought' = Sought
  BY <1>1 DEF Sought
<1>3. WordsOK' = WordsOK
  BY DEF WordsOK
<1>4. \A h : HasSymbol(h)' = HasSymbol(h)
  BY <1>2 DEF HasSymbol
<1> QED BY <1>1, <1>2, <1>3, <1>4

(* A scope has the symbol.                                                 *)
LEMMA AnswerOK ==
  ASSUME SInv, Searching, UNCHANGED <<world, query, words>>, NEW p, Done(By(p)),
         query.kind = "reloc" => p = Expected(world, query.h, Current),
         query.kind = "main" => p = InProgram(world, query.name, Nobody)
  PROVE  SInv'
<1>1. /\ Current' = Current /\ Sought' = Sought /\ WordsOK'
  BY SameWords DEF SInv
<1>2. StageInv /\ query.kind \in {"reloc", "main"}
  BY DEF SInv, StageInv, Searching
<1>3. \/ query.kind = "reloc" /\ pc' = "apply" /\ pc \notin {"next", "done"}
      \/ query.kind = "main" /\ pc' = "done"
  BY <1>2 DEF Done, Searching
<1>4. StageInv'
  BY <1>1, <1>2, <1>3 DEF StageInv, Searching
<1>5. Missed' /\ pc' # "deps"
  BY <1>3 DEF Missed
<1>6. Answered'
  <2>1. result' = By(p)
    BY DEF Done
  <2> QED BY <1>1, <1>3, <2>1 DEF Answered
<1> QED BY <1>1, <1>4, <1>5, <1>6 DEF SInv

LEMMA StepsApart ==
  ASSUME Search
  PROVE  /\ UNCHANGED <<world, query>>
         /\ ~Apply => UNCHANGED words
BY DEF Search, constant, searching, At, AskResolver, AskProgram, AskGlobal, NoGlobal,
       AskSelf, VisitMain, Visit, Descend, Return, DepsSearched, Start,
       PopCrashes, Pop, PushDep, DepsPushed, QueueEmpty, NextReloc,
       RelocsDone, Apply, RelocFails, AskRange, NoRange, AskValue

LEMMA ApplySInv == IInv /\ SInv /\ Apply => SInv'
<1> SUFFICES ASSUME IInv, SInv, Apply PROVE SInv'
  OBVIOUS
<1> USE SearchAssumption
<1>1. /\ pc = "apply" /\ pc' = "next" /\ i' = 1 /\ result' = NotFound
      /\ UNCHANGED <<world, query>>
      /\ Relative \/ WithSymbol \/ WithoutSymbol
  BY DEF Apply, At, constant
<1>2. query.kind = "reloc" /\ Len(words) < Len(query.table)
  BY <1>1 DEF SInv, StageInv
<1>3. /\ words \in Seq(Word) /\ query.table \in Seq(Reloc) /\ query.h \in Handle
      /\ result.by \in Provider /\ result.base \in Provider
  BY DEF IInv, TypeOK, Query
<1>4. PICK e, rel : e = Expected(world, query.h, Current) /\ rel = Current
  OBVIOUS
<1>5. result.by = e /\ result.base = e
  BY <1>1, <1>4 DEF SInv, Answered, By
<1>6. PICK x \in Word : words' = Append(words, x) /\ WordOK(world, query.h, rel, x)
  <2>1. CASE Relative
    <3>1. PICK x : /\ words' = Append(words, x) /\ x.by = query.h /\ x \in Word
                   /\ rel.type = "relative"
      BY <1>3, <1>4, <2>1 DEF Relative, Word, Provider
    <3>2. query.h # Nobody
      BY <1>3
    <3> QED BY <3>1, <3>2 DEF WordOK, Unresolved
  <2>2. CASE WithSymbol
    <3>1. PICK x : /\ words' = Append(words, x) /\ x.by = e /\ x.base = e /\ x \in Word
                   /\ rel.type = "symbol" /\ e # Nobody
      BY <1>3, <1>4, <1>5, <2>2 DEF WithSymbol, Word, Provider
    <3> QED BY <1>4, <3>1 DEF WordOK, Unresolved
  <2>3. CASE WithoutSymbol
    <3>1. /\ words' = Append(words, Left) /\ rel.type = "symbol" /\ e = Nobody
          /\ rel.index # 0 /\ EntryOf(world, query.h, rel).weak
      BY <1>4, <1>5, <2>3 DEF WithoutSymbol, WeakReloc
    <3>2. Left \in Word /\ Left.by = Nobody /\ Left.base = Nobody
      BY DEF Left, Word, Provider
    <3> QED BY <1>4, <3>1, <3>2 DEF WordOK, Unresolved
  <2> QED BY <1>1, <2>1, <2>2, <2>3
<1>7. /\ Len(words') = Len(words) + 1 /\ Len(words) \in Nat /\ Len(query.table) \in Nat
      /\ words'[Len(words) + 1] = x
      /\ \A n \in 1 .. Len(words) : words'[n] = words[n]
      /\ DOMAIN words' = 1 .. Len(words) + 1
  BY <1>3, <1>6
<1>8. WordsOK'
  <2>1. ASSUME NEW n \in 1 .. Len(words) + 1
        PROVE  WordOK(world, query.h, query.table[n], words'[n])
    <3>1. CASE n = Len(words) + 1
      BY <1>4, <1>6, <1>7, <3>1 DEF Current
    <3>2. CASE n # Len(words) + 1
      <4>1. n \in 1 .. Len(words) /\ n \in DOMAIN words
        BY <1>3, <1>7, <3>2
      <4> QED BY <1>7, <4>1 DEF SInv, WordsOK
    <3> QED BY <3>1, <3>2
  <2> QED BY <1>1, <1>7, <2>1 DEF WordsOK
<1>9. StageInv'
  <2>1. Len(words') <= Len(query.table)
    BY <1>2, <1>7
  <2> QED BY <1>1, <1>2, <2>1 DEF StageInv, Searching
<1>10. Missed' /\ Answered'
  BY <1>1 DEF Missed, Answered
<1> QED BY <1>1, <1>8, <1>9, <1>10 DEF SInv

LEMMA RelocsSInv == IInv /\ SInv /\ (NextReloc \/ RelocsDone \/ RelocFails) => SInv'
<1> SUFFICES ASSUME IInv, SInv, NextReloc \/ RelocsDone \/ RelocFails PROVE SInv'
  OBVIOUS
<1>1. UNCHANGED <<world, query, words, i, result>>
  BY DEF NextReloc, RelocsDone, RelocFails, constant
<1>2. Current' = Current /\ Sought' = Sought /\ WordsOK' /\ StageInv /\ Missed /\ Answered
  BY <1>1, SameWords DEF SInv
<1>3. CASE NextReloc
  <2>1. /\ pc = "next" /\ Len(words) < Len(query.table)
        /\ pc' = IF Current.index = 0 THEN "apply" ELSE "resolver"
    BY <1>3 DEF NextReloc, At
  <2>2. StageInv'
    BY <1>1, <1>2, <2>1 DEF StageInv, Searching
  <2>3. Missed'
    BY <1>1, <1>2, <2>1 DEF Missed
  <2>4. Answered'
    <3>1. CASE Current.index = 0
      <4>1. Expected(world, query.h, Current) = Nobody
        BY <3>1 DEF Expected
      <4>2. result = By(Nobody)
        BY <1>2, <2>1 DEF Missed, NotFound, By
      <4>3. pc' = "apply" /\ result' = By(Expected(world', query'.h, Current'))
        BY <1>1, <1>2, <2>1, <3>1, <4>1, <4>2
      <4> QED BY <4>3 DEF Answered
    <3>2. CASE Current.index # 0
      BY <2>1, <3>2 DEF Answered
    <3> QED BY <3>1, <3>2
  <2>5. pc' # "deps"
    BY <2>1
  <2> QED BY <1>2, <2>2, <2>3, <2>4, <2>5 DEF SInv
<1>4. CASE RelocsDone
  <2>1. pc = "next" /\ Len(words) = Len(query.table) /\ pc' = "done"
    BY <1>4 DEF RelocsDone, At
  <2>2. query.kind = "reloc" /\ query.kind # "main"
    BY <1>2, <2>1 DEF StageInv
  <2>3. StageInv'
    BY <1>1, <1>2, <2>1, <2>2 DEF StageInv, Searching
  <2> QED BY <1>1, <1>2, <2>1, <2>2, <2>3 DEF SInv, Missed, Answered
<1>5. CASE RelocFails
  <2>1. /\ pc = "apply" /\ pc' = "failed"
        /\ \/ Current.type = "other"
           \/ Current.type = "symbol" /\ result.by = Nobody /\ ~WeakReloc
    BY <1>5 DEF RelocFails, At
  <2>2. result.by = Expected(world, query.h, Current)
    BY <1>2, <2>1 DEF Answered, By
  <2>3. Unresolved(world, query.h, Current)
    BY <2>1, <2>2 DEF Unresolved, WeakReloc
  <2>4. StageInv'
    BY <1>1, <1>2, <2>1 DEF StageInv, Searching
  <2>5. Answered'
    BY <1>1, <1>2, <2>1, <2>3 DEF Answered
  <2> QED BY <1>1, <1>2, <2>1, <2>4, <2>5 DEF SInv, Missed
<1> QED BY <1>3, <1>4, <1>5

(* The resolver, the program and the global objects.                       *)
LEMMA ScopesSInv ==
  IInv /\ SInv /\ (AskResolver \/ AskProgram \/ AskGlobal \/ NoGlobal) => SInv'
<1> SUFFICES ASSUME IInv, SInv, AskResolver \/ AskProgram \/ AskGlobal \/ NoGlobal
             PROVE  SInv'
  OBVIOUS
<1> USE SearchAssumption
<1>1. UNCHANGED <<world, query, words, stack>>
  BY DEF AskResolver, AskProgram, AskGlobal, NoGlobal, constant, searching
<1>2. Current' = Current /\ Sought' = Sought /\ WordsOK' /\ StageInv /\ Missed /\ Answered
  BY <1>1, SameWords DEF SInv
<1>3. world \in World
  BY DEF IInv, TypeOK
<1>4. /\ query.kind = "reloc" => Sought = EntryOf(world, query.h, Current).name
      /\ query.kind = "main" => Sought = query.name
  BY DEF Sought
<1>5. PICK other :
        query.kind = "reloc" /\ Current.index # 0 =>
          Expected(world, query.h, Current) =
            IF Sought \in world.resolver THEN Resolver
            ELSE InProgram(world, Sought, other)
  BY <1>4 DEF Expected
<1>6. CASE AskResolver
  <2>1. pc = "resolver" /\ query.kind = "reloc" /\ Current.index # 0 /\ Searching
    BY <1>2, <1>6 DEF AskResolver, At, StageInv, Searching
  <2>2. CASE Sought \in world.resolver
    <3>1. Done(By(Resolver))
      BY <1>6, <2>2 DEF AskResolver, By
    <3> QED BY <1>1, <1>5, <2>1, <2>2, <3>1, AnswerOK
  <2>3. CASE Sought \notin world.resolver
    <3>1. pc' = "program" /\ UNCHANGED <<result, i>>
      BY <1>6, <2>3 DEF AskResolver
    <3>2. StageInv'
      BY <1>1, <1>2, <2>1, <3>1 DEF StageInv, Searching
    <3>3. Missed'
      BY <1>1, <1>2, <2>1, <2>3, <3>1 DEF Missed
    <3> QED BY <1>2, <3>1, <3>2, <3>3 DEF SInv, Answered
  <2> QED BY <2>2, <2>3
<1>7. CASE AskProgram
  <2>1. /\ pc = "program" /\ Searching /\ query.kind \in {"reloc", "main"}
        /\ query.kind = "reloc" => Current.index # 0 /\ Sought \notin world.resolver
        /\ result = NotFound /\ i = 1
    BY <1>2, <1>7 DEF AskProgram, At, StageInv, Missed, Searching
  <2>2. CASE Sought \in world.program
    <3>1. Done(By(Program))
      BY <1>7, <2>2 DEF AskProgram, By
    <3>2. \A o : InProgram(world, Sought, o) = Program
      BY <1>3, <2>2, InProgramIs
    <3> QED BY <1>1, <1>4, <1>5, <2>1, <3>1, <3>2, AnswerOK
  <2>3. CASE Sought \notin world.program
    <3>1. pc' = "global" /\ UNCHANGED <<result, i>>
      BY <1>7, <2>3 DEF AskProgram
    <3>2. StageInv'
      BY <1>1, <1>2, <2>1, <3>1 DEF StageInv, Searching
    <3>3. \A k \in GlobalPlaces(world, Sought) : 1 <= k
      BY <1>3 DEF GlobalPlaces, World
    <3>4. Missed'
      BY <1>1, <1>2, <2>1, <2>3, <3>1, <3>3 DEF Missed
    <3> QED BY <1>2, <3>1, <3>2, <3>4 DEF SInv, Answered
  <2> QED BY <2>2, <2>3
<1>8. world.order \in Seq(Handle) /\ i \in Nat \ {0}
  BY DEF IInv, TypeOK, World
<1>9. GlobalPlaces(world, Sought) \subseteq 1 .. Len(world.order)
  BY <1>8 DEF GlobalPlaces
<1>10. ASSUME pc = "global"
       PROVE  /\ Searching /\ query.kind \in {"reloc", "main"} /\ result = NotFound
              /\ query.kind = "reloc" => Current.index # 0 /\ Sought \notin world.resolver
              /\ Sought \notin world.program
              /\ \A k \in GlobalPlaces(world, Sought) : i <= k
  BY <1>2, <1>10 DEF StageInv, Missed, Searching
<1>11. CASE AskGlobal
  <2>1. pc = "global" /\ i \in 1 .. Len(world.order)
    BY <1>8, <1>11 DEF AskGlobal, At
  <2>2. PICK h \in Handle : h = world.order[i]
    BY <1>8, <2>1
  <2>3. CASE h \in world.global /\ HasSymbol(h)
    <3>1. Done(By(h))
      BY <1>11, <2>2, <2>3 DEF AskGlobal, FoundIn, By
    <3>2. i \in GlobalPlaces(world, Sought)
      BY <1>8, <2>1, <2>2, <2>3 DEF GlobalPlaces, HasSymbol
    <3>3. \A o : InProgram(world, Sought, o) = h
      BY <1>3, <1>10, <2>1, <2>2, <3>2, InProgramIs
    <3> QED BY <1>1, <1>4, <1>5, <1>10, <2>1, <3>1, <3>3, AnswerOK
  <2>4. CASE ~(h \in world.global /\ HasSymbol(h))
    <3>1. i' = i + 1 /\ pc' = "global" /\ UNCHANGED result
      BY <1>11, <2>1, <2>2, <2>4 DEF AskGlobal
    <3>2. i \notin GlobalPlaces(world, Sought)
      BY <2>2, <2>4 DEF GlobalPlaces, HasSymbol
    <3>3. \A k \in GlobalPlaces(world, Sought) : i + 1 <= k
      BY <1>8, <1>9, <1>10, <2>1, <3>2
    <3>4. StageInv'
      BY <1>1, <1>2, <2>1, <3>1 DEF StageInv, Searching
    <3>5. Missed'
      BY <1>1, <1>2, <1>10, <2>1, <3>1, <3>3 DEF Missed
    <3> QED BY <1>2, <3>1, <3>4, <3>5 DEF SInv, Answered
  <2> QED BY <2>3, <2>4
<1>12. CASE NoGlobal
  <2>1. pc = "global" /\ i > Len(world.order)
    BY <1>12 DEF NoGlobal, At
  <2>2. GlobalPlaces(world, Sought) = {}
    BY <1>8, <1>9, <1>10, <2>1
  <2>3. CASE query.kind = "reloc"
    <3>1. pc' = "self" /\ UNCHANGED result
      BY <1>12, <2>3 DEF NoGlobal
    <3>2. StageInv'
      BY <1>1, <1>2, <2>1, <2>3, <3>1 DEF StageInv, Searching
    <3>3. Missed'
      BY <1>1, <1>2, <1>10, <2>1, <2>2, <3>1 DEF Missed
    <3> QED BY <1>2, <3>1, <3>2, <3>3 DEF SInv, Answered
  <2>4. CASE query.kind # "reloc"
    <3>1. Done(By(Nobody))
      BY <1>12, <2>4 DEF NoGlobal, NotFound, By
    <3>2. InProgram(world, Sought, Nobody) = Nobody
      BY <1>3, <1>10, <2>1, <2>2, InProgramIs
    <3> QED BY <1>1, <1>4, <1>10, <2>1, <2>4, <3>1, <3>2, AnswerOK
  <2> QED BY <2>3, <2>4
<1> QED BY <1>6, <1>7, <1>11, <1>12

(* The object itself has no symbol, and the others asked before neither.   *)
LEMMA ExpectedBelow ==
  ASSUME IInv, SInv, pc \in {"self", "deps"}
  PROVE  /\ query.kind = "reloc" /\ Searching
         /\ Expected(world, query.h, Current) =
              IF DefinesIt(world, query.h, Current) THEN query.h
              ELSE FirstBelow(world, query.h, Sought)
<1>1. /\ query.kind = "reloc" /\ Current.index # 0 /\ Searching
      /\ Sought \notin world.resolver /\ Sought \notin world.program
      /\ GlobalPlaces(world, Sought) = {}
  BY DEF SInv, StageInv, Missed, Searching
<1>2. Sought = EntryOf(world, query.h, Current).name
  BY <1>1 DEF Sought
<1>3. PICK other : other = IF DefinesIt(world, query.h, Current) THEN query.h
                           ELSE FirstBelow(world, query.h, Sought)
  OBVIOUS
<1>4. Expected(world, query.h, Current) = InProgram(world, Sought, other)
  BY <1>1, <1>2, <1>3 DEF Expected
<1>5. world \in World
  BY DEF IInv, TypeOK
<1>6. InProgram(world, Sought, other) = other
  BY <1>1, <1>5, InProgramIs
<1> QED BY <1>1, <1>3, <1>4, <1>6

(* A step into, within, or out of the recursion that found nothing yet, or *)
(* the symbol.                                                             *)
LEMMA RecursionSInv ==
  ASSUME IInv, SInv, pc \in {"self", "deps"}, pc' = "deps",
         UNCHANGED <<world, query, words>>,
         ~DefinesIt(world, query.h, Current),
         \/ result' # NotFound /\ result' = By(FirstBelow(world, query.h, Sought))
         \/ result' = NotFound /\ stack' = <<>> /\ NoneBelow(world, Sought, query.h)
         \/ /\ result' = NotFound /\ stack' # <<>> /\ stack'[1].h = query.h
            /\ Path(world, Sought, stack')
            /\ Asked(world, Sought, stack'[Len(stack')])
  PROVE  SInv'
<1>1. Current' = Current /\ Sought' = Sought /\ WordsOK' /\ StageInv /\ Missed
  BY SameWords DEF SInv
<1>2. StageInv'
  BY <1>1 DEF StageInv, Searching
<1>3. Missed'
  BY <1>1 DEF Missed, StageInv
<1>4. Recursion'
  BY <1>1 DEF Recursion, Frame
<1> QED BY <1>1, <1>2, <1>3, <1>4 DEF SInv, Answered

LEMMA SelfSInv == IInv /\ SInv /\ AskSelf => SInv'
<1> SUFFICES ASSUME IInv, SInv, AskSelf PROVE SInv'
  OBVIOUS
<1>1. pc = "self" /\ UNCHANGED <<world, query, words>>
  BY DEF AskSelf, At, constant
<1>2. query.kind = "reloc" /\ Searching /\ result = NotFound
  BY <1>1, ExpectedBelow DEF SInv, Missed
<1>3. DefinesIt(world, query.h, Current) <=> OwnCandidates # {}
  BY <1>2 DEF DefinesIt, OwnCandidates, Sought
<1>4. CASE OwnCandidates # {}
  <2>1. Done(By(query.h))
    BY <1>4 DEF AskSelf, FoundIn, By
  <2>2. Expected(world, query.h, Current) = query.h
    BY <1>1, <1>3, <1>4, ExpectedBelow
  <2> QED BY <1>1, <1>2, <2>1, <2>2, AnswerOK
<1>5. CASE OwnCandidates = {}
  <2>1. pc' = "deps" /\ stack' = <<[h |-> query.h, i |-> 0]>> /\ UNCHANGED result
    BY <1>5 DEF AskSelf
  <2>2. /\ stack' # <<>> /\ stack'[1].h = query.h /\ Len(stack') = 1
        /\ stack'[Len(stack')].i = 0
    BY <2>1
  <2>3. Path(world, Sought, stack') /\ Asked(world, Sought, stack'[Len(stack')])
    BY <2>2 DEF Path, Asked
  <2> QED BY <1>1, <1>2, <1>3, <1>5, <2>1, <2>2, <2>3, RecursionSInv
<1> QED BY <1>4, <1>5

(* One frame more on some calls.                                           *)
LEMMA OnTop ==
  ASSUME NEW s \in Seq(Frames), NEW f \in Frames
  PROVE  /\ Append(s, f) \in Seq(Frames) /\ Len(s) \in Nat
         /\ Len(Append(s, f)) = Len(s) + 1 /\ Append(s, f)[Len(s) + 1] = f
         /\ \A k \in 1 .. Len(s) : Append(s, f)[k] = s[k]
  OBVIOUS

(* The running call changes its index only.                                *)
LEMMA PathKept ==
  ASSUME NEW w, NEW name, NEW n \in Nat \ {0}, NEW s, NEW s2, Len(s) = n, Len(s2) = n,
         \A k \in 1 .. n - 1 : s2[k] = s[k], s2[n].h = s[n].h, Path(w, name, s)
  PROVE  Path(w, name, s2)
<1> SUFFICES ASSUME NEW k \in 1 .. n - 1 PROVE Waits(w, name, s2[k], s2[k + 1].h)
  BY DEF Path
<1>1. Waits(w, name, s[k], s[k + 1].h) /\ s2[k] = s[k]
  BY DEF Path
<1>2. k + 1 = n \/ k + 1 \in 1 .. n - 1
  OBVIOUS
<1>3. s2[k + 1].h = s[k + 1].h
  BY <1>2
<1> QED BY <1>1, <1>3

LEMMA InRecursion ==
  ASSUME IInv, SInv, pc = "deps", stack # <<>>
  PROVE  /\ world \in World /\ stack \in Seq(Frames) /\ Len(stack) \in Nat \ {0}
         /\ Frame \in Frames /\ Frame = stack[Len(stack)]
         /\ Below \in Seq(Frames) /\ Len(Below) = Len(stack) - 1
         /\ \A k \in 1 .. Len(stack) - 1 : Below[k] = stack[k]
         /\ ~DefinesIt(world, query.h, Current)
         /\ result # NotFound => result = By(FirstBelow(world, query.h, Sought))
         /\ result = NotFound =>
              /\ stack[1].h = query.h
              /\ Path(world, Sought, stack)
              /\ Asked(world, Sought, Frame)
<1>1. TypeOK /\ Recursion /\ Missed
  BY DEF IInv, SInv
<1>2. world \in World /\ stack \in Seq(Frames)
  BY <1>1 DEF TypeOK
<1> QED BY <1>1, <1>2, TopOfStack DEF Recursion, Missed, Frame

LEMMA VisitSInv == IInv /\ SInv /\ Visit => SInv'
<1> SUFFICES ASSUME IInv, SInv, Visit PROVE SInv'
  OBVIOUS
<1>1. /\ pc = "deps" /\ pc' = "deps" /\ stack # <<>> /\ result = NotFound
      /\ Frame.i = 0 /\ Frame.h # Main
      /\ UNCHANGED <<world, query, words>>
      /\ stack' = Append(Below, [Frame EXCEPT !.i = 1])
      /\ result' = IF HasSymbol(Frame.h) THEN FoundIn(Frame.h) ELSE NotFound
  BY DEF Visit, At, constant
<1>2. PICK n \in Nat \ {0}, f \in Frames : n = Len(stack) /\ f = Frame
  BY <1>1, InRecursion
<1>3. /\ world \in World /\ stack \in Seq(Frames) /\ stack[n] = f
      /\ Below \in Seq(Frames) /\ Len(Below) = n - 1
      /\ \A k \in 1 .. n - 1 : Below[k] = stack[k]
      /\ ~DefinesIt(world, query.h, Current)
      /\ stack[1].h = query.h /\ Path(world, Sought, stack)
  BY <1>1, <1>2, InRecursion
<1>4. PICK g \in Handle : g = f.h
  BY <1>1, <1>2 DEF Frames
<1>5. CASE HasSymbol(g)
  <2>1. Has(world, g, Sought)
    BY <1>5 DEF HasSymbol
  <2>2. Levels(world, Sought)[Cardinality(Handle)][stack[1].h] = g
    BY <1>2, <1>3, <1>4, <2>1, PathProvides
  <2>3. FirstBelow(world, query.h, Sought) = g
    BY <1>3, <2>2 DEF FirstBelow
  <2>4. result' = By(g)
    BY <1>1, <1>2, <1>4, <1>5 DEF FoundIn, By
  <2>5. By(g) # NotFound
    <3>1. By(g).by = g /\ NotFound.by = Nobody /\ g # Nobody
      BY SearchAssumption DEF By, NotFound
    <3> QED BY <3>1
  <2> QED BY <1>1, <1>3, <2>3, <2>4, <2>5, RecursionSInv
<1>6. CASE ~HasSymbol(g)
  <2>1. ~Has(world, g, Sought) /\ result' = NotFound
    BY <1>1, <1>2, <1>4, <1>6 DEF HasSymbol
  <2>2. PICK f2 \in Frames : f2 = [f EXCEPT !.i = 1] /\ f2.h = g /\ f2.i = 1
    <3>1. [f EXCEPT !.i = 1] = [h |-> g, i |-> 1]
      BY <1>4 DEF Frames
    <3>2. [h |-> g, i |-> 1] \in Frames
      BY DEF Frames
    <3> QED BY <3>1, <3>2
  <2>3. /\ Len(stack') = n /\ stack'[n] = f2
        /\ \A k \in 1 .. n - 1 : stack'[k] = stack[k]
    <3>1. stack' = Append(Below, f2)
      BY <1>1, <1>2, <2>2
    <3>2. Len(Below) + 1 = n
      BY <1>3
    <3> QED BY <1>3, <3>1, <3>2, OnTop
  <2>4. Path(world, Sought, stack')
    <3>1. Len(stack) = n /\ stack'[n].h = stack[n].h
      BY <1>2, <1>3, <1>4, <2>2, <2>3
    <3> QED BY <1>3, <2>3, <3>1, PathKept
  <2>5. Asked(world, Sought, f2)
    BY <1>3, <2>1, <2>2, DepsAreSeqs DEF Asked
  <2>6. stack' # <<>> /\ stack'[1].h = query.h
    <3>1. 1 = n \/ 1 \in 1 .. n - 1
      OBVIOUS
    <3>2. stack'[1].h = stack[1].h
      BY <1>3, <1>4, <2>2, <2>3, <3>1
    <3>3. Len(stack') # 0
      BY <2>3
    <3> QED BY <1>3, <3>2, <3>3
  <2> QED BY <1>1, <1>3, <2>1, <2>3, <2>4, <2>5, <2>6, RecursionSInv
<1> QED BY <1>5, <1>6

LEMMA DescendSInv == IInv /\ SInv /\ Descend => SInv'
<1> SUFFICES ASSUME IInv, SInv, Descend PROVE SInv'
  OBVIOUS
<1>1. /\ pc = "deps" /\ pc' = "deps" /\ stack # <<>> /\ result = NotFound
      /\ Frame.i > 0 /\ DepsLeft
      /\ UNCHANGED <<world, query, words, result>>
      /\ stack' = Append(Append(Below, [Frame EXCEPT !.i = @ + 1]),
                         [h |-> world.deps[Frame.h][Frame.i], i |-> 0])
  BY DEF Descend, At, constant
<1>2. PICK n \in Nat \ {0}, f \in Frames : n = Len(stack) /\ f = Frame
  BY <1>1, InRecursion
<1>3. /\ world \in World /\ stack \in Seq(Frames) /\ stack[n] = f
      /\ Below \in Seq(Frames) /\ Len(Below) = n - 1
      /\ \A k \in 1 .. n - 1 : Below[k] = stack[k]
      /\ ~DefinesIt(world, query.h, Current)
      /\ stack[1].h = query.h /\ Path(world, Sought, stack) /\ Asked(world, Sought, f)
  BY <1>1, <1>2, InRecursion
<1>4. PICK g \in Handle, p \in Nat \ {0} : g = f.h /\ p = f.i
  BY <1>1, <1>2, <1>3 DEF Asked, Frames
<1>5. /\ ~Has(world, g, Sought)
      /\ \A j \in DOMAIN world.deps[g] : j < p => NoneBelow(world, Sought, world.deps[g][j])
  BY <1>1, <1>2, <1>3, <1>4 DEF Asked
<1>6. p \in DOMAIN world.deps[g]
  <2>1. p <= Len(world.deps[g])
    BY <1>1, <1>2, <1>4 DEF DepsLeft
  <2>2. DOMAIN world.deps[g] = 1 .. Len(world.deps[g]) /\ Len(world.deps[g]) \in Nat
    BY <1>3, DepsAreSeqs
  <2> QED BY <2>1, <2>2
<1>7. PICK d \in Handle \cup {Main} : d = world.deps[g][p]
  BY <1>3, <1>6, DepsAreSeqs
<1>8. PICK f2 \in Frames : f2 = [f EXCEPT !.i = @ + 1] /\ f2.h = g /\ f2.i = p + 1
  <2>1. [f EXCEPT !.i = @ + 1] = [h |-> g, i |-> p + 1]
    BY <1>4 DEF Frames
  <2>2. [h |-> g, i |-> p + 1] \in Frames
    BY DEF Frames
  <2> QED BY <2>1, <2>2
<1>9. PICK f3 \in Frames : f3 = [h |-> d, i |-> 0] /\ f3.h = d /\ f3.i = 0
  <2>1. [h |-> d, i |-> 0] \in Frames
    BY DEF Frames
  <2> QED BY <2>1
<1>10. PICK s2 \in Seq(Frames) :
         /\ s2 = Append(Below, f2) /\ Len(s2) = n /\ s2[n] = f2
         /\ \A k \in 1 .. n - 1 : s2[k] = stack[k]
  <2>1. PICK s2 : s2 = Append(Below, f2)
    OBVIOUS
  <2>2. Len(Below) + 1 = n
    BY <1>3
  <2>3. /\ s2 \in Seq(Frames) /\ Len(s2) = n /\ s2[n] = f2
        /\ \A k \in 1 .. n - 1 : s2[k] = Below[k]
    BY <1>3, <2>1, <2>2, OnTop
  <2> QED BY <1>3, <2>1, <2>3
<1>11. /\ Len(stack') = n + 1 /\ stack'[n + 1] = f3
       /\ \A k \in 1 .. n : stack'[k] = s2[k]
  <2>1. stack' = Append(s2, f3)
    <3>1. stack' = Append(Append(Below, f2), f3)
      BY <1>1, <1>2, <1>4, <1>7, <1>8, <1>9
    <3> QED BY <1>10, <3>1
  <2> QED BY <1>10, <2>1, OnTop
<1>12. Path(world, Sought, s2)
  <2>1. Len(stack) = n /\ s2[n].h = stack[n].h
    BY <1>2, <1>3, <1>4, <1>8, <1>10
  <2> QED BY <1>3, <1>10, <2>1, PathKept
<1>13. Waits(world, Sought, f2, d)
  <2>1. (p + 1) - 1 = p
    OBVIOUS
  <2> QED BY <1>5, <1>6, <1>7, <1>8, <2>1 DEF Waits
<1>14. Path(world, Sought, stack')
  <2> SUFFICES ASSUME NEW k \in 1 .. n
               PROVE  Waits(world, Sought, stack'[k], stack'[k + 1].h)
    <3>1. (n + 1) - 1 = n
      OBVIOUS
    <3> QED BY <1>11, <3>1 DEF Path
  <2>1. CASE k = n
    BY <1>9, <1>10, <1>11, <1>13, <2>1
  <2>2. CASE k # n
    <3>1. k \in 1 .. n - 1 /\ k + 1 \in 1 .. n
      BY <2>2
    <3>2. Waits(world, Sought, s2[k], s2[k + 1].h)
      BY <1>10, <1>12, <3>1 DEF Path
    <3> QED BY <1>11, <3>1, <3>2
  <2> QED BY <2>1, <2>2
<1>15. stack' # <<>> /\ stack'[1].h = query.h
  <2>1. 1 \in 1 .. n /\ (1 = n \/ 1 \in 1 .. n - 1)
    OBVIOUS
  <2>2. stack'[1].h = stack[1].h
    <3>1. stack'[1] = s2[1]
      BY <1>11, <2>1
    <3>2. s2[n].h = stack[n].h
      BY <1>3, <1>4, <1>8, <1>10
    <3> QED BY <1>10, <2>1, <3>1, <3>2
  <2>3. Len(stack') # 0
    BY <1>11
  <2> QED BY <1>3, <2>2, <2>3
<1>16. Asked(world, Sought, f3)
  BY <1>9 DEF Asked
<1> QED BY <1>1, <1>3, <1>11, <1>14, <1>15, <1>16, RecursionSInv

LEMMA ReturnSInv == IInv /\ SInv /\ Return => SInv'
<1> SUFFICES ASSUME IInv, SInv, Return PROVE SInv'
  OBVIOUS
<1>1. /\ pc = "deps" /\ pc' = "deps" /\ stack # <<>>
      /\ Frame.i > 0 /\ (result # NotFound \/ ~DepsLeft)
      /\ UNCHANGED <<world, query, words, result>>
      /\ stack' = Below
  BY DEF Return, At, constant
<1>2. PICK n \in Nat \ {0}, f \in Frames : n = Len(stack) /\ f = Frame
  BY <1>1, InRecursion
<1>3. /\ world \in World /\ stack \in Seq(Frames) /\ stack[n] = f
      /\ Below \in Seq(Frames) /\ Len(Below) = n - 1
      /\ \A k \in 1 .. n - 1 : Below[k] = stack[k]
      /\ ~DefinesIt(world, query.h, Current)
  BY <1>1, <1>2, InRecursion
<1>4. CASE result # NotFound
  <2>1. result = By(FirstBelow(world, query.h, Sought))
    BY <1>1, <1>4, InRecursion
  <2> QED BY <1>1, <1>3, <1>4, <2>1, RecursionSInv
<1>5. CASE result = NotFound
  <2>1. stack[1].h = query.h /\ Path(world, Sought, stack) /\ Asked(world, Sought, f)
    BY <1>1, <1>2, <1>5, InRecursion
  <2>2. PICK g \in Handle, p \in Nat \ {0} : g = f.h /\ p = f.i
    BY <1>1, <1>2, <2>1 DEF Asked, Frames
  <2>3. NoneBelow(world, Sought, g)
    <3>1. ~Has(world, g, Sought) /\ ~(p <= Len(world.deps[g]))
      BY <1>1, <1>2, <1>5, <2>1, <2>2 DEF Asked, DepsLeft
    <3>2. DOMAIN world.deps[g] = 1 .. Len(world.deps[g]) /\ Len(world.deps[g]) \in Nat
      BY <1>3, DepsAreSeqs
    <3>3. \A j \in DOMAIN world.deps[g] : j < p
      BY <3>1, <3>2
    <3>4. \A j \in DOMAIN world.deps[g] : NoneBelow(world, Sought, world.deps[g][j])
      BY <1>1, <1>2, <2>1, <2>2, <3>3 DEF Asked
    <3> QED BY <1>3, <3>1, <3>4, NoneThere
  <2>4. CASE n = 1
    <3>1. stack' = <<>>
      BY <1>1, <1>3, <2>4
    <3>2. g = query.h
      BY <1>3, <2>1, <2>2, <2>4
    <3> QED BY <1>1, <1>3, <1>5, <2>3, <3>1, <3>2, RecursionSInv
  <2>5. CASE n # 1
    <3>1. n - 1 \in Nat \ {0} /\ n - 1 \in 1 .. n - 1 /\ (n - 1) + 1 = n /\ 1 \in 1 .. n - 1
      BY <2>5
    <3>2. PICK m \in Nat \ {0}, c \in Frames : m = n - 1 /\ c = stack[m]
      BY <1>2, <1>3, <3>1
    <3>3. /\ Len(stack') = m /\ stack'[m] = c /\ stack'[1] = stack[1]
          /\ \A k \in 1 .. m : stack'[k] = stack[k]
      BY <1>1, <1>3, <3>1, <3>2
    <3>4. stack' # <<>> /\ stack'[1].h = query.h
      <4>1. Len(stack') # 0
        BY <3>3
      <4> QED BY <2>1, <3>3, <4>1
    <3>5. Path(world, Sought, stack')
      <4>1. ASSUME NEW k \in 1 .. m - 1
            PROVE  Waits(world, Sought, stack'[k], stack'[k + 1].h)
        <5>1. k \in 1 .. n - 1 /\ k \in 1 .. m /\ k + 1 \in 1 .. m
          BY <3>2
        <5>2. Waits(world, Sought, stack[k], stack[k + 1].h)
          BY <1>2, <2>1, <5>1 DEF Path
        <5> QED BY <3>3, <5>1, <5>2
      <4> QED BY <3>3, <4>1 DEF Path
    <3>6. Waits(world, Sought, c, g)
      <4>1. Waits(world, Sought, stack[m], stack[m + 1].h)
        BY <1>2, <2>1, <3>1, <3>2 DEF Path
      <4>2. stack[m + 1] = f
        BY <1>3, <3>1, <3>2
      <4> QED BY <2>2, <3>2, <4>1, <4>2
    <3>7. Asked(world, Sought, c)
      <4>1. c.h \in Handle /\ ~Has(world, c.h, Sought) /\ c.i \in Nat
        BY <3>6 DEF Waits, Frames
      <4>2. ASSUME NEW j \in DOMAIN world.deps[c.h], j < c.i
            PROVE  NoneBelow(world, Sought, world.deps[c.h][j])
        <5>1. j \in Nat
          <6>1. PICK b \in Handle : b = c.h
            BY <4>1
          <6>2. DOMAIN world.deps[b] = 1 .. Len(world.deps[b])
            BY <1>3, DepsAreSeqs
          <6> QED BY <6>1, <6>2
        <5>2. j < c.i - 1 \/ j = c.i - 1
          BY <4>1, <4>2, <5>1
        <5> QED BY <2>3, <3>6, <5>2 DEF Waits
      <4> QED BY <4>1, <4>2 DEF Asked
    <3> QED BY <1>1, <1>3, <1>5, <3>3, <3>4, <3>5, <3>7, RecursionSInv
  <2> QED BY <2>4, <2>5
<1> QED BY <1>4, <1>5

LEMMA AfterDepsSInv == IInv /\ SInv /\ (VisitMain \/ DepsSearched) => SInv'
<1> SUFFICES ASSUME IInv, SInv, VisitMain \/ DepsSearched PROVE SInv'
  OBVIOUS
<1>1. pc = "deps" /\ UNCHANGED <<world, query, words, result, stack, i>>
  BY DEF VisitMain, DepsSearched, At, constant, searching
<1>2. /\ Current' = Current /\ Sought' = Sought /\ WordsOK'
      /\ StageInv /\ Missed /\ Recursion
  BY <1>1, SameWords DEF SInv
<1>3. CASE VisitMain
  <2>1. pc' = "deps" /\ UNCHANGED Frame
    BY <1>1, <1>3 DEF VisitMain, Frame
  <2> QED BY <1>1, <1>2, <2>1 DEF SInv, StageInv, Searching, Missed, Answered, Recursion
<1>4. CASE DepsSearched
  <2>1. stack = <<>> /\ pc' = "apply"
    BY <1>4 DEF DepsSearched
  <2>2. result = By(FirstBelow(world, query.h, Sought))
    <3>1. CASE result # NotFound
      BY <1>2, <3>1 DEF Recursion
    <3>2. CASE result = NotFound
      <4>1. NoneBelow(world, Sought, query.h)
        BY <1>2, <2>1, <3>2 DEF Recursion
      <4>2. Cardinality(Handle) \in Nat
        BY SearchAssumption, FS_CardinalityType
      <4>3. FirstBelow(world, query.h, Sought) = Nobody
        BY <4>1, <4>2 DEF NoneBelow, FirstBelow
      <4> QED BY <3>2, <4>3 DEF NotFound, By
    <3> QED BY <3>1, <3>2
  <2>3. /\ query.kind = "reloc"
        /\ Expected(world, query.h, Current) = FirstBelow(world, query.h, Sought)
    BY <1>1, <1>2, ExpectedBelow DEF Missed
  <2>4. StageInv'
    BY <1>1, <1>2, <2>1, <2>3 DEF StageInv, Searching
  <2>5. Answered'
    BY <1>1, <1>2, <2>1, <2>2, <2>3 DEF Answered
  <2> QED BY <1>2, <2>1, <2>4, <2>5 DEF SInv, Missed
<1> QED BY <1>3, <1>4

(* Searches with the queue and by address do not come to other stages.     *)
LEMMA OthersSInv ==
  ASSUME IInv, SInv,
         \/ Start \/ PopCrashes \/ Pop \/ PushDep \/ DepsPushed \/ QueueEmpty
         \/ AskRange \/ NoRange \/ AskValue
  PROVE  SInv'
<1>1. UNCHANGED <<world, query, words>>
  BY DEF Start, PopCrashes, Pop, PushDep, DepsPushed, QueueEmpty, AskRange, NoRange,
         AskValue, constant, searching
<1>2. WordsOK' /\ StageInv
  BY <1>1, SameWords DEF SInv
<1>3. \/ pc \in {"start", "pop", "push"} \/ pc \in {"range", "value"}
  BY DEF Start, PopCrashes, Pop, PushDep, DepsPushed, QueueEmpty, AskRange, NoRange,
         AskValue, At
<1>4. query.kind \notin {"reloc", "main"}
  BY <1>2, <1>3 DEF StageInv, ByAddress
<1>5. /\ pc \in {"start", "pop", "push"} => pc' \in {"pop", "push", "done"}
      /\ pc \in {"range", "value"} => pc' \in {"range", "value", "done"}
  BY <1>4 DEF Start, PopCrashes, Pop, PushDep, DepsPushed, QueueEmpty, AskRange,
              NoRange, AskValue, At, Done
<1>6. pc' \in {"pop", "push", "range", "value", "done"}
  BY <1>3, <1>5
<1>7. StageInv'
  BY <1>1, <1>2, <1>3, <1>4, <1>5 DEF StageInv, Searching
<1>8. Missed' /\ Answered' /\ pc' # "deps"
  BY <1>1, <1>4, <1>6 DEF Missed, Answered
<1> QED BY <1>2, <1>7, <1>8 DEF SInv

LEMMA StepSInv == IInv /\ SInv /\ [Next]_vars => SInv'
<1> SUFFICES ASSUME IInv, SInv, [Next]_vars PROVE SInv'
  OBVIOUS
<1>1. CASE UNCHANGED vars
  <2>1. UNCHANGED <<world, query, words, pc, i, result, stack>>
    BY <1>1 DEF vars
  <2>2. Current' = Current /\ Sought' = Sought /\ WordsOK' = WordsOK
    BY <2>1, SameWords
  <2>3. UNCHANGED Frame
    BY <2>1 DEF Frame
  <2> QED BY <2>1, <2>2, <2>3
        DEF SInv, StageInv, Searching, Missed, Answered, Recursion
<1>2. CASE Search
  BY <1>2, ApplySInv, RelocsSInv, ScopesSInv, SelfSInv, VisitSInv, DescendSInv,
     ReturnSInv, AfterDepsSInv, OthersSInv DEF Search
<1> QED BY <1>1, <1>2 DEF Next, Over

(* A symbol is taken from the first scope that has it, for any number of   *)
(* objects in any order, whatever they need.  The search of dependencies   *)
(* is the recursion without its loops and locks: the first object with the *)
(* symbol, each object before what it needs.  The search may not end if an *)
(* object needs itself, but what it finds is the same.                     *)
THEOREM ScopesInOrder == Spec => []FirstScopeWins
BY InitIInv, StepIInv, InitSInv, StepSInv, SInvShows, PTL DEF Spec

(* For any table of relocations: each one gets the symbol, or leaves its   *)
(* word if the symbol is weak and nobody has it, or ends the load.         *)
THEOREM RelocationsFollow == Spec => []RelocatedOrFailed
BY InitIInv, StepIInv, InitSInv, StepSInv, SInvShows, PTL DEF Spec
=============================================================================
