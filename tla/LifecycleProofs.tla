--------------------------- MODULE LifecycleProofs ---------------------------
(***************************************************************************)
(* Proofs about Lifecycle for any threads, objects, dependencies, faults   *)
(* and callers: its variables keep their types, the handle mutex is owned  *)
(* exactly as long as the calls that took it are under way, and what the   *)
(* loader does to its table and to its mutex is what LoadOrder and Mutex   *)
(* allow.                                                                  *)
(***************************************************************************)
EXTENDS Lifecycle, FiniteSetTheorems, SequenceTheorems, TLAPS

(* A frame whose call needs a request or a handle has it, and one that     *)
(* goes through dependencies counts them from 1.                           *)
Shaped ==
  {f \in Frame :
     /\ f.pc \in OpenPC \cup LoadPC => f.req \in Request
     /\ f.pc \in LoadPC \cup UnlockPC \cup UnloadPC => f.h \in Handle
     /\ f.pc \in UnloadPC \cup {"deps"} => f.i > 0}

(* The types of everything but the stacks and the mutex.                   *)
Rest ==
  /\ alive \subseteq Handle
  /\ members \subseteq Handle /\ IsFiniteSet(members)
  /\ before \subseteq Handle \X Handle
  /\ obj \in [Handle -> Object]
  /\ held \in [Handle -> Nat]
  /\ calls \in 0 .. MaxCalls
  /\ crashed \in BOOLEAN

Stacks ==
  /\ stack \in [Thread -> Seq(Shaped)]
  /\ owner \in Thread \cup {NoThread}
  /\ depth \in Nat

IInv == Rest /\ Stacks /\ MutexBalanced

(* How many of the calls in a sequence of frames own the mutex.            *)
Owns(s) == {k \in DOMAIN s : s[k].pc \in Owning}
Depth(s) == Cardinality(Owns(s))
Own(f) == IF f.pc \in Owning THEN 1 ELSE 0

-----------------------------------------------------------------------------
(* A call that is made counts once if it owns the mutex.                   *)
LEMMA DepthAppend ==
  ASSUME NEW s \in Seq(Frame), NEW f \in Frame
  PROVE  /\ Depth(s) \in Nat
         /\ Depth(Append(s, f)) = Depth(s) + Own(f)
<1> DEFINE n == Len(s) + 1
           r == Append(s, f)
<1>1. IsFiniteSet(Owns(s)) /\ Depth(s) \in Nat
  <2>1. IsFiniteSet(1 .. Len(s))
    BY FS_Interval
  <2>2. Owns(s) \subseteq 1 .. Len(s)
    BY DEF Owns
  <2> QED BY <2>1, <2>2, FS_Subset, FS_CardinalityType DEF Depth
<1>2. /\ DOMAIN s = 1 .. n - 1 /\ DOMAIN r = 1 .. n /\ n \in Nat \ {0}
      /\ r[n] = f /\ \A k \in 1 .. n - 1 : r[k] = s[k]
  OBVIOUS
<1> HIDE DEF n, r
<1>3. n \notin Owns(s)
  BY <1>2 DEF Owns
<1>4. CASE f.pc \in Owning
  <2>1. Owns(r) = Owns(s) \cup {n}
    BY <1>2, <1>4 DEF Owns
  <2>2. Cardinality(Owns(r)) = Cardinality(Owns(s)) + 1
    BY <1>1, <1>3, <2>1, FS_AddElement
  <2> QED BY <1>1, <1>4, <2>2 DEF Depth, Own, r
<1>5. CASE f.pc \notin Owning
  <2>1. Owns(r) = Owns(s)
    BY <1>2, <1>5 DEF Owns
  <2> QED BY <1>1, <1>5, <2>1 DEF Depth, Own, r
<1> QED BY <1>4, <1>5

(* The running call, its caller, and what is under them.                   *)
LEMMA Split ==
  ASSUME NEW s \in Seq(Shaped), s # <<>>
  PROVE  /\ s[Len(s)] \in Shaped /\ SubSeq(s, 1, Len(s) - 1) \in Seq(Shaped)
         /\ Len(SubSeq(s, 1, Len(s) - 1)) = Len(s) - 1
         /\ s = Append(SubSeq(s, 1, Len(s) - 1), s[Len(s)])
         /\ Depth(s) = Depth(SubSeq(s, 1, Len(s) - 1)) + Own(s[Len(s)])
         /\ Depth(SubSeq(s, 1, Len(s) - 1)) \in Nat
<1> DEFINE u == SubSeq(s, 1, Len(s) - 1)
           f == s[Len(s)]
<1>1. Len(s) \in Nat \ {0}
  OBVIOUS
<1>2. f \in Shaped
  BY <1>1
<1>3. u = [k \in 1 .. Len(s) - 1 |-> s[k]]
  BY <1>1
<1> HIDE DEF u
<1>4. \A k \in 1 .. Len(s) - 1 : s[k] \in Shaped
  BY <1>1
<1>5. u \in Seq(Shaped) /\ Len(u) = Len(s) - 1
  BY <1>1, <1>3, <1>4
<1>6. s = Append(u, f)
  BY <1>1, <1>2, <1>3, <1>5
<1>7. u \in Seq(Frame) /\ f \in Frame
  BY <1>2, <1>5 DEF Shaped
<1>8. Depth(s) = Depth(u) + Own(f) /\ Depth(u) \in Nat
  BY <1>7, <1>6, DepthAppend
<1> QED BY <1>2, <1>5, <1>8, <1>6 DEF u

LEMMA TopFrame ==
  ASSUME Stacks, NEW t \in Thread, Running(t)
  PROVE  /\ Top(t) \in Shaped /\ Under(t) \in Seq(Shaped)
         /\ Depth(stack[t]) = Depth(Under(t)) + Own(Top(t))
         /\ Depth(Under(t)) \in Nat
<1>1. stack[t] \in Seq(Shaped) /\ stack[t] # <<>>
  BY DEF Stacks, Running
<1> QED BY <1>1, Split DEF Top, Under

LEMMA CallerFrame ==
  ASSUME Stacks, NEW t \in Thread, Len(stack[t]) > 1
  PROVE  /\ Running(t)
         /\ Caller(t) \in Shaped /\ UnderCaller(t) \in Seq(Shaped)
         /\ Depth(stack[t]) = Depth(UnderCaller(t)) + Own(Caller(t)) + Own(Top(t))
         /\ Depth(UnderCaller(t)) \in Nat
<1>1. stack[t] \in Seq(Shaped) /\ stack[t] # <<>>
  BY DEF Stacks
<1>2. PICK s \in Seq(Shaped) : s = stack[t] /\ Len(s) > 1 /\ s # <<>>
  BY <1>1
<1>3. PICK u \in Seq(Shaped) : u = SubSeq(s, 1, Len(s) - 1)
  BY <1>2, Split
<1>4. Len(u) = Len(s) - 1 /\ u # <<>> /\ Len(s) \in Nat
  <2>1. Len(s) \in Nat /\ Len(u) = Len(s) - 1
    BY <1>2, <1>3, Split
  <2>2. Len(u) > 0
    BY <1>2, <2>1
  <2> QED BY <2>1, <2>2
<1>5. \A k \in 1 .. Len(u) : u[k] = s[k]
  BY <1>2, <1>3, <1>4
<1>6. /\ u[Len(u)] = s[Len(s) - 1]
      /\ SubSeq(u, 1, Len(u) - 1) = SubSeq(s, 1, Len(s) - 2)
  <2>1. Len(u) \in 1 .. Len(u) /\ Len(u) = Len(s) - 1
    BY <1>2, <1>4
  <2>2. u[Len(u)] = s[Len(u)]
    BY <1>5, <2>1
  <2>3. [k \in 1 .. Len(u) - 1 |-> u[k]] = [k \in 1 .. Len(s) - 2 |-> s[k]]
    BY <1>4, <1>5
  <2>4. SubSeq(u, 1, Len(u) - 1) = [k \in 1 .. Len(u) - 1 |-> u[k]]
    BY <1>4
  <2>5. SubSeq(s, 1, Len(s) - 2) = [k \in 1 .. Len(s) - 2 |-> s[k]]
    BY <1>2, <1>4
  <2> QED BY <2>1, <2>2, <2>3, <2>4, <2>5
<1>7. /\ u[Len(u)] \in Shaped /\ SubSeq(u, 1, Len(u) - 1) \in Seq(Shaped)
      /\ Depth(u) = Depth(SubSeq(u, 1, Len(u) - 1)) + Own(u[Len(u)])
      /\ Depth(SubSeq(u, 1, Len(u) - 1)) \in Nat
  BY <1>4, Split
<1>8. Depth(s) = Depth(u) + Own(s[Len(s)])
  BY <1>2, <1>3, Split
<1> QED BY <1>1, <1>2, <1>6, <1>7, <1>8
        DEF Running, Caller, UnderCaller, Top

-----------------------------------------------------------------------------
(* What a step of thread t may do to its stack and to the mutex.           *)
Balances(t, s) ==
  \/ UNCHANGED <<owner, depth>> /\ Depth(s) = Depth(stack[t])
  \/ Mtx!Acquire(t) /\ Depth(s) = Depth(stack[t]) + 1
  \/ Mtx!Release(t) /\ Depth(s) = Depth(stack[t]) - 1

StackStep(t) ==
  \E s \in Seq(Shaped) : stack' = [stack EXCEPT ![t] = s] /\ Balances(t, s)

LEMMA DepthNat ==
  ASSUME NEW s \in Seq(Shaped)
  PROVE  Depth(s) \in Nat
<1>1. s \in Seq(Frame)
  BY DEF Shaped
<1>2. IsFiniteSet(1 .. Len(s))
  BY <1>1, FS_Interval
<1>3. Owns(s) \subseteq 1 .. Len(s)
  BY <1>1 DEF Owns
<1> QED BY <1>2, <1>3, FS_Subset, FS_CardinalityType DEF Depth

LEMMA StackStepKeeps ==
  ASSUME IInv, NEW t \in Thread, StackStep(t)
  PROVE  Stacks' /\ MutexBalanced'
<1>1. PICK s \in Seq(Shaped) : stack' = [stack EXCEPT ![t] = s] /\ Balances(t, s)
  BY DEF StackStep
<1>2. /\ stack \in [Thread -> Seq(Shaped)] /\ depth \in Nat
      /\ owner \in Thread \cup {NoThread} /\ NoThread \notin Thread
  BY LoaderAssumption DEF IInv, Stacks
<1>3. /\ stack' \in [Thread -> Seq(Shaped)]
      /\ \A u \in Thread : u # t => stack'[u] = stack[u]
      /\ stack'[t] = s
  BY <1>1, <1>2
<1>4. \A u \in Thread : Depth(stack[u]) = IF owner = u THEN depth ELSE 0
  BY DEF IInv, MutexBalanced, Depth, Owns, OwningFrames
<1>5. owner = NoThread <=> depth = 0
  BY DEF IInv, MutexBalanced
<1>6. Depth(s) \in Nat
  BY DepthNat
<1>7. /\ owner' \in Thread \cup {NoThread} /\ depth' \in Nat
      /\ Depth(s) = IF owner' = t THEN depth' ELSE 0
      /\ \A u \in Thread : u # t =>
           (IF owner' = u THEN depth' ELSE 0) = (IF owner = u THEN depth ELSE 0)
      /\ owner' = NoThread <=> depth' = 0
  <2>1. CASE UNCHANGED <<owner, depth>> /\ Depth(s) = Depth(stack[t])
    BY <1>2, <1>4, <1>5, <2>1
  <2>2. CASE Mtx!Acquire(t) /\ Depth(s) = Depth(stack[t]) + 1
    <3>1. owner \in {NoThread, t} /\ owner' = t /\ depth' = depth + 1
      BY <2>2 DEF Mtx!Acquire, Mtx!Free
    <3>2. Depth(stack[t]) = depth
      BY <1>2, <1>4, <1>5, <3>1
    <3> QED BY <1>2, <1>5, <2>2, <3>1, <3>2
  <2>3. CASE Mtx!Release(t) /\ Depth(s) = Depth(stack[t]) - 1
    <3>1. owner = t /\ depth' = depth - 1 /\ owner' = IF depth = 1 THEN NoThread ELSE owner
      BY <2>3 DEF Mtx!Release
    <3>2. Depth(stack[t]) = depth
      BY <1>4, <3>1
    <3>3. Depth(s) = depth - 1
      BY <2>3, <3>2
    <3> QED BY <1>2, <1>6, <3>1, <3>3
  <2> QED BY <1>1, <2>1, <2>2, <2>3 DEF Balances
<1>8. \A u \in Thread : Depth(stack'[u]) = IF owner' = u THEN depth' ELSE 0
  BY <1>3, <1>4, <1>7
<1>9. MutexBalanced'
  <2>1. \A u \in Thread :
          Cardinality(OwningFrames(u)') = IF owner' = u THEN depth' ELSE 0
    BY <1>8 DEF Depth, Owns, OwningFrames
  <2> QED BY <1>7, <2>1 DEF MutexBalanced
<1> QED BY <1>3, <1>7, <1>9 DEF Stacks

-----------------------------------------------------------------------------
(* The ways in which the running call goes on.  What it adds to the calls  *)
(* that own the mutex is what the step does to the mutex.                  *)
Adds(t, n) ==
  \/ n = 0 /\ UNCHANGED <<owner, depth>>
  \/ n = 1 /\ Mtx!Acquire(t)
  \/ n = 0 - 1 /\ Mtx!Release(t)

LEMMA Balance ==
  ASSUME NEW t \in Thread, NEW s \in Seq(Shaped), NEW n \in {0, 1, 0 - 1},
         Stacks, Depth(s) = Depth(stack[t]) + n, Adds(t, n),
         stack' = [stack EXCEPT ![t] = s]
  PROVE  StackStep(t)
<1>1. Depth(stack[t]) \in Nat
  BY DepthNat DEF Stacks
<1>2. Balances(t, s)
  BY <1>1 DEF Adds, Balances
<1> QED BY <1>2 DEF StackStep

LEMMA ShapedAppend ==
  ASSUME NEW s \in Seq(Shaped), NEW f \in Shaped
  PROVE  /\ Append(s, f) \in Seq(Shaped)
         /\ Depth(s) \in Nat /\ Own(f) \in {0, 1}
         /\ Depth(Append(s, f)) = Depth(s) + Own(f)
<1>1. s \in Seq(Frame) /\ f \in Frame
  BY DEF Shaped
<1> QED BY <1>1, DepthAppend DEF Own

LEMMA BecomeStep ==
  ASSUME Stacks, NEW t \in Thread, Running(t), NEW f \in Shaped, Become(t, f),
         Own(f) = Own(Top(t)), UNCHANGED <<owner, depth>>
  PROVE  StackStep(t)
<1> DEFINE s == Append(Under(t), f)
<1>1. s \in Seq(Shaped) /\ Depth(s) = Depth(stack[t]) + 0 /\ Own(f) \in {0, 1}
  BY TopFrame, ShapedAppend
<1>2. stack' = [stack EXCEPT ![t] = s]
  BY DEF Become
<1> HIDE DEF s
<1>3. Adds(t, 0)
  BY DEF Adds
<1> QED BY <1>1, <1>2, <1>3, Balance

LEMMA EnterStep ==
  ASSUME Stacks, NEW t \in Thread, NEW g \in Shaped, Enter(t, g),
         Adds(t, Own(g))
  PROVE  StackStep(t)
<1> DEFINE s == Append(stack[t], g)
<1>1. stack[t] \in Seq(Shaped)
  BY DEF Stacks
<1>2. s \in Seq(Shaped) /\ Depth(s) = Depth(stack[t]) + Own(g) /\ Own(g) \in {0, 1}
  BY <1>1, ShapedAppend
<1>3. stack' = [stack EXCEPT ![t] = s]
  BY DEF Enter
<1> HIDE DEF s
<1> QED BY <1>2, <1>3, Balance

LEMMA CallStep ==
  ASSUME Stacks, NEW t \in Thread, Running(t), NEW f \in Shaped, NEW g \in Shaped,
         BecomeAndCall(t, f, g), NEW n \in {0, 1},
         Own(f) + Own(g) = Own(Top(t)) + n, Adds(t, n)
  PROVE  StackStep(t)
<1> DEFINE r == Append(Under(t), f)
           s == Append(r, g)
<1>1. r \in Seq(Shaped) /\ Depth(r) = Depth(Under(t)) + Own(f)
  BY TopFrame, ShapedAppend
<1> HIDE DEF r
<1>2. s \in Seq(Shaped) /\ Depth(s) = Depth(r) + Own(g)
  BY <1>1, ShapedAppend
<1>3. stack' = [stack EXCEPT ![t] = s]
  BY DEF BecomeAndCall, r
<1> HIDE DEF s
<1>4. /\ Own(f) \in {0, 1} /\ Own(g) \in {0, 1} /\ Own(Top(t)) \in {0, 1}
      /\ Depth(Under(t)) \in Nat
      /\ Depth(stack[t]) = Depth(Under(t)) + Own(Top(t))
  BY TopFrame DEF Own
<1>5. Depth(s) = Depth(stack[t]) + n
  BY <1>1, <1>2, <1>4
<1> QED BY <1>2, <1>3, <1>5, Balance

LEMMA PopStep ==
  ASSUME Stacks, NEW t \in Thread, Running(t),
         stack' = [stack EXCEPT ![t] = Under(t)], Adds(t, 0 - Own(Top(t)))
  PROVE  StackStep(t)
<1>1. /\ Under(t) \in Seq(Shaped) /\ Own(Top(t)) \in {0, 1}
      /\ Depth(Under(t)) \in Nat
      /\ Depth(stack[t]) = Depth(Under(t)) + Own(Top(t))
  BY TopFrame DEF Own
<1>2. Depth(Under(t)) = Depth(stack[t]) + (0 - Own(Top(t)))
  BY <1>1
<1>3. 0 - Own(Top(t)) \in {0, 1, 0 - 1}
  BY <1>1
<1> QED BY <1>1, <1>2, <1>3, Balance

LEMMA ReturnStep ==
  ASSUME Stacks, NEW t \in Thread, Len(stack[t]) > 1, NEW f \in Shaped,
         ReturnTo(t, f), Own(Top(t)) = 0, NEW n \in {0, 0 - 1},
         Own(f) = Own(Caller(t)) + n, Adds(t, n)
  PROVE  StackStep(t)
<1> DEFINE s == Append(UnderCaller(t), f)
<1>1. s \in Seq(Shaped) /\ Depth(s) = Depth(UnderCaller(t)) + Own(f)
  BY CallerFrame, ShapedAppend
<1>2. stack' = [stack EXCEPT ![t] = s]
  BY DEF ReturnTo
<1> HIDE DEF s
<1>3. /\ Own(Caller(t)) \in {0, 1} /\ Depth(UnderCaller(t)) \in Nat
      /\ Depth(stack[t]) = Depth(UnderCaller(t)) + Own(Caller(t)) + Own(Top(t))
  BY CallerFrame DEF Own
<1>4. Depth(s) = Depth(stack[t]) + n
  BY <1>1, <1>3
<1> QED BY <1>1, <1>2, <1>4, Balance

(* A failed load goes on with the unloading of its object.                 *)
LEMMA DropStep ==
  ASSUME Stacks, NEW t \in Thread, Running(t), Top(t).pc \in LoadPC,
         BecomeAndCall(t, LoadFailed(Top(t)), UnloadFrame(Top(t).h)),
         UNCHANGED <<owner, depth>>
  PROVE  StackStep(t)
<1> DEFINE f == LoadFailed(Top(t))
           g == UnloadFrame(Top(t).h)
<1>1. Top(t) \in Shaped
  BY TopFrame
<1>2. f \in Shaped /\ g \in Shaped /\ Own(f) = 0 /\ Own(g) = 0 /\ Own(Top(t)) = 0
  BY <1>1 DEF LoadFailed, UnloadFrame, Shaped, Frame, Own, Owning,
              OpenPC, LoadPC, UnlockPC, UnloadPC, WalkPC
<1> HIDE DEF f, g
<1>3. BecomeAndCall(t, f, g)
  BY DEF f, g
<1>4. Adds(t, 0) /\ Own(f) + Own(g) = Own(Top(t)) + 0
  BY <1>2 DEF Adds
<1> QED BY <1>2, <1>3, <1>4, CallStep

-----------------------------------------------------------------------------
(* The frames the actions make have the shape of their calls.              *)
LEMMA NewFrames ==
  /\ \A h \in Handle : /\ UnlockFrame(h) \in Shaped /\ Own(UnlockFrame(h)) = 0
                       /\ UnloadFrame(h) \in Shaped /\ Own(UnloadFrame(h)) = 0
  /\ \A h \in Handle \cup {Null, Main} :
       DoneFrame(h) \in Shaped /\ Own(DoneFrame(h)) = 0
  /\ \A pc \in OpenPC, req \in Request :
       OpenFrame(pc, req) \in Shaped /\ Own(OpenFrame(pc, req)) = 0
  /\ \A pc \in WalkPC : WalkFrame(pc) \in Shaped /\ Own(WalkFrame(pc)) = 1
BY DEF UnlockFrame, UnloadFrame, DoneFrame, OpenFrame, WalkFrame, Shaped, Frame,
       Own, Owning, OpenPC, LoadPC, UnlockPC, UnloadPC, WalkPC

(* A load that goes on, and an unload that does, keep what they work on.   *)
LEMMA NextLoad ==
  ASSUME NEW f \in Shaped, f.pc \in LoadPC, NEW pc \in LoadPC \ {"deps"}
  PROVE  [f EXCEPT !.pc = pc] \in Shaped /\ Own([f EXCEPT !.pc = pc]) = 0
BY DEF Shaped, Frame, Own, Owning, OpenPC, LoadPC, UnlockPC, UnloadPC, WalkPC

LEMMA FirstDep ==
  ASSUME NEW f \in Shaped, f.pc \in LoadPC
  PROVE  /\ [f EXCEPT !.pc = "deps", !.i = 1] \in Shaped
         /\ Own([f EXCEPT !.pc = "deps", !.i = 1]) = 0
<1> DEFINE g == [f EXCEPT !.pc = "deps", !.i = 1]
<1>1. f \in Frame /\ f.req \in Request /\ f.h \in Handle
  BY DEF Shaped, LoadPC
<1>2. g.pc = "deps" /\ g.i = 1 /\ g.h = f.h /\ g.req = f.req
  BY <1>1 DEF Frame
<1>3. g \in Frame
  BY <1>1 DEF Frame, LoadPC
<1> HIDE DEF g
<1>4. g \in Shaped
  BY <1>1, <1>2, <1>3 DEF Shaped
<1>5. Own(g) = 0
  BY <1>2 DEF Own, Owning, WalkPC
<1> QED BY <1>4, <1>5 DEF g

LEMMA NextDep ==
  ASSUME NEW f \in Shaped, NEW i \in Nat \ {0}
  PROVE  [f EXCEPT !.i = i] \in Shaped /\ Own([f EXCEPT !.i = i]) = Own(f)
BY DEF Shaped, Frame, Own, Owning, OpenPC, LoadPC, UnlockPC, UnloadPC, WalkPC

LEMMA NextUnload ==
  ASSUME NEW f \in Shaped, f.pc \in UnloadPC, NEW pc \in UnloadPC
  PROVE  [f EXCEPT !.pc = pc] \in Shaped /\ Own([f EXCEPT !.pc = pc]) = 0
BY DEF Shaped, Frame, Own, Owning, OpenPC, LoadPC, UnlockPC, UnloadPC, WalkPC

LEMMA NextUnlock ==
  ASSUME NEW f \in Shaped, f.pc = "unlock"
  PROVE  /\ [f EXCEPT !.pc = "unlocking"] \in Shaped
         /\ Own([f EXCEPT !.pc = "unlocking"]) = 1
BY DEF Shaped, Frame, Own, Owning, OpenPC, LoadPC, UnlockPC, UnloadPC, WalkPC

LEMMA NextPass ==
  ASSUME NEW f \in Shaped, f.pc = "lookup", NEW i \in Nat,
         NEW h \in Handle \cup {Null}
  PROVE  /\ [f EXCEPT !.i = i, !.h = h] \in Shaped
         /\ Own([f EXCEPT !.i = i, !.h = h]) = 1
BY DEF Shaped, Frame, Own, Owning, OpenPC, LoadPC, UnlockPC, UnloadPC, WalkPC

LEMMA NextOpen ==
  ASSUME NEW f \in Shaped, f.pc \in OpenPC, NEW h \in Handle
  PROVE  /\ f.req \in Request /\ Own(f) = 0
         /\ [f EXCEPT !.pc = "create"] \in Shaped
         /\ Own([f EXCEPT !.pc = "create"]) = 0
         /\ [f EXCEPT !.pc = "parse", !.h = h] \in Shaped
         /\ Own([f EXCEPT !.pc = "parse", !.h = h]) = 0
BY DEF Shaped, Frame, Own, Owning, OpenPC, LoadPC, UnlockPC, UnloadPC, WalkPC

LEMMA TopShape ==
  ASSUME Stacks, NEW t \in Thread, Running(t)
  PROVE  /\ Top(t) \in Shaped /\ Top(t).i \in Nat
         /\ Top(t).h \in Handle \cup {Null, Main}
         /\ Top(t).pc \in LoadPC \cup UnlockPC \cup UnloadPC => Top(t).h \in Handle
         /\ Top(t).pc \in OpenPC \cup LoadPC => Top(t).req \in Request
         /\ Top(t).pc \in LoadPC \cup {"unlock", "done"} \cup UnloadPC \cup OpenPC =>
              Own(Top(t)) = 0
         /\ Top(t).pc \in WalkPC => Own(Top(t)) = 1
         /\ Top(t).pc \in UnloadPC \cup {"deps"} => Top(t).i > 0
BY TopFrame DEF Shaped, Frame, Own, Owning, OpenPC, LoadPC, UnlockPC, UnloadPC, WalkPC

(* The fields of a handle structure keep their types.                      *)
LEMMA ObjectFields ==
  ASSUME Rest, NEW h \in Handle
  PROVE  /\ obj[h] \in Object /\ obj[h].refc \in Nat
         /\ obj[h].pages \in {"none", "origin", "mapped"}
         /\ obj[h].deps \in Seq(Handle \cup {Main})
         /\ obj[h].released \in Nat /\ obj[h].finis \in Nat
BY DEF Rest, Object

LEMMA ObjectKept ==
  ASSUME Rest, NEW h \in Handle, NEW o \in Object
  PROVE  [obj EXCEPT ![h] = o] \in [Handle -> Object]
BY DEF Rest

LEMMA SetField ==
  ASSUME Rest, NEW h \in Handle
  PROVE  /\ \A v \in Nat : [obj EXCEPT ![h].refc = v] \in [Handle -> Object]
         /\ \A v \in Nat : [obj EXCEPT ![h].released = v] \in [Handle -> Object]
         /\ \A v \in Nat : [obj EXCEPT ![h].finis = v] \in [Handle -> Object]
         /\ \A v \in {"none", "origin", "mapped"} :
              [obj EXCEPT ![h].pages = v] \in [Handle -> Object]
         /\ [obj EXCEPT ![h].fini = TRUE] \in [Handle -> Object]
         /\ \A v \in Seq(Handle \cup {Main}) :
              [obj EXCEPT ![h].deps = v] \in [Handle -> Object]
         /\ \A v \in Nat, b \in BOOLEAN :
              [obj EXCEPT ![h].refc = v, ![h].global = b] \in [Handle -> Object]
<1>1. obj \in [Handle -> Object] /\ obj[h] \in Object
  BY DEF Rest
<1>2. \A v \in Nat : [obj EXCEPT ![h].refc = v] \in [Handle -> Object]
  BY <1>1 DEF Object
<1>3. \A v \in Nat : [obj EXCEPT ![h].released = v] \in [Handle -> Object]
  BY <1>1 DEF Object
<1>4. \A v \in Nat : [obj EXCEPT ![h].finis = v] \in [Handle -> Object]
  BY <1>1 DEF Object
<1>5. \A v \in {"none", "origin", "mapped"} :
        [obj EXCEPT ![h].pages = v] \in [Handle -> Object]
  BY <1>1 DEF Object
<1>6. [obj EXCEPT ![h].fini = TRUE] \in [Handle -> Object]
  BY <1>1 DEF Object
<1>7. \A v \in Seq(Handle \cup {Main}) :
        [obj EXCEPT ![h].deps = v] \in [Handle -> Object]
  BY <1>1 DEF Object
<1>8. \A v \in Nat, b \in BOOLEAN :
        [obj EXCEPT ![h].refc = v, ![h].global = b] \in [Handle -> Object]
  BY <1>1 DEF Object
<1> QED BY <1>2, <1>3, <1>4, <1>5, <1>6, <1>7, <1>8

LEMMA LockKeeps ==
  ASSUME Rest, NEW h \in Handle, Locked(h)
  PROVE  obj' \in [Handle -> Object]
<1>1. obj \in [Handle -> Object] /\ obj[h] \in Object
  BY DEF Rest
<1>2. PICK r \in Nat : r = obj[h].refc + 1
  BY <1>1 DEF Object
<1>3. obj' = [obj EXCEPT ![h].refc = r]
  BY <1>2 DEF Locked
<1> QED BY <1>3, SetField

-----------------------------------------------------------------------------
(* What every step keeps: the stacks and the mutex match, and the rest has *)
(* its types.                                                              *)
Kept(t) ==
  /\ StackStep(t) \/ UNCHANGED <<stack, owner, depth>>
  /\ Rest'

LEMMA CallKeeps ==
  ASSUME Rest, Stacks, NEW t \in Thread, Call(t)
  PROVE  Kept(t)
<1> USE DEF table, mutex, program
<1>1. CASE CallOpen(t)
  <2>1. PICK p \in Path, m \in Modes :
          Enter(t, OpenFrame("find",
            [path |-> p, image |-> p, global |-> m.global,
             noload |-> m.noload, resolver |-> m.resolver]))
    BY <1>1 DEF CallOpen
  <2> DEFINE req == [path |-> p, image |-> p, global |-> m.global,
                     noload |-> m.noload, resolver |-> m.resolver]
             g == OpenFrame("find", req)
  <2>2. req \in Request
    BY LoaderAssumption DEF Request
  <2> HIDE DEF req
  <2>3. g \in Shaped /\ Own(g) = 0
    BY <2>2, NewFrames DEF OpenPC
  <2> HIDE DEF g
  <2>4. Enter(t, g) /\ Adds(t, Own(g))
    BY <1>1, <2>1, <2>3 DEF CallOpen, Adds, g, req
  <2>5. StackStep(t)
    BY <2>3, <2>4, EnterStep
  <2>6. Rest'
    BY <1>1, LoaderAssumption DEF CallOpen, MayCall, Rest
  <2> QED BY <2>5, <2>6 DEF Kept
<1>2. CASE CallOpenFile(t)
  <2>1. PICK p \in Path, m \in Modes :
          Enter(t, OpenFrame("create",
            [path |-> NoPath, image |-> p, global |-> m.global,
             noload |-> FALSE, resolver |-> m.resolver]))
    BY <1>2 DEF CallOpenFile
  <2> DEFINE req == [path |-> NoPath, image |-> p, global |-> m.global,
                     noload |-> FALSE, resolver |-> m.resolver]
             g == OpenFrame("create", req)
  <2>2. req \in Request
    BY LoaderAssumption DEF Request
  <2> HIDE DEF req
  <2>3. g \in Shaped /\ Own(g) = 0
    BY <2>2, NewFrames DEF OpenPC
  <2> HIDE DEF g
  <2>4. Enter(t, g) /\ Adds(t, Own(g))
    BY <1>2, <2>1, <2>3 DEF CallOpenFile, Adds, g, req
  <2>5. StackStep(t)
    BY <2>3, <2>4, EnterStep
  <2>6. Rest'
    BY <1>2, LoaderAssumption DEF CallOpenFile, MayCall, Rest
  <2> QED BY <2>5, <2>6 DEF Kept
<1>3. CASE CallClose(t)
  <2>1. PICK h \in Handle : /\ held[h] > 0 /\ held' = [held EXCEPT ![h] = @ - 1]
                            /\ Enter(t, UnlockFrame(h))
    BY <1>3 DEF CallClose
  <2>2. UnlockFrame(h) \in Shaped /\ Own(UnlockFrame(h)) = 0
    BY NewFrames
  <2>3. Adds(t, Own(UnlockFrame(h)))
    BY <1>3, <2>2 DEF CallClose, Adds
  <2>4. StackStep(t)
    BY <2>1, <2>2, <2>3, EnterStep
  <2>5. held' \in [Handle -> Nat]
    BY <2>1 DEF Rest
  <2>6. Rest'
    BY <1>3, <2>5 DEF CallClose, Rest
  <2> QED BY <2>4, <2>6 DEF Kept
<1>4. CASE CallByAddress(t)
  <2>1. PICK h \in Handle : Locked(h) /\ held' = [held EXCEPT ![h] = @ + 1]
    BY <1>4 DEF CallByAddress
  <2>2. held' \in [Handle -> Nat]
    BY <2>1 DEF Rest
  <2>3. obj' \in [Handle -> Object]
    BY <2>1, LockKeeps
  <2>4. /\ UNCHANGED <<alive, members, before, crashed>>
        /\ calls' = calls + 1 /\ calls < MaxCalls
    BY <1>4 DEF CallByAddress, MayCall
  <2>5. Rest'
    BY <2>2, <2>3, <2>4, LoaderAssumption DEF Rest
  <2> QED BY <1>4, <2>5 DEF CallByAddress, Kept
<1>5. CASE CallInfo(t)
  <2>1. PICK h \in Handle : Locked(h) /\ Enter(t, UnlockFrame(h))
    BY <1>5 DEF CallInfo
  <2>2. UnlockFrame(h) \in Shaped /\ Own(UnlockFrame(h)) = 0
    BY NewFrames
  <2>3. Adds(t, Own(UnlockFrame(h)))
    BY <1>5, <2>2 DEF CallInfo, Adds
  <2>4. StackStep(t)
    BY <2>1, <2>2, <2>3, EnterStep
  <2>5. obj' \in [Handle -> Object]
    BY <2>1, LockKeeps
  <2>6. /\ UNCHANGED <<alive, members, before, held, crashed>>
        /\ calls' = calls + 1 /\ calls < MaxCalls
    BY <1>5 DEF CallInfo, MayCall
  <2>7. Rest'
    BY <2>5, <2>6, LoaderAssumption DEF Rest
  <2> QED BY <2>4, <2>7 DEF Kept
<1>6. CASE CallWalk(t)
  <2>1. PICK pc \in WalkPC : Enter(t, WalkFrame(pc))
    BY <1>6 DEF CallWalk
  <2>2. WalkFrame(pc) \in Shaped /\ Own(WalkFrame(pc)) = 1
    BY NewFrames
  <2>3. Adds(t, Own(WalkFrame(pc)))
    BY <1>6, <2>2 DEF CallWalk, Adds
  <2>4. StackStep(t)
    BY <2>1, <2>2, <2>3, EnterStep
  <2>5. Rest'
    BY <1>6, LoaderAssumption DEF CallWalk, MayCall, Rest
  <2> QED BY <2>4, <2>5 DEF Kept
<1> QED BY <1>1, <1>2, <1>3, <1>4, <1>5, <1>6 DEF Call

LEMMA OpenKeeps ==
  ASSUME Rest, Stacks, NEW t \in Thread,
         \/ OpenHit(t) \/ OpenMiss(t) \/ Create(t) \/ CreateFails(t)
         \/ CreateFilledAfterFree(t)
  PROVE  Kept(t)
<1> USE DEF table, mutex, program
<1>1. CASE OpenHit(t)
  <2>1. PICK h \in Handle :
          /\ obj' = [obj EXCEPT ![h].refc = @ + 1, ![h].global = Top(t).req.global]
          /\ Become(t, DoneFrame(h))
    BY <1>1 DEF OpenHit, Found, Rest
  <2>2. Running(t) /\ Top(t).pc = "find"
    BY <1>1 DEF OpenHit, At
  <2>3. Top(t).req \in Request /\ Own(Top(t)) = 0
    BY <2>2, TopShape DEF OpenPC
  <2>4. StackStep(t)
    <3>1. DoneFrame(h) \in Shaped /\ Own(DoneFrame(h)) = Own(Top(t))
      BY <2>3, NewFrames
    <3> QED BY <1>1, <2>1, <2>2, <3>1, BecomeStep DEF OpenHit
  <2>5. obj' \in [Handle -> Object]
    <3>1. PICK r \in Nat, b \in BOOLEAN : r = obj[h].refc + 1 /\ b = Top(t).req.global
      BY <2>3, ObjectFields DEF Request
    <3>2. obj' = [obj EXCEPT ![h].refc = r, ![h].global = b]
      BY <2>1, <3>1
    <3> QED BY <3>2, SetField
  <2>6. Rest'
    BY <1>1, <2>5 DEF OpenHit, Rest
  <2> QED BY <2>4, <2>6 DEF Kept
<1>2. CASE OpenMiss(t)
  <2>1. Running(t) /\ Top(t).pc = "find" /\ Top(t).pc \in OpenPC
    BY <1>2 DEF OpenMiss, At, OpenPC
  <2>2. PICK f \in Shaped : Own(f) = 0 /\ Become(t, f)
    <3>1. [Top(t) EXCEPT !.pc = "create"] \in Shaped
          /\ Own([Top(t) EXCEPT !.pc = "create"]) = 0
      BY <2>1, TopFrame DEF Shaped, Frame, Own, Owning,
                            OpenPC, LoadPC, UnlockPC, UnloadPC, WalkPC
    <3> QED BY <1>2, <3>1, NewFrames DEF OpenMiss
  <2>3. StackStep(t)
    BY <1>2, <2>1, <2>2, TopShape, BecomeStep DEF OpenMiss
  <2>4. Rest'
    BY <1>2 DEF OpenMiss, Rest
  <2> QED BY <2>3, <2>4 DEF Kept
<1>3. CASE Create(t)
  <2>1. Running(t) /\ Top(t).pc = "create" /\ Top(t).pc \in OpenPC
    BY <1>3 DEF Create, At, OpenPC
  <2>2. PICK h \in Handle :
          /\ Table!Insert(h) /\ alive' = alive \cup {h}
          /\ obj' = [obj EXCEPT ![h] = FreshObject(Top(t).req)]
          /\ Become(t, [Top(t) EXCEPT !.pc = "parse", !.h = h])
    BY <1>3 DEF Create
  <2>3. StackStep(t)
    <3>1. PICK f \in Shaped : f = [Top(t) EXCEPT !.pc = "parse", !.h = h] /\ Own(f) = 0
      BY <2>1, TopFrame, NextOpen
    <3>2. Become(t, f) /\ Own(f) = Own(Top(t))
      BY <2>1, <2>2, <3>1, TopShape
    <3> QED BY <1>3, <2>1, <3>2, BecomeStep DEF Create
  <2>4. FreshObject(Top(t).req) \in Object
    <3>1. PICK req \in Request : req = Top(t).req
      BY <2>1, TopShape
    <3>2. <<>> \in Seq(Handle \cup {Main})
      OBVIOUS
    <3> QED BY <3>1, <3>2 DEF FreshObject, Object, Request
  <2>5. /\ members' = members \cup {h}
        /\ before' = before \cup (members \X {h})
    BY <2>2 DEF Table!Insert
  <2>6. IsFiniteSet(members')
    BY <2>5, FS_AddElement DEF Rest
  <2>7. Rest'
    BY <1>3, <2>2, <2>4, <2>5, <2>6, ObjectKept DEF Create, Rest
  <2> QED BY <2>3, <2>7 DEF Kept
<1>4. CASE CreateFails(t)
  <2>1. Running(t) /\ Top(t).pc = "create" /\ Top(t).pc \in OpenPC
    BY <1>4 DEF CreateFails, At, OpenPC
  <2>2. DoneFrame(Null) \in Shaped /\ Own(DoneFrame(Null)) = Own(Top(t))
    BY <2>1, NewFrames, TopShape
  <2>3. StackStep(t)
    BY <1>4, <2>1, <2>2, BecomeStep DEF CreateFails
  <2>4. Rest'
    BY <1>4 DEF CreateFails, Rest
  <2> QED BY <2>3, <2>4 DEF Kept
<1>5. CASE CreateFilledAfterFree(t)
  BY <1>5 DEF CreateFilledAfterFree, Kept, Rest
<1> QED BY <1>1, <1>2, <1>3, <1>4, <1>5

(* A load goes on with its next part.                                      *)
LEMMA LoadGoesOn ==
  ASSUME Stacks, NEW t \in Thread, Running(t), Top(t).pc \in LoadPC,
         NEW pc \in LoadPC \ {"deps"}, UNCHANGED <<owner, depth>>,
         Become(t, [Top(t) EXCEPT !.pc = pc])
  PROVE  StackStep(t)
<1>1. PICK f \in Shaped : f = [Top(t) EXCEPT !.pc = pc] /\ Own(f) = 0
  BY TopShape, NextLoad
<1>2. Become(t, f) /\ Own(f) = Own(Top(t))
  BY <1>1, TopShape
<1> QED BY <1>2, BecomeStep

LEMMA DepsKeep ==
  ASSUME Rest, Stacks, NEW t \in Thread,
         \/ Parse(t) \/ ParseFails(t)
         \/ TooManyDeps(t) \/ OpenDep(t) \/ BindMain(t) \/ BindDep(t) \/ DepFails(t)
         \/ DepsLoaded(t)
  PROVE  Kept(t)
<1> USE DEF table, mutex, program
<1>0. {"parse", "deps", "map", "drop"} \subseteq LoadPC /\ "done" \notin LoadPC
  BY DEF LoadPC
<1>1. CASE Parse(t)
  <2>1. Running(t) /\ Top(t).pc \in LoadPC
    BY <1>0, <1>1 DEF Parse, At
  <2>2. PICK f \in Shaped : f = [Top(t) EXCEPT !.pc = "deps", !.i = 1] /\ Own(f) = 0
    BY <2>1, TopShape, FirstDep
  <2>3. Become(t, f) /\ Own(f) = Own(Top(t))
    BY <1>1, <2>1, <2>2, TopShape DEF Parse
  <2>4. StackStep(t)
    BY <1>1, <2>1, <2>3, BecomeStep DEF Parse
  <2>5. Rest'
    BY <1>1 DEF Parse, Rest
  <2> QED BY <2>4, <2>5 DEF Kept
<1>2. CASE ParseFails(t)
  <2>1. Running(t) /\ Top(t).pc \in LoadPC
    BY <1>0, <1>2 DEF ParseFails, At
  <2>2. /\ UnlockFrame(Top(t).h) \in Shaped
        /\ Own(UnlockFrame(Top(t).h)) = Own(Top(t))
    BY <2>1, TopShape, NewFrames
  <2>3. StackStep(t)
    BY <1>2, <2>1, <2>2, BecomeStep DEF ParseFails
  <2>4. Rest'
    BY <1>2 DEF ParseFails, Rest
  <2> QED BY <2>3, <2>4 DEF Kept
<1>3. CASE TooManyDeps(t)
  <2>1. Running(t) /\ Top(t).pc \in LoadPC
    BY <1>0, <1>3 DEF TooManyDeps, At
  <2>2. StackStep(t)
    BY <1>0, <1>3, <2>1, LoadGoesOn, DropStep DEF TooManyDeps
  <2>3. Rest'
    BY <1>3 DEF TooManyDeps, Rest
  <2> QED BY <2>2, <2>3 DEF Kept
<1>4. CASE OpenDep(t)
  <2>1. /\ Running(t) /\ Top(t).pc \in LoadPC /\ Top(t).pc = "deps"
        /\ Top(t).i <= Len(Needed(Top(t)))
    BY <1>0, <1>4 DEF OpenDep, DepsRemain, At
  <2>2. Top(t).req \in Request /\ Top(t).i \in Nat /\ Top(t).i > 0
    BY <2>1, TopShape
  <2> DEFINE p == Needed(Top(t))[Top(t).i]
             req == [path |-> p, image |-> p, global |-> TRUE,
                     noload |-> FALSE, resolver |-> Top(t).req.resolver]
             g == OpenFrame("find", req)
  <2>3. p \in Path
    <3>1. Needed(Top(t)) \in Seq(Path)
      BY <2>2, LoaderAssumption DEF Needed, Request
    <3> QED BY <2>1, <2>2, <3>1
  <2>4. req \in Request
    BY <2>2, <2>3 DEF Request
  <2>5. Enter(t, g)
    BY <1>4 DEF OpenDep
  <2> HIDE DEF req
  <2>6. g \in Shaped /\ Own(g) = 0
    BY <2>4, NewFrames DEF OpenPC
  <2> HIDE DEF g
  <2>7. StackStep(t)
    BY <1>4, <2>5, <2>6, EnterStep DEF OpenDep, Adds
  <2>8. Rest'
    BY <1>4 DEF OpenDep, Rest
  <2> QED BY <2>7, <2>8 DEF Kept
<1>5. CASE BindMain(t)
  <2>1. Running(t) /\ Top(t).pc \in LoadPC
    BY <1>0, <1>5 DEF BindMain, DepsRemain, At
  <2>2. PICK h \in Handle, i \in Nat \ {0} : h = Top(t).h /\ i = Top(t).i + 1
    BY <2>1, TopShape
  <2>3. PICK f \in Shaped : f = [Top(t) EXCEPT !.i = i] /\ Own(f) = Own(Top(t))
    BY <2>1, TopShape, NextDep
  <2>4. Become(t, f)
    BY <1>5, <2>2, <2>3 DEF BindMain
  <2>5. StackStep(t)
    BY <1>5, <2>1, <2>3, <2>4, BecomeStep DEF BindMain
  <2>6. obj' \in [Handle -> Object]
    <3>1. PICK v \in Seq(Handle \cup {Main}) : v = Append(obj[h].deps, Main)
      <4>1. obj[h].deps \in Seq(Handle \cup {Main})
        BY ObjectFields
      <4>2. Append(obj[h].deps, Main) \in Seq(Handle \cup {Main})
        BY <4>1, AppendProperties
      <4> QED BY <4>2
    <3>2. obj' = [obj EXCEPT ![h].deps = v]
      BY <1>5, <2>2, <3>1 DEF BindMain
    <3> QED BY <3>2, SetField
  <2>7. Rest'
    BY <1>5, <2>6 DEF BindMain, Rest
  <2> QED BY <2>5, <2>7 DEF Kept
<1>6. CASE BindDep(t)
  <2>1. /\ Running(t) /\ Top(t).pc = "done" /\ Top(t).h # Null
        /\ Len(stack[t]) > 1 /\ Caller(t).pc = "deps"
    BY <1>6 DEF BindDep, At, CalledFrom
  <2>2. Caller(t) \in Shaped /\ Own(Top(t)) = 0
    BY <2>1, CallerFrame, TopShape
  <2>3. PICK h \in Handle, i \in Nat \ {0}, d \in Handle \cup {Main} :
          h = Caller(t).h /\ i = Caller(t).i + 1 /\ d = Top(t).h
    BY <1>0, <2>1, <2>2, TopShape DEF Shaped, Frame
  <2>4. PICK f \in Shaped : f = [Caller(t) EXCEPT !.i = i] /\ Own(f) = Own(Caller(t))
    BY <2>2, NextDep
  <2>5. ReturnTo(t, f) /\ Adds(t, 0) /\ Own(f) = Own(Caller(t)) + 0
    BY <1>6, <2>3, <2>4 DEF BindDep, Adds, Own
  <2>6. StackStep(t)
    BY <2>1, <2>2, <2>5, ReturnStep
  <2>7. obj' \in [Handle -> Object]
    <3>1. PICK v \in Seq(Handle \cup {Main}) : v = Append(obj[h].deps, d)
      <4>1. obj[h].deps \in Seq(Handle \cup {Main})
        BY ObjectFields
      <4>2. Append(obj[h].deps, d) \in Seq(Handle \cup {Main})
        BY <4>1, AppendProperties
      <4> QED BY <4>2
    <3>2. obj' = [obj EXCEPT ![h].deps = v]
      BY <1>6, <2>3, <3>1 DEF BindDep
    <3> QED BY <3>2, SetField
  <2>8. Rest'
    BY <1>6, <2>7 DEF BindDep, Rest
  <2> QED BY <2>6, <2>8 DEF Kept
<1>7. CASE DepFails(t)
  <2>1. /\ Running(t) /\ Top(t).pc = "done"
        /\ Len(stack[t]) > 1 /\ Caller(t).pc = "deps" /\ Caller(t).pc \in LoadPC
    BY <1>0, <1>7 DEF DepFails, At, CalledFrom
  <2>2. Caller(t) \in Shaped /\ Own(Top(t)) = 0 /\ Own(Caller(t)) = 0
    BY <2>1, CallerFrame, TopShape DEF Own, Owning, WalkPC
  <2>3. StackStep(t)
    <3>1. CASE Caller(t).req.resolver
      <4>1. PICK f \in Shaped : f = [Caller(t) EXCEPT !.pc = "map"] /\ Own(f) = 0
        BY <1>0, <2>1, <2>2, NextLoad
      <4>2. ReturnTo(t, f) /\ Adds(t, 0) /\ Own(f) = Own(Caller(t)) + 0
        BY <1>7, <2>2, <3>1, <4>1 DEF DepFails, ReturnTo, Adds
      <4> QED BY <2>1, <2>2, <4>2, ReturnStep
    <3>2. CASE ~Caller(t).req.resolver
      <4>1. PICK f \in Shaped : f = LoadFailed(Caller(t)) /\ Own(f) = 0
        BY <1>0, <2>1, <2>2, NextLoad DEF LoadFailed
      <4>2. PICK g \in Shaped : g = UnloadFrame(Caller(t).h) /\ Own(g) = 0
        BY <2>1, <2>2, NewFrames DEF Shaped
      <4>3. PICK r \in Seq(Shaped) :
              r = Append(UnderCaller(t), f) /\ Depth(r) = Depth(UnderCaller(t)) + 0
        BY <2>1, <4>1, CallerFrame, ShapedAppend
      <4>4. PICK s \in Seq(Shaped) : s = Append(r, g) /\ Depth(s) = Depth(r) + 0
        BY <4>2, <4>3, ShapedAppend
      <4>5. Depth(s) = Depth(stack[t]) + 0
        BY <2>1, <2>2, <4>3, <4>4, CallerFrame
      <4>6. stack' = [stack EXCEPT ![t] = s] /\ Adds(t, 0)
        BY <1>7, <3>2, <4>1, <4>2, <4>3, <4>4 DEF DepFails, Adds
      <4> QED BY <4>5, <4>6, Balance
    <3> QED BY <3>1, <3>2
  <2>4. Rest'
    BY <1>7 DEF DepFails, Rest
  <2> QED BY <2>3, <2>4 DEF Kept
<1>8. CASE DepsLoaded(t)
  <2>1. Running(t) /\ Top(t).pc \in LoadPC
    BY <1>0, <1>8 DEF DepsLoaded, At
  <2>2. StackStep(t)
    BY <1>0, <1>8, <2>1, LoadGoesOn DEF DepsLoaded
  <2>3. Rest'
    BY <1>8 DEF DepsLoaded, Rest
  <2> QED BY <2>2, <2>3 DEF Kept
<1> QED BY <1>1, <1>2, <1>3, <1>4, <1>5, <1>6, <1>7, <1>8

LEMMA MapKeeps ==
  ASSUME Rest, Stacks, NEW t \in Thread,
         \/ Map(t) \/ MapFails(t) \/ Resolve(t) \/ Relocated(t) \/ RelocFails(t)
         \/ Initialise(t) \/ DropFailedLoad(t)
  PROVE  Kept(t)
<1> USE DEF table, mutex, program
<1>0. {"map", "reloc", "fix", "init", "drop"} \subseteq LoadPC
  BY DEF LoadPC
<1>1. CASE Map(t)
  <2>1. Running(t) /\ Top(t).pc \in LoadPC
    BY <1>0, <1>1 DEF Map, At
  <2>2. StackStep(t)
    BY <1>0, <1>1, <2>1, LoadGoesOn DEF Map
  <2>3. obj' \in [Handle -> Object]
    BY <1>1, <2>1, TopShape, SetField DEF Map
  <2>4. Rest'
    BY <1>1, <2>3 DEF Map, Rest
  <2> QED BY <2>2, <2>4 DEF Kept
<1>2. CASE MapFails(t)
  <2>1. Running(t) /\ Top(t).pc \in LoadPC
    BY <1>0, <1>2 DEF MapFails, At
  <2>2. StackStep(t)
    BY <1>2, <2>1, DropStep DEF MapFails
  <2>3. obj' \in [Handle -> Object]
    <3>1. PICK h \in Handle : h = Top(t).h
      BY <2>1, TopShape
    <3>2. PICK got \in {"none", "origin", "mapped"} :
            obj' = [obj EXCEPT ![h].pages = got]
      BY <1>2, <3>1 DEF MapFails
    <3> QED BY <3>2, SetField
  <2>4. Rest'
    BY <1>2, <2>3 DEF MapFails, Rest
  <2> QED BY <2>2, <2>4 DEF Kept
<1>3. CASE Resolve(t)
  <2>1. Running(t) /\ Top(t).pc \in LoadPC
    BY <1>0, <1>3 DEF Resolve, At
  <2>2. PICK f \in Shaped : f = [Top(t) EXCEPT !.pc = "fix"] /\ Own(f) = 0
    BY <1>0, <2>1, TopShape, NextLoad
  <2>3. PICK g \in Shaped : g = WalkFrame("lookup") /\ Own(g) = 1
    BY NewFrames DEF WalkPC
  <2>4. BecomeAndCall(t, f, g) /\ Adds(t, 1) /\ Own(f) + Own(g) = Own(Top(t)) + 1
    BY <1>3, <2>1, <2>2, <2>3, TopShape DEF Resolve, Adds
  <2>5. StackStep(t)
    BY <2>1, <2>4, CallStep
  <2>6. Rest'
    BY <1>3 DEF Resolve, Rest
  <2> QED BY <2>5, <2>6 DEF Kept
<1>4. CASE Relocated(t)
  <2>1. Running(t) /\ Top(t).pc \in LoadPC
    BY <1>0, <1>4 DEF Relocated, At
  <2>2. StackStep(t)
    BY <1>0, <1>4, <2>1, LoadGoesOn DEF Relocated
  <2>3. Rest'
    BY <1>4 DEF Relocated, Rest
  <2> QED BY <2>2, <2>3 DEF Kept
<1>5. CASE RelocFails(t)
  <2>1. Running(t) /\ Top(t).pc \in LoadPC
    BY <1>0, <1>5 DEF RelocFails, At
  <2>2. StackStep(t)
    BY <1>5, <2>1, DropStep DEF RelocFails
  <2>3. Rest'
    BY <1>5 DEF RelocFails, Rest
  <2> QED BY <2>2, <2>3 DEF Kept
<1>6. CASE Initialise(t)
  <2>1. Running(t) /\ Top(t).pc \in LoadPC
    BY <1>0, <1>6 DEF Initialise, At
  <2>2. DoneFrame(Top(t).h) \in Shaped /\ Own(DoneFrame(Top(t).h)) = Own(Top(t))
    BY <2>1, TopShape, NewFrames
  <2>3. StackStep(t)
    BY <1>6, <2>1, <2>2, BecomeStep DEF Initialise
  <2>4. obj' \in [Handle -> Object]
    BY <1>6, <2>1, TopShape, SetField DEF Initialise
  <2>5. Rest'
    BY <1>6, <2>4 DEF Initialise, Rest
  <2> QED BY <2>3, <2>5 DEF Kept
<1>7. CASE DropFailedLoad(t)
  <2>1. /\ Running(t) /\ Top(t).pc \in UnloadPC
        /\ Len(stack[t]) > 1 /\ Caller(t).pc = "drop" /\ Caller(t).pc \in LoadPC
    BY <1>0, <1>7 DEF DropFailedLoad, At, CalledFrom, UnloadPC
  <2>2. /\ Caller(t) \in Shaped /\ Caller(t).h \in Handle
        /\ Own(Top(t)) = 0 /\ Own(Caller(t)) = 0
    BY <2>1, CallerFrame, TopShape DEF Shaped, Own, Owning, WalkPC
  <2>3. PICK f \in Shaped : f = UnlockFrame(Caller(t).h) /\ Own(f) = 0
    BY <2>2, NewFrames
  <2>4. ReturnTo(t, f) /\ Adds(t, 0) /\ Own(f) = Own(Caller(t)) + 0
    BY <1>7, <2>2, <2>3 DEF DropFailedLoad, Adds
  <2>5. StackStep(t)
    BY <2>1, <2>2, <2>4, ReturnStep
  <2>6. Rest'
    BY <1>7 DEF DropFailedLoad, Rest
  <2> QED BY <2>5, <2>6 DEF Kept
<1> QED BY <1>1, <1>2, <1>3, <1>4, <1>5, <1>6, <1>7

(* An unload goes on with its next part.                                   *)
LEMMA UnloadGoesOn ==
  ASSUME Stacks, NEW t \in Thread, Running(t), Top(t).pc \in UnloadPC,
         NEW pc \in UnloadPC, UNCHANGED <<owner, depth>>,
         Become(t, [Top(t) EXCEPT !.pc = pc])
  PROVE  StackStep(t)
<1>1. PICK f \in Shaped : f = [Top(t) EXCEPT !.pc = pc] /\ Own(f) = 0
  BY TopShape, NextUnload
<1>2. Become(t, f) /\ Own(f) = Own(Top(t))
  BY <1>1, TopShape
<1> QED BY <1>2, BecomeStep

LEMMA UnlockKeeps ==
  ASSUME Rest, Stacks, NEW t \in Thread,
         Unlock(t) \/ LastUnlock(t) \/ Reclaim(t) \/ KeepUnfreed(t)
  PROVE  Kept(t)
<1> USE DEF table, mutex, program
<1>0. {"unloaded", "unfreed"} \subseteq UnloadPC /\ "unlock" \in UnlockPC
  BY DEF UnloadPC, UnlockPC
<1>1. CASE Unlock(t)
  <2>1. Running(t) /\ Top(t).pc = "unlock"
    BY <1>1 DEF Unlock, At
  <2>2. PICK h \in Handle : h = Top(t).h /\ obj[h].refc > 1
    BY <1>0, <1>1, <2>1, TopShape DEF Unlock, This
  <2>3. DoneFrame(Null) \in Shaped /\ Own(DoneFrame(Null)) = Own(Top(t))
    BY <2>1, TopShape, NewFrames
  <2>4. StackStep(t)
    BY <1>1, <2>1, <2>3, BecomeStep DEF Unlock
  <2>5. obj' \in [Handle -> Object]
    <3>1. PICK r \in Nat : r = obj[h].refc - 1
      BY <2>2, ObjectFields
    <3>2. obj' = [obj EXCEPT ![h].refc = r]
      BY <1>1, <2>2, <3>1 DEF Unlock
    <3> QED BY <3>2, SetField
  <2>6. Rest'
    BY <1>1, <2>5 DEF Unlock, Rest
  <2> QED BY <2>4, <2>6 DEF Kept
<1>2. CASE LastUnlock(t)
  <2>1. Running(t) /\ Top(t).pc = "unlock"
    BY <1>2 DEF LastUnlock, At
  <2>2. PICK h \in Handle : h = Top(t).h
    BY <1>0, <2>1, TopShape
  <2>3. PICK f \in Shaped : f = [Top(t) EXCEPT !.pc = "unlocking"] /\ Own(f) = 1
    BY <2>1, TopShape, NextUnlock
  <2>4. PICK g \in Shaped : g = UnloadFrame(h) /\ Own(g) = 0
    BY NewFrames
  <2>5. BecomeAndCall(t, f, g) /\ Adds(t, 1) /\ Own(f) + Own(g) = Own(Top(t)) + 1
    BY <1>2, <2>1, <2>2, <2>3, <2>4, TopShape DEF LastUnlock, Adds
  <2>6. StackStep(t)
    BY <2>1, <2>5, CallStep
  <2>7. obj' \in [Handle -> Object]
    BY <1>2, <2>2, SetField DEF LastUnlock
  <2>8. Rest'
    BY <1>2, <2>7 DEF LastUnlock, Rest
  <2> QED BY <2>6, <2>8 DEF Kept
<1>3. ASSUME Reclaim(t) \/ KeepUnfreed(t)
      PROVE  StackStep(t) /\ Top(t).h \in Handle
  <2>1. /\ Running(t) /\ Top(t).pc \in UnloadPC
        /\ Len(stack[t]) > 1 /\ Caller(t).pc = "unlocking"
    BY <1>0, <1>3 DEF Reclaim, KeepUnfreed, At, CalledFrom
  <2>2. Own(Top(t)) = 0 /\ Top(t).h \in Handle /\ Own(Caller(t)) = 1
    BY <2>1, TopShape DEF Own, Owning
  <2>3. PICK f \in Shaped : f = DoneFrame(Null) /\ Own(f) = 0
    BY NewFrames
  <2>4. ReturnTo(t, f) /\ Adds(t, 0 - 1) /\ Own(f) = Own(Caller(t)) + (0 - 1)
    BY <1>3, <2>2, <2>3 DEF Reclaim, KeepUnfreed, Adds
  <2> QED BY <2>1, <2>2, <2>4, ReturnStep
<1>4. CASE Reclaim(t)
  <2>1. PICK h \in Handle : h = Top(t).h
    BY <1>3, <1>4
  <2>2. /\ members' = members \ {h}
        /\ before' = {p \in before : p[1] # h /\ p[2] # h}
        /\ alive' = alive \ {h} /\ obj' = [obj EXCEPT ![h] = Unallocated]
        /\ UNCHANGED <<held, calls, crashed>>
    BY <1>4, <2>1 DEF Reclaim, Table!Remove
  <2>3. Unallocated \in Object
    <3>1. PICK q \in Path : q = CHOOSE p \in Path : TRUE
      BY LoaderAssumption
    <3>2. <<>> \in Seq(Handle \cup {Main})
      OBVIOUS
    <3> QED BY <3>1, <3>2 DEF Unallocated, FreshObject, Object
  <2>4. IsFiniteSet(members')
    BY <2>2, FS_Subset DEF Rest
  <2>5. obj' \in [Handle -> Object]
    BY <2>2, <2>3, ObjectKept
  <2>6. Rest'
    BY <2>2, <2>4, <2>5 DEF Rest
  <2> QED BY <1>3, <1>4, <2>6 DEF Kept
<1>5. CASE KeepUnfreed(t)
  BY <1>3, <1>5 DEF KeepUnfreed, Rest, Kept
<1> QED BY <1>1, <1>2, <1>4, <1>5

LEMMA UnloadKeeps ==
  ASSUME Rest, Stacks, NEW t \in Thread,
         \/ Finalise(t) \/ FreePages(t) \/ FreePagesFails(t)
         \/ ReleaseDep(t) \/ UnlockReturns(t) \/ DepsReleased(t)
  PROVE  Kept(t)
<1> USE DEF table, mutex, program
<1>0. {"fini", "pages", "release", "unloaded", "unfreed"} \subseteq UnloadPC
  BY DEF UnloadPC
<1>1. CASE Finalise(t)
  <2>1. Running(t) /\ Top(t).pc \in UnloadPC
    BY <1>0, <1>1 DEF Finalise, At
  <2>2. StackStep(t)
    BY <1>0, <1>1, <2>1, UnloadGoesOn DEF Finalise
  <2>3. obj' \in [Handle -> Object]
    <3>1. PICK h \in Handle : h = Top(t).h
      BY <2>1, TopShape
    <3>2. PICK v \in Nat : v = IF obj[h].fini THEN obj[h].finis + 1 ELSE obj[h].finis
      BY ObjectFields
    <3>3. obj' = [obj EXCEPT ![h].finis = v]
      BY <1>1, <3>1, <3>2 DEF Finalise, This
    <3> QED BY <3>3, SetField
  <2>4. Rest'
    BY <1>1, <2>3 DEF Finalise, Rest
  <2> QED BY <2>2, <2>4 DEF Kept
<1>2. CASE FreePages(t)
  <2>1. Running(t) /\ Top(t).pc \in UnloadPC
    BY <1>0, <1>2 DEF FreePages, At
  <2>2. StackStep(t)
    BY <1>0, <1>2, <2>1, UnloadGoesOn DEF FreePages
  <2>3. obj' \in [Handle -> Object]
    BY <1>2, <2>1, TopShape, SetField DEF FreePages
  <2>4. Rest'
    BY <1>2, <2>3 DEF FreePages, Rest
  <2> QED BY <2>2, <2>4 DEF Kept
<1>3. CASE FreePagesFails(t)
  <2>1. Running(t) /\ Top(t).pc \in UnloadPC
    BY <1>0, <1>3 DEF FreePagesFails, At
  <2>2. StackStep(t)
    BY <1>0, <1>3, <2>1, UnloadGoesOn DEF FreePagesFails
  <2>3. obj' \in [Handle -> Object]
    <3>1. PICK h \in Handle : h = Top(t).h
      BY <2>1, TopShape
    <3>2. PICK left \in {"none", "origin", "mapped"} :
            obj' = [obj EXCEPT ![h].pages = left]
      BY <1>3, <3>1, ObjectFields DEF FreePagesFails, This
    <3> QED BY <3>2, SetField
  <2>4. Rest'
    BY <1>3, <2>3 DEF FreePagesFails, Rest
  <2> QED BY <2>2, <2>4 DEF Kept
<1>4. CASE ReleaseDep(t)
  <2>1. /\ Running(t) /\ Top(t).pc = "release" /\ Top(t).pc \in UnloadPC
        /\ Top(t).i <= Len(This(t).deps)
    BY <1>0, <1>4 DEF ReleaseDep, At
  <2>2. PICK h \in Handle, i \in Nat \ {0} : h = Top(t).h /\ i = Top(t).i
    BY <2>1, TopShape
  <2>3. PICK d \in Handle \cup {Main} : d = obj[h].deps[i]
    <3>1. obj[h].deps \in Seq(Handle \cup {Main}) /\ i \in 1 .. Len(obj[h].deps)
      BY <2>1, <2>2, ObjectFields DEF This
    <3> QED BY <3>1
  <2>4. PICK j \in Nat \ {0} : j = i + 1
    OBVIOUS
  <2>5. PICK f \in Shaped : f = [Top(t) EXCEPT !.i = j] /\ Own(f) = Own(Top(t))
    BY <2>1, TopShape, NextDep
  <2>6. IF d = Main THEN Become(t, f) ELSE BecomeAndCall(t, f, UnlockFrame(d))
    BY <1>4, <2>2, <2>3, <2>4, <2>5 DEF ReleaseDep, This
  <2>7. UNCHANGED <<owner, depth>> /\ Adds(t, 0)
    BY <1>4 DEF ReleaseDep, Adds
  <2>8. StackStep(t)
    <3>1. CASE d = Main
      BY <2>1, <2>5, <2>6, <2>7, <3>1, BecomeStep
    <3>2. CASE d # Main
      <4>1. PICK g \in Shaped : g = UnlockFrame(d) /\ Own(g) = 0
        BY <3>2, NewFrames
      <4>2. BecomeAndCall(t, f, g) /\ Own(f) + Own(g) = Own(Top(t)) + 0
        BY <2>1, <2>5, <2>6, <3>2, <4>1, TopShape
      <4> QED BY <2>1, <2>7, <4>2, CallStep
    <3> QED BY <3>1, <3>2
  <2>9. obj' \in [Handle -> Object]
    <3>1. PICK v \in Nat : v = IF obj[h].released < i THEN i ELSE obj[h].released
      BY ObjectFields
    <3>2. obj' = [obj EXCEPT ![h].released = v]
      BY <1>4, <2>2, <3>1 DEF ReleaseDep
    <3> QED BY <3>2, SetField
  <2>10. Rest'
    BY <1>4, <2>9 DEF ReleaseDep, Rest
  <2> QED BY <2>8, <2>10 DEF Kept
<1>5. CASE UnlockReturns(t)
  <2>1. Running(t) /\ Top(t).pc = "done"
    BY <1>5 DEF UnlockReturns, At
  <2>2. Adds(t, 0 - Own(Top(t)))
    BY <1>5, <2>1, TopShape DEF UnlockReturns, Adds
  <2>3. StackStep(t)
    BY <1>5, <2>1, <2>2, PopStep DEF UnlockReturns
  <2>4. Rest'
    BY <1>5 DEF UnlockReturns, Rest
  <2> QED BY <2>3, <2>4 DEF Kept
<1>6. CASE DepsReleased(t)
  <2>1. Running(t) /\ Top(t).pc \in UnloadPC
    BY <1>0, <1>6 DEF DepsReleased, At
  <2>2. StackStep(t)
    BY <1>0, <1>6, <2>1, UnloadGoesOn DEF DepsReleased
  <2>3. Rest'
    BY <1>6 DEF DepsReleased, Rest
  <2> QED BY <2>2, <2>3 DEF Kept
<1> QED BY <1>1, <1>2, <1>3, <1>4, <1>5, <1>6

LEMMA WalkKeeps ==
  ASSUME Rest, Stacks, NEW t \in Thread,
         PassUnreferred(t) \/ WalkEnds(t) \/ ReturnToProgram(t) \/ UseAfterFree(t)
  PROVE  Kept(t)
<1> USE DEF table, mutex, program
<1>1. CASE PassUnreferred(t)
  <2>1. Running(t) /\ Top(t).pc = "lookup"
    BY <1>1 DEF PassUnreferred, At
  <2>2. PICK h \in Handle, n \in Handle \cup {Null} :
          /\ Locked(h)
          /\ BecomeAndCall(t, [Top(t) EXCEPT !.i = Position(h) + 1, !.h = n],
                              UnlockFrame(h))
    BY <1>1 DEF PassUnreferred, Rest
  <2>3. PICK j \in Nat : j = Position(h) + 1
    <3>1. IsFiniteSet({g \in members : <<g, h>> \in before})
      BY FS_Subset DEF Rest
    <3>2. Position(h) \in Nat
      BY <3>1, FS_CardinalityType DEF Position
    <3> QED BY <3>2
  <2>4. PICK f \in Shaped : f = [Top(t) EXCEPT !.i = j, !.h = n] /\ Own(f) = 1
    <3>1. PICK e \in Shaped : e = Top(t) /\ e.pc = "lookup"
      BY <2>1, TopShape
    <3>2. [e EXCEPT !.i = j, !.h = n] \in Shaped /\ Own([e EXCEPT !.i = j, !.h = n]) = 1
      BY <3>1, NextPass
    <3> QED BY <3>1, <3>2
  <2>5. PICK g \in Shaped : g = UnlockFrame(h) /\ Own(g) = 0
    BY NewFrames
  <2>6. BecomeAndCall(t, f, g) /\ Adds(t, 0) /\ Own(f) + Own(g) = Own(Top(t)) + 0
    BY <1>1, <2>1, <2>2, <2>3, <2>4, <2>5, TopShape DEF PassUnreferred, Adds, WalkPC
  <2>7. StackStep(t)
    BY <2>1, <2>6, CallStep
  <2>8. obj' \in [Handle -> Object]
    BY <2>2, LockKeeps
  <2>9. Rest'
    BY <1>1, <2>8 DEF PassUnreferred, Rest
  <2> QED BY <2>7, <2>9 DEF Kept
<1>2. CASE WalkEnds(t)
  <2>1. Running(t) /\ Own(Top(t)) = 1
    BY <1>2 DEF WalkEnds, At, Own, Owning, WalkPC
  <2>2. Adds(t, 0 - Own(Top(t)))
    BY <1>2, <2>1 DEF WalkEnds, Adds
  <2>3. StackStep(t)
    BY <1>2, <2>1, <2>2, PopStep DEF WalkEnds
  <2>4. Rest'
    BY <1>2 DEF WalkEnds, Rest
  <2> QED BY <2>3, <2>4 DEF Kept
<1>3. CASE ReturnToProgram(t)
  <2>1. Running(t) /\ Top(t).pc = "done"
    BY <1>3 DEF ReturnToProgram, At
  <2>2. Adds(t, 0 - Own(Top(t)))
    BY <1>3, <2>1, TopShape DEF ReturnToProgram, Adds
  <2>3. StackStep(t)
    BY <1>3, <2>1, <2>2, PopStep DEF ReturnToProgram
  <2>4. held' \in [Handle -> Nat]
    BY <1>3 DEF ReturnToProgram, Rest
  <2>5. Rest'
    BY <1>3, <2>4 DEF ReturnToProgram, Rest
  <2> QED BY <2>3, <2>5 DEF Kept
<1>4. CASE UseAfterFree(t)
  BY <1>4 DEF UseAfterFree, Rest, Kept
<1> QED BY <1>1, <1>2, <1>3, <1>4

-----------------------------------------------------------------------------
LEMMA InitIInv == Init => IInv
<1> SUFFICES ASSUME Init
             PROVE  IInv
  OBVIOUS
<1>1. Rest
  <2>1. Unallocated \in Object
    <3>1. PICK q \in Path : q = CHOOSE p \in Path : TRUE
      BY LoaderAssumption
    <3>2. <<>> \in Seq(Handle \cup {Main})
      OBVIOUS
    <3> QED BY <3>1, <3>2 DEF Unallocated, FreshObject, Object
  <2>2. IsFiniteSet({})
    BY FS_EmptySet
  <2>3. obj \in [Handle -> Object] /\ held \in [Handle -> Nat]
    <3>1. PICK o \in Object : o = Unallocated
      BY <2>1
    <3>2. obj = [h \in Handle |-> o] /\ held = [h \in Handle |-> 0]
      BY <3>1 DEF Init
    <3> QED BY <3>2
  <2>4. calls \in 0 .. MaxCalls /\ crashed \in BOOLEAN
    <3>1. calls = 0 /\ MaxCalls \in Nat
      BY LoaderAssumption DEF Init
    <3>2. calls \in 0 .. MaxCalls
      BY <3>1
    <3>3. crashed \in BOOLEAN
      BY DEF Init
    <3> QED BY <3>2, <3>3
  <2>5. alive = {} /\ members = {} /\ before = {}
    BY DEF Init, Table!Init
  <2> QED BY <2>2, <2>3, <2>4, <2>5 DEF Rest
<1>2. Stacks
  BY DEF Init, Mtx!Init, Stacks
<1>3. \A t \in Thread : OwningFrames(t) = {}
  BY DEF Init, OwningFrames
<1>4. Cardinality({}) = 0
  BY FS_EmptySet
<1>5. MutexBalanced
  BY <1>3, <1>4, LoaderAssumption DEF Init, Mtx!Init, MutexBalanced
<1> QED BY <1>1, <1>2, <1>5 DEF IInv

LEMMA StepIInv == IInv /\ [Next]_vars => IInv'
<1> SUFFICES ASSUME IInv, [Next]_vars
             PROVE  IInv'
  OBVIOUS
<1>0. Rest /\ Stacks /\ MutexBalanced
  BY DEF IInv
<1>1. ASSUME UNCHANGED vars
      PROVE  IInv'
  BY <1>0, <1>1 DEF vars, IInv, Rest, Stacks, MutexBalanced, OwningFrames
<1>2. ASSUME NEW t \in Thread, Call(t) \/ Step(t)
      PROVE  IInv'
  <2>1. Kept(t)
    BY <1>0, <1>2, CallKeeps, OpenKeeps, DepsKeep, MapKeeps, UnlockKeeps,
       UnloadKeeps, WalkKeeps DEF Step, Load, Unload
  <2>2. Stacks' /\ MutexBalanced'
    <3>1. CASE StackStep(t)
      BY <3>1, StackStepKeeps
    <3>2. CASE UNCHANGED <<stack, owner, depth>>
      BY <1>0, <3>2 DEF Stacks, MutexBalanced, OwningFrames
    <3> QED BY <2>1, <3>1, <3>2 DEF Kept
  <2> QED BY <2>1, <2>2 DEF Kept, IInv
<1> QED BY <1>1, <1>2 DEF Next, Finished

LEMMA IInvTypes == IInv => TypeOK
<1> SUFFICES ASSUME IInv
             PROVE  TypeOK
  OBVIOUS
<1>1. Seq(Shaped) \subseteq Seq(Frame)
  BY DEF Shaped
<1>2. stack \in [Thread -> Seq(Frame)]
  BY <1>1 DEF IInv, Stacks
<1> QED BY <1>2 DEF IInv, Rest, Stacks, TypeOK

(* The variables of the loader's objects and calls keep their types: no    *)
(* reference count, position or nesting depth ever goes below zero.        *)
THEOREM LifecycleTypes == Spec => []TypeOK
<1>1. Spec => []IInv
  BY InitIInv, StepIInv, PTL DEF Spec
<1> QED BY <1>1, IInvTypes, PTL

(* The handle mutex is owned by exactly the thread that is inside the last *)
(* unlock of a handle or a walk over the table, as often as these calls    *)
(* are nested, however many threads call the loader, initialisers and      *)
(* finalisers call it again, and whatever fails: every early return of     *)
(* ctrdl_unlockHandle, ctrdl_unloadObject and the searches releases it.    *)
THEOREM LifecycleMutex == Spec => []MutexBalanced
<1>1. Spec => []IInv
  BY InitIInv, StepIInv, PTL DEF Spec
<1>2. IInv => MutexBalanced
  BY DEF IInv
<1> QED BY <1>1, <1>2, PTL

-----------------------------------------------------------------------------
(* What the steps of the loader do to the table and to the mutex.          *)
LEMMA TableStep == IInv /\ [Next]_vars => [Table!Next]_<<members, before>>
<1> SUFFICES ASSUME IInv, [Next]_vars
             PROVE  Table!Next \/ UNCHANGED <<members, before>>
  OBVIOUS
<1> USE DEF table
<1>1. CASE UNCHANGED vars
  BY <1>1 DEF vars
<1>2. ASSUME NEW t \in Thread, Call(t)
      PROVE  UNCHANGED <<members, before>>
  BY <1>2 DEF Call, CallOpen, CallOpenFile, CallClose, CallByAddress, CallInfo,
              CallWalk
<1>3. ASSUME NEW t \in Thread, Step(t)
      PROVE  Table!Next \/ UNCHANGED <<members, before>>
  <2>1. CASE Create(t)
    <3>1. PICK h \in Handle : Table!Insert(h)
      BY <2>1 DEF Create
    <3> QED BY <3>1 DEF Table!Next
  <2>2. CASE Reclaim(t)
    <3>1. Running(t) /\ Top(t).pc \in UnloadPC
      BY <2>2 DEF Reclaim, At, UnloadPC
    <3>2. Top(t).h \in Handle
      BY <3>1, TopShape DEF IInv
    <3> QED BY <2>2, <3>2 DEF Reclaim, Table!Next
  <2>3. CASE ~Create(t) /\ ~Reclaim(t) /\ Load(t)
    BY <2>3 DEF Load, OpenHit, OpenMiss, CreateFails, CreateFilledAfterFree,
                Parse, ParseFails, TooManyDeps, OpenDep, BindMain, BindDep,
                DepFails, DepsLoaded, Map, MapFails, Resolve, Relocated,
                RelocFails, Initialise, DropFailedLoad
  <2>4. CASE ~Create(t) /\ ~Reclaim(t) /\ ~Load(t)
    BY <1>3, <2>4 DEF Step, Unload, Unlock, LastUnlock, KeepUnfreed, Finalise,
                FreePages, FreePagesFails, ReleaseDep, UnlockReturns,
                DepsReleased, PassUnreferred, WalkEnds, ReturnToProgram,
                UseAfterFree
  <2> QED BY <2>1, <2>2, <2>3, <2>4
<1> QED BY <1>1, <1>2, <1>3 DEF Next, Finished

LEMMA MutexStep == IInv /\ [Next]_vars => [Mtx!Next]_<<owner, depth>>
<1> SUFFICES ASSUME IInv, [Next]_vars
             PROVE  Mtx!Next \/ UNCHANGED <<owner, depth>>
  OBVIOUS
<1>1. CASE UNCHANGED vars
  BY <1>1 DEF vars
<1>2. ASSUME NEW t \in Thread, Call(t) \/ Step(t)
      PROVE  Mtx!Next \/ UNCHANGED <<owner, depth>>
  <2>1. Kept(t)
    BY <1>2, CallKeeps, OpenKeeps, DepsKeep, MapKeeps, UnlockKeeps,
       UnloadKeeps, WalkKeeps DEF Step, Load, Unload, IInv
  <2> QED BY <2>1 DEF Kept, StackStep, Balances, Mtx!Next
<1> QED BY <1>1, <1>2 DEF Next, Finished

(* What the calls of any number of threads do to the table of open objects *)
(* is what LoadOrder allows, which HandleList implements: an object comes  *)
(* after those that are open when it is created, and its unload takes it   *)
(* out and leaves the order of the others alone.                           *)
THEOREM LifecycleKeepsOrder == Spec => Table!Spec
<1>1. Init => Table!Init
  BY DEF Init
<1>2. Spec => []IInv
  BY InitIInv, StepIInv, PTL DEF Spec
<1> QED BY <1>1, <1>2, TableStep, PTL DEF Spec, Table!Spec, Table!vars

(* And what they do to the handle mutex is what Mutex allows, which the    *)
(* lock of HandleMutex implements: a thread takes it only when it is free  *)
(* or its own, and only its owner releases it.                             *)
THEOREM LifecycleUsesMutex == Spec => Mtx!Spec
<1>1. Init => Mtx!Init
  BY DEF Init
<1>2. Spec => []IInv
  BY InitIInv, StepIInv, PTL DEF Spec
<1> QED BY <1>1, <1>2, MutexStep, PTL DEF Spec, Mtx!Spec, Mtx!vars
=============================================================================
