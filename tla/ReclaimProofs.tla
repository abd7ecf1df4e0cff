---------------------------- MODULE ReclaimProofs ----------------------------
(***************************************************************************)
(* Freed memory is never used, the reference counts of the code do what    *)
(* RefCounted promises, finalisers run once, objects are mapped while they *)
(* are referred to, dependencies are complete, stay as long as they are    *)
(* used and no longer, for any threads, objects and dependencies, in the   *)
(* case RefcountProofs is about (finalisers do not call the loader, no     *)
(* dependency is given back twice) if                                      *)
(*   - the table of open handles can grow: otherwise ctrdl_createHandle    *)
(*     fills in a handle that it freed, and                                *)
(*   - code pages can be given back: otherwise a handle without references *)
(*     stays in the table, where searches find and unload it again.        *)
(* A file is loaded once under none of these conditions, if the program    *)
(* has one thread.  With one thread whose initialisers do not call the     *)
(* loader either, dependencies are initialised before what needs them, and *)
(* a load that fails late unmaps what nobody else has.                     *)
(***************************************************************************)
EXTENDS RefcountProofs

Reliable ==
  \A p \in Path : <<"insert", p>> \notin Faults /\ <<"free", p>> \notin Faults

(* Unloading has not failed, and a call that looks for a handle has none.  *)
CalmFrame(f) ==
  f.pc # "unfreed" /\ (f.pc \in OpenPC \cup WalkPC => f.h = Null)
Calm(s) == \A k \in 1 .. Len(s) : CalmFrame(s[k])

(* One of the calls is the last unlock of h.                               *)
Unlocking(s, h) == \E k \in 1 .. Len(s) : s[k].pc = "unlocking" /\ s[k].h = h

(* A handle without references is being unloaded.                          *)
Attended ==
  \A h \in alive : obj[h].refc = 0 => \E t \in Thread : Unlocking(stack[t], h)

CInv == ~crashed /\ Attended /\ \A t \in Thread : Calm(stack[t])

-----------------------------------------------------------------------------
(* A call more or less on a stack.                                         *)
LEMMA PushAt ==
  ASSUME NEW S, NEW s \in Seq(S), NEW f
  PROVE  /\ Append(s, f) \in Seq(S \cup {f}) /\ Len(s) \in Nat
         /\ Len(Append(s, f)) = Len(s) + 1 /\ Append(s, f)[Len(s) + 1] = f
         /\ \A k \in 1 .. Len(s) : Append(s, f)[k] = s[k]
<1>1. PICK T : T = S \cup {f}
  OBVIOUS
<1>2. s \in Seq(T) /\ f \in T
  <2>1. /\ Len(s) \in Nat /\ s = [k \in 1 .. Len(s) |-> s[k]]
        /\ \A k \in 1 .. Len(s) : s[k] \in T
    BY <1>1
  <2> QED BY <1>1, <2>1
<1>3. /\ Append(s, f) \in Seq(T) /\ Len(s) \in Nat
      /\ Len(Append(s, f)) = Len(s) + 1 /\ Append(s, f)[Len(s) + 1] = f
      /\ \A k \in 1 .. Len(s) : Append(s, f)[k] = s[k]
  BY <1>2
<1> QED BY <1>1, <1>3

LEMMA PushCalm ==
  ASSUME NEW S, NEW s \in Seq(S), NEW f
  PROVE  /\ Append(s, f) \in Seq(S \cup {f})
         /\ Calm(s) /\ CalmFrame(f) => Calm(Append(s, f))
         /\ \A h : Unlocking(s, h) => Unlocking(Append(s, f), h)
         /\ f.pc = "unlocking" => Unlocking(Append(s, f), f.h)
<1>1. PICK r : r = Append(s, f)
  OBVIOUS
<1>2. /\ r \in Seq(S \cup {f}) /\ Len(r) = Len(s) + 1 /\ Len(s) \in Nat
      /\ r[Len(s) + 1] = f /\ \A k \in 1 .. Len(s) : r[k] = s[k]
  BY <1>1, PushAt
<1>3. \A k \in 1 .. Len(r) : k \in 1 .. Len(s) \/ k = Len(s) + 1
  BY <1>2
<1>4. \A k \in 1 .. Len(s) : k \in 1 .. Len(r)
  BY <1>2
<1>5. Len(s) + 1 \in 1 .. Len(r)
  BY <1>2
<1>6. Calm(s) /\ CalmFrame(f) => Calm(r)
  BY <1>2, <1>3 DEF Calm
<1>7. \A h : Unlocking(s, h) => Unlocking(r, h)
  BY <1>2, <1>4 DEF Unlocking
<1>8. f.pc = "unlocking" => Unlocking(r, f.h)
  BY <1>2, <1>5 DEF Unlocking
<1> QED BY <1>1, <1>2, <1>6, <1>7, <1>8

LEMMA PopCalm ==
  ASSUME NEW s \in Seq(Shaped), s # <<>>
  PROVE  LET u == SubSeq(s, 1, Len(s) - 1)
             f == s[Len(s)]
         IN /\ u \in Seq(Shaped)
            /\ Calm(s) => Calm(u)
            /\ \A h : Unlocking(s, h) =>
                 Unlocking(u, h) \/ (f.pc = "unlocking" /\ f.h = h)
<1>1. PICK u : u = SubSeq(s, 1, Len(s) - 1)
  OBVIOUS
<1>2. /\ u \in Seq(Shaped) /\ Len(u) = Len(s) - 1 /\ Len(s) \in Nat \ {0}
      /\ \A k \in 1 .. Len(u) : u[k] = s[k]
  <2>1. u \in Seq(Shaped) /\ Len(u) = Len(s) - 1
    BY <1>1, Split
  <2>2. Len(s) \in Nat \ {0}
    OBVIOUS
  <2>3. \A k \in 1 .. Len(s) - 1 : u[k] = s[k]
    BY <1>1, <2>2
  <2> QED BY <2>1, <2>2, <2>3
<1>3. \A k \in 1 .. Len(s) : k \in 1 .. Len(u) \/ k = Len(s)
  BY <1>2
<1>4. \A k \in 1 .. Len(u) : k \in 1 .. Len(s)
  BY <1>2
<1>5. Calm(s) => Calm(u)
  BY <1>2, <1>4 DEF Calm
<1>6. ASSUME NEW h, Unlocking(s, h)
      PROVE  Unlocking(u, h) \/ (s[Len(s)].pc = "unlocking" /\ s[Len(s)].h = h)
  BY <1>2, <1>3, <1>6 DEF Unlocking
<1> QED BY <1>1, <1>2, <1>5, <1>6

-----------------------------------------------------------------------------
(* What a step of thread t does to its stack: no last unlock of a handle   *)
(* that stays allocated is forgotten.                                      *)
Goes(t) ==
  /\ \A u \in Thread \ {t} : stack'[u] = stack[u]
  /\ Calm(stack'[t])
  /\ \A h \in alive' : Unlocking(stack[t], h) => Unlocking(stack'[t], h)

LEMMA GoEnter ==
  ASSUME Stacks, NEW t \in Thread, Calm(stack[t]), NEW f, CalmFrame(f), Enter(t, f)
  PROVE  Goes(t)
<1>1. stack \in [Thread -> Seq(Shaped)] /\ stack[t] \in Seq(Shaped)
  BY DEF Stacks
<1>2. /\ stack'[t] = Append(stack[t], f)
      /\ \A u \in Thread \ {t} : stack'[u] = stack[u]
  BY <1>1 DEF Enter
<1> QED BY <1>1, <1>2, PushCalm DEF Goes

LEMMA UnderCalm ==
  ASSUME Stacks, NEW t \in Thread, Calm(stack[t]), Running(t),
         Top(t).pc # "unlocking"
  PROVE  /\ Under(t) \in Seq(Shaped) /\ Calm(Under(t))
         /\ \A h : Unlocking(stack[t], h) => Unlocking(Under(t), h)
<1>1. stack[t] \in Seq(Shaped) /\ stack[t] # <<>>
  BY DEF Stacks, Running
<1> QED BY <1>1, PopCalm DEF Top, Under

LEMMA GoBecome ==
  ASSUME Stacks, NEW t \in Thread, Calm(stack[t]), Running(t),
         Top(t).pc # "unlocking", NEW f, CalmFrame(f), Become(t, f)
  PROVE  Goes(t)
<1>1. stack \in [Thread -> Seq(Shaped)]
  BY DEF Stacks
<1>2. /\ stack'[t] = Append(Under(t), f)
      /\ \A u \in Thread \ {t} : stack'[u] = stack[u]
  BY <1>1 DEF Become
<1> QED BY <1>2, UnderCalm, PushCalm DEF Goes

LEMMA GoCall ==
  ASSUME Stacks, NEW t \in Thread, Calm(stack[t]), Running(t),
         Top(t).pc # "unlocking", NEW f, NEW g, CalmFrame(f), CalmFrame(g),
         BecomeAndCall(t, f, g)
  PROVE  Goes(t) /\ (f.pc = "unlocking" => Unlocking(stack'[t], f.h))
<1>1. stack \in [Thread -> Seq(Shaped)]
  BY DEF Stacks
<1>2. PICK r : r = Append(Under(t), f)
  OBVIOUS
<1>3. /\ stack'[t] = Append(r, g)
      /\ \A u \in Thread \ {t} : stack'[u] = stack[u]
  BY <1>1, <1>2 DEF BecomeAndCall
<1>4. /\ r \in Seq(Shaped \cup {f}) /\ Calm(r)
      /\ \A h : Unlocking(stack[t], h) => Unlocking(r, h)
      /\ f.pc = "unlocking" => Unlocking(r, f.h)
  BY <1>2, UnderCalm, PushCalm
<1>5. Calm(Append(r, g)) /\ \A h : Unlocking(r, h) => Unlocking(Append(r, g), h)
  BY <1>4, PushCalm
<1> QED BY <1>3, <1>4, <1>5 DEF Goes

LEMMA GoPop ==
  ASSUME Stacks, NEW t \in Thread, Calm(stack[t]), Running(t),
         Top(t).pc # "unlocking", stack' = [stack EXCEPT ![t] = Under(t)]
  PROVE  Goes(t)
<1>1. stack \in [Thread -> Seq(Shaped)]
  BY DEF Stacks
<1>2. /\ stack'[t] = Under(t)
      /\ \A u \in Thread \ {t} : stack'[u] = stack[u]
  BY <1>1
<1> QED BY <1>2, UnderCalm DEF Goes

(* What is under the caller.                                               *)
LEMMA UnderCallerCalm ==
  ASSUME Stacks, NEW t \in Thread, Calm(stack[t]), Len(stack[t]) > 1,
         Top(t).pc # "unlocking"
  PROVE  /\ UnderCaller(t) \in Seq(Shaped) /\ Calm(UnderCaller(t))
         /\ \A h : Unlocking(stack[t], h) =>
              \/ Unlocking(UnderCaller(t), h)
              \/ Caller(t).pc = "unlocking" /\ Caller(t).h = h
<1>1. stack[t] \in Seq(Shaped) /\ Running(t)
  BY CallerFrame DEF Stacks
<1>2. PICK s \in Seq(Shaped) : s = stack[t] /\ Len(s) > 1
  BY <1>1
<1>3. PICK u \in Seq(Shaped) : u = SubSeq(s, 1, Len(s) - 1) /\ u = Under(t)
  BY <1>1, <1>2, UnderCalm DEF Under
<1>4. /\ Calm(u) /\ \A h : Unlocking(s, h) => Unlocking(u, h)
  BY <1>1, <1>2, <1>3, UnderCalm
<1>5. /\ Len(u) = Len(s) - 1 /\ u # <<>>
      /\ u[Len(u)] = s[Len(s) - 1]
      /\ SubSeq(u, 1, Len(u) - 1) = SubSeq(s, 1, Len(s) - 2)
  <2>1. Len(s) \in Nat /\ Len(u) = Len(s) - 1
    BY <1>2, <1>3, Split
  <2>2. \A k \in 1 .. Len(u) : u[k] = s[k]
    BY <1>2, <1>3, <2>1
  <2>3. Len(u) \in 1 .. Len(u) /\ u # <<>>
    BY <1>2, <2>1
  <2>4. [k \in 1 .. Len(u) - 1 |-> u[k]] = [k \in 1 .. Len(s) - 2 |-> s[k]]
    BY <2>1, <2>2
  <2>5. SubSeq(u, 1, Len(u) - 1) = [k \in 1 .. Len(u) - 1 |-> u[k]]
    BY <2>1
  <2>6. SubSeq(s, 1, Len(s) - 2) = [k \in 1 .. Len(s) - 2 |-> s[k]]
    BY <1>2, <2>1
  <2> QED BY <2>1, <2>2, <2>3, <2>4, <2>5, <2>6
<1>6. /\ SubSeq(u, 1, Len(u) - 1) \in Seq(Shaped)
      /\ Calm(SubSeq(u, 1, Len(u) - 1))
      /\ \A h : Unlocking(u, h) =>
           \/ Unlocking(SubSeq(u, 1, Len(u) - 1), h)
           \/ u[Len(u)].pc = "unlocking" /\ u[Len(u)].h = h
  BY <1>4, <1>5, PopCalm
<1> QED BY <1>2, <1>4, <1>5, <1>6 DEF UnderCaller, Caller

LEMMA GoReturn ==
  ASSUME Stacks, NEW t \in Thread, Calm(stack[t]), Len(stack[t]) > 1,
         Top(t).pc # "unlocking",
         Caller(t).pc = "unlocking" => Caller(t).h \notin alive',
         NEW f, CalmFrame(f), ReturnTo(t, f)
  PROVE  Goes(t)
<1>1. stack \in [Thread -> Seq(Shaped)]
  BY DEF Stacks
<1>2. /\ stack'[t] = Append(UnderCaller(t), f)
      /\ \A u \in Thread \ {t} : stack'[u] = stack[u]
  BY <1>1 DEF ReturnTo
<1>3. /\ UnderCaller(t) \in Seq(Shaped) /\ Calm(UnderCaller(t))
      /\ \A h \in alive' : Unlocking(stack[t], h) => Unlocking(UnderCaller(t), h)
  BY UnderCallerCalm
<1>4. /\ Calm(stack'[t])
      /\ \A h : Unlocking(UnderCaller(t), h) => Unlocking(stack'[t], h)
  BY <1>2, <1>3, PushCalm
<1> QED BY <1>2, <1>3, <1>4 DEF Goes

LEMMA GoReturnAndCall ==
  ASSUME Stacks, NEW t \in Thread, Calm(stack[t]), Len(stack[t]) > 1,
         Top(t).pc # "unlocking", Caller(t).pc # "unlocking",
         NEW f, NEW g, CalmFrame(f), CalmFrame(g),
         stack' = [stack EXCEPT ![t] = Append(Append(UnderCaller(t), f), g)]
  PROVE  Goes(t)
<1>1. stack \in [Thread -> Seq(Shaped)]
  BY DEF Stacks
<1>2. PICK r : r = Append(UnderCaller(t), f)
  OBVIOUS
<1>3. /\ stack'[t] = Append(r, g)
      /\ \A u \in Thread \ {t} : stack'[u] = stack[u]
  BY <1>1, <1>2
<1>4. PICK S : S = Shaped \cup {f}
  OBVIOUS
<1>5. /\ r \in Seq(S) /\ Calm(r)
      /\ \A h : Unlocking(stack[t], h) => Unlocking(r, h)
  BY <1>2, <1>4, UnderCallerCalm, PushCalm
<1>6. /\ Calm(stack'[t])
      /\ \A h : Unlocking(r, h) => Unlocking(stack'[t], h)
  <2>1. Calm(Append(r, g)) /\ \A h : Unlocking(r, h) => Unlocking(Append(r, g), h)
    BY <1>5, PushCalm, Zenon
  <2> QED BY <1>3, <2>1, Zenon
<1> QED BY <1>3, <1>5, <1>6 DEF Goes

-----------------------------------------------------------------------------
(* What a step does to the counts: nothing, or one of the four actions of  *)
(* RefCounted on one handle.                                               *)
SameCounts ==
  alive' = alive /\ \A h \in Handle : obj'[h].refc = obj[h].refc
SameElsewhere(h) == \A g \in Handle \ {h} : obj'[g].refc = obj[g].refc

Creates(h) ==
  /\ h \notin alive /\ alive' = alive \cup {h}
  /\ obj'[h].refc = 1 /\ SameElsewhere(h)
Takes(h) ==
  /\ h \in alive /\ alive' = alive
  /\ obj[h].refc > 0 /\ obj'[h].refc = obj[h].refc + 1 /\ SameElsewhere(h)
Gives(t, h) ==
  /\ h \in alive /\ alive' = alive
  /\ obj[h].refc > 0 /\ obj'[h].refc = obj[h].refc - 1 /\ SameElsewhere(h)
  /\ obj'[h].refc = 0 => Unlocking(stack'[t], h)
Frees(h) ==
  /\ h \in alive /\ alive' = alive \ {h}
  /\ obj[h].refc = 0 /\ SameElsewhere(h)

Effect(t) ==
  /\ ~crashed'
  /\ Goes(t) \/ stack' = stack
  /\ SameCounts \/ \E h \in Handle : Creates(h) \/ Takes(h) \/ Gives(t, h) \/ Frees(h)

LEMMA EffectKeeps ==
  ASSUME IInv, CInv, NEW t \in Thread, Effect(t)
  PROVE  CInv'
<1>1. /\ obj \in [Handle -> Object] /\ alive \subseteq Handle
      /\ \A h \in Handle : obj[h].refc \in Nat
  BY ObjectFields DEF IInv, Rest
<1>2. \A u \in Thread : Calm(stack'[u])
  BY DEF Effect, Goes, CInv
<1>3. \A h \in alive', u \in Thread :
        Unlocking(stack[u], h) => Unlocking(stack'[u], h)
  BY DEF Effect, Goes
<1>4. \A h \in alive' :
        obj'[h].refc = 0 => (h \in alive /\ obj[h].refc = 0) \/ Unlocking(stack'[t], h)
  <2>1. CASE SameCounts
    BY <1>1, <2>1 DEF SameCounts
  <2>2. ASSUME NEW h \in Handle, Creates(h)
        PROVE  \A g \in alive' : obj'[g].refc = 0 => g \in alive /\ obj[g].refc = 0
    BY <1>1, <2>2 DEF Creates, SameElsewhere
  <2>3. ASSUME NEW h \in Handle, Takes(h)
        PROVE  \A g \in alive' : obj'[g].refc = 0 => g \in alive /\ obj[g].refc = 0
    BY <1>1, <2>3 DEF Takes, SameElsewhere
  <2>4. ASSUME NEW h \in Handle, Gives(t, h)
        PROVE  \A g \in alive' : obj'[g].refc = 0 =>
                 (g \in alive /\ obj[g].refc = 0) \/ Unlocking(stack'[t], g)
    BY <1>1, <2>4 DEF Gives, SameElsewhere
  <2>5. ASSUME NEW h \in Handle, Frees(h)
        PROVE  \A g \in alive' : obj'[g].refc = 0 => g \in alive /\ obj[g].refc = 0
    BY <1>1, <2>5 DEF Frees, SameElsewhere
  <2> QED BY <2>1, <2>2, <2>3, <2>4, <2>5 DEF Effect
<1>5. Attended'
  BY <1>3, <1>4 DEF CInv, Attended
<1> QED BY <1>2, <1>5 DEF CInv, Effect

(* The counts of what is allocated, as ImplementsRefCounted maps them.     *)
LEMMA EffectCounts ==
  ASSUME IInv, IInv', NEW t \in Thread, Effect(t)
  PROVE  [Counted!Next]_Counted!vars
<1> DEFINE R == [h \in Handle |-> IF h \in alive THEN obj[h].refc ELSE 0]
<1>1. /\ alive \subseteq Handle /\ alive' \subseteq Handle
      /\ \A h \in Handle : obj[h].refc \in Nat
  BY ObjectFields DEF IInv, Rest
<1>2. CASE SameCounts
  <2>1. R' = R /\ alive' = alive
    BY <1>2 DEF SameCounts
  <2> QED BY <2>1 DEF Counted!vars
<1>3. ASSUME NEW h \in Handle, Creates(h)
      PROVE  Counted!Create(h)
  <2>1. R' = [R EXCEPT ![h] = 1]
    BY <1>3 DEF Creates, SameElsewhere
  <2> QED BY <1>3, <2>1 DEF Creates, Counted!Create
<1>4. ASSUME NEW h \in Handle, Takes(h)
      PROVE  Counted!Take(h)
  <2>1. R[h] = obj[h].refc /\ R' = [R EXCEPT ![h] = @ + 1]
    BY <1>1, <1>4 DEF Takes, SameElsewhere
  <2> QED BY <1>4, <2>1 DEF Takes, Counted!Take
<1>5. ASSUME NEW h \in Handle, Gives(t, h)
      PROVE  Counted!Give(h)
  <2>1. R[h] = obj[h].refc /\ R' = [R EXCEPT ![h] = @ - 1]
    BY <1>1, <1>5 DEF Gives, SameElsewhere
  <2> QED BY <1>5, <2>1 DEF Gives, Counted!Give
<1>6. ASSUME NEW h \in Handle, Frees(h)
      PROVE  Counted!Reclaim(h)
  <2>1. R[h] = 0 /\ R' = R
    BY <1>1, <1>6 DEF Frees, SameElsewhere
  <2> QED BY <1>6, <2>1 DEF Frees, Counted!Reclaim
<1> QED BY <1>2, <1>3, <1>4, <1>5, <1>6 DEF Effect, Counted!Next

(* Where no unload is under way or only that of the thread itself, every   *)
(* allocated handle has a reference.                                       *)
LEMMA LiveReferred ==
  ASSUME IInv, RInv, CInv, NEW t \in Thread,
         Running(t) => Top(t).pc \notin ClosingPC, Mtx!Free(t) \/ At(t, "lookup")
  PROVE  \A h \in alive : obj[h].refc \in Nat /\ obj[h].refc > 0
<1>1. \A h \in alive : obj[h].refc \in Nat
  BY ObjectFields DEF IInv, Rest
<1>2. \A u \in Thread : \A k \in 1 .. Len(stack[u]) : stack[u][k].pc # "unlocking"
  BY NoUnload
<1> QED BY <1>1, <1>2 DEF CInv, Attended, Unlocking

LEMMA RefcSame ==
  ASSUME Rest, NEW h \in Handle, NEW v, NEW ob,
         \/ ob = [obj EXCEPT ![h].pages = v]
         \/ ob = [obj EXCEPT ![h].finis = v]
         \/ ob = [obj EXCEPT ![h].fini = v]
         \/ ob = [obj EXCEPT ![h].deps = v]
         \/ ob = [obj EXCEPT ![h].released = v]
  PROVE  \A g \in Handle : ob[g].refc = obj[g].refc
<1>1. obj \in [Handle -> Object] /\ obj[h] \in Object
  BY DEF Rest
<1>2. \A g \in Handle \ {h} : ob[g] = obj[g]
  BY <1>1
<1>3. ob[h].refc = obj[h].refc
  BY <1>1 DEF Object
<1> QED BY <1>2, <1>3

-----------------------------------------------------------------------------
(* The steps, one by one.                                                  *)
Safe == IInv /\ RInv /\ CInv

(* Calls and returns that leave the objects alone.                         *)
LEMMA StackEffect ==
  ASSUME Safe, NEW t \in Thread, Goes(t), UNCHANGED <<table, obj, crashed>>
  PROVE  Effect(t)
BY DEF Safe, CInv, table, SameCounts, Effect

LEMMA LockEffect ==
  ASSUME Rest, NEW h \in alive, obj[h].refc \in Nat, obj[h].refc > 0, NEW b,
         \/ Locked(h)
         \/ obj' = [obj EXCEPT ![h].refc = @ + 1, ![h].global = b],
         alive' = alive
  PROVE  Takes(h)
<1>1. obj \in [Handle -> Object] /\ h \in Handle
  BY DEF Rest
<1>2. obj'[h].refc = obj[h].refc + 1 /\ SameElsewhere(h)
  BY <1>1 DEF Locked, Object, SameElsewhere
<1> QED BY <1>2 DEF Takes

LEMMA CallEffects ==
  ASSUME "fini" \notin Callers, Safe, NEW t \in Thread, Call(t)
  PROVE  Effect(t)
<1>0. /\ IInv /\ RInv /\ CInv /\ Rest /\ Stacks /\ Calm(stack[t]) /\ ~crashed
      /\ members = alive /\ alive \subseteq Handle
  BY DEF Safe, CInv, IInv, RInv, Rest
<1>1. CASE CallOpen(t) \/ CallOpenFile(t)
  <2>0. PICK pc \in OpenPC : \E req : Enter(t, OpenFrame(pc, req))
    BY <1>1 DEF CallOpen, CallOpenFile, OpenPC
  <2>1. PICK req : Enter(t, OpenFrame(pc, req))
    BY <2>0
  <2>2. CalmFrame(OpenFrame(pc, req))
    BY DEF OpenFrame, CalmFrame, OpenPC
  <2>3. Goes(t)
    BY <1>0, <2>1, <2>2, GoEnter
  <2> QED BY <1>1, <2>3, StackEffect DEF CallOpen, CallOpenFile
<1>2. CASE CallClose(t)
  <2>1. PICK h \in Handle : Enter(t, UnlockFrame(h))
    BY <1>2 DEF CallClose
  <2>2. CalmFrame(UnlockFrame(h))
    BY DEF UnlockFrame, CalmFrame, OpenPC, WalkPC
  <2>3. Goes(t)
    BY <1>0, <2>1, <2>2, GoEnter
  <2> QED BY <1>2, <2>3, StackEffect DEF CallClose
<1>3. CASE CallWalk(t)
  <2>1. PICK pc \in WalkPC : Enter(t, WalkFrame(pc))
    BY <1>3 DEF CallWalk
  <2>2. CalmFrame(WalkFrame(pc))
    BY DEF WalkFrame, CalmFrame, WalkPC
  <2>3. Goes(t)
    BY <1>0, <2>1, <2>2, GoEnter
  <2> QED BY <1>3, <2>3, StackEffect DEF CallWalk
<1>4. ASSUME CallByAddress(t) \/ CallInfo(t)
      PROVE  \A h \in alive : obj[h].refc \in Nat /\ obj[h].refc > 0
  <2>1. Running(t) => Top(t).pc \notin ClosingPC
    BY <1>4, LoaderAssumption DEF CallByAddress, CallInfo, MayCall, InProgram,
       ClosingPC, UnlockPC, UnloadPC
  <2>2. Mtx!Free(t)
    BY <1>4 DEF CallByAddress, CallInfo
  <2> QED BY <1>0, <2>1, <2>2, LiveReferred
<1>5. CASE CallByAddress(t)
  <2>1. PICK h \in alive : Locked(h)
    BY <1>0, <1>5 DEF CallByAddress, HasAddress
  <2>2. alive' = alive /\ ~crashed' /\ stack' = stack
    BY <1>0, <1>5 DEF CallByAddress, table
  <2>3. Takes(h)
    BY <1>0, <1>4, <1>5, <2>1, <2>2, LockEffect
  <2> QED BY <1>0, <2>2, <2>3 DEF Effect
<1>6. CASE CallInfo(t)
  <2>1. PICK h \in Handle : /\ held[h] > 0 \/ h \in members
                            /\ Locked(h) /\ Enter(t, UnlockFrame(h))
    BY <1>6 DEF CallInfo, HasAddress
  <2>2. h \in alive
    BY <1>0, <2>1, HeldAlive
  <2>3. alive' = alive /\ ~crashed'
    BY <1>0, <1>6 DEF CallInfo, table
  <2>4. Takes(h)
    BY <1>0, <1>4, <1>6, <2>1, <2>2, <2>3, LockEffect
  <2>5. CalmFrame(UnlockFrame(h))
    BY DEF UnlockFrame, CalmFrame, OpenPC, WalkPC
  <2>6. Goes(t)
    BY <1>0, <2>1, <2>5, GoEnter
  <2> QED BY <2>3, <2>4, <2>6 DEF Effect
<1> QED BY <1>1, <1>2, <1>3, <1>5, <1>6 DEF Call

LEMMA OpenEffects ==
  ASSUME Reliable, Safe, NEW t \in Thread,
         \/ OpenHit(t) \/ OpenMiss(t)
         \/ Create(t) \/ CreateFails(t) \/ CreateFilledAfterFree(t)
  PROVE  Effect(t)
<1>0. /\ IInv /\ RInv /\ CInv /\ Rest /\ Stacks /\ Calm(stack[t]) /\ ~crashed
      /\ members = alive /\ alive \subseteq Handle
  BY DEF Safe, CInv, IInv, RInv, Rest
<1>1. /\ Running(t) /\ Top(t).pc \in {"find", "create"} /\ Top(t) \in Shaped
      /\ Top(t).req \in Request
  BY <1>0, TopShape DEF OpenHit, OpenMiss, Create, CreateFails,
     CreateFilledAfterFree, At, OpenPC
<1>2. CASE OpenHit(t)
  <2>1. PICK h \in alive :
          /\ obj' = [obj EXCEPT ![h].refc = @ + 1, ![h].global = Top(t).req.global]
          /\ Become(t, DoneFrame(h))
    BY <1>0, <1>2 DEF OpenHit, Found
  <2>2. alive' = alive /\ ~crashed' /\ Mtx!Free(t)
    BY <1>0, <1>2 DEF OpenHit, table
  <2>3. obj[h].refc \in Nat /\ obj[h].refc > 0
    BY <1>0, <1>1, <2>2, LiveReferred DEF ClosingPC, UnlockPC, UnloadPC
  <2>4. Takes(h)
    BY <1>0, <2>1, <2>2, <2>3, LockEffect
  <2>5. CalmFrame(DoneFrame(h))
    BY DEF DoneFrame, CalmFrame, OpenPC, WalkPC
  <2>6. Goes(t)
    BY <1>0, <1>1, <2>1, <2>5, GoBecome
  <2> QED BY <1>0, <2>2, <2>4, <2>6 DEF Effect
<1>3. CASE OpenMiss(t) \/ CreateFails(t)
  <2>1. PICK f : f \in {DoneFrame(Null), [Top(t) EXCEPT !.pc = "create"]}
                 /\ Become(t, f) /\ (f # DoneFrame(Null) => Top(t).pc = "find")
    BY <1>3 DEF OpenMiss, CreateFails, At
  <2>2. CalmFrame(Top(t))
    <3>1. PICK s \in Seq(Shaped) : s = stack[t] /\ s # <<>>
      BY <1>0, <1>1 DEF Stacks, Running
    <3>2. Len(s) \in 1 .. Len(s)
      BY <3>1
    <3> QED BY <1>0, <3>1, <3>2 DEF Calm, Top
  <2>3. CalmFrame(f)
    BY <1>1, <2>1, <2>2 DEF DoneFrame, CalmFrame, OpenPC, WalkPC, Shaped, Frame
  <2>4. Goes(t)
    BY <1>0, <1>1, <2>1, <2>3, GoBecome
  <2> QED BY <1>3, <2>4, StackEffect DEF OpenMiss, CreateFails
<1>4. CASE Create(t)
  <2>1. PICK h \in Handle \ alive :
          /\ alive' = alive \cup {h}
          /\ obj' = [obj EXCEPT ![h] = FreshObject(Top(t).req)]
          /\ Become(t, [Top(t) EXCEPT !.pc = "parse", !.h = h])
    BY <1>4 DEF Create
  <2>2. obj'[h].refc = 1 /\ SameElsewhere(h)
    BY <1>0, <2>1 DEF Rest, FreshObject, SameElsewhere
  <2>3. PICK f : f = [Top(t) EXCEPT !.pc = "parse", !.h = h]
    OBVIOUS
  <2>4. CalmFrame(f)
    BY <1>1, <2>3 DEF CalmFrame, OpenPC, WalkPC, Shaped, Frame
  <2>5. Goes(t)
    BY <1>0, <1>1, <2>1, <2>3, <2>4, GoBecome
  <2>6. Creates(h) /\ ~crashed'
    BY <1>0, <1>4, <2>1, <2>2 DEF Creates, Create
  <2> QED BY <2>5, <2>6 DEF Effect
<1>5. CASE CreateFilledAfterFree(t)
  BY <1>1, <1>5 DEF CreateFilledAfterFree, MayFail, Reliable, Request
<1> QED BY <1>2, <1>3, <1>4, <1>5

LEMMA CountEffect ==
  ASSUME Safe, NEW t \in Thread, Goes(t), alive' = alive, crashed' = crashed,
         \A h \in Handle : obj'[h].refc = obj[h].refc
  PROVE  Effect(t)
BY DEF Safe, CInv, SameCounts, Effect

(* Frames of calls that go on.                                             *)
LEMMA CalmNext ==
  ASSUME NEW f \in Shaped
  PROVE  /\ \A pc : pc \notin {"unfreed"} \cup OpenPC \cup WalkPC =>
              /\ CalmFrame([f EXCEPT !.pc = pc])
              /\ \A i : CalmFrame([f EXCEPT !.pc = pc, !.i = i])
         /\ f.pc \notin {"unfreed"} \cup OpenPC \cup WalkPC =>
              \A i : CalmFrame([f EXCEPT !.i = i])
         /\ CalmFrame(LoadFailed(f))
BY DEF Shaped, Frame, CalmFrame, LoadFailed, OpenPC, WalkPC

LEMMA CalmNew ==
  /\ \A h : /\ CalmFrame(UnlockFrame(h)) /\ CalmFrame(UnloadFrame(h))
            /\ CalmFrame(DoneFrame(h))
  /\ \A pc \in OpenPC : \A req : CalmFrame(OpenFrame(pc, req))
  /\ \A pc \in WalkPC : CalmFrame(WalkFrame(pc))
BY DEF UnlockFrame, UnloadFrame, DoneFrame, OpenFrame, WalkFrame, CalmFrame,
       OpenPC, WalkPC

LEMMA LoadEffects ==
  ASSUME Safe, NEW t \in Thread,
         \/ Parse(t) \/ ParseFails(t) \/ TooManyDeps(t) \/ OpenDep(t)
         \/ BindMain(t) \/ DepsLoaded(t) \/ Map(t) \/ MapFails(t) \/ Resolve(t)
         \/ Relocated(t) \/ RelocFails(t) \/ Initialise(t)
  PROVE  Effect(t)
<1>0. Rest /\ Stacks /\ Calm(stack[t])
  BY DEF Safe, CInv, IInv
<1>1. /\ Running(t)
      /\ Top(t).pc \in {"parse", "deps", "map", "reloc", "fix", "init"}
  BY DEF Parse, ParseFails, TooManyDeps, OpenDep, BindMain, DepsRemain, DepsLoaded,
         Map, MapFails, Resolve, Relocated, RelocFails, Initialise, At
<1>2. Top(t) \in Shaped /\ Top(t).h \in Handle /\ Top(t).pc # "unlocking"
  BY <1>0, <1>1, TopShape DEF LoadPC
<1>3. /\ Top(t).pc \notin {"unfreed"} \cup OpenPC \cup WalkPC
      /\ {"deps", "map", "fix", "init"} \cap ({"unfreed"} \cup OpenPC \cup WalkPC) = {}
  BY <1>1 DEF OpenPC, WalkPC
<1>4. Goes(t)
  <2>1. CASE OpenDep(t)
    <3>1. PICK req : Enter(t, OpenFrame("find", req))
      BY <2>1 DEF OpenDep
    <3>2. CalmFrame(OpenFrame("find", req))
      BY CalmNew DEF OpenPC
    <3> QED BY <1>0, <3>1, <3>2, GoEnter
  <2>2. CASE Resolve(t)
    <3>1. CalmFrame([Top(t) EXCEPT !.pc = "fix"]) /\ CalmFrame(WalkFrame("lookup"))
      BY <1>2, <1>3, CalmNext, CalmNew DEF WalkPC
    <3>2. PICK f, g : BecomeAndCall(t, f, g) /\ CalmFrame(f) /\ CalmFrame(g)
      BY <2>2, <3>1 DEF Resolve
    <3> QED BY <1>0, <1>1, <1>2, <3>2, GoCall
  <2>3. CASE BecomeAndCall(t, LoadFailed(Top(t)), UnloadFrame(Top(t).h))
    <3>1. CalmFrame(LoadFailed(Top(t))) /\ CalmFrame(UnloadFrame(Top(t).h))
      BY <1>2, CalmNext, CalmNew
    <3> QED BY <1>0, <1>1, <1>2, <2>3, <3>1, GoCall
  <2>4. ASSUME ~OpenDep(t), ~Resolve(t),
               ~BecomeAndCall(t, LoadFailed(Top(t)), UnloadFrame(Top(t).h))
        PROVE  \E f : Become(t, f) /\ CalmFrame(f)
    <3> DEFINE F == {UnlockFrame(Top(t).h), DoneFrame(Top(t).h),
                     [Top(t) EXCEPT !.pc = "deps", !.i = 1],
                     [Top(t) EXCEPT !.i = @ + 1],
                     [Top(t) EXCEPT !.pc = "map"], [Top(t) EXCEPT !.pc = "reloc"],
                     [Top(t) EXCEPT !.pc = "init"]}
    <3>1. \E f \in F : Become(t, f)
      BY <2>4 DEF Parse, ParseFails, TooManyDeps, BindMain, DepsLoaded, Map,
         MapFails, Relocated, RelocFails, Initialise
    <3>2. "reloc" \notin {"unfreed"} \cup OpenPC \cup WalkPC
      BY DEF OpenPC, WalkPC
    <3>3. \A f \in F : CalmFrame(f)
      <4>1. CalmFrame(UnlockFrame(Top(t).h)) /\ CalmFrame(DoneFrame(Top(t).h))
        BY CalmNew
      <4>2. CalmFrame([Top(t) EXCEPT !.pc = "deps", !.i = 1])
        BY <1>2, <1>3, CalmNext
      <4>3. CalmFrame([Top(t) EXCEPT !.i = @ + 1])
        BY <1>2, <1>3, CalmNext
      <4>4. /\ CalmFrame([Top(t) EXCEPT !.pc = "map"])
            /\ CalmFrame([Top(t) EXCEPT !.pc = "reloc"])
            /\ CalmFrame([Top(t) EXCEPT !.pc = "init"])
        BY <1>2, <1>3, <3>2, CalmNext
      <4> QED BY <4>1, <4>2, <4>3, <4>4
    <3> QED BY <3>1, <3>3
  <2> QED BY <1>0, <1>1, <1>2, <2>1, <2>2, <2>3, <2>4, GoBecome
<1>5. alive' = alive /\ crashed' = crashed
  BY DEF Parse, ParseFails, TooManyDeps, OpenDep, BindMain, DepsLoaded, Map,
         MapFails, Resolve, Relocated, RelocFails, Initialise, table
<1>6. \/ UNCHANGED obj
      \/ \E v : \/ obj' = [obj EXCEPT ![Top(t).h].pages = v]
                \/ obj' = [obj EXCEPT ![Top(t).h].fini = v]
                \/ obj' = [obj EXCEPT ![Top(t).h].deps = v]
  <2>1. CASE BindMain(t)
    <3>1. obj' = [obj EXCEPT ![Top(t).h].deps = Append(@, Main)]
      BY <2>1 DEF BindMain
    <3>2. obj' = [obj EXCEPT ![Top(t).h].deps = Append(obj[Top(t).h].deps, Main)]
      BY <1>0, <1>2, <3>1 DEF Rest
    <3> QED BY <3>2
  <2>2. CASE ~BindMain(t)
    BY <2>2 DEF Parse, ParseFails, TooManyDeps, OpenDep, DepsLoaded, Map,
         MapFails, Resolve, Relocated, RelocFails, Initialise
  <2> QED BY <2>1, <2>2
<1>7. \A h \in Handle : obj'[h].refc = obj[h].refc
  <2>1. CASE UNCHANGED obj
    BY <2>1
  <2>2. CASE ~UNCHANGED obj
    <3>1. PICK v : \/ obj' = [obj EXCEPT ![Top(t).h].pages = v]
                   \/ obj' = [obj EXCEPT ![Top(t).h].fini = v]
                   \/ obj' = [obj EXCEPT ![Top(t).h].deps = v]
      BY <1>6, <2>2
    <3>0. PICK ob : ob = obj'
      OBVIOUS
    <3>2. PICK h \in Handle : h = Top(t).h /\ ob = obj'
      BY <1>2, <3>0
    <3>3. \A g \in Handle : ob[g].refc = obj[g].refc
      BY <1>0, <3>1, <3>2, RefcSame
    <3> QED BY <3>2, <3>3
  <2> QED BY <2>1, <2>2
<1> QED BY <1>4, <1>5, <1>7, CountEffect

(* The call of a dependency, or of the unloading of a failed load, returns.*)
LEMMA ReturnEffects ==
  ASSUME Safe, NEW t \in Thread, BindDep(t) \/ DepFails(t) \/ DropFailedLoad(t)
  PROVE  Effect(t)
<1>0. Rest /\ Stacks /\ Calm(stack[t])
  BY DEF Safe, CInv, IInv
<1>1. /\ Len(stack[t]) > 1 /\ Caller(t).pc \in {"deps", "drop"}
      /\ Top(t).pc \in {"done", "unloaded", "unfreed"}
  BY DEF BindDep, DepFails, DropFailedLoad, At, CalledFrom
<1>2. Caller(t) \in Shaped /\ Caller(t).h \in Handle
  BY <1>0, <1>1, CallerFrame DEF Shaped, LoadPC
<1>3. Top(t).pc # "unlocking" /\ Caller(t).pc # "unlocking"
  BY <1>1
<1>4. CASE BindDep(t)
  <2>1. CalmFrame([Caller(t) EXCEPT !.i = @ + 1])
    BY <1>1, <1>2, CalmNext DEF OpenPC, WalkPC
  <2>2. PICK f : ReturnTo(t, f) /\ CalmFrame(f)
    BY <1>4, <2>1 DEF BindDep
  <2>3. Goes(t)
    BY <1>0, <1>1, <1>3, <2>2, GoReturn
  <2>4. obj' = [obj EXCEPT ![Caller(t).h].deps = Append(@, Top(t).h)]
    BY <1>4 DEF BindDep
  <2>5. obj' = [obj EXCEPT ![Caller(t).h].deps =
                  Append(obj[Caller(t).h].deps, Top(t).h)]
    BY <1>0, <1>2, <2>4 DEF Rest
  <2>6. \A h \in Handle : obj'[h].refc = obj[h].refc
    BY <1>0, <1>2, <2>5, RefcSame
  <2> QED BY <1>4, <2>3, <2>6, CountEffect DEF BindDep, table
<1>5. CASE DepFails(t)
  <2>1. CASE Caller(t).req.resolver
    <3>1. CalmFrame([Caller(t) EXCEPT !.pc = "map"])
      BY <1>2, CalmNext DEF OpenPC, WalkPC
    <3>2. ReturnTo(t, [Caller(t) EXCEPT !.pc = "map"])
      BY <1>5, <2>1 DEF DepFails, ReturnTo
    <3>3. Goes(t)
      BY <1>0, <1>1, <1>3, <3>1, <3>2, GoReturn
    <3> QED BY <1>5, <3>3, StackEffect DEF DepFails
  <2>2. CASE ~Caller(t).req.resolver
    <3>1. CalmFrame(LoadFailed(Caller(t))) /\ CalmFrame(UnloadFrame(Caller(t).h))
      BY <1>2, CalmNext, CalmNew
    <3>2. stack' = [stack EXCEPT ![t] =
             Append(Append(UnderCaller(t), LoadFailed(Caller(t))),
                    UnloadFrame(Caller(t).h))]
      BY <1>5, <2>2 DEF DepFails
    <3>3. Goes(t)
      BY <1>0, <1>1, <1>3, <3>1, <3>2, GoReturnAndCall
    <3> QED BY <1>5, <3>3, StackEffect DEF DepFails
  <2> QED BY <2>1, <2>2
<1>6. CASE DropFailedLoad(t)
  <2>1. ReturnTo(t, UnlockFrame(Caller(t).h)) /\ CalmFrame(UnlockFrame(Caller(t).h))
    BY <1>6, CalmNew DEF DropFailedLoad
  <2>2. Goes(t)
    BY <1>0, <1>1, <1>3, <2>1, GoReturn
  <2> QED BY <1>6, <2>2, StackEffect DEF DropFailedLoad
<1> QED BY <1>4, <1>5, <1>6

LEMMA UnlockEffects ==
  ASSUME Safe, NEW t \in Thread, Unlock(t) \/ LastUnlock(t)
  PROVE  Effect(t)
<1>0. /\ IInv /\ RInv /\ Rest /\ Stacks /\ Calm(stack[t]) /\ ~crashed
      /\ stack \in [Thread -> Seq(Shaped)] /\ obj \in [Handle -> Object]
  BY DEF Safe, CInv, IInv, Stacks, Rest
<1>1. Running(t) /\ Top(t).pc = "unlock"
  BY DEF Unlock, LastUnlock, At
<1>2. Top(t) \in Shaped /\ Top(t).h \in Handle
  BY <1>0, <1>1, TopShape DEF UnlockPC
<1>3. PICK h \in Handle : h = Top(t).h
  BY <1>2
<1>4. h \in alive /\ obj[h].refc \in Nat /\ obj[h].refc > 0
  <2>1. PICK s \in Seq(Shaped) : s = stack[t] /\ s # <<>>
    BY <1>0, <1>1 DEF Running
  <2>2. Len(s) \in 1 .. Len(s)
    BY <2>1
  <2>3. s[Len(s)].pc \in RefPC /\ s[Len(s)].h = h
    BY <1>1, <1>3, <2>1 DEF Top, RefPC
  <2> QED BY <1>0, <2>1, <2>2, <2>3, RefAlive, ObjectFields
<1>5. CASE Unlock(t)
  <2>1. obj' = [obj EXCEPT ![h].refc = @ - 1] /\ obj[h].refc > 1
    BY <1>3, <1>5 DEF Unlock, This
  <2>2. obj'[h].refc = obj[h].refc - 1 /\ SameElsewhere(h)
    BY <1>0, <2>1 DEF Object, SameElsewhere
  <2>3. obj'[h].refc # 0
    BY <1>4, <2>1, <2>2
  <2>4. Become(t, DoneFrame(Null)) /\ CalmFrame(DoneFrame(Null))
    BY <1>5, CalmNew DEF Unlock
  <2>5. Goes(t)
    BY <1>0, <1>1, <2>4, GoBecome
  <2>6. alive' = alive /\ ~crashed'
    BY <1>0, <1>5 DEF Unlock, table
  <2> QED BY <1>4, <2>2, <2>3, <2>5, <2>6 DEF Effect, Gives
<1>6. CASE LastUnlock(t)
  <2>1. obj' = [obj EXCEPT ![h].refc = 0] /\ obj[h].refc <= 1
    BY <1>3, <1>6 DEF LastUnlock, This
  <2>2. obj'[h].refc = 0 /\ SameElsewhere(h)
    BY <1>0, <2>1 DEF Object, SameElsewhere
  <2>3. obj'[h].refc = obj[h].refc - 1
    BY <1>4, <2>1, <2>2
  <2>4. PICK f : f = [Top(t) EXCEPT !.pc = "unlocking"]
    OBVIOUS
  <2>5. f.pc = "unlocking" /\ f.h = h /\ CalmFrame(f) /\ CalmFrame(UnloadFrame(h))
    BY <1>2, <1>3, <2>4, CalmNew
    DEF Shaped, Frame, CalmFrame, OpenPC, WalkPC
  <2>6. BecomeAndCall(t, f, UnloadFrame(h))
    BY <1>3, <1>6, <2>4 DEF LastUnlock
  <2>7. Goes(t) /\ Unlocking(stack'[t], h)
    BY <1>0, <1>1, <2>5, <2>6, GoCall
  <2>8. alive' = alive /\ ~crashed'
    BY <1>0, <1>6 DEF LastUnlock, table
  <2> QED BY <1>4, <2>2, <2>3, <2>7, <2>8 DEF Effect, Gives
<1> QED BY <1>5, <1>6

(* The handle that is freed is the one its last unlock found, and that     *)
(* call ends.                                                              *)
LEMMA ReclaimEffect ==
  ASSUME Safe, NEW t \in Thread, Reclaim(t)
  PROVE  Effect(t)
<1>0. /\ IInv /\ RInv /\ Rest /\ Stacks /\ Calm(stack[t]) /\ ~crashed
      /\ stack \in [Thread -> Seq(Shaped)] /\ obj \in [Handle -> Object]
  BY DEF Safe, CInv, IInv, Stacks, Rest
<1>1. /\ Running(t) /\ Top(t).pc = "unloaded" /\ Len(stack[t]) > 1
      /\ Caller(t).pc = "unlocking"
  BY DEF Reclaim, At, CalledFrom
<1>2. Top(t).h \in Handle
  BY <1>0, <1>1, TopShape DEF UnloadPC
<1>3. PICK h \in Handle : h = Top(t).h
  BY <1>2
<1>4. Caller(t).h = h /\ h \in alive /\ obj[h].refc = 0
  <2>1. PICK s \in Seq(Shaped) : s = stack[t] /\ Good(alive, obj, s)
    BY <1>0 DEF RInv, RInvOf
  <2>2. Len(s) \in 1 .. Len(s) /\ s[Len(s)].pc \in UnloadPC
    BY <1>1, <2>1 DEF Top, UnloadPC
  <2>3. Len(s) - 1 \in 1 .. Len(s) /\ s[Len(s)].h = s[Len(s) - 1].h
    BY <2>1, <2>2, UnloadCaller
  <2>4. s[Len(s) - 1].pc = "unlocking"
    BY <1>1, <2>1 DEF Caller
  <2>5. s[Len(s) - 1].h \in alive /\ obj[s[Len(s) - 1].h].refc = 0
    BY <2>1, <2>3, <2>4 DEF Good, FrameOK
  <2> QED BY <1>3, <2>1, <2>3, <2>5 DEF Top, Caller
<1>5. /\ alive' = alive \ {h} /\ obj' = [obj EXCEPT ![h] = Unallocated]
      /\ ReturnTo(t, DoneFrame(Null)) /\ ~crashed'
  BY <1>0, <1>3 DEF Reclaim
<1>6. SameElsewhere(h)
  BY <1>0, <1>5 DEF SameElsewhere
<1>7. Goes(t)
  <2>1. Caller(t).h \notin alive' /\ CalmFrame(DoneFrame(Null))
    BY <1>4, <1>5, CalmNew
  <2> QED BY <1>0, <1>1, <1>5, <2>1, GoReturn
<1> QED BY <1>4, <1>5, <1>6, <1>7 DEF Effect, Frees

LEMMA UnloadEffects ==
  ASSUME Reliable, Safe, NEW t \in Thread,
         \/ Finalise(t) \/ FreePages(t) \/ FreePagesFails(t)
         \/ ReleaseDep(t) \/ DepsReleased(t)
  PROVE  Effect(t)
<1>0. Rest /\ Stacks /\ Calm(stack[t]) /\ obj \in [Handle -> Object]
  BY DEF Safe, CInv, IInv, Rest
<1>1. Running(t) /\ Top(t).pc \in {"fini", "pages", "release"}
  BY DEF Finalise, FreePages, FreePagesFails, ReleaseDep, DepsReleased, At
<1>2. Top(t) \in Shaped /\ Top(t).h \in Handle /\ Top(t).pc # "unlocking"
  BY <1>0, <1>1, TopShape DEF UnloadPC
<1>a. PICK ob : ob = obj'
  OBVIOUS
<1>3. PICK h \in Handle : h = Top(t).h /\ ob = obj'
  BY <1>2, <1>a
<1>4. ~FreePagesFails(t)
  <2>1. obj[h].image \in Path
    BY <1>0 DEF Object
  <2> QED BY <1>3, <2>1 DEF FreePagesFails, MayFail, Reliable, This
<1>5. Goes(t)
  <2>1. /\ CalmFrame([Top(t) EXCEPT !.pc = "pages"])
        /\ CalmFrame([Top(t) EXCEPT !.pc = "release"])
        /\ CalmFrame([Top(t) EXCEPT !.pc = "unloaded"])
    BY <1>2, CalmNext DEF OpenPC, WalkPC
  <2>2. CalmFrame([Top(t) EXCEPT !.i = @ + 1])
    BY <1>1, <1>2, CalmNext DEF OpenPC, WalkPC
  <2>3. CASE ReleaseDep(t)
    <3>1. PICK f : f = [Top(t) EXCEPT !.i = @ + 1]
      OBVIOUS
    <3>2. Become(t, f) \/ \E d : BecomeAndCall(t, f, UnlockFrame(d))
      BY <2>3, <3>1 DEF ReleaseDep
    <3>3. CalmFrame(f) /\ \A d : CalmFrame(UnlockFrame(d))
      BY <2>2, <3>1, CalmNew
    <3> QED BY <1>0, <1>1, <1>2, <3>2, <3>3, GoBecome, GoCall
  <2>4. CASE ~ReleaseDep(t)
    <3>1. PICK f : Become(t, f) /\ CalmFrame(f)
      BY <1>4, <2>1, <2>4 DEF Finalise, FreePages, DepsReleased
    <3> QED BY <1>0, <1>1, <1>2, <3>1, GoBecome
  <2> QED BY <2>3, <2>4
<1>6. alive' = alive /\ crashed' = crashed
  BY DEF Finalise, FreePages, FreePagesFails, ReleaseDep, DepsReleased, table
<1>7. \A g \in Handle : ob[g].refc = obj[g].refc
  <2>1. CASE Finalise(t)
    <3>1. PICK v : v = IF This(t).fini THEN obj[h].finis + 1 ELSE obj[h].finis
      OBVIOUS
    <3>2. ob = [obj EXCEPT ![h].finis = v]
      BY <1>0, <1>3, <2>1, <3>1 DEF Finalise
    <3> QED BY <1>0, <3>2, RefcSame
  <2>2. CASE FreePages(t)
    <3>1. PICK v : v = "none"
      OBVIOUS
    <3>2. ob = [obj EXCEPT ![h].pages = v]
      BY <1>3, <2>2, <3>1 DEF FreePages
    <3> QED BY <1>0, <3>2, RefcSame
  <2>3. CASE ReleaseDep(t)
    <3>1. PICK v : v = IF obj[h].released < Top(t).i THEN Top(t).i ELSE obj[h].released
      OBVIOUS
    <3>2. ob = [obj EXCEPT ![h].released = v]
      BY <1>0, <1>3, <2>3, <3>1 DEF ReleaseDep
    <3> QED BY <1>0, <3>2, RefcSame
  <2>4. CASE DepsReleased(t)
    BY <1>3, <2>4 DEF DepsReleased
  <2> QED BY <1>4, <2>1, <2>2, <2>3, <2>4
<1> QED BY <1>3, <1>5, <1>6, <1>7, CountEffect

LEMMA PopEffects ==
  ASSUME Safe, NEW t \in Thread,
         UnlockReturns(t) \/ WalkEnds(t) \/ ReturnToProgram(t)
  PROVE  Effect(t)
<1>0. Stacks /\ Calm(stack[t])
  BY DEF Safe, CInv, IInv
<1>1. Running(t) /\ Top(t).pc # "unlocking"
  BY DEF UnlockReturns, WalkEnds, ReturnToProgram, At
<1>2. stack' = [stack EXCEPT ![t] = Under(t)]
  BY DEF UnlockReturns, WalkEnds, ReturnToProgram
<1>3. Goes(t)
  BY <1>0, <1>1, <1>2, GoPop
<1>4. UNCHANGED <<table, obj, crashed>>
  BY DEF UnlockReturns, WalkEnds, ReturnToProgram
<1> QED BY <1>3, <1>4, StackEffect

(* What does not happen: an unload that failed, a search that meets a      *)
(* handle without references, a call on a handle that was freed.           *)
LEMMA NeverHappens ==
  ASSUME Safe, NEW t \in Thread
  PROVE  ~KeepUnfreed(t) /\ ~PassUnreferred(t) /\ ~UseAfterFree(t)
<1>0. /\ IInv /\ RInv /\ CInv /\ Stacks /\ Calm(stack[t])
      /\ stack \in [Thread -> Seq(Shaped)] /\ members = alive
  BY DEF Safe, CInv, IInv, RInv, Stacks
<1>1. ASSUME Running(t)
      PROVE  /\ CalmFrame(Top(t)) /\ Top(t) \in Shaped
             /\ \E k \in 1 .. Len(stack[t]) : Top(t) = stack[t][k]
  <2>1. PICK s \in Seq(Shaped) : s = stack[t] /\ s # <<>>
    BY <1>0, <1>1 DEF Running
  <2>2. Len(s) \in 1 .. Len(s)
    BY <2>1
  <2> QED BY <1>0, <2>1, <2>2 DEF Calm, Top
<1>2. ~KeepUnfreed(t)
  BY <1>1 DEF KeepUnfreed, At, CalmFrame
<1>3. ASSUME PassUnreferred(t)
      PROVE  FALSE
  <2>1. At(t, "lookup") /\ \E h \in alive : obj[h].refc = 0
    BY <1>0, <1>3 DEF PassUnreferred
  <2>2. Top(t).pc \notin ClosingPC
    BY <2>1 DEF At, ClosingPC, UnlockPC, UnloadPC
  <2>3. \A h \in alive : obj[h].refc > 0 /\ obj[h].refc \in Nat
    BY <1>0, <2>1, <2>2, LiveReferred
  <2> QED BY <2>1, <2>3
<1>4. ASSUME Dangling(t)
      PROVE  FALSE
  <2>1. PICK k \in 1 .. Len(stack[t]) : stack[t][k] = Top(t)
    BY <1>1, <1>4 DEF Dangling
  <2>2. /\ Top(t).pc # "done" /\ Top(t).h \in Handle /\ Top(t).h \notin alive
        /\ CalmFrame(Top(t)) /\ Top(t) \in Shaped
    BY <1>1, <1>4 DEF Dangling
  <2>3. CASE Top(t).pc \in OpenPC \cup WalkPC
    BY <2>2, <2>3, LoaderAssumption DEF CalmFrame
  <2>4. CASE Top(t).pc \in LoadPC \cup {"unlock"}
    BY <1>0, <2>1, <2>2, <2>4, RefAlive DEF RefPC
  <2>5. CASE Top(t).pc \in UnloadPC \cup {"unlocking"}
    BY <1>0, <2>1, <2>2, <2>5, UnloadAlive
  <2> QED BY <2>2, <2>3, <2>4, <2>5 DEF Shaped, Frame, UnlockPC
<1> QED BY <1>2, <1>3, <1>4 DEF UseAfterFree

-----------------------------------------------------------------------------
(* No load fails once dependencies are loaded, so that none is undone that *)
(* has mapped its object.                                                  *)
Mappable == \A p \in Path : <<"map", p>> \notin Faults
UnmappedPC == {"parse", "deps", "map"} \cup {pc \in {"drop"} : Mappable}

(* Where the frames of a step of thread t come from: a load goes on where  *)
(* it was or is that of a handle that was just created, and an unload      *)
(* begins with a handle that had a reference.                              *)
Placed(t, k, g) ==
  /\ g.pc \in LoadPC =>
       \/ /\ k \in 1 .. Len(stack[t])
          /\ stack[t][k].pc \in LoadPC /\ stack[t][k].h = g.h
          /\ g.pc \in UnmappedPC => stack[t][k].pc \in UnmappedPC
       \/ /\ k = Len(stack[t]) /\ g.h \notin alive
          /\ ~obj'[g.h].fini /\ obj'[g.h].pages # "mapped"
  /\ g.pc = "fini" => g.h \in alive /\ obj[g.h].refc > 0

Stays(t, k) == k \in 1 .. Len(stack[t]) /\ stack'[t][k] = stack[t][k]

Places(t) ==
  /\ \A u \in Thread \ {t} : stack'[u] = stack[u]
  /\ \A k \in 1 .. Len(stack'[t]) : Stays(t, k) \/ Placed(t, k, stack'[t][k])

(* A frame that neither loads nor begins to unload may be anywhere.        *)
Plain(f) == f.pc \notin LoadPC \cup {"fini"}

LEMMA PlainPlaced ==
  ASSUME NEW t, NEW k, NEW f, Plain(f)
  PROVE  Placed(t, k, f)
BY DEF Plain, Placed

LEMMA UnderAt ==
  ASSUME Stacks, NEW t \in Thread, Running(t)
  PROVE  /\ Under(t) \in Seq(Shaped) /\ Len(stack[t]) \in Nat \ {0}
         /\ Len(Under(t)) = Len(stack[t]) - 1
         /\ \A k \in 1 .. Len(stack[t]) - 1 : Under(t)[k] = stack[t][k]
<1>1. PICK s \in Seq(Shaped) : s = stack[t] /\ s # <<>>
  BY DEF Stacks, Running
<1>2. Len(s) \in Nat \ {0}
  BY <1>1
<1>3. /\ SubSeq(s, 1, Len(s) - 1) \in Seq(Shaped)
      /\ Len(SubSeq(s, 1, Len(s) - 1)) = Len(s) - 1
  BY <1>1, Split
<1>4. \A k \in 1 .. Len(s) - 1 : SubSeq(s, 1, Len(s) - 1)[k] = s[k]
  BY <1>2
<1> QED BY <1>1, <1>2, <1>3, <1>4 DEF Under

LEMMA UnderCallerAt ==
  ASSUME Stacks, NEW t \in Thread, Len(stack[t]) > 1
  PROVE  /\ UnderCaller(t) \in Seq(Shaped)
         /\ Len(stack[t]) \in Nat /\ Len(stack[t]) - 2 \in Nat
         /\ Len(UnderCaller(t)) = Len(stack[t]) - 2
         /\ \A k \in 1 .. Len(stack[t]) - 2 : UnderCaller(t)[k] = stack[t][k]
<1>1. PICK s \in Seq(Shaped) : s = stack[t] /\ Len(s) > 1
  BY DEF Stacks
<1>2. Len(s) \in Nat
  OBVIOUS
<1>3. Len(s) - 2 \in Nat
  BY <1>1, <1>2
<1>4. PICK m \in Nat : m = Len(s) - 2
  BY <1>3
<1>5. SubSeq(s, 1, m) = [k \in 1 .. m |-> s[k]]
  BY <1>2, <1>4
<1>6. Len(SubSeq(s, 1, m)) = m /\ \A k \in 1 .. m : SubSeq(s, 1, m)[k] = s[k]
  BY <1>5
<1>7. UnderCaller(t) = SubSeq(s, 1, m)
  BY <1>1, <1>4 DEF UnderCaller
<1>8. UnderCaller(t) \in Seq(Shaped)
  BY CallerFrame
<1> QED BY <1>1, <1>2, <1>3, <1>4, <1>6, <1>7, <1>8

(* One or two frames on top of what stays.                                 *)
LEMMA PlaceOne ==
  ASSUME NEW t \in Thread, NEW S, NEW s \in Seq(S), NEW f,
         \A u \in Thread \ {t} : stack'[u] = stack[u],
         stack'[t] = Append(s, f),
         \A k \in 1 .. Len(s) : Stays(t, k) \/ Placed(t, k, s[k]),
         Placed(t, Len(s) + 1, f)
  PROVE  Places(t)
<1>1. PICK r : r = Append(s, f)
  OBVIOUS
<1>2. /\ Len(r) = Len(s) + 1 /\ Len(s) \in Nat
      /\ r[Len(s) + 1] = f /\ \A k \in 1 .. Len(s) : r[k] = s[k]
  BY <1>1, PushAt
<1>3. \A k \in 1 .. Len(r) : k \in 1 .. Len(s) \/ k = Len(s) + 1
  BY <1>2
<1>4. \A k \in 1 .. Len(r) : Stays(t, k) \/ Placed(t, k, r[k])
  BY <1>2, <1>3
<1> QED BY <1>1, <1>4 DEF Places

(* What stays of stack[t] below position n.                                *)
Bottom(t, s, n) ==
  s \in Seq(Shaped) /\ Len(s) = n /\ \A k \in 1 .. n : s[k] = stack[t][k]

LEMMA PlaceOn ==
  ASSUME Stacks, NEW t \in Thread, NEW n \in Nat, n <= Len(stack[t]),
         NEW s, Bottom(t, s, n), NEW f, Placed(t, n + 1, f),
         \A u \in Thread \ {t} : stack'[u] = stack[u],
         stack'[t] = Append(s, f)
  PROVE  Places(t)
<1>1. s \in Seq(Shaped) /\ Len(s) = n /\ Len(stack[t]) \in Nat
  BY DEF Bottom, Stacks
<1>2. \A k \in 1 .. n : k \in 1 .. Len(stack[t]) /\ s[k] = stack[t][k]
  BY <1>1 DEF Bottom
<1>3. \A k \in 1 .. n : stack'[t][k] = s[k]
  BY <1>1, PushAt
<1>4. \A k \in 1 .. n : Stays(t, k)
  BY <1>2, <1>3 DEF Stays
<1> QED BY <1>1, <1>4, PlaceOne

OnTop(t, n, s, f, g) ==
  /\ Bottom(t, s, n) /\ n <= Len(stack[t])
  /\ Placed(t, n + 1, f) /\ Placed(t, n + 2, g)
  /\ \A u \in Thread \ {t} : stack'[u] = stack[u]
  /\ stack'[t] = Append(Append(s, f), g)

LEMMA PlaceTwo ==
  ASSUME Stacks, NEW t \in Thread, NEW n \in Nat, NEW s, NEW f, NEW g,
         OnTop(t, n, s, f, g)
  PROVE  Places(t)
<1>0. /\ Bottom(t, s, n) /\ n <= Len(stack[t])
      /\ Placed(t, n + 1, f) /\ Placed(t, n + 2, g)
      /\ \A u \in Thread \ {t} : stack'[u] = stack[u]
      /\ stack'[t] = Append(Append(s, f), g)
  BY DEF OnTop
<1>1. s \in Seq(Shaped) /\ Len(s) = n /\ Len(stack[t]) \in Nat
  BY <1>0 DEF Bottom, Stacks
<1>2. \A k \in 1 .. n : k \in 1 .. Len(stack[t]) /\ s[k] = stack[t][k]
  BY <1>0, <1>1 DEF Bottom
<1>3. PICK r, S : r = Append(s, f) /\ S = Shaped \cup {f}
  OBVIOUS
<1>4. /\ r \in Seq(S) /\ Len(r) = n + 1 /\ r[n + 1] = f
      /\ \A k \in 1 .. n : r[k] = s[k]
  BY <1>1, <1>3, PushAt
<1>5. stack'[t] = Append(r, g)
  BY <1>0, <1>3
<1>6. \A k \in 1 .. n + 1 : stack'[t][k] = r[k]
  BY <1>4, <1>5, PushAt
<1>7. \A k \in 1 .. n + 1 : k \in 1 .. n \/ k = n + 1
  OBVIOUS
<1>8. \A k \in 1 .. n : k \in 1 .. n + 1
  OBVIOUS
<1>9. \A k \in 1 .. n : Stays(t, k)
  BY <1>2, <1>4, <1>6, <1>8 DEF Stays
<1>10. \A k \in 1 .. n + 1 : Stays(t, k) \/ Placed(t, k, r[k])
  BY <1>0, <1>4, <1>7, <1>9
<1>11. Placed(t, Len(r) + 1, g)
  BY <1>0, <1>4
<1> QED BY <1>0, <1>4, <1>5, <1>10, <1>11, PlaceOne

LEMMA PlaceEnter ==
  ASSUME Stacks, NEW t \in Thread, NEW f, Plain(f), Enter(t, f)
  PROVE  Places(t)
<1>1. PICK n \in Nat : n = Len(stack[t])
  BY DEF Stacks
<1>2. /\ stack'[t] = Append(stack[t], f)
      /\ \A u \in Thread \ {t} : stack'[u] = stack[u]
  BY DEF Enter, Stacks
<1>3. Bottom(t, stack[t], n)
  BY <1>1 DEF Bottom, Stacks
<1>4. Placed(t, n + 1, f)
  BY PlainPlaced
<1> QED BY <1>1, <1>2, <1>3, <1>4, PlaceOn

LEMMA PlaceTop ==
  ASSUME Stacks, NEW t \in Thread, Running(t), NEW f, NEW g,
         Placed(t, Len(stack[t]), f), Placed(t, Len(stack[t]) + 1, g),
         Become(t, f) \/ BecomeAndCall(t, f, g)
  PROVE  Places(t)
<1>0. PICK m \in Nat \ {0} : m = Len(stack[t])
  BY UnderAt
<1>a. \A j \in Nat \ {0} : \E n \in Nat :
        n = j - 1 /\ n <= j /\ n + 1 = j /\ n + 2 = j + 1
  OBVIOUS
<1>1. PICK n \in Nat : n = Len(stack[t]) - 1 /\ n <= Len(stack[t])
                       /\ n + 1 = Len(stack[t]) /\ n + 2 = Len(stack[t]) + 1
  BY <1>0, <1>a, Zenon
<1>2. PICK s : s = Under(t)
  OBVIOUS
<1>3. Bottom(t, s, n)
  BY <1>1, <1>2, UnderAt DEF Bottom
<1>4. /\ stack'[t] = Append(s, f) \/ stack'[t] = Append(Append(s, f), g)
      /\ \A u \in Thread \ {t} : stack'[u] = stack[u]
  BY <1>2 DEF Become, BecomeAndCall, Stacks
<1>5. Placed(t, n + 1, f) /\ Placed(t, n + 2, g)
  BY <1>1
<1>6. CASE stack'[t] = Append(s, f)
  BY <1>1, <1>3, <1>4, <1>5, <1>6, PlaceOn
<1>7. CASE stack'[t] = Append(Append(s, f), g)
  <2>1. OnTop(t, n, s, f, g)
    BY <1>1, <1>3, <1>4, <1>5, <1>7 DEF OnTop
  <2> QED BY <2>1, PlaceTwo
<1> QED BY <1>4, <1>6, <1>7

LEMMA PlacePop ==
  ASSUME Stacks, NEW t \in Thread, Running(t),
         stack' = [stack EXCEPT ![t] = Under(t)]
  PROVE  Places(t)
<1>1. stack'[t] = Under(t) /\ \A u \in Thread \ {t} : stack'[u] = stack[u]
  BY DEF Stacks
<1>2. \A k \in 1 .. Len(Under(t)) : k \in 1 .. Len(stack[t])
  BY UnderAt
<1>3. \A k \in 1 .. Len(Under(t)) : Under(t)[k] = stack[t][k]
  BY UnderAt
<1> QED BY <1>1, <1>2, <1>3 DEF Places, Stays

LEMMA PlaceReturn ==
  ASSUME Stacks, NEW t \in Thread, Len(stack[t]) > 1, NEW f, NEW g,
         Placed(t, Len(stack[t]) - 1, f), Placed(t, Len(stack[t]), g),
         \/ ReturnTo(t, f)
         \/ stack' = [stack EXCEPT ![t] = Append(Append(UnderCaller(t), f), g)]
  PROVE  Places(t)
<1>1. PICK n \in Nat : n = Len(stack[t]) - 2 /\ n <= Len(stack[t])
                       /\ n + 1 = Len(stack[t]) - 1 /\ n + 2 = Len(stack[t])
  BY UnderCallerAt
<1>2. PICK s : s = UnderCaller(t)
  OBVIOUS
<1>3. Bottom(t, s, n)
  BY <1>1, <1>2, UnderCallerAt DEF Bottom
<1>4. /\ stack'[t] = Append(s, f) \/ stack'[t] = Append(Append(s, f), g)
      /\ \A u \in Thread \ {t} : stack'[u] = stack[u]
  BY <1>2 DEF ReturnTo, Stacks
<1>5. Placed(t, n + 1, f) /\ Placed(t, n + 2, g)
  BY <1>1
<1>6. CASE stack'[t] = Append(s, f)
  BY <1>1, <1>3, <1>4, <1>5, <1>6, PlaceOn
<1>7. CASE stack'[t] = Append(Append(s, f), g)
  <2>1. OnTop(t, n, s, f, g)
    BY <1>1, <1>3, <1>4, <1>5, <1>7 DEF OnTop
  <2> QED BY <2>1, PlaceTwo
<1> QED BY <1>4, <1>6, <1>7

(* The running call, and its caller, where they work on a reference.       *)
LEMMA TopAt ==
  ASSUME Stacks, NEW t \in Thread, Running(t)
  PROVE  /\ Len(stack[t]) \in 1 .. Len(stack[t])
         /\ stack[t][Len(stack[t])] = Top(t)
<1>1. PICK s \in Seq(Shaped) : s = stack[t] /\ s # <<>>
  BY DEF Stacks, Running
<1>2. Len(s) \in 1 .. Len(s)
  BY <1>1
<1> QED BY <1>1, <1>2 DEF Top

LEMMA CallerAt ==
  ASSUME Stacks, NEW t \in Thread, Len(stack[t]) > 1
  PROVE  /\ Len(stack[t]) - 1 \in 1 .. Len(stack[t])
         /\ stack[t][Len(stack[t]) - 1] = Caller(t)
<1>1. PICK s \in Seq(Shaped) : s = stack[t] /\ Len(s) > 1
  BY DEF Stacks
<1>2. Len(s) - 1 \in 1 .. Len(s)
  BY <1>1
<1> QED BY <1>1, <1>2 DEF Caller

LEMMA LoadStays ==
  ASSUME Stacks, NEW t \in Thread, NEW f, f.pc # "fini"
  PROVE  /\ /\ Running(t) /\ Top(t).pc \in LoadPC /\ f.h = Top(t).h
            /\ f.pc \in UnmappedPC => Top(t).pc \in UnmappedPC
            => Placed(t, Len(stack[t]), f)
         /\ /\ Len(stack[t]) > 1 /\ Caller(t).pc \in LoadPC /\ f.h = Caller(t).h
            /\ f.pc \in UnmappedPC => Caller(t).pc \in UnmappedPC
            => Placed(t, Len(stack[t]) - 1, f)
<1>1. ASSUME Running(t), Top(t).pc \in LoadPC, f.h = Top(t).h,
             f.pc \in UnmappedPC => Top(t).pc \in UnmappedPC
      PROVE  Placed(t, Len(stack[t]), f)
  BY <1>1, TopAt DEF Placed
<1>2. ASSUME Len(stack[t]) > 1, Caller(t).pc \in LoadPC, f.h = Caller(t).h,
             f.pc \in UnmappedPC => Caller(t).pc \in UnmappedPC
      PROVE  Placed(t, Len(stack[t]) - 1, f)
  BY <1>2, CallerAt DEF Placed
<1> QED BY <1>1, <1>2

LEMMA UnloadPlaced ==
  ASSUME NEW t, NEW k, NEW h \in alive, obj[h].refc > 0
  PROVE  Placed(t, k, UnloadFrame(h))
BY DEF UnloadFrame, Placed, LoadPC

LEMMA PlainNew ==
  /\ \A h : Plain(UnlockFrame(h)) /\ Plain(DoneFrame(h))
  /\ \A pc \in OpenPC : \A req : Plain(OpenFrame(pc, req))
  /\ \A pc \in WalkPC : Plain(WalkFrame(pc))
BY DEF UnlockFrame, DoneFrame, OpenFrame, WalkFrame, Plain, OpenPC, WalkPC, LoadPC

LEMMA PlaceBecome ==
  ASSUME Stacks, NEW t \in Thread, Running(t), NEW f,
         Placed(t, Len(stack[t]), f), Become(t, f)
  PROVE  Places(t)
<1>1. Placed(t, Len(stack[t]) + 1, DoneFrame(Null))
  BY PlainNew, PlainPlaced
<1> QED BY <1>1, PlaceTop

(* A call on a reference is made on a handle that has one.                 *)
LEMMA TopReferred ==
  ASSUME Safe, NEW t \in Thread
  PROVE  /\ Running(t) /\ Top(t).pc \in RefPC /\ Top(t).h \in Handle =>
              Top(t).h \in alive /\ obj[Top(t).h].refc > 0
         /\ Len(stack[t]) > 1 /\ Caller(t).pc \in RefPC /\ Caller(t).h \in Handle =>
              Caller(t).h \in alive /\ obj[Caller(t).h].refc > 0
<1>0. IInv /\ RInv /\ Stacks
  BY DEF Safe, IInv
<1>1. ASSUME Running(t), Top(t).pc \in RefPC, Top(t).h \in Handle
      PROVE  Top(t).h \in alive /\ obj[Top(t).h].refc > 0
  <2>1. PICK k \in 1 .. Len(stack[t]) : stack[t][k] = Top(t)
    BY <1>0, <1>1, TopAt
  <2>2. stack[t][k].pc \in RefPC /\ stack[t][k].h \in Handle
    BY <1>1, <2>1
  <2>3. stack[t][k].h \in alive /\ obj[stack[t][k].h].refc > 0
    BY <1>0, <2>2, RefAlive
  <2> QED BY <2>1, <2>3
<1>2. ASSUME Len(stack[t]) > 1, Caller(t).pc \in RefPC, Caller(t).h \in Handle
      PROVE  Caller(t).h \in alive /\ obj[Caller(t).h].refc > 0
  <2>1. PICK k \in 1 .. Len(stack[t]) : stack[t][k] = Caller(t)
    BY <1>0, <1>2, CallerAt
  <2>2. stack[t][k].pc \in RefPC /\ stack[t][k].h \in Handle
    BY <1>2, <2>1
  <2>3. stack[t][k].h \in alive /\ obj[stack[t][k].h].refc > 0
    BY <1>0, <2>2, RefAlive
  <2> QED BY <2>1, <2>3
<1> QED BY <1>1, <1>2

-----------------------------------------------------------------------------
(* What a step does to the marks of finalisers: nothing, or a load or an   *)
(* unload sets them on its own object.                                     *)
Unmarked(h) == obj'[h].fini = obj[h].fini /\ obj'[h].finis = obj[h].finis

Marks(t) ==
  \/ alive' \subseteq alive /\ \A h \in alive' : Unmarked(h)
  \/ Finalise(t)
  \/ Initialise(t)
  \/ \E h \in Handle \ alive :
       /\ alive' = alive \cup {h} /\ ~obj'[h].fini /\ obj'[h].finis = 0
       /\ \A g \in alive : Unmarked(g)

Follows(t) == (Places(t) \/ stack' = stack) /\ Marks(t)

LEMMA Quiet ==
  ASSUME NEW t, UNCHANGED <<table, obj>>
  PROVE  Marks(t)
BY DEF table, Marks, Unmarked

(* A step that changes another field of a handle.                          *)
LEMMA FieldStep ==
  ASSUME Rest, NEW t, NEW h \in Handle, NEW v, NEW w, alive' = alive,
         \/ obj' = [obj EXCEPT ![h].refc = v]
         \/ obj' = [obj EXCEPT ![h].refc = v, ![h].global = w]
         \/ obj' = [obj EXCEPT ![h].pages = v]
         \/ obj' = [obj EXCEPT ![h].deps = v]
         \/ obj' = [obj EXCEPT ![h].released = v]
  PROVE  Marks(t)
<1>1. PICK ob : ob = obj'
  OBVIOUS
<1>2. \/ ob = [obj EXCEPT ![h].refc = v]
      \/ ob = [obj EXCEPT ![h].refc = v, ![h].global = w]
      \/ ob = [obj EXCEPT ![h].pages = v]
      \/ ob = [obj EXCEPT ![h].deps = v]
      \/ ob = [obj EXCEPT ![h].released = v]
  BY <1>1
<1>3. obj \in [Handle -> Object] /\ obj[h] \in Object
  BY DEF Rest
<1>4. \A g \in Handle \ {h} : ob[g] = obj[g]
  BY <1>2, <1>3
<1>5. ob[h].fini = obj[h].fini /\ ob[h].finis = obj[h].finis
  BY <1>2, <1>3 DEF Object
<1> QED BY <1>1, <1>4, <1>5 DEF Marks, Unmarked, Rest

-----------------------------------------------------------------------------
(* The steps again, one by one.                                            *)
LEMMA CallFollows ==
  ASSUME Safe, NEW t \in Thread, Call(t)
  PROVE  Follows(t)
<1>0. Rest /\ Stacks
  BY DEF Safe, IInv
<1>1. CASE CallOpen(t) \/ CallOpenFile(t)
  <2>0. PICK pc \in OpenPC : \E req : Enter(t, OpenFrame(pc, req))
    BY <1>1 DEF CallOpen, CallOpenFile, OpenPC
  <2>1. PICK req : Enter(t, OpenFrame(pc, req))
    BY <2>0
  <2>2. Places(t)
    BY <1>0, <2>1, PlainNew, PlaceEnter
  <2>3. UNCHANGED <<table, obj>>
    BY <1>1 DEF CallOpen, CallOpenFile
  <2> QED BY <2>2, <2>3, Quiet DEF Follows
<1>2. CASE CallClose(t)
  <2>1. PICK h \in Handle : Enter(t, UnlockFrame(h))
    BY <1>2 DEF CallClose
  <2>2. Places(t)
    BY <1>0, <2>1, PlainNew, PlaceEnter
  <2>3. UNCHANGED <<table, obj>>
    BY <1>2 DEF CallClose
  <2> QED BY <2>2, <2>3, Quiet DEF Follows
<1>3. CASE CallWalk(t)
  <2>1. PICK pc \in WalkPC : Enter(t, WalkFrame(pc))
    BY <1>3 DEF CallWalk
  <2>2. Places(t)
    BY <1>0, <2>1, PlainNew, PlaceEnter
  <2>3. UNCHANGED <<table, obj>>
    BY <1>3 DEF CallWalk
  <2> QED BY <2>2, <2>3, Quiet DEF Follows
<1>4. CASE CallByAddress(t) \/ CallInfo(t)
  <2>1. PICK h \in Handle : Locked(h) /\ (Enter(t, UnlockFrame(h)) \/ stack' = stack)
    BY <1>4 DEF CallByAddress, CallInfo
  <2>2. Places(t) \/ stack' = stack
    BY <1>0, <2>1, PlainNew, PlaceEnter
  <2>3. PICK v : v = obj[h].refc + 1
    OBVIOUS
  <2>4. obj' = [obj EXCEPT ![h].refc = v]
    BY <1>0, <2>1, <2>3 DEF Locked, Rest
  <2>5. alive' = alive
    BY <1>4 DEF CallByAddress, CallInfo, table
  <2>6. Marks(t)
    BY <1>0, <2>4, <2>5, FieldStep
  <2> QED BY <2>2, <2>6 DEF Follows
<1> QED BY <1>1, <1>2, <1>3, <1>4 DEF Call

LEMMA OpenFollows ==
  ASSUME Safe, NEW t \in Thread,
         OpenHit(t) \/ OpenMiss(t) \/ Create(t) \/ CreateFails(t)
  PROVE  Follows(t)
<1>0. Rest /\ Stacks /\ members \subseteq Handle /\ obj \in [Handle -> Object]
  BY DEF Safe, IInv, RInv, Rest
<1>1. Running(t) /\ Top(t).pc \in OpenPC /\ Top(t) \in Shaped
  BY <1>0, TopShape DEF OpenHit, OpenMiss, Create, CreateFails, At, OpenPC
<1>2. CASE OpenHit(t)
  <2>1. PICK h \in Handle :
          /\ obj' = [obj EXCEPT ![h].refc = @ + 1, ![h].global = Top(t).req.global]
          /\ Become(t, DoneFrame(h))
    BY <1>0, <1>2 DEF OpenHit, Found
  <2>2. PICK v : v = obj[h].refc + 1
    OBVIOUS
  <2>3. PICK w : w = Top(t).req.global
    OBVIOUS
  <2>4. obj' = [obj EXCEPT ![h].refc = v, ![h].global = w]
    BY <1>0, <2>1, <2>2, <2>3
  <2>5. alive' = alive
    BY <1>2 DEF OpenHit, table
  <2>6. Marks(t)
    BY <1>0, <2>4, <2>5, FieldStep
  <2>7. Places(t)
    BY <1>0, <1>1, <2>1, PlainNew, PlainPlaced, PlaceBecome
  <2> QED BY <2>6, <2>7 DEF Follows
<1>3. CASE OpenMiss(t) \/ CreateFails(t)
  <2>1. PICK f : f \in {DoneFrame(Null), [Top(t) EXCEPT !.pc = "create"]}
                 /\ Become(t, f)
    BY <1>3 DEF OpenMiss, CreateFails
  <2>2. Plain([Top(t) EXCEPT !.pc = "create"])
    BY <1>1 DEF Plain, Shaped, Frame, LoadPC
  <2>3. Places(t)
    BY <1>0, <1>1, <2>1, <2>2, PlainNew, PlainPlaced, PlaceBecome
  <2>4. UNCHANGED <<table, obj>>
    BY <1>3 DEF OpenMiss, CreateFails
  <2> QED BY <2>3, <2>4, Quiet DEF Follows
<1>4. CASE Create(t)
  <2>1. PICK h \in Handle \ alive :
          /\ alive' = alive \cup {h}
          /\ obj' = [obj EXCEPT ![h] = FreshObject(Top(t).req)]
          /\ Become(t, [Top(t) EXCEPT !.pc = "parse", !.h = h])
    BY <1>4 DEF Create
  <2>2. /\ ~obj'[h].fini /\ obj'[h].finis = 0 /\ obj'[h].pages = "none"
        /\ \A g \in Handle \ {h} : obj'[g] = obj[g]
    BY <1>0, <2>1 DEF FreshObject
  <2>3. PICK f : f = [Top(t) EXCEPT !.pc = "parse", !.h = h]
    OBVIOUS
  <2>4. f.pc = "parse" /\ f.h = h
    BY <1>1, <2>3 DEF Shaped, Frame
  <2>5. Placed(t, Len(stack[t]), f)
    BY <2>2, <2>4 DEF Placed
  <2>6. Places(t)
    BY <1>0, <1>1, <2>1, <2>3, <2>5, PlaceBecome
  <2>7. Marks(t)
    BY <1>0, <2>1, <2>2 DEF Marks, Unmarked, Rest
  <2> QED BY <2>6, <2>7 DEF Follows
<1> QED BY <1>2, <1>3, <1>4

LEMMA LoadFollows ==
  ASSUME Safe, NEW t \in Thread,
         \/ Parse(t) \/ ParseFails(t) \/ TooManyDeps(t) \/ OpenDep(t)
         \/ BindMain(t) \/ DepsLoaded(t) \/ Map(t) \/ MapFails(t) \/ Resolve(t)
         \/ Relocated(t) \/ RelocFails(t) \/ Initialise(t)
  PROVE  Follows(t)
<1>0. Rest /\ Stacks
  BY DEF Safe, IInv
<1>1. Running(t) /\ Top(t).pc \in LoadPC
  BY DEF Parse, ParseFails, TooManyDeps, OpenDep, BindMain, DepsRemain, DepsLoaded,
         Map, MapFails, Resolve, Relocated, RelocFails, Initialise, At, LoadPC
<1>2. /\ Top(t) \in Shaped /\ Top(t).h \in Handle
      /\ Top(t).h \in alive /\ obj[Top(t).h].refc > 0
  BY <1>0, <1>1, TopShape, TopReferred DEF RefPC
<1>3. PICK top \in Shaped : top = Top(t)
  BY <1>2
<1>a. ~(Mappable /\ RelocFails(t))
  BY <1>0, <1>1, TopShape DEF RelocFails, MayFail, Mappable, Request
<1>4. Places(t)
  <2>1. CASE OpenDep(t)
    <3>1. PICK req : Enter(t, OpenFrame("find", req))
      BY <2>1 DEF OpenDep
    <3> QED BY <1>0, <3>1, PlainNew, PlaceEnter DEF OpenPC
  <2>2. CASE Resolve(t)
    <3>1. BecomeAndCall(t, [top EXCEPT !.pc = "fix"], WalkFrame("lookup"))
      BY <1>3, <2>2 DEF Resolve
    <3>2. PICK f : f = [top EXCEPT !.pc = "fix"]
      OBVIOUS
    <3>3. f.pc = "fix" /\ f.h = top.h
      BY <3>2 DEF Shaped, Frame
    <3>4. Placed(t, Len(stack[t]), f)
      BY <1>0, <1>1, <1>3, <3>3, LoadStays DEF UnmappedPC
    <3>5. Placed(t, Len(stack[t]) + 1, WalkFrame("lookup"))
      BY PlainNew, PlainPlaced DEF WalkPC
    <3> QED BY <1>0, <1>1, <3>1, <3>2, <3>4, <3>5, PlaceTop
  <2>3. CASE /\ TooManyDeps(t) \/ MapFails(t) \/ RelocFails(t)
             /\ BecomeAndCall(t, LoadFailed(Top(t)), UnloadFrame(Top(t).h))
    <3>0. "drop" \in UnmappedPC => Top(t).pc \in UnmappedPC
      BY <1>a, <2>3 DEF TooManyDeps, MapFails, At, UnmappedPC
    <3>1. PICK f : f = LoadFailed(top)
      OBVIOUS
    <3>2. f.pc = "drop" /\ f.h = top.h
      BY <3>1 DEF LoadFailed, Shaped, Frame
    <3>3. Placed(t, Len(stack[t]), f)
      BY <1>0, <1>1, <1>3, <3>0, <3>2, LoadStays
    <3>4. PICK g : g = UnloadFrame(Top(t).h)
      OBVIOUS
    <3>5. Placed(t, Len(stack[t]) + 1, g)
      BY <1>2, <3>4, UnloadPlaced
    <3> QED BY <1>0, <1>1, <1>3, <2>3, <3>1, <3>3, <3>4, <3>5, PlaceTop
  <2>4. CASE \/ Become(t, UnlockFrame(Top(t).h)) \/ Become(t, DoneFrame(Top(t).h))
    BY <1>0, <1>1, <2>4, PlainNew, PlainPlaced, PlaceBecome
  <2>5. CASE \/ \E pc \in {"map", "reloc", "init"} :
                  /\ pc = "map" => top.pc = "deps"
                  /\ Become(t, [top EXCEPT !.pc = pc])
             \/ /\ top.pc = "parse"
                /\ \E i : Become(t, [top EXCEPT !.pc = "deps", !.i = i])
    <3>1. PICK f : /\ Become(t, f)
                   /\ \/ \E pc \in {"map", "reloc", "init"} :
                           /\ pc = "map" => top.pc = "deps"
                           /\ f = [top EXCEPT !.pc = pc]
                      \/ /\ top.pc = "parse"
                         /\ \E i : f = [top EXCEPT !.pc = "deps", !.i = i]
      BY <2>5
    <3>2. /\ f.pc # "fini" /\ f.h = top.h
          /\ f.pc \in UnmappedPC => top.pc \in UnmappedPC
      BY <3>1 DEF Shaped, Frame, UnmappedPC
    <3>3. Placed(t, Len(stack[t]), f)
      BY <1>0, <1>1, <1>3, <3>2, LoadStays
    <3> QED BY <1>0, <1>1, <3>1, <3>3, PlaceBecome
  <2>6. CASE BindMain(t)
    <3>1. PICK f : f = [top EXCEPT !.i = @ + 1] /\ Become(t, f)
      BY <1>3, <2>6 DEF BindMain
    <3>2. f.pc # "fini" /\ f.h = top.h /\ f.pc = top.pc
      BY <1>1, <1>3, <3>1 DEF Shaped, Frame, LoadPC
    <3>3. Placed(t, Len(stack[t]), f)
      BY <1>0, <1>1, <1>3, <3>2, LoadStays
    <3> QED BY <1>0, <1>1, <3>1, <3>3, PlaceBecome
  <2> QED BY <1>3, <2>1, <2>2, <2>3, <2>4, <2>5, <2>6
      DEF Parse, ParseFails, TooManyDeps, DepsLoaded, Map, MapFails, Relocated,
          RelocFails, Initialise, At
<1>5. Marks(t)
  <2>1. CASE Initialise(t)
    BY <2>1 DEF Marks
  <2>2. CASE UNCHANGED <<table, obj>>
    BY <2>2, Quiet
  <2>3. CASE BindMain(t)
    <3>1. PICK v : v = Append(obj[Top(t).h].deps, Main)
      OBVIOUS
    <3>2. obj' = [obj EXCEPT ![Top(t).h].deps = v] /\ alive' = alive
      BY <1>0, <1>2, <2>3, <3>1 DEF BindMain, Rest, table
    <3> QED BY <1>0, <1>2, <3>2, FieldStep
  <2>4. CASE Map(t) \/ MapFails(t)
    <3>1. PICK v : obj' = [obj EXCEPT ![Top(t).h].pages = v]
      BY <2>4 DEF Map, MapFails
    <3>2. alive' = alive
      BY <2>4 DEF Map, MapFails, table
    <3> QED BY <1>0, <1>2, <3>1, <3>2, FieldStep
  <2> QED BY <2>1, <2>2, <2>3, <2>4
      DEF Parse, ParseFails, TooManyDeps, OpenDep, DepsLoaded, Resolve,
          Relocated, RelocFails, table
<1> QED BY <1>4, <1>5 DEF Follows

LEMMA ReturnFollows ==
  ASSUME Safe, NEW t \in Thread, BindDep(t) \/ DepFails(t) \/ DropFailedLoad(t)
  PROVE  Follows(t)
<1>0. Rest /\ Stacks
  BY DEF Safe, IInv
<1>1. /\ Len(stack[t]) > 1 /\ Caller(t).pc \in LoadPC
      /\ BindDep(t) \/ DepFails(t) => Caller(t).pc \in UnmappedPC
  BY DEF BindDep, DepFails, DropFailedLoad, CalledFrom, LoadPC, UnmappedPC
<1>2. Caller(t) \in Shaped /\ Caller(t).h \in Handle
  BY <1>0, <1>1, CallerFrame DEF Shaped
<1>3. PICK c \in Shaped : c = Caller(t)
  BY <1>2
<1>4. Placed(t, Len(stack[t]), DoneFrame(Null))
  BY PlainNew, PlainPlaced
<1>5. CASE BindDep(t)
  <2>1. PICK f : f = [c EXCEPT !.i = @ + 1] /\ ReturnTo(t, f)
    BY <1>3, <1>5 DEF BindDep
  <2>2. f.pc # "fini" /\ f.h = c.h
    BY <1>1, <1>3, <2>1 DEF Shaped, Frame, LoadPC
  <2>3. Placed(t, Len(stack[t]) - 1, f)
    BY <1>0, <1>1, <1>3, <1>5, <2>2, LoadStays
  <2>4. Places(t)
    BY <1>0, <1>1, <1>4, <2>1, <2>3, PlaceReturn
  <2>5. PICK v : v = Append(obj[Caller(t).h].deps, Top(t).h)
    OBVIOUS
  <2>6. obj' = [obj EXCEPT ![Caller(t).h].deps = v] /\ alive' = alive
    BY <1>0, <1>2, <1>5, <2>5 DEF BindDep, Rest, table
  <2>7. Marks(t)
    BY <1>0, <1>2, <2>6, FieldStep
  <2> QED BY <2>4, <2>7 DEF Follows
<1>6. CASE DepFails(t)
  <2>1. UNCHANGED <<table, obj>>
    BY <1>6 DEF DepFails
  <2>2. CASE Caller(t).req.resolver
    <3>1. PICK f : f = [c EXCEPT !.pc = "map"] /\ ReturnTo(t, f)
      BY <1>3, <1>6, <2>2 DEF DepFails, ReturnTo
    <3>2. f.pc # "fini" /\ f.h = c.h
      BY <3>1 DEF Shaped, Frame
    <3>3. Placed(t, Len(stack[t]) - 1, f)
      BY <1>0, <1>1, <1>3, <1>6, <3>2, LoadStays
    <3>4. Places(t)
      BY <1>0, <1>1, <1>4, <3>1, <3>3, PlaceReturn
    <3> QED BY <2>1, <3>4, Quiet DEF Follows
  <2>3. CASE ~Caller(t).req.resolver
    <3>1. PICK f : f = LoadFailed(c)
      OBVIOUS
    <3>2. f.pc = "drop" /\ f.h = c.h
      BY <3>1 DEF LoadFailed, Shaped, Frame
    <3>3. Placed(t, Len(stack[t]) - 1, f)
      BY <1>0, <1>1, <1>3, <1>6, <3>2, LoadStays
    <3>4. PICK g : g = UnloadFrame(Caller(t).h)
      OBVIOUS
    <3>5. Caller(t).h \in alive /\ obj[Caller(t).h].refc > 0
      BY <1>1, <1>2, TopReferred DEF RefPC
    <3>6. Placed(t, Len(stack[t]), g)
      BY <3>4, <3>5, UnloadPlaced
    <3>7. stack' = [stack EXCEPT ![t] = Append(Append(UnderCaller(t), f), g)]
      BY <1>3, <1>6, <2>3, <3>1, <3>4 DEF DepFails
    <3>8. Places(t)
      BY <1>0, <1>1, <3>3, <3>6, <3>7, PlaceReturn
    <3> QED BY <2>1, <3>8, Quiet DEF Follows
  <2> QED BY <2>2, <2>3
<1>7. CASE DropFailedLoad(t)
  <2>1. PICK f : f = UnlockFrame(Caller(t).h) /\ ReturnTo(t, f)
    BY <1>7 DEF DropFailedLoad
  <2>2. Placed(t, Len(stack[t]) - 1, f)
    BY <2>1, PlainNew, PlainPlaced
  <2>3. Places(t)
    BY <1>0, <1>1, <1>4, <2>1, <2>2, PlaceReturn
  <2>4. UNCHANGED <<table, obj>>
    BY <1>7 DEF DropFailedLoad
  <2> QED BY <2>3, <2>4, Quiet DEF Follows
<1> QED BY <1>5, <1>6, <1>7

LEMMA UnlockFollows ==
  ASSUME Safe, NEW t \in Thread, Unlock(t) \/ LastUnlock(t)
  PROVE  Follows(t)
<1>0. Rest /\ Stacks
  BY DEF Safe, IInv
<1>1. Running(t) /\ Top(t).pc = "unlock"
  BY DEF Unlock, LastUnlock, At
<1>2. /\ Top(t) \in Shaped /\ Top(t).h \in Handle
      /\ Top(t).h \in alive /\ obj[Top(t).h].refc > 0
  BY <1>0, <1>1, TopShape, TopReferred DEF RefPC, UnlockPC
<1>3. PICK v : obj' = [obj EXCEPT ![Top(t).h].refc = v]
  <2>1. PICK m : m = obj[Top(t).h].refc - 1
    OBVIOUS
  <2>2. Unlock(t) => obj' = [obj EXCEPT ![Top(t).h].refc = m]
    BY <1>0, <1>2, <2>1 DEF Unlock, Rest
  <2> QED BY <2>2 DEF LastUnlock
<1>4. alive' = alive
  BY DEF Unlock, LastUnlock, table
<1>5. Marks(t)
  BY <1>0, <1>2, <1>3, <1>4, FieldStep
<1>6. CASE Unlock(t)
  <2>1. Become(t, DoneFrame(Null))
    BY <1>6 DEF Unlock
  <2>2. Places(t)
    BY <1>0, <1>1, <2>1, PlainNew, PlainPlaced, PlaceBecome
  <2> QED BY <1>5, <2>2 DEF Follows
<1>7. CASE LastUnlock(t)
  <2>1. PICK f : f = [Top(t) EXCEPT !.pc = "unlocking"]
    OBVIOUS
  <2>2. Plain(f)
    BY <1>2, <2>1 DEF Plain, Shaped, Frame, LoadPC
  <2>3. PICK g : g = UnloadFrame(Top(t).h)
    OBVIOUS
  <2>4. Placed(t, Len(stack[t]) + 1, g)
    BY <1>2, <2>3, UnloadPlaced
  <2>5. BecomeAndCall(t, f, g)
    BY <1>7, <2>1, <2>3 DEF LastUnlock
  <2>6. Placed(t, Len(stack[t]), f)
    BY <2>2, PlainPlaced
  <2>7. Places(t)
    BY <1>0, <1>1, <2>4, <2>5, <2>6, PlaceTop
  <2> QED BY <1>5, <2>7 DEF Follows
<1> QED BY <1>6, <1>7

LEMMA ReclaimFollows ==
  ASSUME Safe, NEW t \in Thread, Reclaim(t)
  PROVE  Follows(t)
<1>0. Rest /\ Stacks /\ obj \in [Handle -> Object] /\ alive \subseteq Handle
  BY DEF Safe, IInv, Rest
<1>1. Running(t) /\ Top(t).pc = "unloaded" /\ Len(stack[t]) > 1
  BY DEF Reclaim, At, CalledFrom
<1>2. Top(t).h \in Handle
  BY <1>0, <1>1, TopShape DEF UnloadPC
<1>3. PICK h \in Handle : h = Top(t).h
  BY <1>2
<1>4. alive' = alive \ {h} /\ \A g \in Handle \ {h} : obj'[g] = obj[g]
  BY <1>0, <1>3 DEF Reclaim
<1>5. Marks(t)
  BY <1>0, <1>4 DEF Marks, Unmarked
<1>6. /\ ReturnTo(t, DoneFrame(Null))
      /\ Placed(t, Len(stack[t]) - 1, DoneFrame(Null))
      /\ Placed(t, Len(stack[t]), DoneFrame(Null))
  BY PlainNew, PlainPlaced DEF Reclaim
<1>7. Places(t)
  BY <1>0, <1>1, <1>6, PlaceReturn
<1> QED BY <1>5, <1>7 DEF Follows

LEMMA UnloadFollows ==
  ASSUME Safe, NEW t \in Thread,
         \/ Finalise(t) \/ FreePages(t) \/ FreePagesFails(t)
         \/ ReleaseDep(t) \/ DepsReleased(t)
  PROVE  Follows(t)
<1>0. Rest /\ Stacks
  BY DEF Safe, IInv
<1>1. Running(t) /\ Top(t).pc \in {"fini", "pages", "release"}
  BY DEF Finalise, FreePages, FreePagesFails, ReleaseDep, DepsReleased, At
<1>2. Top(t) \in Shaped /\ Top(t).h \in Handle
  BY <1>0, <1>1, TopShape DEF UnloadPC
<1>3. PICK top \in Shaped : top = Top(t)
  BY <1>2
<1>4. Places(t)
  <2>1. CASE ReleaseDep(t)
    <3>1. PICK f : f = [top EXCEPT !.i = @ + 1]
      OBVIOUS
    <3>2. Become(t, f) \/ \E d : BecomeAndCall(t, f, UnlockFrame(d))
      BY <1>3, <2>1, <3>1 DEF ReleaseDep
    <3>3. top.pc = "release"
      BY <1>3, <2>1 DEF ReleaseDep, At
    <3>4. Plain(f)
      BY <3>1, <3>3 DEF Shaped, Frame, Plain, LoadPC
    <3>5. PICK d : Become(t, f) \/ BecomeAndCall(t, f, UnlockFrame(d))
      BY <3>2
    <3>6. /\ Placed(t, Len(stack[t]), f)
          /\ Placed(t, Len(stack[t]) + 1, UnlockFrame(d))
      BY <3>4, PlainNew, PlainPlaced
    <3> QED BY <1>0, <1>1, <3>5, <3>6, PlaceTop
  <2>2. CASE ~ReleaseDep(t)
    <3>1. PICK pc \in {"pages", "release", "unfreed", "unloaded"} :
            Become(t, [top EXCEPT !.pc = pc])
      BY <1>3, <2>2 DEF Finalise, FreePages, FreePagesFails, DepsReleased
    <3>2. PICK f : f = [top EXCEPT !.pc = pc]
      OBVIOUS
    <3>3. Plain(f)
      BY <3>2 DEF Shaped, Frame, Plain, LoadPC
    <3>4. Placed(t, Len(stack[t]), f)
      BY <3>3, PlainPlaced
    <3> QED BY <1>0, <1>1, <3>1, <3>2, <3>4, PlaceBecome
  <2> QED BY <2>1, <2>2
<1>5. Marks(t)
  <2>1. CASE Finalise(t)
    BY <2>1 DEF Marks
  <2>2. CASE DepsReleased(t)
    BY <2>2, Quiet DEF DepsReleased, table
  <2>3. CASE FreePages(t) \/ FreePagesFails(t)
    <3>1. PICK v : obj' = [obj EXCEPT ![Top(t).h].pages = v]
      BY <2>3 DEF FreePages, FreePagesFails
    <3>2. alive' = alive
      BY <2>3 DEF FreePages, FreePagesFails, table
    <3> QED BY <1>0, <1>2, <3>1, <3>2, FieldStep
  <2>4. CASE ReleaseDep(t)
    <3>1. PICK v : v = IF obj[Top(t).h].released < Top(t).i
                       THEN Top(t).i ELSE obj[Top(t).h].released
      OBVIOUS
    <3>2. obj' = [obj EXCEPT ![Top(t).h].released = v] /\ alive' = alive
      BY <1>0, <1>2, <2>4, <3>1 DEF ReleaseDep, Rest, table
    <3> QED BY <1>0, <1>2, <3>2, FieldStep
  <2> QED BY <2>1, <2>2, <2>3, <2>4
<1> QED BY <1>4, <1>5 DEF Follows

LEMMA PopFollows ==
  ASSUME Safe, NEW t \in Thread,
         UnlockReturns(t) \/ WalkEnds(t) \/ ReturnToProgram(t)
  PROVE  Follows(t)
<1>1. Running(t) /\ stack' = [stack EXCEPT ![t] = Under(t)]
  BY DEF UnlockReturns, WalkEnds, ReturnToProgram, At
<1>2. Places(t)
  BY <1>1, PlacePop DEF Safe, IInv
<1>3. UNCHANGED <<table, obj>>
  BY DEF UnlockReturns, WalkEnds, ReturnToProgram
<1> QED BY <1>2, <1>3, Quiet DEF Follows

LEMMA StepFollows ==
  ASSUME Reliable, "fini" \notin Callers, Safe, [Next]_vars
  PROVE  \/ UNCHANGED vars
         \/ \E t \in Thread : (Call(t) \/ Step(t)) /\ Effect(t) /\ Follows(t)
<1>1. ASSUME NEW t \in Thread, Step(t)
      PROVE  Effect(t) /\ Follows(t)
  <2>1. ~KeepUnfreed(t) /\ ~PassUnreferred(t) /\ ~UseAfterFree(t)
    BY NeverHappens
  <2>2. Load(t) \/ Unload(t) \/ ReturnToProgram(t)
    BY <1>1, <2>1 DEF Step
  <2>3. CASE Load(t)
    <3>1. ~CreateFilledAfterFree(t)
      <4>1. Stacks
        BY DEF Safe, IInv
      <4> QED BY <4>1, TopShape
              DEF CreateFilledAfterFree, At, MayFail, Reliable, Request, OpenPC
    <3> QED BY <2>3, <3>1, OpenEffects, LoadEffects, ReturnEffects,
               OpenFollows, LoadFollows, ReturnFollows DEF Load
  <2>4. CASE Unload(t)
    BY <2>1, <2>4, UnlockEffects, ReclaimEffect, UnloadEffects, PopEffects,
       UnlockFollows, ReclaimFollows, UnloadFollows, PopFollows DEF Unload
  <2> QED BY <2>2, <2>3, <2>4, PopEffects, PopFollows
<1> QED BY <1>1, CallEffects, CallFollows DEF Next, Finished

LEMMA StepEffect ==
  ASSUME Reliable, "fini" \notin Callers, Safe, [Next]_vars
  PROVE  UNCHANGED vars \/ \E t \in Thread : Effect(t)
BY StepFollows

LEMMA StepCInv ==
  ASSUME Reliable, "fini" \notin Callers
  PROVE  Safe /\ [Next]_vars => CInv'
<1> SUFFICES ASSUME Safe, [Next]_vars
             PROVE  CInv'
  OBVIOUS
<1>1. CASE UNCHANGED vars
  BY <1>1 DEF vars, Safe, CInv, Attended
<1>2. ASSUME NEW t \in Thread, Effect(t)
      PROVE  CInv'
  BY <1>2, EffectKeeps DEF Safe
<1> QED BY <1>1, <1>2, StepEffect

LEMMA InitCInv == Init => CInv
<1> SUFFICES ASSUME Init
             PROVE  CInv
  OBVIOUS
<1>1. ~crashed /\ alive = {} /\ \A t \in Thread : stack[t] = <<>>
  BY DEF Init
<1>2. \A t \in Thread : Len(stack[t]) = 0
  BY <1>1
<1> QED BY <1>1, <1>2 DEF CInv, Attended, Calm

LEMMA SpecSafe ==
  ASSUME Reliable, "fini" \notin Callers
  PROVE  Spec /\ GivesBackOnce => []Safe
<1>1. Init => Safe
  BY InitIInv, InitRInv, InitCInv DEF Safe
<1>2. Safe /\ [Next]_vars /\ [NotYetGiven]_vars => Safe'
  <2>1. Safe /\ [Next]_vars /\ [NotYetGiven]_vars => IInv' /\ RInv'
    BY StepIInv, StepRInv DEF Safe
  <2>2. Safe /\ [Next]_vars => CInv'
    BY StepCInv
  <2> QED BY <2>1, <2>2 DEF Safe
<1> QED BY <1>1, <1>2, PTL DEF Spec, GivesBackOnce

-----------------------------------------------------------------------------
(* No call is made on a handle that was freed, no handle is filled in      *)
(* after that, and the program, the objects and the calls keep none, for   *)
(* any number of threads that open, close and search in any order, and     *)
(* whatever loads fail on the way.                                         *)
THEOREM NeverDangles ==
  ASSUME Reliable, "fini" \notin Callers
  PROVE  Spec /\ GivesBackOnce => []NothingDangles
<1>1. Safe => NothingDangles
  BY RInvCounts DEF Safe, CInv, NothingDangles, NoneLeft
<1> QED BY <1>1, SpecSafe, PTL

(* ctrdl_lockHandle, ctrdl_unlockHandle and what calls them implement      *)
(* RefCounted: references are taken only from handles that have one, and   *)
(* the unlock that gives the last one back is not overtaken: nobody gets   *)
(* hold of the handle before it is freed.                                  *)
THEOREM CountsReferences ==
  ASSUME Reliable, "fini" \notin Callers
  PROVE  Spec /\ GivesBackOnce => ImplementsRefCounted
<1>1. Init => Counted!Init
  BY DEF Init, Counted!Init
<1>2. Safe /\ Safe' /\ [Next]_vars => [Counted!Next]_Counted!vars
  <2> SUFFICES ASSUME Safe, Safe', [Next]_vars
               PROVE  [Counted!Next]_Counted!vars
    OBVIOUS
  <2>1. CASE UNCHANGED vars
    BY <2>1 DEF vars, Counted!vars
  <2>2. ASSUME NEW t \in Thread, Effect(t)
        PROVE  [Counted!Next]_Counted!vars
    BY <2>2, EffectCounts DEF Safe
  <2> QED BY <2>1, <2>2, StepEffect
<1> QED BY <1>1, <1>2, SpecSafe, PTL DEF Spec, ImplementsRefCounted, Counted!Spec

-----------------------------------------------------------------------------
(* Finalisers run once.  One call loads a handle, its finalisers are not   *)
(* recorded before that is over, and they have not run when an unload of   *)
(* the handle begins, or when it still has a reference.                    *)
Loads(u, k, h) ==
  k \in 1 .. Len(stack[u]) /\ stack[u][k].pc \in LoadPC /\ stack[u][k].h = h
Begins(u, k, h) ==
  k \in 1 .. Len(stack[u]) /\ stack[u][k].pc = "fini" /\ stack[u][k].h = h

LoadsAlone ==
  \A h, j, k : \A u, w \in Thread :
    Loads(u, j, h) /\ Loads(w, k, h) => u = w /\ j = k
LoadsUnrecorded ==
  \A h, k : \A u \in Thread : Loads(u, k, h) => ~obj[h].fini
BeginsUnfinalised ==
  \A h, k : \A u \in Thread : Begins(u, k, h) => obj[h].finis = 0
FinalisedLast ==
  \A h \in alive : obj[h].finis <= 1 /\ (obj[h].refc > 0 => obj[h].finis = 0)

FInv == LoadsAlone /\ LoadsUnrecorded /\ BeginsUnfinalised /\ FinalisedLast

LEMMA LoadsAlive ==
  ASSUME Safe, NEW u \in Thread, NEW k, NEW h, Loads(u, k, h)
  PROVE  h \in Handle /\ h \in alive
<1>0. IInv /\ RInv /\ stack \in [Thread -> Seq(Shaped)]
  BY DEF Safe, IInv, Stacks
<1>1. PICK s \in Seq(Shaped) : s = stack[u] /\ k \in 1 .. Len(s)
  BY <1>0 DEF Loads
<1>2. s[k] \in Shaped /\ s[k].pc \in LoadPC /\ s[k].h = h
  BY <1>1 DEF Loads
<1>3. h \in Handle /\ s[k].pc \in RefPC
  BY <1>2 DEF Shaped, RefPC
<1> QED BY <1>0, <1>1, <1>2, <1>3, RefAlive

LEMMA BeginsAlive ==
  ASSUME Safe, NEW u \in Thread, NEW k, NEW h, Begins(u, k, h)
  PROVE  h \in alive
BY UnloadAlive DEF Safe, Begins, UnloadPC

FramesAlive ==
  \A h, k : \A u \in Thread :
    /\ Loads(u, k, h) => h \in Handle /\ h \in alive
    /\ Begins(u, k, h) => h \in alive

LEMMA AllFramesAlive == Safe => FramesAlive
BY LoadsAlive, BeginsAlive DEF FramesAlive

(* Where the frames of the new stacks come from.                           *)
LEMMA LoadsFrom ==
  ASSUME NEW t \in Thread, Follows(t),
         NEW u \in Thread, NEW k, NEW h, Loads(u, k, h)'
  PROVE  \/ Loads(u, k, h)
         \/ u = t /\ k = Len(stack[t]) /\ h \notin alive /\ ~obj'[h].fini
<1>1. PICK r : r = stack'[u]
  OBVIOUS
<1>2. k \in 1 .. Len(r) /\ r[k].pc \in LoadPC /\ r[k].h = h
  BY <1>1 DEF Loads
<1>3. CASE r = stack[u]
  BY <1>2, <1>3 DEF Loads
<1>4. CASE r # stack[u]
  <2>1. u = t /\ (Stays(t, k) \/ Placed(t, k, r[k]))
    BY <1>1, <1>2, <1>4 DEF Follows, Places
  <2> QED BY <1>1, <1>2, <2>1 DEF Stays, Placed, Loads
<1> QED BY <1>3, <1>4

LEMMA BeginsFrom ==
  ASSUME NEW t \in Thread, Follows(t),
         NEW u \in Thread, NEW k, NEW h, Begins(u, k, h)'
  PROVE  Begins(u, k, h) \/ (h \in alive /\ obj[h].refc > 0)
<1>1. PICK r : r = stack'[u]
  OBVIOUS
<1>2. k \in 1 .. Len(r) /\ r[k].pc = "fini" /\ r[k].h = h
  BY <1>1 DEF Begins
<1>3. CASE r = stack[u]
  BY <1>2, <1>3 DEF Begins
<1>4. CASE r # stack[u]
  <2>1. u = t /\ (Stays(t, k) \/ Placed(t, k, r[k]))
    BY <1>1, <1>2, <1>4 DEF Follows, Places
  <2> QED BY <1>1, <1>2, <2>1 DEF Stays, Placed, Begins
<1> QED BY <1>3, <1>4

LEMMA StillReferred ==
  ASSUME Safe, NEW t \in Thread, Effect(t),
         NEW h \in alive, h \in alive', obj'[h].refc > 0
  PROVE  obj[h].refc > 0
<1>1. h \in Handle /\ obj[h].refc \in Nat
  BY ObjectFields DEF Safe, IInv, Rest
<1>2. CASE SameCounts
  BY <1>1, <1>2 DEF SameCounts
<1>3. ASSUME NEW g \in Handle, Creates(g) \/ Takes(g) \/ Gives(t, g) \/ Frees(g)
      PROVE  obj[h].refc > 0
  BY <1>1, <1>3 DEF Creates, Takes, Gives, Frees, SameElsewhere
<1> QED BY <1>2, <1>3 DEF Effect

LEMMA BecomeAt ==
  ASSUME Stacks, NEW t \in Thread, Running(t), NEW f, Become(t, f)
  PROVE  /\ \A u \in Thread \ {t} : stack'[u] = stack[u]
         /\ Len(stack'[t]) = Len(stack[t])
         /\ stack'[t][Len(stack[t])] = f
         /\ \A k \in 1 .. Len(stack[t]) :
              k # Len(stack[t]) => stack'[t][k] = stack[t][k]
<1>1. PICK s : s = Under(t)
  OBVIOUS
<1>2. /\ stack'[t] = Append(s, f)
      /\ \A u \in Thread \ {t} : stack'[u] = stack[u]
  BY <1>1 DEF Become, Stacks
<1>3. PICK n \in Nat \ {0} : n = Len(stack[t])
  BY UnderAt
<1>4. /\ s \in Seq(Shaped) /\ Len(s) = n - 1
      /\ \A k \in 1 .. n - 1 : s[k] = stack[t][k]
  BY <1>1, <1>3, UnderAt
<1>5. PICK r : r = Append(s, f)
  OBVIOUS
<1>6. /\ Len(r) = Len(s) + 1 /\ r[Len(s) + 1] = f
      /\ \A k \in 1 .. Len(s) : r[k] = s[k]
  BY <1>4, <1>5, PushAt
<1>7. /\ Len(r) = n /\ r[n] = f
      /\ \A k \in 1 .. n : k # n => r[k] = stack[t][k]
  BY <1>3, <1>4, <1>6
<1> QED BY <1>2, <1>3, <1>5, <1>7

LEMMA CallAt ==
  ASSUME Stacks, NEW t \in Thread, Running(t), NEW f, NEW g, BecomeAndCall(t, f, g)
  PROVE  stack'[t][Len(stack[t])] = f
<1>1. PICK s : s = Under(t)
  OBVIOUS
<1>2. stack'[t] = Append(Append(s, f), g)
  BY <1>1 DEF BecomeAndCall, Stacks
<1>3. PICK n \in Nat \ {0} : n = Len(stack[t])
  BY UnderAt
<1>4. s \in Seq(Shaped) /\ Len(s) = n - 1
  BY <1>1, <1>3, UnderAt
<1>5. PICK r : r = Append(s, f)
  OBVIOUS
<1>6. r \in Seq(Shaped \cup {f}) /\ Len(r) = n /\ r[n] = f
  <2>1. s \in Seq(Shaped \cup {f})
    BY <1>4
  <2> QED BY <1>4, <1>5, <2>1, PushAt
<1>7. Append(r, g)[n] = f
  BY <1>3, <1>6, PushAt
<1> QED BY <1>2, <1>3, <1>5, <1>7

LEMMA OnlyOne ==
  ASSUME NEW S, IsFiniteSet(S), Cardinality(S) <= 1, NEW d \in S, NEW e \in S
  PROVE  d = e
<1> SUFFICES ASSUME d # e
             PROVE  FALSE
  OBVIOUS
<1>1. /\ IsFiniteSet(S \ {d})
      /\ Cardinality(S \ {d}) = Cardinality(S) - 1
  BY FS_RemoveElement
<1>2. Cardinality(S) \in Nat /\ Cardinality(S \ {d}) \in Nat
  BY <1>1, FS_CardinalityType
<1>3. Cardinality(S \ {d}) = 0
  BY <1>1, <1>2
<1>4. S \ {d} = {}
  BY <1>1, <1>3, FS_EmptySet
<1> QED BY <1>4

(* An object whose finalisers are recorded is unloaded by one call, the    *)
(* last unlock of its handle.                                              *)
LEMMA BeginsAlone ==
  ASSUME Safe, LoadsUnrecorded, NEW u \in Thread, NEW w \in Thread,
         NEW j, NEW k, NEW h, Begins(u, j, h), Begins(w, k, h), obj[h].fini
  PROVE  u = w /\ j = k /\ obj[h].refc = 0
<1>0. /\ IInv /\ RInv /\ stack \in [Thread -> Seq(Shaped)]
      /\ \A v \in Thread : Good(alive, obj, stack[v])
  BY DEF Safe, IInv, Stacks, RInv, RInvOf
<1> DEFINE E == Entries(stack, h, {"unlocking"})
<1>1. ASSUME NEW v \in Thread, NEW i, Begins(v, i, h)
      PROVE  i \in Nat /\ <<v, i - 1>> \in E /\ obj[h].refc = 0
  <2>1. PICK s \in Seq(Shaped) : s = stack[v] /\ i \in 1 .. Len(s)
    BY <1>0, <1>1 DEF Begins
  <2>2. s[i].pc \in UnloadPC /\ s[i].h = h
    BY <1>1, <2>1 DEF Begins, UnloadPC
  <2>3. /\ i - 1 \in 1 .. Len(s)
        /\ s[i - 1].pc \in {"drop", "unlocking"} /\ s[i - 1].h = h
    BY <1>0, <2>1, <2>2, UnloadCaller
  <2>4. PICK p : p = i - 1
    OBVIOUS
  <2>5. s[p].pc # "drop"
    <3>1. ~Loads(v, p, h)
      BY DEF LoadsUnrecorded
    <3> QED BY <2>1, <2>3, <2>4, <3>1 DEF Loads, LoadPC
  <2>6. On(stack[v][p], h, {"unlocking"}) /\ p \in 1 .. Len(stack[v])
    BY <2>1, <2>3, <2>4, <2>5 DEF On
  <2>7. <<v, p>> \in E
    BY <1>0, <2>6, EntryIs
  <2>8. obj[h].refc = 0
    BY <1>0, <2>1, <2>3, <2>4, <2>5 DEF Good, FrameOK
  <2> QED BY <2>1, <2>4, <2>7, <2>8
<1>2. h \in Handle
  BY BeginsAlive DEF Safe, IInv, Rest
<1>3. IsFiniteSet(E) /\ Cardinality(E) <= 1
  BY <1>0, <1>2 DEF RInv, RInvOf, Finite
<1>4. /\ j \in Nat /\ <<u, j - 1>> \in E /\ obj[h].refc = 0
      /\ k \in Nat /\ <<w, k - 1>> \in E
  BY <1>1
<1> HIDE DEF E
<1>5. <<u, j - 1>> = <<w, k - 1>>
  BY <1>3, <1>4, OnlyOne
<1> QED BY <1>4, <1>5

LEMMA StepLoadsAlone ==
  ASSUME Safe, LoadsAlone, NEW t \in Thread, Follows(t)
  PROVE  LoadsAlone'
<1> SUFFICES ASSUME NEW h, NEW j, NEW k, NEW u \in Thread, NEW w \in Thread,
                    Loads(u, j, h)', Loads(w, k, h)'
             PROVE  u = w /\ j = k
  BY DEF LoadsAlone
<1>1. /\ Loads(u, j, h) \/ (u = t /\ j = Len(stack[t]) /\ h \notin alive)
      /\ Loads(w, k, h) \/ (w = t /\ k = Len(stack[t]) /\ h \notin alive)
  BY LoadsFrom
<1>2. Loads(u, j, h) \/ Loads(w, k, h) => h \in alive
  BY LoadsAlive
<1> QED BY <1>1, <1>2 DEF LoadsAlone

(* The marks of what was allocated stay, those of a new handle are clear.  *)
LEMMA UnmarkedKeeps ==
  ASSUME Safe, Safe', FInv, NEW t \in Thread, Effect(t), Follows(t),
         \A h \in alive' : IF h \in alive THEN Unmarked(h)
                           ELSE ~obj'[h].fini /\ obj'[h].finis = 0
  PROVE  FInv'
<1>0. FramesAlive'
  BY AllFramesAlive, PTL
<1>1. ASSUME NEW h, NEW k, NEW u \in Thread, Loads(u, k, h)'
      PROVE  ~obj'[h].fini
  <2>1. h \in alive'
    BY <1>1, <1>0 DEF FramesAlive
  <2>2. CASE Loads(u, k, h)
    BY <2>1, <2>2, LoadsAlive DEF FInv, LoadsUnrecorded, Unmarked
  <2> QED BY <1>1, <2>2, LoadsFrom
<1>2. ASSUME NEW h, NEW k, NEW u \in Thread, Begins(u, k, h)'
      PROVE  obj'[h].finis = 0
  <2>1. h \in alive'
    BY <1>2, <1>0 DEF FramesAlive
  <2>2. h \in alive /\ obj[h].finis = 0
    <3>1. Begins(u, k, h) => h \in alive /\ obj[h].finis = 0
      BY BeginsAlive DEF FInv, BeginsUnfinalised
    <3> QED BY <1>2, <3>1, BeginsFrom DEF FInv, FinalisedLast
  <2> QED BY <2>1, <2>2 DEF Unmarked
<1>3. ASSUME NEW h \in alive'
      PROVE  obj'[h].finis <= 1 /\ (obj'[h].refc > 0 => obj'[h].finis = 0)
  <2>1. CASE h \in alive
    <3>1. obj'[h].refc > 0 => obj[h].refc > 0
      BY <2>1, StillReferred
    <3>2. obj'[h].finis = obj[h].finis
      BY <2>1 DEF Unmarked
    <3> QED BY <2>1, <3>1, <3>2 DEF FInv, FinalisedLast
  <2> QED BY <2>1
<1>4. LoadsAlone'
  BY StepLoadsAlone DEF FInv
<1> QED BY <1>1, <1>2, <1>3, <1>4
        DEF FInv, LoadsUnrecorded, BeginsUnfinalised, FinalisedLast

LEMMA InitialiseKeeps ==
  ASSUME Safe, Safe', FInv, NEW t \in Thread, Effect(t), Follows(t), Initialise(t)
  PROVE  FInv'
<1>a. FramesAlive'
  BY AllFramesAlive, PTL
<1>0. Rest /\ Stacks /\ alive' = alive /\ Running(t) /\ Top(t).pc \in LoadPC
  BY DEF Safe, IInv, Initialise, At, LoadPC, table
<1>1. PICK h0 \in Handle : h0 = Top(t).h
  BY <1>0, TopShape
<1>2. /\ \A g \in Handle : obj'[g].finis = obj[g].finis
      /\ \A g \in Handle \ {h0} : obj'[g].fini = obj[g].fini
  <2>1. obj' = [obj EXCEPT ![h0].fini = TRUE]
    BY <1>1 DEF Initialise
  <2>2. obj \in [Handle -> Object] /\ obj[h0] \in Object
    BY <1>0 DEF Rest
  <2>3. \A g \in Handle \ {h0} : obj'[g] = obj[g]
    BY <2>1, <2>2
  <2>4. obj'[h0].finis = obj[h0].finis
    BY <2>1, <2>2 DEF Object
  <2> QED BY <2>3, <2>4
<1>3. Loads(t, Len(stack[t]), h0)
  BY <1>0, <1>1, TopAt DEF Loads
<1>4. ASSUME NEW h, NEW k, NEW u \in Thread, Loads(u, k, h)'
      PROVE  ~obj'[h].fini
  <2>1. h \in alive' /\ h \in Handle
    BY <1>4, <1>a DEF FramesAlive
  <2>2. Loads(u, k, h)
    BY <1>0, <1>4, <2>1, LoadsFrom
  <2>3. h # h0
    <3> SUFFICES ASSUME h = h0
                 PROVE  FALSE
      OBVIOUS
    <3>1. u = t /\ k = Len(stack[t])
      BY <1>3, <2>2 DEF FInv, LoadsAlone
    <3>2. stack'[t][Len(stack[t])] = DoneFrame(h0)
      BY <1>0, <1>1, BecomeAt DEF Initialise
    <3> QED BY <1>4, <3>1, <3>2 DEF Loads, DoneFrame, LoadPC
  <2> QED BY <1>2, <2>1, <2>2, <2>3 DEF FInv, LoadsUnrecorded
<1>5. \A h \in alive : h \in Handle
  BY <1>0 DEF Rest
<1>6. ASSUME NEW h, NEW k, NEW u \in Thread, Begins(u, k, h)'
      PROVE  obj'[h].finis = 0
  <2>1. Begins(u, k, h) => h \in alive /\ obj[h].finis = 0
    BY BeginsAlive DEF FInv, BeginsUnfinalised
  <2>2. h \in alive /\ obj[h].finis = 0
    BY <1>6, <2>1, BeginsFrom DEF FInv, FinalisedLast
  <2> QED BY <1>2, <1>5, <2>2
<1>7. ASSUME NEW h \in alive'
      PROVE  obj'[h].finis <= 1 /\ (obj'[h].refc > 0 => obj'[h].finis = 0)
  <2>1. obj'[h].refc > 0 => obj[h].refc > 0
    BY <1>0, StillReferred
  <2>2. h \in alive /\ obj'[h].finis = obj[h].finis
    BY <1>0, <1>2, <1>5
  <2> QED BY <2>1, <2>2 DEF FInv, FinalisedLast
<1>8. LoadsAlone'
  BY StepLoadsAlone DEF FInv
<1> QED BY <1>4, <1>6, <1>7, <1>8
        DEF FInv, LoadsUnrecorded, BeginsUnfinalised, FinalisedLast

LEMMA FinaliseKeeps ==
  ASSUME Safe, Safe', FInv, NEW t \in Thread, Effect(t), Follows(t), Finalise(t)
  PROVE  FInv'
<1>a. FramesAlive'
  BY AllFramesAlive, PTL
<1>0. Rest /\ Stacks /\ alive' = alive /\ Running(t) /\ Top(t).pc = "fini"
  BY DEF Safe, IInv, Finalise, At, table
<1>1. PICK h0 \in Handle : h0 = Top(t).h
  BY <1>0, TopShape DEF UnloadPC
<1>2. Begins(t, Len(stack[t]), h0)
  BY <1>0, <1>1, TopAt DEF Begins
<1>3. obj[h0].finis = 0 /\ obj[h0].refc \in Nat /\ obj \in [Handle -> Object]
  BY <1>0, <1>2, ObjectFields DEF FInv, BeginsUnfinalised, Rest
<1>4. /\ \A g \in Handle : obj'[g].fini = obj[g].fini /\ obj'[g].refc = obj[g].refc
      /\ \A g \in Handle \ {h0} : obj'[g].finis = obj[g].finis
      /\ obj'[h0].finis = IF obj[h0].fini THEN 1 ELSE 0
  <2>1. PICK v : v = IF obj[h0].fini THEN 1 ELSE 0
    OBVIOUS
  <2>2. obj' = [obj EXCEPT ![h0].finis = v]
    BY <1>1, <1>3, <2>1 DEF Finalise, This
  <2>3. \A g \in Handle \ {h0} : obj'[g] = obj[g]
    BY <1>3, <2>2
  <2>4. /\ obj'[h0].fini = obj[h0].fini /\ obj'[h0].refc = obj[h0].refc
        /\ obj'[h0].finis = v
    BY <1>3, <2>2 DEF Object
  <2> QED BY <2>1, <2>3, <2>4
<1>5. /\ \A u \in Thread \ {t} : stack'[u] = stack[u]
      /\ Len(stack'[t]) = Len(stack[t])
      /\ stack'[t][Len(stack[t])].pc = "pages"
      /\ \A k \in 1 .. Len(stack[t]) :
           k # Len(stack[t]) => stack'[t][k] = stack[t][k]
  <2>1. PICK f : f = [Top(t) EXCEPT !.pc = "pages"]
    OBVIOUS
  <2>2. f.pc = "pages"
    BY <1>0, <2>1, TopShape DEF Shaped, Frame
  <2>3. Become(t, f)
    BY <2>1 DEF Finalise
  <2> QED BY <1>0, <2>2, <2>3, BecomeAt
<1>6. ASSUME NEW h, NEW k, NEW u \in Thread, Begins(u, k, h)'
      PROVE  Begins(u, k, h) /\ (u # t \/ k # Len(stack[t]))
  <2>1. CASE u # t
    BY <1>5, <1>6, <2>1 DEF Begins
  <2>2. CASE u = t
    <3>1. k \in 1 .. Len(stack[t]) /\ stack'[t][k].pc = "fini"
      BY <1>5, <1>6, <2>2 DEF Begins
    <3>2. k # Len(stack[t]) /\ stack'[t][k] = stack[t][k]
      BY <1>5, <3>1
    <3> QED BY <1>6, <2>2, <3>1, <3>2 DEF Begins
  <2> QED BY <2>1, <2>2
<1>7. ASSUME NEW h, NEW k, NEW u \in Thread, Loads(u, k, h)'
      PROVE  ~obj'[h].fini
  <2>1. h \in alive /\ h \in Handle
    BY <1>a, <1>0, <1>7 DEF FramesAlive
  <2>2. Loads(u, k, h)
    BY <1>7, <2>1, LoadsFrom
  <2> QED BY <1>4, <2>1, <2>2 DEF FInv, LoadsUnrecorded
<1>8. ASSUME NEW h, NEW k, NEW u \in Thread, Begins(u, k, h)'
      PROVE  obj'[h].finis = 0
  <2>1. Begins(u, k, h) /\ (u # t \/ k # Len(stack[t]))
    BY <1>6, <1>8
  <2>2. obj[h].finis = 0 /\ h \in Handle
    <3>1. h \in alive
      BY <2>1, BeginsAlive
    <3> QED BY <1>0, <2>1, <3>1 DEF FInv, BeginsUnfinalised, Rest
  <2>3. h = h0 => ~obj[h0].fini
    BY <1>2, <2>1, BeginsAlone DEF FInv
  <2> QED BY <1>4, <2>2, <2>3
<1>9. ASSUME NEW h \in alive'
      PROVE  obj'[h].finis <= 1 /\ (obj'[h].refc > 0 => obj'[h].finis = 0)
  <2>1. h \in alive /\ h \in Handle
    BY <1>0 DEF Rest
  <2>2. CASE h # h0
    BY <1>4, <2>1, <2>2 DEF FInv, FinalisedLast
  <2>3. CASE h = h0
    <3>1. obj[h0].fini => obj[h0].refc = 0
      BY <1>2, BeginsAlone DEF FInv
    <3> QED BY <1>3, <1>4, <2>3, <3>1
  <2> QED BY <2>2, <2>3
<1>10. LoadsAlone'
  BY StepLoadsAlone DEF FInv
<1> QED BY <1>7, <1>8, <1>9, <1>10
        DEF FInv, LoadsUnrecorded, BeginsUnfinalised, FinalisedLast

LEMMA StepFInv ==
  ASSUME Reliable, "fini" \notin Callers
  PROVE  FInv /\ Safe /\ Safe' /\ [Next]_vars => FInv'
<1> SUFFICES ASSUME FInv, Safe, Safe', [Next]_vars
             PROVE  FInv'
  OBVIOUS
<1>1. CASE UNCHANGED vars
  BY <1>1 DEF vars, FInv, LoadsAlone, LoadsUnrecorded, BeginsUnfinalised,
              FinalisedLast, Loads, Begins
<1>2. ASSUME NEW t \in Thread, Effect(t), Follows(t)
      PROVE  FInv'
  <2>1. CASE Finalise(t)
    BY <1>2, <2>1, FinaliseKeeps
  <2>2. CASE Initialise(t)
    BY <1>2, <2>2, InitialiseKeeps
  <2>3. CASE ~Finalise(t) /\ ~Initialise(t)
    <3>1. \A h \in alive' : IF h \in alive THEN Unmarked(h)
                            ELSE ~obj'[h].fini /\ obj'[h].finis = 0
      BY <1>2, <2>3 DEF Follows, Marks
    <3> QED BY <1>2, <3>1, UnmarkedKeeps
  <2> QED BY <2>1, <2>2, <2>3
<1> QED BY <1>1, <1>2, StepFollows

LEMMA InitFInv == Init => FInv
<1> SUFFICES ASSUME Init
             PROVE  FInv
  OBVIOUS
<1>1. alive = {} /\ \A t \in Thread : stack[t] = <<>>
  BY DEF Init
<1>2. \A t \in Thread : Len(stack[t]) = 0
  BY <1>1
<1> QED BY <1>1, <1>2 DEF FInv, LoadsAlone, LoadsUnrecorded, BeginsUnfinalised,
                          FinalisedLast, Loads, Begins

(* The finalisers of an object run at most once for each time it is        *)
(* loaded, whatever threads open and close it, and although a load that    *)
(* fails unloads its object twice (ctrdl_mapObject, ctrdl_loadObject).     *)
THEOREM FinalisersRunOnce ==
  ASSUME Reliable, "fini" \notin Callers
  PROVE  Spec /\ GivesBackOnce => []FinalisedOnce
<1>1. Init => FInv
  BY InitFInv
<1>2. FInv /\ Safe /\ Safe' /\ [Next]_vars => FInv'
  BY StepFInv
<1>3. FInv => FinalisedOnce
  BY DEF FInv, FinalisedLast, FinalisedOnce
<1> QED BY <1>1, <1>2, <1>3, SpecSafe, PTL DEF Spec


-----------------------------------------------------------------------------
(* An object keeps its mapping while it is referred to, if no load that    *)
(* has mapped its object fails.  A load that is undone has not mapped it.  *)
LoadsUnmapped ==
  \A h, k : \A u \in Thread :
    Loads(u, k, h) /\ stack[u][k].pc \in UnmappedPC => obj[h].pages # "mapped"

(* What a step of thread t does to the mapping of a handle.                *)
SamePages(h) == obj'[h].pages = obj[h].pages

Repages(t) ==
  \A h \in alive :
    \/ SamePages(h)
    \/ (Map(t) \/ MapFails(t)) /\ h = Top(t).h
    \/ (FreePages(t) \/ Reclaim(t)) /\ h = Top(t).h /\ obj'[h].pages # "mapped"

LEMMA SameObjects ==
  ASSUME NEW t, obj' = obj
  PROVE  Repages(t)
BY DEF Repages, SamePages

LEMMA OtherField ==
  ASSUME Rest, NEW t, NEW h \in Handle, NEW v, NEW w,
         \/ obj' = [obj EXCEPT ![h].refc = v]
         \/ obj' = [obj EXCEPT ![h].refc = v, ![h].global = w]
         \/ obj' = [obj EXCEPT ![h].deps = v]
         \/ obj' = [obj EXCEPT ![h].released = v]
         \/ obj' = [obj EXCEPT ![h].fini = v]
         \/ obj' = [obj EXCEPT ![h].finis = v]
  PROVE  Repages(t)
<1>1. obj \in [Handle -> Object] /\ obj[h] \in Object /\ alive \subseteq Handle
  BY DEF Rest
<1>2. PICK ob : ob = obj'
  OBVIOUS
<1>3. \/ ob = [obj EXCEPT ![h].refc = v]
      \/ ob = [obj EXCEPT ![h].refc = v, ![h].global = w]
      \/ ob = [obj EXCEPT ![h].deps = v]
      \/ ob = [obj EXCEPT ![h].released = v]
      \/ ob = [obj EXCEPT ![h].fini = v]
      \/ ob = [obj EXCEPT ![h].finis = v]
  BY <1>2
<1>4. \A g \in Handle \ {h} : ob[g] = obj[g]
  BY <1>1, <1>3
<1>5. ob[h].pages = obj[h].pages
  BY <1>1, <1>3 DEF Object
<1> QED BY <1>1, <1>2, <1>4, <1>5 DEF Repages, SamePages

LEMMA CallPages ==
  ASSUME Safe, NEW t \in Thread, Call(t)
  PROVE  Repages(t)
<1>0. Rest
  BY DEF Safe, IInv
<1>1. ASSUME NEW h \in Handle, Locked(h)
      PROVE  Repages(t)
  <2>1. PICK v : v = obj[h].refc + 1
    OBVIOUS
  <2>2. obj' = [obj EXCEPT ![h].refc = v]
    BY <1>0, <1>1, <2>1 DEF Locked, Rest
  <2> QED BY <1>0, <2>2, OtherField
<1>2. (\E h \in Handle : Locked(h)) \/ obj' = obj
  BY DEF Call, CallOpen, CallOpenFile, CallClose, CallByAddress, CallInfo, CallWalk
<1> QED BY <1>1, <1>2, SameObjects

LEMMA LoadPages ==
  ASSUME Reliable, Safe, NEW t \in Thread, Load(t)
  PROVE  Repages(t)
<1>0. Rest /\ Stacks /\ members = alive /\ obj \in [Handle -> Object]
      /\ alive \subseteq Handle
  BY DEF Safe, IInv, RInv, Rest
<1>1. CASE OpenHit(t)
  <2>1. PICK h \in members :
          obj' = [obj EXCEPT ![h].refc = @ + 1, ![h].global = Top(t).req.global]
    BY <1>1 DEF OpenHit, Found
  <2>2. PICK v : v = obj[h].refc + 1
    OBVIOUS
  <2>3. PICK w : w = Top(t).req.global
    OBVIOUS
  <2>4. h \in Handle /\ obj' = [obj EXCEPT ![h].refc = v, ![h].global = w]
    BY <1>0, <2>1, <2>2, <2>3
  <2> QED BY <1>0, <2>4, OtherField
<1>2. CASE Create(t)
  <2>1. PICK o : o = FreshObject(Top(t).req)
    OBVIOUS
  <2>2. PICK h \in Handle \ alive : obj' = [obj EXCEPT ![h] = o]
    BY <1>2, <2>1 DEF Create
  <2>3. \A g \in alive : obj'[g] = obj[g]
    BY <1>0, <2>2
  <2> QED BY <2>3 DEF Repages, SamePages
<1>3. CASE BindMain(t)
  <2>1. PICK h \in Handle : h = Top(t).h
    BY <1>0, <1>3, TopShape DEF BindMain, DepsRemain, At, LoadPC
  <2>2. PICK v : v = Append(obj[h].deps, Main)
    OBVIOUS
  <2>3. obj' = [obj EXCEPT ![h].deps = v]
    BY <1>0, <1>3, <2>1, <2>2 DEF BindMain
  <2> QED BY <1>0, <2>3, OtherField
<1>4. CASE BindDep(t)
  <2>1. PICK h \in Handle : h = Caller(t).h
    BY <1>0, <1>4, CallerFrame DEF BindDep, CalledFrom, Shaped, LoadPC
  <2>2. PICK v : v = Append(obj[h].deps, Top(t).h)
    OBVIOUS
  <2>3. obj' = [obj EXCEPT ![h].deps = v]
    BY <1>0, <1>4, <2>1, <2>2 DEF BindDep
  <2> QED BY <1>0, <2>3, OtherField
<1>5. CASE Map(t) \/ MapFails(t)
  <2>1. PICK h \in Handle : h = Top(t).h
    BY <1>0, <1>5, TopShape DEF Map, MapFails, At, LoadPC
  <2>2. PICK v : obj' = [obj EXCEPT ![h].pages = v]
    BY <1>5, <2>1 DEF Map, MapFails
  <2>3. \A g \in Handle \ {h} : obj'[g] = obj[g]
    BY <1>0, <2>2
  <2> QED BY <1>0, <1>5, <2>1, <2>3 DEF Repages, SamePages
<1>6. CASE Initialise(t)
  <2>1. PICK h \in Handle : h = Top(t).h
    BY <1>0, <1>6, TopShape DEF Initialise, At, LoadPC
  <2>2. obj' = [obj EXCEPT ![h].fini = TRUE]
    BY <1>6, <2>1 DEF Initialise
  <2> QED BY <1>0, <2>2, OtherField
<1> QED BY <1>1, <1>2, <1>3, <1>4, <1>5, <1>6, SameObjects
        DEF Load, OpenMiss, CreateFails, CreateFilledAfterFree, Parse, ParseFails,
            TooManyDeps, OpenDep, DepFails, DepsLoaded, Resolve, Relocated,
            RelocFails, DropFailedLoad

LEMMA UnloadPages ==
  ASSUME Reliable, Safe, NEW t \in Thread, Unload(t)
  PROVE  Repages(t)
<1>0. Rest /\ Stacks /\ obj \in [Handle -> Object] /\ alive \subseteq Handle
  BY DEF Safe, IInv, Rest
<1>1. ASSUME Running(t), Top(t).pc \in UnlockPC \cup UnloadPC
      PROVE  Top(t).h \in Handle
  BY <1>0, <1>1, TopShape
<1>2. CASE Unlock(t) \/ LastUnlock(t)
  <2>1. PICK h \in Handle : h = Top(t).h
    BY <1>1, <1>2 DEF Unlock, LastUnlock, At, UnlockPC
  <2>2. PICK v : v = IF Unlock(t) THEN obj[h].refc - 1 ELSE 0
    OBVIOUS
  <2>3. obj' = [obj EXCEPT ![h].refc = v]
    BY <1>0, <1>2, <2>1, <2>2 DEF Unlock, LastUnlock
  <2> QED BY <1>0, <2>3, OtherField
<1>3. CASE Reclaim(t)
  <2>1. PICK h \in Handle : h = Top(t).h
    BY <1>1, <1>3 DEF Reclaim, At, UnloadPC
  <2>2. PICK o : o = Unallocated
    OBVIOUS
  <2>3. obj' = [obj EXCEPT ![h] = o] /\ o.pages # "mapped"
    BY <1>3, <2>1, <2>2 DEF Reclaim, Unallocated, FreshObject
  <2>4. obj'[h] = o /\ \A g \in Handle \ {h} : obj'[g] = obj[g]
    BY <1>0, <2>3
  <2> QED BY <1>0, <1>3, <2>1, <2>3, <2>4 DEF Repages, SamePages
<1>4. CASE Finalise(t)
  <2>1. PICK h \in Handle : h = Top(t).h
    BY <1>1, <1>4 DEF Finalise, At, UnloadPC
  <2>2. PICK v : v = IF This(t).fini THEN obj[h].finis + 1 ELSE obj[h].finis
    OBVIOUS
  <2>3. obj' = [obj EXCEPT ![h].finis = v]
    BY <1>0, <1>4, <2>1, <2>2 DEF Finalise
  <2> QED BY <1>0, <2>3, OtherField
<1>5. CASE FreePages(t)
  <2>1. PICK h \in Handle : h = Top(t).h
    BY <1>1, <1>5 DEF FreePages, At, UnloadPC
  <2>2. obj' = [obj EXCEPT ![h].pages = "none"]
    BY <1>5, <2>1 DEF FreePages
  <2>3. obj'[h].pages = "none" /\ \A g \in Handle \ {h} : obj'[g] = obj[g]
    BY <1>0, <2>2 DEF Object
  <2> QED BY <1>0, <1>5, <2>1, <2>3 DEF Repages, SamePages
<1>6. CASE ReleaseDep(t)
  <2>1. PICK h \in Handle : h = Top(t).h
    BY <1>1, <1>6 DEF ReleaseDep, At, UnloadPC
  <2>2. PICK v : v = IF obj[h].released < Top(t).i THEN Top(t).i ELSE obj[h].released
    OBVIOUS
  <2>3. obj' = [obj EXCEPT ![h].released = v]
    BY <1>0, <1>6, <2>1, <2>2 DEF ReleaseDep
  <2> QED BY <1>0, <2>3, OtherField
<1>7. ~FreePagesFails(t)
  <2> SUFFICES ASSUME FreePagesFails(t)
               PROVE  FALSE
    OBVIOUS
  <2>1. PICK h \in Handle : h = Top(t).h
    BY <1>1 DEF FreePagesFails, At, UnloadPC
  <2>2. obj[h].image \in Path
    BY <1>0 DEF Object
  <2> QED BY <2>1, <2>2 DEF FreePagesFails, This, MayFail, Reliable
<1> QED BY <1>2, <1>3, <1>4, <1>5, <1>6, <1>7, SameObjects, NeverHappens
        DEF Unload, UnlockReturns, DepsReleased, WalkEnds

LEMMA StepPages ==
  ASSUME Reliable, Safe, NEW t \in Thread, Call(t) \/ Step(t)
  PROVE  Repages(t)
<1>1. CASE Step(t)
  <2>1. Load(t) \/ Unload(t) \/ ReturnToProgram(t)
    BY <1>1, NeverHappens DEF Step
  <2>2. CASE ReturnToProgram(t)
    BY <2>2, SameObjects DEF ReturnToProgram
  <2> QED BY <2>1, <2>2, LoadPages, UnloadPages
<1> QED BY <1>1, CallPages

(* A load that may still be undone was one before.                         *)
LEMMA UnmappedFrom ==
  ASSUME NEW t \in Thread, Follows(t),
         NEW u \in Thread, NEW k, NEW h, Loads(u, k, h)',
         stack'[u][k].pc \in UnmappedPC
  PROVE  \/ Loads(u, k, h) /\ stack[u][k].pc \in UnmappedPC
         \/ h \notin alive /\ obj'[h].pages # "mapped"
<1>1. PICK r : r = stack'[u]
  OBVIOUS
<1>2. /\ k \in 1 .. Len(r) /\ r[k].pc \in LoadPC /\ r[k].h = h
      /\ r[k].pc \in UnmappedPC
  BY <1>1 DEF Loads
<1>3. CASE r = stack[u]
  BY <1>2, <1>3 DEF Loads
<1>4. CASE r # stack[u]
  <2>1. u = t /\ (Stays(t, k) \/ Placed(t, k, r[k]))
    BY <1>1, <1>2, <1>4 DEF Follows, Places
  <2> QED BY <1>1, <1>2, <2>1 DEF Stays, Placed, Loads
<1> QED BY <1>3, <1>4

LEMMA StepLoadsUnmapped ==
  ASSUME Safe, FInv, LoadsUnmapped, NEW t \in Thread,
         Follows(t), Repages(t)
  PROVE  LoadsUnmapped'
<1> SUFFICES ASSUME NEW h, NEW k, NEW u \in Thread, Loads(u, k, h)',
                    stack'[u][k].pc \in UnmappedPC
             PROVE  obj'[h].pages # "mapped"
  BY DEF LoadsUnmapped
<1>0. Stacks
  BY DEF Safe, IInv
<1>1. CASE Loads(u, k, h) /\ stack[u][k].pc \in UnmappedPC
  <2>1. h \in alive /\ obj[h].pages # "mapped"
    BY <1>1, LoadsAlive DEF LoadsUnmapped
  <2>2. CASE (Map(t) \/ MapFails(t)) /\ h = Top(t).h
    <3>1. Running(t) /\ Top(t).pc = "map"
      BY <2>2 DEF Map, MapFails, At
    <3>2. Loads(t, Len(stack[t]), h)
      BY <1>0, <2>2, <3>1, TopAt DEF Loads, LoadPC
    <3>3. u = t /\ k = Len(stack[t])
      BY <1>1, <3>2 DEF FInv, LoadsAlone
    <3>4. CASE Map(t)
      <4>1. PICK f : f = [Top(t) EXCEPT !.pc = "reloc"] /\ Become(t, f)
        BY <3>4 DEF Map
      <4>2. f.pc = "reloc"
        BY <1>0, <3>1, <4>1, TopShape DEF Shaped, Frame
      <4>3. stack'[u][k] = f
        BY <1>0, <3>1, <3>3, <4>1, BecomeAt
      <4> QED BY <4>2, <4>3 DEF UnmappedPC
    <3>5. CASE MapFails(t)
      <4>1. \A p \in Path : Top(t).req.image = p => ~Mappable
        BY <3>5 DEF MapFails, MayFail, Mappable
      <4>2. ~Mappable
        BY <1>0, <3>1, <4>1, TopShape DEF Request, LoadPC
      <4>3. PICK f : f = LoadFailed(Top(t))
                     /\ BecomeAndCall(t, f, UnloadFrame(Top(t).h))
        BY <3>5 DEF MapFails
      <4>4. f.pc = "drop"
        BY <1>0, <3>1, <4>3, TopShape DEF Shaped, Frame, LoadFailed
      <4>5. stack'[u][k] = f
        BY <1>0, <3>1, <3>3, <4>3, CallAt
      <4> QED BY <4>2, <4>4, <4>5 DEF UnmappedPC
    <3> QED BY <2>2, <3>4, <3>5
  <2> QED BY <2>1, <2>2 DEF Repages, SamePages
<1> QED BY <1>1, UnmappedFrom

LEMMA InitLoadsUnmapped == Init => LoadsUnmapped
<1> SUFFICES ASSUME Init
             PROVE  LoadsUnmapped
  OBVIOUS
<1>1. \A t \in Thread : stack[t] = <<>>
  BY DEF Init
<1>2. \A t \in Thread : Len(stack[t]) = 0
  BY <1>1
<1> QED BY <1>1, <1>2 DEF LoadsUnmapped, Loads

(* An object loses its mapping in an unload: that of the last unlock of    *)
(* its handle, or that of a failed load.                                   *)
LEMMA UnmapsInUnload ==
  ASSUME Safe, FInv, LoadsUnmapped, NEW t \in Thread, Repages(t),
         NEW h \in alive, obj[h].pages = "mapped", obj'[h].pages # "mapped"
  PROVE  /\ Running(t) /\ Top(t).pc \in UnloadPC
         /\ \E k \in 1 .. Len(stack[t]) :
              stack[t][k].pc \in {"drop", "unlocking"} /\ stack[t][k].h = h
<1>0. /\ IInv /\ RInv /\ Stacks /\ stack \in [Thread -> Seq(Shaped)]
      /\ Good(alive, obj, stack[t])
  BY DEF Safe, IInv, Stacks, RInv, RInvOf
<1>1. (FreePages(t) \/ Reclaim(t)) /\ Top(t).h = h
  <2>1. ~((Map(t) \/ MapFails(t)) /\ h = Top(t).h)
    <3> SUFFICES ASSUME Map(t) \/ MapFails(t), h = Top(t).h
                 PROVE  FALSE
      OBVIOUS
    <3>1. Running(t) /\ Top(t).pc = "map"
      BY DEF Map, MapFails, At
    <3>2. Loads(t, Len(stack[t]), h) /\ stack[t][Len(stack[t])].pc \in UnmappedPC
      BY <1>0, <3>1, TopAt DEF Loads, LoadPC, UnmappedPC
    <3> QED BY <3>2 DEF LoadsUnmapped
  <2> QED BY <2>1 DEF Repages, SamePages
<1>2. Running(t) /\ Top(t).pc \in UnloadPC /\ Top(t).h = h
  BY <1>1 DEF FreePages, Reclaim, At, UnloadPC
<1>3. PICK s \in Seq(Shaped) : s = stack[t]
  BY <1>0
<1>4. PICK n : n = Len(s)
  OBVIOUS
<1>5. n \in 1 .. Len(s) /\ s[n] = Top(t)
  BY <1>0, <1>2, <1>3, <1>4, TopAt
<1>6. PICK k : k = n - 1
  OBVIOUS
<1>7. k \in 1 .. Len(s) /\ s[k].pc \in {"drop", "unlocking"} /\ s[k].h = h
  BY <1>0, <1>2, <1>3, <1>5, <1>6, UnloadCaller
<1> QED BY <1>2, <1>3, <1>7

(* The last unlock finds nobody who refers to the handle, nor a failed     *)
(* load of it.                                                             *)
LEMMA UnlockingLast ==
  ASSUME Safe, NEW t \in Thread, NEW h \in alive, NEW k \in 1 .. Len(stack[t]),
         stack[t][k].pc = "unlocking", stack[t][k].h = h
  PROVE  References(h) = Cardinality(LoadersDropping(h))
<1>0. /\ IInv /\ RInv /\ stack \in [Thread -> Seq(Shaped)]
      /\ Good(alive, obj, stack[t]) /\ h \in Handle
  BY DEF Safe, IInv, Stacks, RInv, RInvOf, Rest
<1>1. obj[h].refc = 0
  BY <1>0 DEF Good, FrameOK
<1>2. References(h) = 0
  BY <1>0, <1>1, RInvCounts DEF RefcountExact
<1>3. LoadersDropping(h) = {}
  <2> SUFFICES ASSUME NEW v \in Thread, NEW j \in DOMAIN stack[v],
                      stack[v][j].h = h, stack[v][j].pc = "drop"
               PROVE  FALSE
    BY DEF LoadersDropping
  <2>1. PICK r \in Seq(Shaped) : r = stack[v]
    BY <1>0
  <2>2. j \in 1 .. Len(stack[v])
    BY <2>1
  <2>3. stack[v][j].pc \in RefPC
    BY DEF RefPC, LoadPC
  <2>4. obj[stack[v][j].h].refc > 0
    BY <1>0, <2>2, <2>3, RefAlive
  <2> QED BY <1>1, <2>4
<1> QED BY <1>2, <1>3, FS_EmptySet

(* Only the last unlock of a handle unmaps its object, if no load fails    *)
(* that has mapped it.                                                     *)
LEMMA UnmapsUnreferred ==
  ASSUME Mappable, Safe, FInv, LoadsUnmapped, NEW t \in Thread, Repages(t),
         NEW h \in alive, obj[h].pages = "mapped", obj'[h].pages # "mapped"
  PROVE  References(h) = Cardinality(LoadersDropping(h))
<1>1. PICK k \in 1 .. Len(stack[t]) :
        stack[t][k].pc \in {"drop", "unlocking"} /\ stack[t][k].h = h
  BY UnmapsInUnload
<1>2. stack[t][k].pc # "drop"
  BY <1>1 DEF LoadsUnmapped, Loads, LoadPC, UnmappedPC
<1> QED BY <1>1, <1>2, UnlockingLast

(* An object is unmapped by the last unlock of its handle only, when       *)
(* nobody refers to it, whichever threads lock and unlock it, if no load   *)
(* fails that has mapped its object.  For loads that do, see               *)
(* MappedIfUnready.                                                        *)
THEOREM MappedIfReferred ==
  ASSUME Reliable, Mappable, "fini" \notin Callers
  PROVE  Spec /\ GivesBackOnce => MappedWhileReferred
<1> DEFINE PInv == FInv /\ LoadsUnmapped
           Keeps == \A h \in alive :
                      obj[h].pages = "mapped" /\ obj'[h].pages # "mapped" =>
                        References(h) = Cardinality(LoadersDropping(h))
<1>1. Init => PInv
  BY InitFInv, InitLoadsUnmapped
<1>2. PInv /\ Safe /\ Safe' /\ [Next]_vars => PInv' /\ [Keeps]_vars
  <2> SUFFICES ASSUME PInv, Safe, Safe', [Next]_vars
               PROVE  PInv' /\ [Keeps]_vars
    OBVIOUS
  <2>1. FInv'
    BY StepFInv
  <2>2. CASE UNCHANGED vars
    BY <2>1, <2>2 DEF vars, LoadsUnmapped, Loads
  <2>3. ASSUME NEW t \in Thread, Call(t) \/ Step(t), Follows(t)
        PROVE  PInv' /\ [Keeps]_vars
    <3>1. Repages(t)
      BY <2>3, StepPages
    <3>2. LoadsUnmapped'
      BY <2>3, <3>1, StepLoadsUnmapped
    <3>3. Keeps
      BY <3>1, UnmapsUnreferred
    <3> QED BY <2>1, <3>2, <3>3
  <2> QED BY <2>2, <2>3, StepFollows
<1>3. [Keeps]_vars => [\A h \in alive :
                          obj[h].pages = "mapped" /\ obj'[h].pages # "mapped" =>
                            References(h) = Cardinality(LoadersDropping(h))]_vars
  OBVIOUS
<1> QED BY <1>1, <1>2, <1>3, SpecSafe, PTL DEF Spec, MappedWhileReferred
-----------------------------------------------------------------------------
(* A file is loaded once if one thread calls the loader: an initialiser    *)
(* that opens the file meanwhile finds the object.                         *)

(* Who asked for the file a frame is about to open found nothing.          *)
Fits(f) ==
  f.pc = "create" /\ f.req.path # NoPath =>
    \A g \in members : obj[g].path # f.req.path

(* Nothing is called between the search and the insertion.                 *)
NoneCreates(s) == \A k \in 1 .. Len(s) : s[k].pc # "create"
CreatesLast(s) ==
  \A k \in 1 .. Len(s) : s[k].pc = "create" => k = Len(s) /\ Fits(s[k])

(* The order of the table has a first element among any members.           *)
Ranks(n, r) ==
  /\ n \in Nat /\ r \in [members -> 0 .. n]
  /\ \A g, h \in members : <<g, h>> \in before => r[g] < r[h]
Ranked == before \subseteq members \X members /\ \E n, r : Ranks(n, r)

OInv ==
  Ranked /\ LoadedOnce /\ \A u \in Thread : CreatesLast(stack[u])

LEMMA Ranking ==
  ASSUME Ranked, [Table!Next]_<<members, before>>
  PROVE  Ranked'
<1>1. PICK n, r : Ranks(n, r)
  BY DEF Ranked
<1>2. before \subseteq members \X members
  BY DEF Ranked
<1>3. CASE UNCHANGED <<members, before>>
  BY <1>1, <1>2, <1>3 DEF Ranked, Ranks
<1>4. ASSUME NEW h \in Handle, Table!Insert(h)
      PROVE  Ranked'
  <2>1. PICK m \in Nat : m = n + 1
    BY <1>1 DEF Ranks
  <2>2. PICK q : q = [g \in members \cup {h} |-> IF g = h THEN m ELSE r[g]]
    OBVIOUS
  <2>3. h \notin members /\ members' = members \cup {h}
        /\ before' = before \cup (members \X {h})
    BY <1>4 DEF Table!Insert
  <2>4. q[h] = m /\ \A g \in members : q[g] = r[g] /\ r[g] \in 0 .. n /\ r[g] < m
    BY <1>1, <2>1, <2>2, <2>3 DEF Ranks
  <2>5. q \in [members' -> 0 .. m]
    <3>1. \A g \in members \cup {h} : q[g] \in 0 .. m
      BY <1>1, <2>1, <2>4 DEF Ranks
    <3> QED BY <2>2, <2>3, <3>1
  <2>6. ASSUME NEW a \in members', NEW b \in members', <<a, b>> \in before'
        PROVE  q[a] < q[b]
    <3>1. CASE <<a, b>> \in before
      BY <1>1, <1>2, <2>4, <3>1 DEF Ranks
    <3>2. CASE a \in members /\ b = h
      BY <2>4, <3>2
    <3> QED BY <2>3, <2>6, <3>1, <3>2
  <2>7. before' \subseteq members' \X members'
    BY <1>2, <2>3
  <2> QED BY <2>1, <2>5, <2>6, <2>7 DEF Ranked, Ranks
<1>5. ASSUME NEW h \in Handle, Table!Remove(h)
      PROVE  Ranked'
  <2>1. PICK q : q = [g \in members \ {h} |-> r[g]]
    OBVIOUS
  <2>2. members' = members \ {h} /\ before' \subseteq before
        /\ \A p \in before' : p[1] # h /\ p[2] # h
    BY <1>5 DEF Table!Remove
  <2>3. q \in [members' -> 0 .. n] /\ \A g \in members' : q[g] = r[g]
    BY <1>1, <2>1, <2>2 DEF Ranks
  <2>4. \A a, b \in members' : <<a, b>> \in before' => q[a] < q[b]
    BY <1>1, <2>2, <2>3 DEF Ranks
  <2>5. before' \subseteq members' \X members'
    BY <1>2, <2>2
  <2> QED BY <1>1, <2>3, <2>4, <2>5 DEF Ranked, Ranks
<1> QED BY <1>3, <1>4, <1>5 DEF Table!Next

(* So a search that finds nothing means that no object has the path.       *)
LEMMA SearchFinds ==
  ASSUME Ranked, NEW p \in Path, Found(p) = {}, NEW h \in members
  PROVE  obj[h].path # p
<1> SUFFICES ASSUME obj[h].path = p
             PROVE  FALSE
  OBVIOUS
<1>1. Matches(h, p)
  BY LoaderAssumption DEF Matches
<1>2. PICK n, r : Ranks(n, r)
  BY DEF Ranked
<1>3. PICK N : N = {r[g] : g \in {x \in members : Matches(x, p)}}
  OBVIOUS
<1>4. N \subseteq Nat /\ N # {}
  <2>1. \A g \in members : r[g] \in Nat
    BY <1>2 DEF Ranks
  <2> QED BY <1>1, <1>3, <2>1
<1>5. PICK m \in N : \A j \in N : ~(j < m)
  <2>1. IsWellFoundedOn(OpToRel(<, Nat), Nat)
    BY NatLessThanWellFounded
  <2>2. PICK m \in N : \A j \in N : <<j, m>> \notin OpToRel(<, Nat)
    BY <1>4, <2>1, WFMin, Zenon
  <2> QED BY <1>4, <2>2 DEF OpToRel
<1>6. PICK g \in members : Matches(g, p) /\ m = r[g]
  BY <1>3
<1>7. \A x \in members : Matches(x, p) => <<x, g>> \notin before
  BY <1>2, <1>3, <1>5, <1>6 DEF Ranks
<1> QED BY <1>6, <1>7 DEF Found

(* What a step of thread t does to its stack: a frame that is about to     *)
(* open a file is on top, and nothing with the path is open.               *)
Asks(t) ==
  /\ \A u \in Thread \ {t} : stack'[u] = stack[u]
  /\ CreatesLast(stack'[t])

LEMMA AsksOn ==
  ASSUME Stacks, NEW t \in Thread, NEW b \in Seq(Shaped), NoneCreates(b),
         NEW f, NEW g, Fits(f), Fits(g),
         \/ stack' = [stack EXCEPT ![t] = b]
         \/ stack' = [stack EXCEPT ![t] = Append(b, f)]
         \/ stack' = [stack EXCEPT ![t] = Append(Append(b, f), g)] /\ f.pc # "create"
  PROVE  /\ \A u \in Thread \ {t} : stack'[u] = stack[u]
         /\ \A k \in 1 .. Len(stack'[t]) : stack'[t][k].pc = "create" =>
              k = Len(stack'[t]) /\ Fits(stack'[t][k])
<1>1. PICK r : r = Append(b, f)
  OBVIOUS
<1>2. PICK S : S = Shaped \cup {f}
  OBVIOUS
<1>3. PICK q : q = Append(r, g)
  OBVIOUS
<1>4. PICK n \in Nat : n = Len(b)
  OBVIOUS
<1>5. /\ r \in Seq(S) /\ Len(r) = n + 1 /\ r[n + 1] = f
      /\ \A k \in 1 .. n : r[k] = b[k]
  BY <1>1, <1>2, <1>4, PushAt
<1>6. /\ Len(q) = Len(r) + 1 /\ q[Len(r) + 1] = g
      /\ \A k \in 1 .. Len(r) : q[k] = r[k]
  BY <1>3, <1>5, PushAt
<1>7. \A k \in 1 .. n : b[k].pc # "create"
  BY <1>4 DEF NoneCreates
<1>8. \A k \in 1 .. n + 1 : k \in 1 .. n \/ k = n + 1
  OBVIOUS
<1>9. \A k \in 1 .. (n + 1) + 1 : k \in 1 .. n + 1 \/ k = (n + 1) + 1
  OBVIOUS
<1>10. \A k \in 1 .. Len(r) : r[k].pc = "create" => k = Len(r) /\ Fits(r[k])
  BY <1>5, <1>7, <1>8
<1>11. ASSUME f.pc # "create", NEW k \in 1 .. Len(q), q[k].pc = "create"
       PROVE  k = Len(q) /\ Fits(q[k])
  <2>1. k \in 1 .. n + 1 \/ k = (n + 1) + 1
    BY <1>5, <1>6, <1>9
  <2>2. k \notin 1 .. n + 1
    BY <1>5, <1>6, <1>7, <1>8, <1>11
  <2> QED BY <1>5, <1>6, <2>1, <2>2
<1>12. /\ \A u \in Thread \ {t} : stack'[u] = stack[u]
       /\ \/ stack'[t] \in {b, r}
          \/ stack'[t] = q /\ f.pc # "create"
  <2>1. \/ stack' = [stack EXCEPT ![t] = b]
        \/ stack' = [stack EXCEPT ![t] = r]
        \/ stack' = [stack EXCEPT ![t] = q] /\ f.pc # "create"
    BY <1>1, <1>3
  <2>2. stack \in [Thread -> Seq(Shaped)]
    BY DEF Stacks
  <2>3. \A c : stack' = [stack EXCEPT ![t] = c] =>
          stack'[t] = c /\ \A u \in Thread \ {t} : stack'[u] = stack[u]
    BY <2>2, Zenon
  <2> QED BY <2>1, <2>3
<1> QED BY <1>4, <1>7, <1>10, <1>11, <1>12

LEMMA AsksBy ==
  ASSUME Stacks, NEW t \in Thread, CreatesLast(stack[t]), Running(t),
         NEW f, NEW g, Fits(f), Fits(g),
         \/ Become(t, f)
         \/ BecomeAndCall(t, f, g) /\ f.pc # "create"
         \/ Enter(t, f) /\ Top(t).pc # "create"
         \/ stack' = [stack EXCEPT ![t] = Under(t)]
         \/ /\ Len(stack[t]) > 1
            /\ \/ ReturnTo(t, f)
               \/ /\ stack' = [stack EXCEPT ![t] = Append(Append(UnderCaller(t), f), g)]
                  /\ f.pc # "create"
  PROVE  /\ \A u \in Thread \ {t} : stack'[u] = stack[u]
         /\ \A k \in 1 .. Len(stack'[t]) : stack'[t][k].pc = "create" =>
              k = Len(stack'[t]) /\ Fits(stack'[t][k])
<1>1. PICK n \in Nat \ {0} : n = Len(stack[t])
  BY UnderAt
<1>2. stack[t][n] = Top(t) /\ stack[t] \in Seq(Shaped)
  BY <1>1 DEF Top, Stacks
<1>3. \A k \in 1 .. n - 1 : stack[t][k].pc # "create"
  BY <1>1 DEF CreatesLast
<1>4. Under(t) \in Seq(Shaped) /\ NoneCreates(Under(t))
  BY <1>1, <1>3, UnderAt DEF NoneCreates
<1>5. ASSUME Len(stack[t]) > 1
      PROVE  UnderCaller(t) \in Seq(Shaped) /\ NoneCreates(UnderCaller(t))
  <2>1. \A k \in 1 .. n - 2 : k \in 1 .. n - 1
    BY <1>1
  <2> QED BY <1>1, <1>3, <1>5, <2>1, UnderCallerAt DEF NoneCreates
<1>6. ASSUME Top(t).pc # "create"
      PROVE  NoneCreates(stack[t])
  <2>1. \A k \in 1 .. n : k \in 1 .. n - 1 \/ k = n
    BY <1>1
  <2> QED BY <1>1, <1>2, <1>3, <1>6, <2>1 DEF NoneCreates
<1>7. CASE \/ Become(t, f)
           \/ BecomeAndCall(t, f, g) /\ f.pc # "create"
           \/ stack' = [stack EXCEPT ![t] = Under(t)]
  BY <1>4, <1>7, AsksOn DEF Become, BecomeAndCall
<1>8. CASE Enter(t, f) /\ Top(t).pc # "create"
  <2>1. stack' = [stack EXCEPT ![t] = Append(stack[t], f)]
    BY <1>8 DEF Enter, Stacks
  <2> QED BY <1>2, <1>6, <1>8, <2>1, AsksOn
<1>9. CASE /\ Len(stack[t]) > 1
           /\ \/ ReturnTo(t, f)
              \/ /\ stack' = [stack EXCEPT ![t] = Append(Append(UnderCaller(t), f), g)]
                 /\ f.pc # "create"
  BY <1>5, <1>9, AsksOn DEF ReturnTo
<1> QED BY <1>7, <1>8, <1>9

(* A frame that is not about to open a file.                               *)
LEMMA FitsOther ==
  ASSUME NEW f, f.pc # "create"
  PROVE  Fits(f)
BY DEF Fits

LEMMA FitsNew ==
  /\ \A h : Fits(UnlockFrame(h)) /\ Fits(DoneFrame(h)) /\ Fits(UnloadFrame(h))
  /\ \A pc : pc # "create" => \A req : Fits(OpenFrame(pc, req))
  /\ \A pc \in WalkPC : Fits(WalkFrame(pc))
BY DEF UnlockFrame, DoneFrame, UnloadFrame, OpenFrame, WalkFrame, Fits, WalkPC

LEMMA FitsNext ==
  ASSUME NEW e \in Shaped
  PROVE  /\ \A pc, i, h : pc # "create" =>
              /\ Fits([e EXCEPT !.pc = pc]) /\ [e EXCEPT !.pc = pc].pc = pc
              /\ Fits([e EXCEPT !.pc = pc, !.i = i])
              /\ Fits([e EXCEPT !.pc = pc, !.h = h])
         /\ \A i, h : e.pc # "create" =>
              /\ Fits([e EXCEPT !.i = i]) /\ [e EXCEPT !.i = i].pc # "create"
              /\ Fits([e EXCEPT !.i = i, !.h = h])
              /\ [e EXCEPT !.i = i, !.h = h].pc # "create"
BY DEF Shaped, Frame, Fits

(* The calls of the program.                                               *)
LEMMA CallAsks ==
  ASSUME Stacks, NEW t \in Thread, CreatesLast(stack[t]), Call(t)
  PROVE  stack' = stack \/ Asks(t)
<1>1. ASSUME InProgram(t)
      PROVE  NoneCreates(stack[t]) /\ stack[t] \in Seq(Shaped)
  <2>0. stack[t] \in Seq(Shaped)
    BY DEF Stacks
  <2>1. CASE Running(t)
    <3>1. Top(t).pc # "create"
      BY <1>1, <2>1, LoaderAssumption DEF InProgram
    <3>2. \A k \in 1 .. Len(stack[t]) : k = Len(stack[t]) => stack[t][k] = Top(t)
      BY DEF Top
    <3>3. NoneCreates(stack[t])
      BY <3>1, <3>2 DEF CreatesLast, NoneCreates
    <3> QED BY <2>0, <3>3
  <2>2. CASE ~Running(t)
    <3>1. Len(stack[t]) = 0
      BY <2>2 DEF Running
    <3> QED BY <2>0, <3>1 DEF NoneCreates
  <2> QED BY <2>1, <2>2
<1>2. InProgram(t)
  BY DEF Call, CallOpen, CallOpenFile, CallClose, CallByAddress, CallInfo, CallWalk,
         MayCall
<1>3. stack' = stack \/ \E f : Enter(t, f) /\ Fits(f)
  <2>1. CASE CallOpen(t)
    <3>1. PICK req : Enter(t, OpenFrame("find", req))
      BY <2>1 DEF CallOpen
    <3> QED BY <3>1, FitsNew
  <2>2. CASE CallOpenFile(t)
    <3>1. PICK req : Enter(t, OpenFrame("create", req)) /\ req.path = NoPath
      BY <2>2 DEF CallOpenFile
    <3>2. Fits(OpenFrame("create", req))
      BY <3>1 DEF OpenFrame, Fits
    <3> QED BY <3>1, <3>2
  <2>3. CASE CallClose(t) \/ CallInfo(t)
    BY <2>3, FitsNew DEF CallClose, CallInfo
  <2>4. CASE CallWalk(t)
    BY <2>4, FitsNew DEF CallWalk
  <2>5. CASE CallByAddress(t)
    BY <2>5 DEF CallByAddress
  <2> QED BY <2>1, <2>2, <2>3, <2>4, <2>5 DEF Call
<1>4. ASSUME NEW f, Enter(t, f), Fits(f)
      PROVE  Asks(t)
  <2>1. stack' = [stack EXCEPT ![t] = Append(stack[t], f)]
    BY <1>4 DEF Enter, Stacks
  <2> QED BY <1>1, <1>2, <1>4, <2>1, AsksOn DEF Asks, CreatesLast
<1> QED BY <1>3, <1>4

(* A frame that becomes, calls or returns to others that open no file.     *)
Passes(t, f, g) ==
  /\ f.pc # "create" /\ g.pc # "create" /\ Running(t)
  /\ \/ Become(t, f) \/ BecomeAndCall(t, f, g)
     \/ Enter(t, f) /\ Top(t).pc # "create"
     \/ stack' = [stack EXCEPT ![t] = Under(t)]
     \/ /\ Len(stack[t]) > 1
        /\ \/ ReturnTo(t, f)
           \/ stack' = [stack EXCEPT ![t] = Append(Append(UnderCaller(t), f), g)]

LEMMA PassesAsks ==
  ASSUME Stacks, NEW t \in Thread, CreatesLast(stack[t]), NEW f, NEW g, Passes(t, f, g)
  PROVE  Asks(t)
<1>1. Fits(f) /\ Fits(g)
  BY FitsOther DEF Passes
<1> QED BY <1>1, AsksBy DEF Passes, Asks, CreatesLast

LEMMA OthersOpen ==
  /\ \A h : UnlockFrame(h).pc # "create" /\ DoneFrame(h).pc # "create"
            /\ UnloadFrame(h).pc # "create"
  /\ \A req : OpenFrame("find", req).pc # "create"
  /\ \A pc \in WalkPC : WalkFrame(pc).pc # "create"
BY DEF UnlockFrame, DoneFrame, UnloadFrame, OpenFrame, WalkFrame, WalkPC

LEMMA LoadAsks ==
  ASSUME Rest, Stacks, Ranked, NEW t \in Thread, CreatesLast(stack[t]), Load(t)
  PROVE  stack' = stack \/ Asks(t)
<1>1. ASSUME Running(t)
      PROVE  /\ \A pc, i, h : pc # "create" => [Top(t) EXCEPT !.pc = pc].pc # "create"
             /\ \A pc, i, h : pc # "create" =>
                  [Top(t) EXCEPT !.pc = pc, !.h = h].pc # "create"
             /\ \A pc, i, h : pc # "create" =>
                  [Top(t) EXCEPT !.pc = pc, !.i = i].pc # "create"
             /\ \A i : Top(t).pc # "create" => [Top(t) EXCEPT !.i = i].pc # "create"
  <2>1. PICK e \in Shaped : e = Top(t)
    BY <1>1, TopShape
  <2> QED BY <2>1 DEF Shaped, Frame
<1>2. ASSUME Len(stack[t]) > 1
      PROVE  /\ Running(t) /\ LoadFailed(Caller(t)).pc # "create"
             /\ [Caller(t) EXCEPT !.pc = "map"].pc # "create"
             /\ \A i : Caller(t).pc # "create" => [Caller(t) EXCEPT !.i = i].pc # "create"
  <2>1. PICK e \in Shaped : e = Caller(t)
    BY <1>2, CallerFrame
  <2> QED BY <1>2, <2>1, CallerFrame DEF Shaped, Frame, LoadFailed
<1>3. CASE OpenMiss(t)
  <2>1. Running(t) /\ Top(t).pc = "find"
    BY <1>3 DEF OpenMiss, At
  <2>2. PICK e \in Shaped : e = Top(t) /\ e.pc = "find" /\ e.req \in Request
    BY <2>1, TopShape DEF OpenPC
  <2>3. PICK f : f = [e EXCEPT !.pc = "create"]
    OBVIOUS
  <2>4. f.req = e.req
    BY <2>2, <2>3 DEF Shaped, Frame
  <2>5. Fits(f)
    <3>1. ASSUME f.req.path # NoPath
          PROVE  \A g \in members : obj[g].path # f.req.path
      <4>1. f.req.path \in Path /\ Found(f.req.path) = {}
        BY <1>3, <2>2, <2>4, <3>1 DEF OpenMiss, Request
      <4> QED BY <4>1, SearchFinds
    <3> QED BY <3>1 DEF Fits
  <2>6. Become(t, f) \/ Become(t, DoneFrame(Null))
    BY <1>3, <2>2, <2>3 DEF OpenMiss
  <2>7. Fits(DoneFrame(Null))
    BY FitsNew
  <2> QED BY <2>1, <2>5, <2>6, <2>7, AsksBy DEF Asks, CreatesLast
<1>4. CASE CreateFilledAfterFree(t)
  BY <1>4 DEF CreateFilledAfterFree
<1>5. CASE OpenHit(t) \/ CreateFails(t) \/ Initialise(t)
  <2>1. PICK h : Running(t) /\ Become(t, DoneFrame(h))
    BY <1>5 DEF OpenHit, CreateFails, Initialise, At
  <2> QED BY <2>1, OthersOpen, PassesAsks DEF Passes
<1>6. CASE Create(t)
  <2>1. PICK h : Running(t) /\ Become(t, [Top(t) EXCEPT !.pc = "parse", !.h = h])
    BY <1>6 DEF Create, At
  <2>2. PICK f : f = [Top(t) EXCEPT !.pc = "parse", !.h = h] /\ f.pc # "create"
    BY <1>1, <2>1
  <2>3. Passes(t, f, f)
    BY <2>1, <2>2 DEF Passes
  <2> QED BY <2>3, PassesAsks
<1>7. CASE Parse(t)
  <2>1. Running(t) /\ Become(t, [Top(t) EXCEPT !.pc = "deps", !.i = 1])
    BY <1>7 DEF Parse, At
  <2>2. PICK f : f = [Top(t) EXCEPT !.pc = "deps", !.i = 1] /\ f.pc # "create"
    BY <1>1, <2>1
  <2>3. Passes(t, f, f)
    BY <2>1, <2>2 DEF Passes
  <2> QED BY <2>3, PassesAsks
<1>8. CASE ParseFails(t)
  <2>1. PICK h : Running(t) /\ Become(t, UnlockFrame(h))
    BY <1>8 DEF ParseFails, At
  <2> QED BY <2>1, OthersOpen, PassesAsks DEF Passes
<1>9. CASE TooManyDeps(t) \/ DepsLoaded(t) \/ MapFails(t) \/ RelocFails(t)
           \/ Map(t) \/ Relocated(t) \/ Resolve(t)
  <2>1. Running(t)
    BY <1>9 DEF TooManyDeps, DepsLoaded, MapFails, RelocFails, Map, Relocated, Resolve, At
  <2>2. PICK pc : /\ pc \in LoadPC
                  /\ \/ Become(t, [Top(t) EXCEPT !.pc = pc])
                     \/ BecomeAndCall(t, [Top(t) EXCEPT !.pc = pc], UnloadFrame(Top(t).h))
                     \/ BecomeAndCall(t, [Top(t) EXCEPT !.pc = pc], WalkFrame("lookup"))
    BY <1>9 DEF TooManyDeps, DepsLoaded, MapFails, RelocFails, Map, Relocated, Resolve,
                LoadFailed, LoadPC
  <2>3. pc # "create" /\ WalkFrame("lookup").pc # "create"
    BY <2>2, OthersOpen DEF LoadPC, WalkPC
  <2>4. PICK f, g : f.pc # "create" /\ g.pc # "create"
                    /\ (Become(t, f) \/ BecomeAndCall(t, f, g))
    BY <1>1, <2>1, <2>2, <2>3, OthersOpen
  <2> QED BY <2>1, <2>4, PassesAsks DEF Passes
<1>10. CASE OpenDep(t)
  <2>1. PICK req : Running(t) /\ Top(t).pc = "deps" /\ Enter(t, OpenFrame("find", req))
    BY <1>10 DEF OpenDep, DepsRemain, At
  <2> QED BY <2>1, OthersOpen, PassesAsks DEF Passes
<1>11. CASE BindMain(t)
  <2>1. /\ Running(t) /\ Top(t).pc = "deps"
        /\ Become(t, [Top(t) EXCEPT !.i = Top(t).i + 1])
    BY <1>11, TopFrame DEF BindMain, DepsRemain, At, Shaped, Frame
  <2> QED BY <1>1, <2>1, PassesAsks DEF Passes
<1>12. CASE BindDep(t)
  <2>1. Len(stack[t]) > 1 /\ Caller(t).pc = "deps"
    BY <1>12 DEF BindDep, CalledFrom
  <2>2. ReturnTo(t, [Caller(t) EXCEPT !.i = Caller(t).i + 1])
    BY <1>12, <2>1, CallerFrame DEF BindDep, Shaped, Frame
  <2> QED BY <1>2, <2>1, <2>2, PassesAsks DEF Passes
<1>13. CASE DepFails(t)
  <2>1. Len(stack[t]) > 1
    BY <1>13 DEF DepFails, CalledFrom
  <2>2. \/ ReturnTo(t, [Caller(t) EXCEPT !.pc = "map"])
        \/ stack' = [stack EXCEPT ![t] =
             Append(Append(UnderCaller(t), LoadFailed(Caller(t))),
                    UnloadFrame(Caller(t).h))]
    BY <1>13 DEF DepFails, ReturnTo
  <2>3. PICK f, g : /\ f.pc # "create" /\ g.pc # "create"
                    /\ \/ ReturnTo(t, f)
                       \/ stack' = [stack EXCEPT ![t] =
                                      Append(Append(UnderCaller(t), f), g)]
    BY <1>2, <2>1, <2>2, OthersOpen
  <2> QED BY <1>2, <2>1, <2>3, PassesAsks DEF Passes
<1>14. CASE DropFailedLoad(t)
  <2>1. PICK h : Len(stack[t]) > 1 /\ ReturnTo(t, UnlockFrame(h))
    BY <1>14 DEF DropFailedLoad, CalledFrom
  <2> QED BY <1>2, <2>1, OthersOpen, PassesAsks DEF Passes
<1> QED BY <1>3, <1>4, <1>5, <1>6, <1>7, <1>8, <1>9, <1>10, <1>11, <1>12, <1>13,
           <1>14 DEF Load

LEMMA UnloadAsks ==
  ASSUME Rest, Stacks, NEW t \in Thread, CreatesLast(stack[t]),
         Unload(t) \/ ReturnToProgram(t)
  PROVE  Asks(t)
<1>1. Running(t)
  BY DEF Unload, Unlock, LastUnlock, Reclaim, KeepUnfreed, Finalise, FreePages,
         FreePagesFails, ReleaseDep, UnlockReturns, DepsReleased, PassUnreferred,
         WalkEnds, ReturnToProgram, At
<1>2. PICK e \in Shaped : e = Top(t)
  BY <1>1, TopShape
<1>3. /\ \A pc : pc # "create" => [e EXCEPT !.pc = pc].pc # "create"
      /\ \A i : e.pc # "create" => [e EXCEPT !.i = i].pc # "create"
      /\ \A i, h : e.pc # "create" => [e EXCEPT !.i = i, !.h = h].pc # "create"
  BY FitsNext DEF Shaped, Frame
<1>4. CASE Unlock(t)
  <2>1. Become(t, DoneFrame(Null))
    BY <1>4 DEF Unlock
  <2> QED BY <1>1, <2>1, OthersOpen, PassesAsks DEF Passes
<1>5. CASE LastUnlock(t) \/ Finalise(t) \/ FreePages(t) \/ FreePagesFails(t)
           \/ DepsReleased(t)
  <2>1. PICK pc : /\ pc \in {"unlocking", "pages", "release", "unfreed", "unloaded"}
                  /\ \/ Become(t, [e EXCEPT !.pc = pc])
                     \/ BecomeAndCall(t, [e EXCEPT !.pc = pc], UnloadFrame(e.h))
    BY <1>2, <1>5 DEF LastUnlock, Finalise, FreePages, FreePagesFails, DepsReleased
  <2>2. pc # "create"
    BY <2>1
  <2>3. PICK f, g : f.pc # "create" /\ g.pc # "create"
                    /\ (Become(t, f) \/ BecomeAndCall(t, f, g))
    BY <1>3, <2>1, <2>2, OthersOpen
  <2> QED BY <1>1, <2>3, PassesAsks DEF Passes
<1>6. CASE Reclaim(t) \/ KeepUnfreed(t)
  <2>1. Len(stack[t]) > 1 /\ ReturnTo(t, DoneFrame(Null))
    BY <1>6 DEF Reclaim, KeepUnfreed, CalledFrom
  <2>2. Passes(t, DoneFrame(Null), DoneFrame(Null))
    BY <1>1, <2>1, OthersOpen DEF Passes
  <2> QED BY <2>2, PassesAsks
<1>7. CASE ReleaseDep(t)
  <2>1. PICK f : f = [e EXCEPT !.i = @ + 1]
    OBVIOUS
  <2>2. e.pc = "release" /\ f.pc # "create"
    BY <1>2, <1>7, <2>1 DEF ReleaseDep, At, Shaped, Frame
  <2>3. Become(t, f) \/ \E d : BecomeAndCall(t, f, UnlockFrame(d))
    BY <1>2, <1>7, <2>1 DEF ReleaseDep
  <2>4. \E g : g.pc # "create" /\ (Become(t, f) \/ BecomeAndCall(t, f, g))
    BY <2>3, OthersOpen
  <2> QED BY <1>1, <2>2, <2>4, PassesAsks DEF Passes
<1>8. CASE PassUnreferred(t)
  <2>1. PICK h, i, j : BecomeAndCall(t, [e EXCEPT !.i = i, !.h = j], UnlockFrame(h))
    BY <1>2, <1>8 DEF PassUnreferred
  <2>2. e.pc = "lookup"
    BY <1>2, <1>8 DEF PassUnreferred, At
  <2>3. PICK f : f = [e EXCEPT !.i = i, !.h = j]
    OBVIOUS
  <2>4. f.pc # "create"
    BY <1>3, <2>2, <2>3
  <2>5. Passes(t, f, UnlockFrame(h))
    BY <1>1, <2>1, <2>3, <2>4, OthersOpen DEF Passes
  <2> QED BY <2>5, PassesAsks
<1>9. CASE UnlockReturns(t) \/ WalkEnds(t) \/ ReturnToProgram(t)
  <2>1. stack' = [stack EXCEPT ![t] = Under(t)]
    BY <1>9 DEF UnlockReturns, WalkEnds, ReturnToProgram
  <2> QED BY <1>1, <2>1, OthersOpen, PassesAsks DEF Passes
<1> QED BY <1>4, <1>5, <1>6, <1>7, <1>8, <1>9 DEF Unload

(* What the steps of a thread do to the names and dependencies of objects: *)
(* nothing but what binds and releases a dependency.                       *)
SameName(h) == obj'[h].path = obj[h].path /\ obj'[h].image = obj[h].image
Linked(h) == obj'[h].deps = obj[h].deps /\ obj'[h].released = obj[h].released

Relinks(t) ==
  \A h \in members \cap members' :
    /\ SameName(h)
    /\ \/ Linked(h)
       \/ BindMain(t) /\ h = Top(t).h
       \/ BindDep(t) /\ h = Caller(t).h
       \/ ReleaseDep(t) /\ h = Top(t).h /\ obj'[h].deps = obj[h].deps

LEMMA OtherLinks ==
  ASSUME Rest, NEW t, NEW h \in Handle, NEW v, NEW w,
         \/ obj' = [obj EXCEPT ![h].refc = v]
         \/ obj' = [obj EXCEPT ![h].refc = v, ![h].global = w]
         \/ obj' = [obj EXCEPT ![h].pages = v]
         \/ obj' = [obj EXCEPT ![h].fini = v]
         \/ obj' = [obj EXCEPT ![h].finis = v]
  PROVE  Relinks(t)
<1>1. obj \in [Handle -> Object] /\ obj[h] \in Object /\ members \subseteq Handle
  BY DEF Rest
<1>2. PICK ob : ob = obj'
  OBVIOUS
<1>3. \/ ob = [obj EXCEPT ![h].refc = v]
      \/ ob = [obj EXCEPT ![h].refc = v, ![h].global = w]
      \/ ob = [obj EXCEPT ![h].pages = v]
      \/ ob = [obj EXCEPT ![h].fini = v]
      \/ ob = [obj EXCEPT ![h].finis = v]
  BY <1>2
<1>4. \A g \in Handle \ {h} : ob[g] = obj[g]
  BY <1>1, <1>3
<1>5. /\ ob[h].path = obj[h].path /\ ob[h].image = obj[h].image
      /\ ob[h].deps = obj[h].deps /\ ob[h].released = obj[h].released
  BY <1>1, <1>3 DEF Object
<1> QED BY <1>1, <1>2, <1>4, <1>5 DEF Relinks, SameName, Linked

LEMMA LinkField ==
  ASSUME Rest, NEW t, NEW h \in Handle, NEW v,
         \/ BindMain(t) /\ h = Top(t).h /\ obj' = [obj EXCEPT ![h].deps = v]
         \/ BindDep(t) /\ h = Caller(t).h /\ obj' = [obj EXCEPT ![h].deps = v]
         \/ ReleaseDep(t) /\ h = Top(t).h /\ obj' = [obj EXCEPT ![h].released = v]
  PROVE  Relinks(t)
<1>1. obj \in [Handle -> Object] /\ obj[h] \in Object /\ members \subseteq Handle
  BY DEF Rest
<1>2. PICK ob : ob = obj'
  OBVIOUS
<1>3. ob = [obj EXCEPT ![h].deps = v] \/ ob = [obj EXCEPT ![h].released = v]
  BY <1>2
<1>4. \A g \in Handle \ {h} : ob[g] = obj[g]
  BY <1>1, <1>3
<1>5. ob[h].path = obj[h].path /\ ob[h].image = obj[h].image
  BY <1>1, <1>3 DEF Object
<1>6. ob = [obj EXCEPT ![h].released = v] => ob[h].deps = obj[h].deps
  BY <1>1 DEF Object
<1> QED BY <1>1, <1>2, <1>4, <1>5, <1>6 DEF Relinks, SameName, Linked

LEMMA SameLinked ==
  ASSUME NEW t, obj' = obj
  PROVE  Relinks(t)
BY DEF Relinks, SameName, Linked

LEMMA LockLinks ==
  ASSUME Rest, NEW t, NEW h \in Handle, Locked(h)
  PROVE  Relinks(t)
<1>1. PICK v : v = obj[h].refc + 1
  OBVIOUS
<1>2. obj' = [obj EXCEPT ![h].refc = v]
  BY <1>1 DEF Locked, Rest
<1> QED BY <1>2, OtherLinks

LEMMA CallLinks ==
  ASSUME Rest, NEW t \in Thread, Call(t)
  PROVE  Relinks(t)
<1>1. (\E h \in Handle : Locked(h)) \/ obj' = obj
  BY DEF Call, CallOpen, CallOpenFile, CallClose, CallByAddress, CallInfo, CallWalk
<1> QED BY <1>1, SameLinked, LockLinks

LEMMA LoadLinks ==
  ASSUME Rest, Stacks, NEW t \in Thread, Load(t)
  PROVE  Relinks(t)
<1>0. members \subseteq Handle /\ obj \in [Handle -> Object]
  BY DEF Rest
<1>1. CASE OpenHit(t)
  <2>1. PICK h \in members :
          obj' = [obj EXCEPT ![h].refc = @ + 1, ![h].global = Top(t).req.global]
    BY <1>1 DEF OpenHit, Found
  <2>2. PICK v : v = obj[h].refc + 1
    OBVIOUS
  <2>3. PICK w : w = Top(t).req.global
    OBVIOUS
  <2>4. h \in Handle /\ obj' = [obj EXCEPT ![h].refc = v, ![h].global = w]
    BY <1>0, <2>1, <2>2, <2>3 DEF Rest
  <2> QED BY <2>4, OtherLinks
<1>2. CASE BindMain(t)
  <2>1. PICK h \in Handle : h = Top(t).h
    BY <1>2, TopShape DEF BindMain, DepsRemain, At, LoadPC
  <2>2. PICK v : v = Append(obj[h].deps, Main)
    OBVIOUS
  <2>3. obj' = [obj EXCEPT ![h].deps = v]
    BY <1>2, <2>1, <2>2 DEF BindMain, Rest
  <2> QED BY <1>2, <2>1, <2>3, LinkField
<1>3. CASE BindDep(t)
  <2>1. PICK h \in Handle : h = Caller(t).h
    BY <1>3, CallerFrame DEF BindDep, CalledFrom, Shaped, LoadPC
  <2>2. PICK v : v = Append(obj[h].deps, Top(t).h)
    OBVIOUS
  <2>3. obj' = [obj EXCEPT ![h].deps = v]
    BY <1>3, <2>1, <2>2 DEF BindDep, Rest
  <2> QED BY <1>3, <2>1, <2>3, LinkField
<1>4. CASE Map(t) \/ MapFails(t)
  <2>1. PICK h \in Handle : h = Top(t).h
    BY <1>4, TopShape DEF Map, MapFails, At, LoadPC
  <2>2. PICK v : obj' = [obj EXCEPT ![h].pages = v]
    BY <1>4, <2>1 DEF Map, MapFails
  <2> QED BY <2>2, OtherLinks
<1>5. CASE Initialise(t)
  <2>1. PICK h \in Handle : h = Top(t).h
    BY <1>5, TopShape DEF Initialise, At, LoadPC
  <2>2. obj' = [obj EXCEPT ![h].fini = TRUE]
    BY <1>5, <2>1 DEF Initialise
  <2> QED BY <2>2, OtherLinks
<1>6. CASE Create(t)
  <2>1. PICK o : o = FreshObject(Top(t).req)
    OBVIOUS
  <2>2. PICK h \in Handle : h \notin members /\ obj' = [obj EXCEPT ![h] = o]
    BY <1>6, <2>1 DEF Create, Table!Insert
  <2>3. \A g \in members : obj'[g] = obj[g]
    BY <1>0, <2>2
  <2> QED BY <2>3 DEF Relinks, SameName, Linked
<1> QED BY <1>1, <1>2, <1>3, <1>4, <1>5, <1>6, SameLinked
        DEF Load, OpenMiss, CreateFails, CreateFilledAfterFree, Parse, ParseFails,
            TooManyDeps, OpenDep, DepFails, DepsLoaded, Resolve, Relocated,
            RelocFails, DropFailedLoad

LEMMA UnloadLinks ==
  ASSUME Rest, Stacks, NEW t \in Thread, Unload(t)
  PROVE  Relinks(t)
<1>1. ASSUME Running(t), Top(t).pc \in UnlockPC \cup UnloadPC
      PROVE  Top(t).h \in Handle
  BY <1>1, TopShape
<1>2. CASE Reclaim(t)
  <2>1. PICK h \in Handle : h = Top(t).h
    BY <1>1, <1>2 DEF Reclaim, At, UnloadPC
  <2>2. PICK o : o = Unallocated
    OBVIOUS
  <2>3. obj' = [obj EXCEPT ![h] = o] /\ members' = members \ {h}
    BY <1>2, <2>1, <2>2 DEF Reclaim, Table!Remove
  <2>4. \A g \in Handle \ {h} : obj'[g] = obj[g]
    BY <2>3 DEF Rest
  <2> QED BY <2>3, <2>4 DEF Relinks, SameName, Linked, Rest
<1>3. CASE ~Reclaim(t)
  <2>1. CASE Unlock(t) \/ LastUnlock(t)
    <3>1. PICK h \in Handle : h = Top(t).h
      BY <1>1, <2>1 DEF Unlock, LastUnlock, At, UnlockPC
    <3>2. PICK v : v = IF Unlock(t) THEN obj[h].refc - 1 ELSE 0
      OBVIOUS
    <3>3. obj' = [obj EXCEPT ![h].refc = v]
      BY <2>1, <3>1, <3>2 DEF Unlock, LastUnlock, Rest
    <3> QED BY <3>3, OtherLinks
  <2>2. CASE Finalise(t)
    <3>1. PICK h \in Handle : h = Top(t).h
      BY <1>1, <2>2 DEF Finalise, At, UnloadPC
    <3>2. PICK v : v = IF This(t).fini THEN obj[h].finis + 1 ELSE obj[h].finis
      OBVIOUS
    <3>3. obj' = [obj EXCEPT ![h].finis = v]
      BY <2>2, <3>1, <3>2 DEF Finalise, Rest
    <3> QED BY <3>3, OtherLinks
  <2>3. CASE FreePages(t) \/ FreePagesFails(t)
    <3>1. PICK h \in Handle : h = Top(t).h
      BY <1>1, <2>3 DEF FreePages, FreePagesFails, At, UnloadPC
    <3>2. PICK v : obj' = [obj EXCEPT ![h].pages = v]
      BY <2>3, <3>1 DEF FreePages, FreePagesFails
    <3> QED BY <3>2, OtherLinks
  <2>4. CASE ReleaseDep(t)
    <3>1. PICK h \in Handle : h = Top(t).h
      BY <1>1, <2>4 DEF ReleaseDep, At, UnloadPC
    <3>2. PICK v : v = IF obj[h].released < Top(t).i THEN Top(t).i ELSE obj[h].released
      OBVIOUS
    <3>3. obj' = [obj EXCEPT ![h].released = v]
      BY <2>4, <3>1, <3>2 DEF ReleaseDep, Rest
    <3> QED BY <2>4, <3>1, <3>3, LinkField
  <2>5. CASE PassUnreferred(t)
    <3>1. PICK h \in Handle : Locked(h)
      BY <2>5 DEF PassUnreferred, Rest
    <3> QED BY <3>1, LockLinks
  <2> QED BY <1>3, <2>1, <2>2, <2>3, <2>4, <2>5, SameLinked
          DEF Unload, KeepUnfreed, UnlockReturns, DepsReleased, WalkEnds
<1> QED BY <1>2, <1>3

LEMMA StepLinks ==
  ASSUME Rest, Stacks, NEW t \in Thread, Call(t) \/ Step(t)
  PROVE  Relinks(t) /\ (members' \subseteq members \/ Create(t))
<1>1. CASE Call(t)
  <2>1. members' = members
    BY <1>1 DEF Call, CallOpen, CallOpenFile, CallClose, CallByAddress, CallInfo,
                CallWalk, table
  <2> QED BY <1>1, <2>1, CallLinks
<1>2. CASE UseAfterFree(t) \/ ReturnToProgram(t)
  <2>1. obj' = obj /\ members' = members
    BY <1>2 DEF UseAfterFree, ReturnToProgram, table
  <2> QED BY <2>1, SameLinked
<1>3. CASE Load(t)
  <2>1. ~Create(t) => members' = members
    BY <1>3 DEF Load, OpenHit, OpenMiss, CreateFails, CreateFilledAfterFree,
                Parse, ParseFails, TooManyDeps, OpenDep, BindMain, BindDep,
                DepFails, DepsLoaded, Map, MapFails, Resolve, Relocated,
                RelocFails, Initialise, DropFailedLoad, table
  <2> QED BY <1>3, <2>1, LoadLinks
<1>4. CASE Unload(t)
  <2>1. CASE Reclaim(t)
    <3>1. members' \subseteq members
      BY <2>1 DEF Reclaim, Table!Remove
    <3> QED BY <1>4, <3>1, UnloadLinks
  <2>2. CASE ~Reclaim(t)
    <3>1. members' = members
      BY <1>4, <2>2 DEF Unload, Unlock, LastUnlock, KeepUnfreed, Finalise, FreePages,
                FreePagesFails, ReleaseDep, UnlockReturns, DepsReleased,
                PassUnreferred, WalkEnds, table
    <3> QED BY <1>4, <3>1, UnloadLinks
  <2> QED BY <2>1, <2>2
<1> QED BY <1>1, <1>2, <1>3, <1>4 DEF Step

LEMMA StepAsks ==
  ASSUME Rest, Stacks, Ranked, NEW t \in Thread, CreatesLast(stack[t]),
         Call(t) \/ Step(t)
  PROVE  stack' = stack \/ Asks(t)
BY CallAsks, LoadAsks, UnloadAsks DEF Step, UseAfterFree

(* What is asked for is still not open after a step that opens nothing.    *)
PathsKept == \A g \in members' : g \in members /\ obj'[g].path = obj[g].path

LEMMA StillLast ==
  ASSUME PathsKept, NEW s, CreatesLast(s)
  PROVE  CreatesLast(s)'
<1>1. \A f : Fits(f) => \A g \in members' :
               f.pc = "create" /\ f.req.path # NoPath => obj'[g].path # f.req.path
  BY DEF Fits, PathsKept
<1> QED BY <1>1 DEF CreatesLast, Fits

LEMMA StepOInv ==
  ASSUME \A t, u \in Thread : t = u, IInv, OInv, [Next]_vars
  PROVE  OInv'
<1>0. /\ Rest /\ Stacks /\ Ranked /\ LoadedOnce
      /\ \A u \in Thread : CreatesLast(stack[u])
  BY DEF IInv, OInv
<1>1. Ranked'
  BY <1>0, TableStep, Ranking
<1>2. CASE UNCHANGED vars
  BY <1>0, <1>1, <1>2 DEF vars, OInv, LoadedOnce, CreatesLast, Fits
<1>3. ASSUME NEW t \in Thread, Call(t) \/ Step(t)
      PROVE  OInv'
  <2>1. (stack' = stack \/ Asks(t)) /\ (PathsKept \/ Create(t))
    <3>1. Relinks(t) /\ (members' \subseteq members \/ Create(t))
      BY <1>0, <1>3, StepLinks
    <3>2. members' \subseteq members => PathsKept
      BY <3>1 DEF Relinks, SameName, PathsKept
    <3> QED BY <1>0, <1>3, <3>1, <3>2, StepAsks
  <2>2. PICK s : s = stack'[t]
    OBVIOUS
  <2>3. CreatesLast(s)
    BY <1>0, <2>1, <2>2 DEF Asks
  <2>4. ASSUME PathsKept
        PROVE  LoadedOnce' /\ \A u \in Thread : CreatesLast(stack[u])'
    <3>1. LoadedOnce'
      BY <1>0, <2>4 DEF PathsKept, LoadedOnce
    <3>2. CreatesLast(s)'
      BY <2>3, <2>4, StillLast
    <3>3. ASSUME NEW u \in Thread
          PROVE  CreatesLast(stack[u])'
      <4>1. stack'[u] = s
        BY <2>2, <3>3
      <4> QED BY <3>2, <4>1 DEF CreatesLast
    <3> QED BY <3>1, <3>3
  <2>5. ASSUME Create(t)
        PROVE  LoadedOnce' /\ \A u \in Thread : CreatesLast(stack[u])'
    <3>1. Running(t) /\ Top(t).pc = "create"
      BY <2>5 DEF Create, At
    <3>2. PICK e \in Shaped : e = Top(t) /\ e.pc = "create" /\ e.req \in Request
      BY <1>0, <3>1, TopShape DEF OpenPC
    <3>3. Fits(e)
      <4>1. PICK k \in 1 .. Len(stack[t]) : stack[t][k] = e
        BY <1>0, <3>1, <3>2, TopAt
      <4> QED BY <1>0, <3>2, <4>1 DEF CreatesLast
    <3>a. PICK o : o = FreshObject(e.req)
      OBVIOUS
    <3>b. o.path = e.req.path
      BY <3>a DEF FreshObject
    <3>4. PICK h \in Handle :
            /\ members' = members \cup {h} /\ h \notin members
            /\ obj' = [obj EXCEPT ![h] = o]
            /\ Become(t, [e EXCEPT !.pc = "parse", !.h = h])
      BY <2>5, <3>2, <3>a DEF Create, Table!Insert
    <3>c. PICK f : f = [e EXCEPT !.pc = "parse", !.h = h]
      OBVIOUS
    <3>5. f.pc = "parse" /\ Become(t, f)
      BY <3>2, <3>4, <3>c DEF Shaped, Frame
    <3>d. obj \in [Handle -> Object] /\ members \subseteq Handle
      BY <1>0 DEF Rest
    <3>6. /\ obj'[h].path = e.req.path
          /\ \A g \in members : obj'[g] = obj[g]
      BY <3>b, <3>4, <3>d
    <3>7. LoadedOnce'
      <4>1. \A g \in members : obj[g].path # NoPath => obj[g].path # e.req.path
        BY <3>2, <3>3 DEF Fits
      <4> QED BY <1>0, <3>4, <3>6, <4>1 DEF LoadedOnce
    <3>8. \A k \in 1 .. Len(s) : s[k].pc # "create"
      <4>1. s[Len(stack[t])] = f /\ Len(s) = Len(stack[t])
        BY <1>0, <2>2, <3>1, <3>5, BecomeAt
      <4> QED BY <2>3, <3>5, <4>1 DEF CreatesLast
    <3>9. ASSUME NEW u \in Thread
          PROVE  CreatesLast(stack[u])'
      <4>1. stack'[u] = s
        BY <2>2, <3>9
      <4> QED BY <3>8, <4>1 DEF CreatesLast
    <3> QED BY <3>7, <3>9
  <2> QED BY <1>1, <2>1, <2>4, <2>5 DEF OInv
<1> QED BY <1>2, <1>3 DEF Next, Finished

LEMMA InitOInv == Init => OInv
<1> SUFFICES ASSUME Init
             PROVE  OInv
  OBVIOUS
<1>1. members = {} /\ before = {}
  BY DEF Init, Table!Init
<1>2. Ranked
  <2>1. PICK n \in Nat : n = 0
    OBVIOUS
  <2>2. PICK r : r = [g \in members |-> 0]
    OBVIOUS
  <2>3. r \in [members -> 0 .. n]
    BY <1>1, <2>2
  <2> QED BY <1>1, <2>1, <2>3 DEF Ranked, Ranks
<1>3. LoadedOnce
  BY <1>1 DEF LoadedOnce
<1>4. ASSUME NEW u \in Thread
      PROVE  CreatesLast(stack[u])
  <2>1. stack[u] = <<>>
    BY <1>4 DEF Init
  <2>2. Len(stack[u]) = 0
    BY <2>1
  <2> QED BY <2>2 DEF CreatesLast
<1> QED BY <1>2, <1>3, <1>4 DEF OInv

(* ctrdlOpen loads a file once, for any objects, faults and callbacks: an  *)
(* initialiser, finaliser or callback that opens a file that is being      *)
(* loaded or unloaded finds its handle.  The program has one thread: two   *)
(* that open a file at once may both find nothing and load it twice.       *)
THEOREM FilesLoadOnce ==
  ASSUME \A t, u \in Thread : t = u
  PROVE  Spec => []LoadedOnce
<1>1. Init => IInv /\ OInv
  BY InitIInv, InitOInv
<1>2. IInv /\ OInv /\ [Next]_vars => IInv' /\ OInv'
  BY StepIInv, StepOInv
<1>3. OInv => LoadedOnce
  BY DEF OInv
<1> QED BY <1>1, <1>2, <1>3, PTL DEF Spec
-----------------------------------------------------------------------------
(* What a load has bound.  An entry of deps serves a path if the path of   *)
(* its object contains it.                                                 *)
Serves(ob, p, d) == d # Main /\ <<p, ob[d].path>> \in Inside

(* The entries a load has bound are those of the first files it needs; all *)
(* of them once it is past its dependencies and has no resolver.           *)
BoundOK(ob, f) ==
  LET n == Len(ob[f.h].deps)
  IN /\ ob[f.h].released = 0
     /\ n <= Len(Needed(f))
     /\ f.pc = "parse" => n = 0
     /\ f.pc = "deps" => n = f.i - 1
     /\ f.pc \notin {"parse", "deps"} /\ ~f.req.resolver => n = Len(Needed(f))
     /\ ob[f.h].path # NoPath =>
          \A i \in 1 .. n : Serves(ob, Needed(f)[i], ob[f.h].deps[i])

EarlyPC == LoadPC \ {"drop"}
MappedPC == {"reloc", "fix", "init"}

LoadOK(ob, f) ==
  /\ f.pc \in OpenPC => f.req.path \in {NoPath, f.req.image}
  /\ f.pc \in LoadPC => f.req.image = ob[f.h].image
  /\ f.pc \in EarlyPC => BoundOK(ob, f)
  /\ f.pc \in MappedPC => ob[f.h].pages = "mapped"

(* What c is waiting for: the file it needs next, or an object that serves.*)
CallOK(ob, c, f) ==
  c.pc = "deps" =>
    /\ c.i \in 1 .. Len(Needed(c))
    /\ f.pc \in OpenPC => f.req.path = Needed(c)[c.i]
    /\ f.pc \in LoadPC \cup {"done"} /\ f.h # Null =>
         f.h \in Handle /\ <<Needed(c)[c.i], ob[f.h].path>> \in Inside

LoadsOK(ob, s) == \A k \in 1 .. Len(s) : LoadOK(ob, s[k])
CallsOK(ob, s) == \A k \in 2 .. Len(s) : CallOK(ob, s[k - 1], s[k])

(* Only an object opened by path can be found, and only under its own; an  *)
(* entry that was not given back is of an object that serves a file named  *)
(* by the one that has the entry.                                          *)
EntryOK(ob, h, k) ==
  k > ob[h].released /\ ob[h].deps[k] # Main =>
    \E n \in 1 .. Len(Needs[ob[h].image]) :
      Serves(ob, Needs[ob[h].image][n], ob[h].deps[k])
HandleOK(ob, h) ==
  /\ ob[h].path \in {NoPath, ob[h].image}
  /\ \A k \in 1 .. Len(ob[h].deps) : EntryOK(ob, h, k)

(* An object that was loaded and is referred to keeps what it got.         *)
UsedOK(ob, h) ==
  ob[h].fini /\ ob[h].refc > 0 => ob[h].pages = "mapped" /\ ob[h].released = 0

DInv ==
  /\ \A t \in Thread : LoadsOK(obj, stack[t]) /\ CallsOK(obj, stack[t])
  /\ \A h \in alive : HandleOK(obj, h) /\ UsedOK(obj, h)

(* A dependency that was not given back has a reference.                   *)
LEMMA EntryAlive ==
  ASSUME Safe, NEW g \in alive, NEW k \in 1 .. Len(obj[g].deps),
         k > obj[g].released, obj[g].deps[k] # Main
  PROVE  /\ obj[g].deps[k] \in Handle /\ obj[g].deps[k] \in alive
         /\ obj[obj[g].deps[k]].refc > 0
<1>1. Rest /\ RInv /\ g \in Handle
  BY DEF Safe, IInv, Rest
<1>2. obj[g].deps \in Seq(Handle \cup {Main})
  BY <1>1, ObjectFields
<1>3. PICK d \in Handle : d = obj[g].deps[k]
  BY <1>2
<1>4. <<g, k>> \in DepEntries(alive, obj, d)
  <2>1. Memory(alive, obj)
    BY <1>1 DEF Rest, Memory
  <2> QED BY <1>3, <2>1, DepIs
<1>5. PICK D : D = DepEntries(alive, obj, d)
  OBVIOUS
<1>6. IsFiniteSet(D) /\ IsFiniteSet(Entries(stack, d, RefPC))
      /\ Exact(alive, obj, stack, held, d)
  BY <1>1, <1>5 DEF RInv, RInvOf, Finite
<1>7. Cardinality(D) \in Nat /\ Cardinality(D) # 0
  BY <1>4, <1>5, <1>6, FS_CardinalityType, FS_EmptySet
<1>8. Cardinality(Entries(stack, d, RefPC)) \in Nat
  BY <1>6, FS_CardinalityType
<1>9. held[d] \in Nat
  BY <1>1 DEF Rest
<1>10. Count(alive, obj, d) > 0
  BY <1>5, <1>6, <1>7, <1>8, <1>9 DEF Exact
<1> QED BY <1>3, <1>10 DEF Count

(* An object with a reference outlives a step, and keeps its name.         *)
LEMMA NameKept ==
  ASSUME Safe, NEW t \in Thread, Effect(t), Relinks(t), members' = alive',
         NEW h \in alive, obj[h].refc > 0
  PROVE  h \in alive' /\ h \in members /\ h \in members' /\ SameName(h)
<1>1. h \in alive'
  BY DEF Effect, SameCounts, Creates, Takes, Gives, Frees
<1>2. h \in members
  BY DEF Safe, RInv
<1> QED BY <1>1, <1>2 DEF Relinks

(* What a step may rely on.                                                *)
Tidy(t) ==
  /\ Safe /\ LoadsAlone /\ LoadsUnrecorded
  /\ Effect(t) /\ Relinks(t) /\ Repages(t) /\ members' = alive'

(* A call that unloads an object that still has a reference undoes its load.*)
LEMMA UndoesLoad ==
  ASSUME NEW t \in Thread, Tidy(t), Running(t), Top(t).pc \in UnloadPC,
         NEW h, h = Top(t).h, h \in alive, obj[h].refc > 0
  PROVE  /\ Len(stack[t]) - 1 \in 1 .. Len(stack[t])
         /\ stack[t][Len(stack[t]) - 1].pc = "drop"
         /\ Loads(t, Len(stack[t]) - 1, h)
<1>0. Safe /\ IInv /\ RInv /\ Stacks
  BY DEF Tidy, Safe, IInv
<1>1. PICK s \in Seq(Shaped) : s = stack[t] /\ Good(alive, obj, s)
  BY <1>0 DEF Stacks, RInv, RInvOf
<1>2. PICK n \in 1 .. Len(s) : n = Len(s) /\ s[n] = Top(t)
  BY <1>0, <1>1, TopAt
<1>3. /\ n - 1 \in 1 .. Len(s) /\ s[n - 1].h = h
      /\ s[n - 1].pc \in {"drop", "unlocking"}
  BY <1>1, <1>2, UnloadCaller
<1>4. s[n - 1].pc # "unlocking"
  BY <1>1, <1>3 DEF Good, FrameOK
<1> QED BY <1>1, <1>2, <1>3, <1>4 DEF Loads, LoadPC

(* A call that binds a dependency: only the frame of the load changes.     *)
Binds(t, u, k) ==
  /\ u = t
  /\ \/ BindMain(t) /\ k = Len(stack[t])
     \/ BindDep(t) /\ k = Len(stack[t]) - 1

LEMMA LinksKept ==
  ASSUME NEW t \in Thread, Tidy(t), NEW u \in Thread, NEW k, NEW h,
         Loads(u, k, h), stack[u][k].pc # "drop", ~Binds(t, u, k)
  PROVE  SameName(h) /\ Linked(h)
<1>0. /\ Safe /\ IInv /\ RInv /\ Stacks /\ LoadsAlone
      /\ Effect(t) /\ Relinks(t) /\ members' = alive'
  BY DEF Tidy, Safe, IInv
<1>1. h \in Handle /\ h \in alive
  BY <1>0, LoadsAlive
<1>2. obj[h].refc > 0
  BY <1>0, <1>1, RefAlive DEF Loads, RefPC
<1>3. h \in members /\ h \in members' /\ SameName(h)
  BY <1>0, <1>1, <1>2, NameKept
<1>4. CASE BindMain(t) /\ h = Top(t).h
  <2>1. Running(t) /\ Top(t).pc = "deps"
    BY <1>4 DEF BindMain, DepsRemain, At
  <2>2. Loads(t, Len(stack[t]), h)
    BY <1>0, <1>4, <2>1, TopAt DEF Loads, LoadPC
  <2>3. u = t /\ k = Len(stack[t])
    BY <1>0, <2>2 DEF LoadsAlone
  <2> QED BY <1>4, <2>3 DEF Binds
<1>5. CASE BindDep(t) /\ h = Caller(t).h
  <2>1. Len(stack[t]) > 1 /\ Caller(t).pc = "deps"
    BY <1>5 DEF BindDep, CalledFrom
  <2>2. Loads(t, Len(stack[t]) - 1, h)
    BY <1>0, <1>5, <2>1, CallerAt DEF Loads, LoadPC
  <2>3. u = t /\ k = Len(stack[t]) - 1
    BY <1>0, <2>2 DEF LoadsAlone
  <2> QED BY <1>5, <2>3 DEF Binds
<1>6. CASE ReleaseDep(t) /\ h = Top(t).h
  <2>1. Running(t) /\ Top(t).pc \in UnloadPC
    BY <1>6 DEF ReleaseDep, At, UnloadPC
  <2>2. /\ Loads(t, Len(stack[t]) - 1, h)
        /\ stack[t][Len(stack[t]) - 1].pc = "drop"
    BY <1>1, <1>2, <1>6, <2>1, UndoesLoad
  <2>3. u = t /\ k = Len(stack[t]) - 1
    BY <1>0, <2>2 DEF LoadsAlone
  <2> QED BY <2>2, <2>3
<1> QED BY <1>0, <1>3, <1>4, <1>5, <1>6 DEF Relinks

(* The mapping of an object changes with the load that maps it, and when   *)
(* it is unloaded.                                                         *)
LEMMA PagesKept ==
  ASSUME NEW t \in Thread, Tidy(t), NEW u \in Thread, NEW k, NEW h,
         Loads(u, k, h), stack[u][k].pc \in MappedPC
  PROVE  obj'[h].pages = obj[h].pages
<1>0. Safe /\ IInv /\ RInv /\ Stacks /\ LoadsAlone /\ Repages(t)
  BY DEF Tidy, Safe, IInv
<1>1. h \in Handle /\ h \in alive
  BY <1>0, LoadsAlive
<1>2. obj[h].refc > 0
  BY <1>0, <1>1, RefAlive DEF Loads, RefPC
<1>3. CASE (Map(t) \/ MapFails(t)) /\ h = Top(t).h
  <2>1. Running(t) /\ Top(t).pc = "map"
    BY <1>3 DEF Map, MapFails, At
  <2>2. Loads(t, Len(stack[t]), h) /\ stack[t][Len(stack[t])].pc = "map"
    BY <1>0, <1>3, <2>1, TopAt DEF Loads, LoadPC
  <2>3. u = t /\ k = Len(stack[t])
    BY <1>0, <2>2 DEF LoadsAlone
  <2> QED BY <2>2, <2>3 DEF MappedPC
<1>4. CASE (FreePages(t) \/ Reclaim(t)) /\ h = Top(t).h
  <2>1. Running(t) /\ Top(t).pc \in UnloadPC
    BY <1>4 DEF FreePages, Reclaim, At, UnloadPC
  <2>2. /\ Loads(t, Len(stack[t]) - 1, h)
        /\ stack[t][Len(stack[t]) - 1].pc = "drop"
    BY <1>1, <1>2, <1>4, <2>1, UndoesLoad
  <2>3. u = t /\ k = Len(stack[t]) - 1
    BY <1>0, <2>2 DEF LoadsAlone
  <2> QED BY <2>2, <2>3 DEF MappedPC
<1> QED BY <1>0, <1>1, <1>3, <1>4 DEF Repages, SamePages

(* So what a load has bound still serves after the step ...                *)
LEMMA LoadKept ==
  ASSUME NEW t \in Thread, Tidy(t), NEW u \in Thread, NEW k \in 1 .. Len(stack[u]),
         LoadOK(obj, stack[u][k]), ~Binds(t, u, k)
  PROVE  LoadOK(obj', stack[u][k])
<1>0. /\ Safe /\ IInv /\ RInv /\ Rest /\ Stacks
      /\ Effect(t) /\ Relinks(t) /\ members' = alive'
  BY DEF Tidy, Safe, IInv
<1>1. PICK f \in Shaped : f = stack[u][k]
  BY <1>0 DEF Stacks
<1>2. PICK ob : ob = obj'
  OBVIOUS
<1>3. CASE f.pc \notin LoadPC
  BY <1>1, <1>3 DEF LoadOK, EarlyPC, MappedPC, LoadPC
<1>4. CASE f.pc \in LoadPC
  <2>1. PICK h \in Handle : h = f.h
    BY <1>4 DEF Shaped
  <2>2. Loads(u, k, h)
    BY <1>1, <1>4, <2>1 DEF Loads
  <2>3. h \in alive /\ obj[h].refc > 0
    BY <1>0, <1>1, <1>4, <2>1, RefAlive DEF RefPC
  <2>4. ob[h].path = obj[h].path /\ ob[h].image = obj[h].image
    BY <1>0, <1>2, <2>3, NameKept DEF SameName
  <2>5. f.pc \notin OpenPC
    BY <1>4 DEF LoadPC, OpenPC
  <2>6. f.req.image = ob[h].image
    BY <1>1, <1>4, <2>1, <2>4 DEF LoadOK
  <2>7. ASSUME f.pc \in EarlyPC
        PROVE  BoundOK(ob, f)
    <3>1. ob[h].deps = obj[h].deps /\ ob[h].released = obj[h].released
      BY <1>1, <1>2, <2>2, <2>7, LinksKept DEF Linked, EarlyPC
    <3>2. BoundOK(obj, f)
      BY <1>1, <2>7 DEF LoadOK
    <3>3. PICK ds : ds = obj[h].deps
      OBVIOUS
    <3>4. ASSUME NEW i \in 1 .. Len(ds), ob[h].path # NoPath
          PROVE  Serves(ob, Needed(f)[i], ds[i])
      <4>1. Serves(obj, Needed(f)[i], ds[i])
        BY <2>1, <2>4, <3>2, <3>3, <3>4 DEF BoundOK
      <4>2. ds[i] # Main /\ i > obj[h].released
        BY <2>1, <3>2, <3>4, <4>1 DEF BoundOK, Serves
      <4>3. ds[i] \in alive /\ obj[ds[i]].refc > 0
        BY <1>0, <2>3, <3>3, <4>2, EntryAlive
      <4>4. ob[ds[i]].path = obj[ds[i]].path
        BY <1>0, <1>2, <4>3, NameKept DEF SameName
      <4> QED BY <4>1, <4>4 DEF Serves
    <3> QED BY <2>1, <2>4, <3>1, <3>2, <3>3, <3>4 DEF BoundOK
  <2>8. ASSUME f.pc \in MappedPC
        PROVE  ob[h].pages = "mapped"
    <3>1. ob[h].pages = obj[h].pages
      BY <1>1, <1>2, <2>2, <2>8, PagesKept
    <3> QED BY <1>1, <2>1, <2>8, <3>1 DEF LoadOK
  <2> QED BY <1>1, <1>2, <2>1, <2>5, <2>6, <2>7, <2>8 DEF LoadOK
<1> QED BY <1>3, <1>4

(* ... and so does what a call has found for its caller ...                *)
LEMMA CallKept ==
  ASSUME NEW t \in Thread, Tidy(t), NEW u \in Thread, NEW k \in 2 .. Len(stack[u]),
         CallOK(obj, stack[u][k - 1], stack[u][k])
  PROVE  CallOK(obj', stack[u][k - 1], stack[u][k])
<1>0. /\ Safe /\ IInv /\ RInv /\ Rest /\ Stacks
      /\ Effect(t) /\ Relinks(t) /\ members' = alive'
  BY DEF Tidy, Safe, IInv
<1>1. k \in 1 .. Len(stack[u])
  OBVIOUS
<1>2. PICK f : f = stack[u][k]
  OBVIOUS
<1>3. PICK c : c = stack[u][k - 1]
  OBVIOUS
<1>4. PICK ob : ob = obj'
  OBVIOUS
<1>5. ASSUME f.pc \in LoadPC \cup {"done"}, f.h \in Handle
      PROVE  ob[f.h].path = obj[f.h].path
  <2>1. f.h \in alive /\ obj[f.h].refc > 0
    BY <1>0, <1>1, <1>2, <1>5, RefAlive DEF RefPC
  <2> QED BY <1>0, <1>4, <2>1, NameKept DEF SameName
<1>6. CallOK(obj, c, f)
  BY <1>2, <1>3
<1>7. CallOK(ob, c, f)
  BY <1>5, <1>6 DEF CallOK
<1> QED BY <1>2, <1>3, <1>4, <1>7

(* ... on every stack.                                                     *)
LEMMA StacksKept ==
  ASSUME NEW t \in Thread, Tidy(t), DInv, NEW u \in Thread
  PROVE  /\ CallsOK(obj', stack[u])
         /\ \A k \in 1 .. Len(stack[u]) : ~Binds(t, u, k) => LoadOK(obj', stack[u][k])
<1>1. LoadsOK(obj, stack[u]) /\ CallsOK(obj, stack[u])
  BY DEF DInv
<1>2. \A k \in 1 .. Len(stack[u]) : ~Binds(t, u, k) => LoadOK(obj', stack[u][k])
  BY <1>1, LoadKept DEF LoadsOK
<1>3. \A k \in 2 .. Len(stack[u]) : CallOK(obj', stack[u][k - 1], stack[u][k])
  BY <1>1, CallKept DEF CallsOK
<1> QED BY <1>2, <1>3 DEF CallsOK

-----------------------------------------------------------------------------
(* A stack with one or two calls put on what was kept of it.               *)
Deep(ob, s) == LoadsOK(ob, s) /\ CallsOK(ob, s)
Over(ob, b, f) == Len(b) > 0 => CallOK(ob, b[Len(b)], f)

LEMMA DeepPush ==
  ASSUME NEW S, NEW b \in Seq(S), NEW ob, Deep(ob, b),
         NEW f, LoadOK(ob, f), Over(ob, b, f)
  PROVE  Deep(ob, Append(b, f))
<1>1. PICK r : r = Append(b, f)
  OBVIOUS
<1>2. PICK n \in Nat : n = Len(b)
  OBVIOUS
<1>3. Len(r) = n + 1 /\ r[n + 1] = f /\ \A k \in 1 .. n : r[k] = b[k]
  BY <1>1, <1>2, PushAt
<1>4. ASSUME NEW k \in 1 .. Len(r)
      PROVE  LoadOK(ob, r[k])
  <2>1. k \in 1 .. n \/ k = n + 1
    BY <1>2, <1>3
  <2> QED BY <1>2, <1>3, <2>1 DEF Deep, LoadsOK
<1>5. ASSUME NEW k \in 2 .. Len(r)
      PROVE  CallOK(ob, r[k - 1], r[k])
  <2>1. k \in 2 .. n \/ (k = n + 1 /\ n > 0)
    BY <1>2, <1>3
  <2>2. CASE k \in 2 .. n
    <3>1. r[k] = b[k] /\ r[k - 1] = b[k - 1]
      BY <1>2, <1>3, <2>2
    <3> QED BY <1>2, <2>2, <3>1 DEF Deep, CallsOK
  <2>3. CASE k = n + 1 /\ n > 0
    <3>1. k - 1 = n /\ r[k] = f /\ r[k - 1] = b[n]
      BY <1>2, <1>3, <2>3
    <3> QED BY <1>2, <2>3, <3>1 DEF Over
  <2> QED BY <2>1, <2>2, <2>3
<1> QED BY <1>1, <1>4, <1>5 DEF Deep, LoadsOK, CallsOK

(* f is put on b, or nothing is, or f and its callee g.                    *)
Stacked(t, b, f, g) ==
  \/ stack' = [stack EXCEPT ![t] = b]
  \/ stack' = [stack EXCEPT ![t] = Append(b, f)]
  \/ stack' = [stack EXCEPT ![t] = Append(Append(b, f), g)] /\ f.pc # "deps"

LEMMA DeepStep ==
  ASSUME Stacks, NEW t \in Thread, NEW b \in Seq(Shaped), NEW ob, Deep(ob, b),
         NEW f, NEW g, LoadOK(ob, f), LoadOK(ob, g), Over(ob, b, f),
         Stacked(t, b, f, g)
  PROVE  Deep(ob, stack'[t]) /\ \A u \in Thread \ {t} : stack'[u] = stack[u]
<1>1. PICK r : r = Append(b, f)
  OBVIOUS
<1>2. PICK S : S = Shaped \cup {f}
  OBVIOUS
<1>3. PICK q : q = Append(r, g)
  OBVIOUS
<1>4. r \in Seq(S) /\ Len(r) = Len(b) + 1 /\ r[Len(b) + 1] = f
  BY <1>1, <1>2, PushAt
<1>5. Deep(ob, r)
  BY <1>1, DeepPush
<1>6. ASSUME f.pc # "deps"
      PROVE  Deep(ob, q)
  <2>1. CallOK(ob, f, g)
    BY <1>6 DEF CallOK
  <2>2. Over(ob, r, g)
    BY <1>4, <2>1 DEF Over
  <2> QED BY <1>3, <1>4, <1>5, <2>2, DeepPush
<1>7. /\ \A u \in Thread \ {t} : stack'[u] = stack[u]
      /\ \/ stack'[t] \in {b, r}
         \/ stack'[t] = q /\ f.pc # "deps"
  <2>1. \/ stack' = [stack EXCEPT ![t] = b]
        \/ stack' = [stack EXCEPT ![t] = r]
        \/ stack' = [stack EXCEPT ![t] = q] /\ f.pc # "deps"
    BY <1>1, <1>3 DEF Stacked
  <2>2. stack \in [Thread -> Seq(Shaped)]
    BY DEF Stacks
  <2>3. \A c : stack' = [stack EXCEPT ![t] = c] =>
          stack'[t] = c /\ \A u \in Thread \ {t} : stack'[u] = stack[u]
    BY <2>2, Zenon
  <2> QED BY <2>1, <2>3
<1> QED BY <1>5, <1>6, <1>7

(* What is left of a stack when its last frame, or its last two, are gone. *)
LEMMA DeepUnder ==
  ASSUME Stacks, NEW t \in Thread, Running(t), NEW ob, CallsOK(ob, stack[t]),
         \A k \in 1 .. Len(stack[t]) - 1 : LoadOK(ob, stack[t][k])
  PROVE  /\ Under(t) \in Seq(Shaped) /\ Deep(ob, Under(t))
         /\ Over(ob, Under(t), Top(t))
<1>1. PICK n \in Nat \ {0} : n = Len(stack[t]) /\ stack[t][n] = Top(t)
  BY UnderAt, TopAt
<1>2. PICK b \in Seq(Shaped) :
        b = Under(t) /\ Len(b) = n - 1 /\ \A k \in 1 .. n - 1 : b[k] = stack[t][k]
  BY <1>1, UnderAt
<1>3. LoadsOK(ob, b)
  BY <1>1, <1>2 DEF LoadsOK
<1>4. \A k \in 2 .. n - 1 : k - 1 \in 1 .. n - 1 /\ k \in 1 .. n - 1 /\ k \in 2 .. n
  BY <1>1
<1>5. CallsOK(ob, b)
  BY <1>1, <1>2, <1>4 DEF CallsOK
<1>6. Over(ob, b, Top(t))
  <2>1. n - 1 > 0 => n \in 2 .. n /\ n - 1 \in 1 .. n - 1
    BY <1>1
  <2> QED BY <1>1, <1>2, <2>1 DEF Over, CallsOK
<1> QED BY <1>2, <1>3, <1>5, <1>6 DEF Deep

LEMMA DeepUnderCaller ==
  ASSUME Stacks, NEW t \in Thread, Len(stack[t]) > 1, NEW ob, CallsOK(ob, stack[t]),
         \A k \in 1 .. Len(stack[t]) - 2 : LoadOK(ob, stack[t][k])
  PROVE  /\ UnderCaller(t) \in Seq(Shaped) /\ Deep(ob, UnderCaller(t))
         /\ Over(ob, UnderCaller(t), Caller(t))
<1>1. PICK n \in Nat : n = Len(stack[t]) /\ n > 1 /\ stack[t][n - 1] = Caller(t)
  BY UnderCallerAt, CallerAt
<1>2. PICK b \in Seq(Shaped) :
        /\ b = UnderCaller(t) /\ Len(b) = n - 2
        /\ \A k \in 1 .. n - 2 : b[k] = stack[t][k]
  BY <1>1, UnderCallerAt
<1>3. LoadsOK(ob, b)
  BY <1>1, <1>2 DEF LoadsOK
<1>4. \A k \in 2 .. n - 2 : k - 1 \in 1 .. n - 2 /\ k \in 1 .. n - 2 /\ k \in 2 .. n
  BY <1>1
<1>5. CallsOK(ob, b)
  BY <1>1, <1>2, <1>4 DEF CallsOK
<1>6. Over(ob, b, Caller(t))
  <2>1. n - 2 > 0 => /\ n - 1 \in 2 .. n /\ n - 2 \in 1 .. n - 2
                     /\ (n - 1) - 1 = n - 2
    BY <1>1
  <2> QED BY <1>1, <1>2, <2>1 DEF Over, CallsOK
<1> QED BY <1>2, <1>3, <1>5, <1>6 DEF Deep

(* f asks for, or has found, what e did.                                   *)
Succeeds(e, f) ==
  /\ f.pc \in OpenPC => e.pc \in OpenPC /\ f.req.path = e.req.path
  /\ f.pc \in LoadPC \cup {"done"} /\ f.h # Null =>
       e.pc \in LoadPC \cup {"done"} /\ f.h = e.h

LEMMA OverNext ==
  ASSUME NEW ob, NEW b, NEW e, NEW f, Over(ob, b, e), Succeeds(e, f)
  PROVE  Over(ob, b, f)
BY DEF Over, CallOK, Succeeds

(* A call that neither opens, loads nor hands out an object, and is no     *)
(* enumeration; a frame that goes on as f.                                 *)
Idle(f) ==
  /\ f.pc \notin OpenPC \cup LoadPC \cup {"enum"}
  /\ f.pc = "done" => f.h \notin Handle

Advances(e, f) ==
  \/ Idle(f) /\ Succeeds(e, f)
  \/ e.pc \in OpenPC /\ f.pc \in OpenPC /\ f.req = e.req
  \/ /\ e.pc \in LoadPC /\ f.pc \in LoadPC /\ f.h = e.h /\ f.req = e.req
     /\ \/ f.pc = "drop"
        \/ e.pc = "parse" /\ f.pc = "deps" /\ f.i = 1
        \/ /\ e.pc = "deps" /\ f.pc = "map"
           /\ e.req.resolver \/ e.i > Len(Needed(e))
        \/ e.pc \in {"reloc", "fix"} /\ f.pc \in {"fix", "init"}

LEMMA AdvanceOK ==
  ASSUME NEW ob \in [Handle -> Object], NEW e \in Shaped, NEW f,
         LoadOK(ob, e), Advances(e, f)
  PROVE  LoadOK(ob, f) /\ Succeeds(e, f)
<1>1. CASE Idle(f) /\ Succeeds(e, f)
  BY <1>1 DEF LoadOK, Idle, EarlyPC, MappedPC, LoadPC
<1>2. CASE e.pc \in OpenPC /\ f.pc \in OpenPC /\ f.req = e.req
  BY <1>2 DEF LoadOK, Succeeds, OpenPC, LoadPC, EarlyPC, MappedPC
<1>3. CASE /\ e.pc \in LoadPC /\ f.pc \in LoadPC /\ f.h = e.h /\ f.req = e.req
           /\ \/ f.pc = "drop"
              \/ e.pc = "parse" /\ f.pc = "deps" /\ f.i = 1
              \/ /\ e.pc = "deps" /\ f.pc = "map"
                 /\ e.req.resolver \/ e.i > Len(Needed(e))
              \/ e.pc \in {"reloc", "fix"} /\ f.pc \in {"fix", "init"}
  <2>1. Succeeds(e, f) /\ f.pc \notin OpenPC
    BY <1>3 DEF Succeeds, OpenPC, LoadPC
  <2>2. f.req.image = ob[f.h].image
    BY <1>3 DEF LoadOK
  <2>3. ASSUME f.pc # "drop"
        PROVE  BoundOK(ob, f)
    <3>1. e.pc \in EarlyPC /\ BoundOK(ob, e)
      BY <1>3, <2>3 DEF LoadOK, EarlyPC, LoadPC
    <3>2. Needed(f) = Needed(e) /\ f.h = e.h /\ f.req = e.req
      BY <1>3 DEF Needed
    <3>3. PICK n \in Nat : n = Len(ob[e.h].deps)
      <4>1. e.h \in Handle
        BY <1>3 DEF Shaped
      <4> QED BY <4>1 DEF Object
    <3>4. PICK m \in Nat : m = Len(Needed(e))
      <4>1. e.req \in Request
        BY <1>3 DEF Shaped
      <4>2. Needed(e) \in Seq(Path)
        BY <4>1, LoaderAssumption DEF Needed, Request
      <4> QED BY <4>2
    <3>5. e.i \in Nat
      BY DEF Shaped, Frame
    <3>6. /\ f.pc = "parse" => n = 0
          /\ f.pc = "deps" => n = f.i - 1
          /\ f.pc \notin {"parse", "deps"} /\ ~f.req.resolver => n = m
      BY <1>3, <2>3, <3>1, <3>2, <3>3, <3>4, <3>5 DEF BoundOK
    <3> QED BY <3>1, <3>2, <3>3, <3>4, <3>6 DEF BoundOK
  <2>4. f.pc \in MappedPC => ob[f.h].pages = "mapped"
    BY <1>3 DEF LoadOK, MappedPC
  <2> QED BY <2>1, <2>2, <2>3, <2>4 DEF LoadOK, EarlyPC
<1> QED BY <1>1, <1>2, <1>3 DEF Advances

-----------------------------------------------------------------------------
(* What a step of thread t does to its stack.                              *)
Sound(t) ==
  Deep(obj', stack'[t]) /\ \A u \in Thread \ {t} : stack'[u] = stack[u]

LEMMA TidyFacts ==
  ASSUME NEW t \in Thread, Tidy(t)
  PROVE  /\ Safe /\ IInv /\ RInv /\ Rest /\ Stacks
         /\ LoadsAlone /\ LoadsUnrecorded
         /\ Effect(t) /\ Relinks(t) /\ Repages(t) /\ members' = alive'
BY DEF Tidy, Safe, IInv

LEMMA SoundTop ==
  ASSUME NEW t \in Thread, Tidy(t), DInv, Running(t), ~BindDep(t),
         NEW f, NEW g, LoadOK(obj', f), LoadOK(obj', g),
         Over(obj', Under(t), Top(t)) => Over(obj', Under(t), f),
         Stacked(t, Under(t), f, g)
  PROVE  Sound(t)
<1>1. PICK ob : ob = obj'
  OBVIOUS
<1>2. PICK n \in Nat \ {0} : n = Len(stack[t])
  BY TidyFacts, UnderAt
<1>3. \A k \in 1 .. n - 1 : k \in 1 .. Len(stack[t]) /\ ~Binds(t, t, k)
  BY <1>2 DEF Binds
<1>4. CallsOK(ob, stack[t]) /\ \A k \in 1 .. n - 1 : LoadOK(ob, stack[t][k])
  BY <1>1, <1>3, StacksKept
<1>5. PICK b \in Seq(Shaped) :
        b = Under(t) /\ Deep(ob, b) /\ Over(ob, b, Top(t))
  BY <1>2, <1>4, DeepUnder, TidyFacts
<1>6. LoadOK(ob, f) /\ LoadOK(ob, g) /\ Over(ob, b, f) /\ Stacked(t, b, f, g)
  BY <1>1, <1>5
<1>7. Deep(ob, stack'[t]) /\ \A u \in Thread \ {t} : stack'[u] = stack[u]
  BY <1>5, <1>6, DeepStep, TidyFacts
<1> QED BY <1>1, <1>7 DEF Sound

LEMMA SoundReturn ==
  ASSUME NEW t \in Thread, Tidy(t), DInv, Len(stack[t]) > 1, ~BindMain(t),
         NEW f, NEW g, LoadOK(obj', f), LoadOK(obj', g), Succeeds(Caller(t), f),
         Stacked(t, UnderCaller(t), f, g)
  PROVE  Sound(t)
<1>1. PICK ob : ob = obj'
  OBVIOUS
<1>2. PICK n \in Nat : n = Len(stack[t]) /\ n > 1
  BY TidyFacts, UnderCallerAt
<1>3. \A k \in 1 .. n - 2 : k \in 1 .. Len(stack[t]) /\ ~Binds(t, t, k)
  BY <1>2 DEF Binds
<1>4. CallsOK(ob, stack[t]) /\ \A k \in 1 .. n - 2 : LoadOK(ob, stack[t][k])
  BY <1>1, <1>3, StacksKept
<1>5. PICK b \in Seq(Shaped) :
        b = UnderCaller(t) /\ Deep(ob, b) /\ Over(ob, b, Caller(t))
  BY <1>2, <1>4, DeepUnderCaller, TidyFacts
<1>6. LoadOK(ob, f) /\ LoadOK(ob, g) /\ Over(ob, b, f) /\ Stacked(t, b, f, g)
  BY <1>1, <1>5, OverNext
<1>7. Deep(ob, stack'[t]) /\ \A u \in Thread \ {t} : stack'[u] = stack[u]
  BY <1>5, <1>6, DeepStep, TidyFacts
<1> QED BY <1>1, <1>7 DEF Sound

LEMMA SoundEnter ==
  ASSUME NEW t \in Thread, Tidy(t), DInv, ~BindMain(t), ~BindDep(t),
         NEW f, LoadOK(obj', f), Running(t) => CallOK(obj', Top(t), f), Enter(t, f)
  PROVE  Sound(t)
<1>1. PICK ob : ob = obj'
  OBVIOUS
<1>2. PICK b \in Seq(Shaped) : b = stack[t]
  BY TidyFacts DEF Stacks
<1>3. Deep(ob, b)
  BY <1>1, <1>2, StacksKept DEF Deep, LoadsOK, Binds
<1>4. Over(ob, b, f)
  BY <1>1, <1>2 DEF Over, Running, Top
<1>5. Stacked(t, b, f, f)
  BY <1>2, TidyFacts DEF Stacked, Enter, Stacks
<1>6. LoadOK(ob, f)
  BY <1>1
<1>7. Deep(ob, stack'[t]) /\ \A u \in Thread \ {t} : stack'[u] = stack[u]
  BY <1>2, <1>3, <1>4, <1>5, <1>6, DeepStep, TidyFacts
<1> QED BY <1>1, <1>7 DEF Sound

(* Most calls go on as they were.                                          *)
Proceeds(t) ==
  \E f, g :
    /\ Idle(g)
    /\ \/ Running(t) /\ Advances(Top(t), f) /\ Stacked(t, Under(t), f, g)
       \/ /\ Len(stack[t]) > 1 /\ Advances(Caller(t), f)
          /\ Stacked(t, UnderCaller(t), f, g)

LEMMA SoundAdvance ==
  ASSUME NEW t \in Thread, Tidy(t), DInv, obj' \in [Handle -> Object],
         ~BindMain(t), ~BindDep(t), Proceeds(t)
  PROVE  Sound(t)
<1>0. PICK f, g :
        /\ Idle(g)
        /\ \/ Running(t) /\ Advances(Top(t), f) /\ Stacked(t, Under(t), f, g)
           \/ /\ Len(stack[t]) > 1 /\ Advances(Caller(t), f)
              /\ Stacked(t, UnderCaller(t), f, g)
  BY DEF Proceeds
<1>1. PICK ob \in [Handle -> Object] : ob = obj'
  OBVIOUS
<1>2. Stacks /\ stack[t] \in Seq(Shaped)
  BY TidyFacts DEF Stacks
<1>3. LoadsOK(ob, stack[t])
  BY <1>1, StacksKept DEF LoadsOK, Binds
<1>4. LoadOK(ob, g)
  BY <1>0 DEF LoadOK, Idle, EarlyPC, MappedPC, LoadPC
<1>5. CASE Running(t) /\ Advances(Top(t), f) /\ Stacked(t, Under(t), f, g)
  <2>1. PICK e \in Shaped : e = Top(t) /\ LoadOK(ob, e)
    BY <1>2, <1>3, <1>5, TopAt, TopShape DEF LoadsOK
  <2>2. LoadOK(ob, f) /\ Succeeds(e, f)
    BY <1>5, <2>1, AdvanceOK
  <2>3. Over(obj', Under(t), Top(t)) => Over(obj', Under(t), f)
    BY <2>1, <2>2, OverNext
  <2> QED BY <1>1, <1>4, <1>5, <2>2, <2>3, SoundTop
<1>6. CASE /\ Len(stack[t]) > 1 /\ Advances(Caller(t), f)
           /\ Stacked(t, UnderCaller(t), f, g)
  <2>1. PICK e \in Shaped : e = Caller(t) /\ LoadOK(ob, e)
    BY <1>2, <1>3, <1>6, CallerAt, CallerFrame DEF LoadsOK
  <2>2. LoadOK(ob, f) /\ Succeeds(Caller(t), f)
    BY <1>6, <2>1, AdvanceOK
  <2> QED BY <1>1, <1>4, <1>6, <2>2, SoundReturn
<1> QED BY <1>0, <1>5, <1>6

LEMMA IdleFrames ==
  /\ \A h : Idle(UnlockFrame(h)) /\ Idle(UnloadFrame(h))
  /\ Idle(DoneFrame(Null)) /\ Idle(WalkFrame("lookup"))
BY LoaderAssumption
   DEF Idle, UnlockFrame, UnloadFrame, DoneFrame, WalkFrame, OpenPC, LoadPC

LEMMA NewStack ==
  ASSUME NEW t, NEW f, NEW g
  PROVE  /\ Become(t, f) => Stacked(t, Under(t), f, g)
         /\ BecomeAndCall(t, f, g) /\ f.pc # "deps" => Stacked(t, Under(t), f, g)
         /\ ReturnTo(t, f) => Stacked(t, UnderCaller(t), f, g)
BY DEF Stacked, Become, BecomeAndCall, ReturnTo

(* A frame that is done with its object, or was not working on one.        *)
LEMMA AdvanceIdle ==
  /\ \A e, h : Advances(e, UnlockFrame(h)) /\ Advances(e, UnloadFrame(h))
  /\ \A e : Advances(e, DoneFrame(Null))
  /\ \A e, f : f.pc \in UnlockPC \cup UnloadPC => Advances(e, f) /\ f.pc # "deps"
<1>1. \A e, f : f.pc \in UnlockPC \cup UnloadPC => Advances(e, f) /\ f.pc # "deps"
  BY DEF Advances, Succeeds, Idle, UnlockPC, UnloadPC, OpenPC, LoadPC
<1>2. \A e, h : Advances(e, UnlockFrame(h)) /\ Advances(e, UnloadFrame(h))
  BY <1>1 DEF UnlockFrame, UnloadFrame, UnlockPC, UnloadPC
<1>3. \A h : DoneFrame(h).pc = "done" /\ DoneFrame(h).h = h
  BY DEF DoneFrame
<1>4. \A e : Advances(e, DoneFrame(Null))
  BY <1>3, LoaderAssumption DEF Advances, Succeeds, Idle, OpenPC, LoadPC
<1> QED BY <1>1, <1>2, <1>4

(* The load goes on, or is given up.                                       *)
LEMMA AdvanceLoad ==
  ASSUME NEW e \in Shaped, e.pc \in LoadPC
  PROVE  /\ Advances(e, LoadFailed(e)) /\ LoadFailed(e).pc # "deps"
         /\ e.pc = "parse" => Advances(e, [e EXCEPT !.pc = "deps", !.i = 1])
         /\ e.pc = "deps" /\ (e.req.resolver \/ e.i > Len(Needed(e))) =>
              Advances(e, [e EXCEPT !.pc = "map"])
         /\ e.pc \in {"reloc", "fix"} =>
              \A pc \in {"fix", "init"} :
                Advances(e, [e EXCEPT !.pc = pc]) /\ [e EXCEPT !.pc = pc].pc # "deps"
<1>1. /\ DOMAIN e = {"pc", "h", "i", "req"}
      /\ e = [pc |-> e.pc, h |-> e.h, i |-> e.i, req |-> e.req]
  BY DEF Shaped, Frame
<1>2. \A pc : LET f == [e EXCEPT !.pc = pc]
              IN f.pc = pc /\ f.h = e.h /\ f.i = e.i /\ f.req = e.req
  BY <1>1
<1>3. LET f == [e EXCEPT !.pc = "deps", !.i = 1]
      IN f.pc = "deps" /\ f.h = e.h /\ f.i = 1 /\ f.req = e.req
  BY <1>1
<1>4. Advances(e, LoadFailed(e)) /\ LoadFailed(e).pc # "deps"
  BY <1>2 DEF Advances, LoadFailed, LoadPC
<1>5. e.pc = "parse" => Advances(e, [e EXCEPT !.pc = "deps", !.i = 1])
  BY <1>3 DEF Advances, LoadPC
<1>6. e.pc = "deps" /\ (e.req.resolver \/ e.i > Len(Needed(e))) =>
        Advances(e, [e EXCEPT !.pc = "map"])
  BY <1>2 DEF Advances, LoadPC
<1>7. e.pc \in {"reloc", "fix"} =>
        \A pc \in {"fix", "init"} :
          Advances(e, [e EXCEPT !.pc = pc]) /\ [e EXCEPT !.pc = pc].pc # "deps"
  BY <1>2 DEF Advances, LoadPC
<1> QED BY <1>4, <1>5, <1>6, <1>7

LEMMA LoadSound ==
  ASSUME NEW t \in Thread, Tidy(t), DInv, obj' \in [Handle -> Object],
         \/ Parse(t) \/ ParseFails(t) \/ TooManyDeps(t) \/ DepsLoaded(t)
         \/ MapFails(t) \/ Resolve(t) \/ Relocated(t) \/ RelocFails(t)
  PROVE  Sound(t) /\ Proceeds(t)
<1>1. Running(t) /\ Top(t).pc \in LoadPC /\ Top(t).pc # "done"
  BY DEF Parse, ParseFails, TooManyDeps, DepsLoaded, MapFails, Resolve,
         Relocated, RelocFails, At, LoadPC
<1>2. PICK e \in Shaped : e = Top(t) /\ e.pc \in LoadPC
  BY <1>1, TidyFacts, TopShape
<1>3. ~BindDep(t)
  BY <1>1 DEF BindDep, At
<1>4. ~BindMain(t)
  <2>1. CASE TooManyDeps(t) \/ DepsLoaded(t)
    <3>1. PICK m \in Nat : m = Len(Needed(e))
      <4>1. e.req \in Request
        BY <1>2 DEF Shaped
      <4>2. Needed(e) \in Seq(Path)
        BY <4>1, LoaderAssumption DEF Needed, Request
      <4> QED BY <4>2
    <3>2. e.i \in Nat /\ MaxDeps \in Nat
      BY LoaderAssumption DEF Shaped, Frame
    <3> QED BY <1>2, <2>1, <3>1, <3>2 DEF TooManyDeps, DepsLoaded, BindMain, DepsRemain
  <2>2. CASE ~TooManyDeps(t) /\ ~DepsLoaded(t)
    <3>1. Top(t).pc # "deps"
      BY <2>2 DEF Parse, ParseFails, MapFails, Resolve, Relocated, RelocFails, At
    <3> QED BY <3>1 DEF BindMain, DepsRemain, At
  <2> QED BY <2>1, <2>2
<1>5. \E f, g : Idle(g) /\ Advances(e, f) /\ Stacked(t, Under(t), f, g)
  <2>1. CASE Parse(t)
    <3>1. e.pc = "parse" /\ Become(t, [e EXCEPT !.pc = "deps", !.i = 1])
      BY <1>2, <2>1 DEF Parse, At
    <3> QED BY <1>2, <3>1, AdvanceLoad, IdleFrames, NewStack
  <2>2. CASE ParseFails(t)
    <3>1. \E h : Become(t, UnlockFrame(h))
      BY <2>2 DEF ParseFails
    <3> QED BY <3>1, AdvanceIdle, IdleFrames, NewStack
  <2>3. CASE DepsLoaded(t) \/ TooManyDeps(t)
    <3>1. /\ e.pc = "deps"
          /\ \/ /\ Become(t, [e EXCEPT !.pc = "map"])
                /\ e.req.resolver \/ e.i > Len(Needed(e))
             \/ BecomeAndCall(t, LoadFailed(e), UnloadFrame(e.h))
      BY <1>2, <2>3 DEF DepsLoaded, TooManyDeps, At
    <3> QED BY <1>2, <3>1, AdvanceLoad, IdleFrames, NewStack
  <2>4. CASE MapFails(t) \/ RelocFails(t)
    <3>1. BecomeAndCall(t, LoadFailed(e), UnloadFrame(e.h))
      BY <1>2, <2>4 DEF MapFails, RelocFails
    <3> QED BY <1>2, <3>1, AdvanceLoad, IdleFrames, NewStack
  <2>5. CASE Relocated(t) \/ Resolve(t)
    <3>1. /\ e.pc \in {"reloc", "fix"}
          /\ \E pc \in {"fix", "init"} :
               \/ Become(t, [e EXCEPT !.pc = pc])
               \/ BecomeAndCall(t, [e EXCEPT !.pc = pc], WalkFrame("lookup"))
      BY <1>2, <2>5 DEF Relocated, Resolve, At
    <3> QED BY <1>2, <3>1, AdvanceLoad, IdleFrames, NewStack
  <2> QED BY <2>1, <2>2, <2>3, <2>4, <2>5
<1>6. Proceeds(t)
  BY <1>1, <1>2, <1>5 DEF Proceeds
<1> QED BY <1>3, <1>4, <1>6, SoundAdvance

LEMMA InitialiseSound ==
  ASSUME NEW t \in Thread, Tidy(t), DInv, Initialise(t)
  PROVE  Sound(t)
<1>1. Running(t) /\ Top(t).pc = "init"
  BY DEF Initialise, At
<1>2. PICK e : e = Top(t) /\ e.pc \in LoadPC
  BY <1>1 DEF LoadPC
<1>3. PICK f : f = DoneFrame(e.h)
  OBVIOUS
<1>4. f.pc = "done" /\ f.h = e.h
  BY <1>3 DEF DoneFrame
<1>5. LoadOK(obj', f) /\ Succeeds(e, f)
  BY <1>2, <1>4 DEF LoadOK, Succeeds, OpenPC, LoadPC, EarlyPC, MappedPC
<1>6. Over(obj', Under(t), Top(t)) => Over(obj', Under(t), f)
  BY <1>2, <1>5, OverNext
<1>7. Stacked(t, Under(t), f, f)
  BY <1>2, <1>3, NewStack DEF Initialise
<1>8. ~BindDep(t)
  BY <1>1 DEF BindDep, At
<1> QED BY <1>1, <1>5, <1>6, <1>7, <1>8, SoundTop

LEMMA MapSound ==
  ASSUME NEW t \in Thread, Tidy(t), DInv, Map(t)
  PROVE  Sound(t)
<1>1. Running(t) /\ Top(t).pc = "map"
  BY DEF Map, At
<1>2. PICK e \in Shaped : e = Top(t) /\ e.pc = "map"
  BY <1>1, TidyFacts, TopShape
<1>3. ~BindDep(t) /\ \A k : ~Binds(t, t, k)
  BY <1>1 DEF Binds, BindDep, BindMain, DepsRemain, At
<1>4. PICK ob : ob = obj'
  OBVIOUS
<1>5. LoadOK(ob, e)
  <2>1. PICK k \in 1 .. Len(stack[t]) : stack[t][k] = e
    BY <1>1, <1>2, TidyFacts, TopAt
  <2> QED BY <1>3, <1>4, <2>1, StacksKept
<1>6. ob[e.h].pages = "mapped"
  <2>1. PICK h \in Handle : h = e.h
    BY <1>2 DEF Shaped, LoadPC
  <2>2. obj \in [Handle -> Object] /\ ob = [obj EXCEPT ![h].pages = "mapped"]
    BY <1>2, <1>4, <2>1, TidyFacts DEF Map, Rest
  <2> QED BY <2>1, <2>2 DEF Object
<1>7. PICK f : f = [e EXCEPT !.pc = "reloc"]
  OBVIOUS
<1>8. f.pc = "reloc" /\ f.h = e.h /\ f.req = e.req
  BY <1>7 DEF Shaped, Frame
<1>9. LoadOK(ob, f) /\ Succeeds(e, f)
  <2>1. BoundOK(ob, e) /\ e.req.image = ob[e.h].image
    BY <1>2, <1>5 DEF LoadOK, EarlyPC, LoadPC
  <2>2. BoundOK(ob, f)
    BY <1>2, <1>8, <2>1 DEF BoundOK, Needed
  <2> QED BY <1>2, <1>6, <1>8, <2>1, <2>2 DEF LoadOK, Succeeds, OpenPC, LoadPC
<1>10. Over(obj', Under(t), Top(t)) => Over(obj', Under(t), f)
  BY <1>2, <1>9, OverNext
<1>11. Stacked(t, Under(t), f, f)
  BY <1>2, <1>7, NewStack DEF Map
<1> QED BY <1>1, <1>3, <1>4, <1>9, <1>10, <1>11, SoundTop

LEMMA ReturnSound ==
  ASSUME NEW t \in Thread, Tidy(t), DInv, obj' \in [Handle -> Object],
         DepFails(t) \/ DropFailedLoad(t) \/ Reclaim(t)
  PROVE  Sound(t) /\ Proceeds(t)
<1>1. /\ Len(stack[t]) > 1 /\ Top(t).pc # "deps"
      /\ DepFails(t) => Top(t).h = Null
      /\ ~DepFails(t) => Top(t).pc # "done"
  BY DEF DepFails, DropFailedLoad, Reclaim, CalledFrom, At
<1>2. PICK e \in Shaped : e = Caller(t)
  BY <1>1, TidyFacts, CallerFrame
<1>3. ~BindDep(t) /\ ~BindMain(t)
  BY <1>1 DEF BindDep, BindMain, DepsRemain, At
<1>4. \E f, g : Idle(g) /\ Advances(e, f) /\ Stacked(t, UnderCaller(t), f, g)
  <2>1. CASE DepFails(t)
    <3>1. e.pc = "deps"
      BY <1>2, <2>1 DEF DepFails, CalledFrom
    <3>2. CASE e.req.resolver
      <4>1. ReturnTo(t, [e EXCEPT !.pc = "map"])
        BY <1>2, <2>1, <3>2 DEF DepFails, ReturnTo
      <4>2. Advances(e, [e EXCEPT !.pc = "map"])
        BY <3>1, <3>2, AdvanceLoad DEF LoadPC
      <4> QED BY <4>1, <4>2, IdleFrames, NewStack
    <3>3. CASE ~e.req.resolver
      <4>1. PICK f : f = LoadFailed(e)
        OBVIOUS
      <4>2. PICK g : g = UnloadFrame(e.h)
        OBVIOUS
      <4>3. stack' = [stack EXCEPT ![t] = Append(Append(UnderCaller(t), f), g)]
        BY <1>2, <2>1, <3>3, <4>1, <4>2 DEF DepFails
      <4>4. Advances(e, f) /\ f.pc # "deps" /\ Idle(g)
        BY <3>1, <4>1, <4>2, AdvanceLoad, IdleFrames DEF LoadPC
      <4> QED BY <4>3, <4>4 DEF Stacked
    <3> QED BY <3>2, <3>3
  <2>2. CASE DropFailedLoad(t)
    <3>1. \E h : ReturnTo(t, UnlockFrame(h))
      BY <2>2 DEF DropFailedLoad
    <3> QED BY <3>1, AdvanceIdle, IdleFrames, NewStack
  <2>3. CASE Reclaim(t)
    <3>1. ReturnTo(t, DoneFrame(Null))
      BY <2>3 DEF Reclaim
    <3> QED BY <3>1, AdvanceIdle, IdleFrames, NewStack
  <2> QED BY <2>1, <2>2, <2>3
<1>5. Proceeds(t)
  BY <1>1, <1>2, <1>4 DEF Proceeds
<1> QED BY <1>3, <1>5, SoundAdvance

LEMMA UnloadSound ==
  ASSUME NEW t \in Thread, Tidy(t), DInv, obj' \in [Handle -> Object],
         \/ Unlock(t) \/ LastUnlock(t) \/ Finalise(t) \/ FreePages(t)
         \/ FreePagesFails(t) \/ ReleaseDep(t) \/ DepsReleased(t)
  PROVE  Sound(t) /\ Proceeds(t)
<1>1. Running(t) /\ Top(t).pc \in UnlockPC \cup UnloadPC
  BY DEF Unlock, LastUnlock, Finalise, FreePages, FreePagesFails, ReleaseDep,
         DepsReleased, At, UnlockPC, UnloadPC
<1>2. PICK e \in Shaped : e = Top(t) /\ e.pc \in UnlockPC \cup UnloadPC
  BY <1>1, TidyFacts, TopShape
<1>3. ~BindDep(t) /\ ~BindMain(t)
  BY <1>1 DEF BindDep, BindMain, DepsRemain, At, UnlockPC, UnloadPC
<1>4. \E f, g : Idle(g) /\ Advances(e, f) /\ Stacked(t, Under(t), f, g)
  <2>0. /\ e = [pc |-> e.pc, h |-> e.h, i |-> e.i, req |-> e.req]
        /\ \A pc : [e EXCEPT !.pc = pc].pc = pc
        /\ \A i : [e EXCEPT !.i = i].pc = e.pc
    BY DEF Shaped, Frame
  <2>1. CASE Unlock(t)
    <3>1. Become(t, DoneFrame(Null))
      BY <2>1 DEF Unlock
    <3> QED BY <3>1, AdvanceIdle, IdleFrames, NewStack
  <2>2. CASE ReleaseDep(t)
    <3>1. PICK f : f = [e EXCEPT !.i = e.i + 1]
      OBVIOUS
    <3>2. Become(t, f) \/ \E d : BecomeAndCall(t, f, UnlockFrame(d))
      BY <1>2, <2>2, <3>1 DEF ReleaseDep
    <3>3. Advances(e, f) /\ f.pc # "deps"
      BY <1>2, <2>0, <3>1, AdvanceIdle
    <3> QED BY <3>2, <3>3, IdleFrames, NewStack
  <2>3. CASE LastUnlock(t)
    <3>1. PICK f : f = [e EXCEPT !.pc = "unlocking"]
      OBVIOUS
    <3>2. \E d : BecomeAndCall(t, f, UnloadFrame(d))
      BY <1>2, <2>3, <3>1 DEF LastUnlock
    <3>3. Advances(e, f) /\ f.pc # "deps"
      BY <2>0, <3>1, AdvanceIdle DEF UnlockPC
    <3> QED BY <3>2, <3>3, IdleFrames, NewStack
  <2>4. CASE Finalise(t) \/ FreePages(t) \/ FreePagesFails(t) \/ DepsReleased(t)
    <3>1. \E pc \in UnloadPC : Become(t, [e EXCEPT !.pc = pc])
      BY <1>2, <2>4 DEF Finalise, FreePages, FreePagesFails, DepsReleased, UnloadPC
    <3> QED BY <2>0, <3>1, AdvanceIdle, IdleFrames, NewStack
  <2> QED BY <2>1, <2>2, <2>3, <2>4
<1>5. Proceeds(t)
  BY <1>1, <1>2, <1>4 DEF Proceeds
<1> QED BY <1>3, <1>5, SoundAdvance

LEMMA PopSound ==
  ASSUME NEW t \in Thread, Tidy(t), DInv, obj' \in [Handle -> Object],
         UnlockReturns(t) \/ WalkEnds(t) \/ ReturnToProgram(t)
  PROVE  Sound(t) /\ Proceeds(t)
<1>1. Running(t) /\ stack' = [stack EXCEPT ![t] = Under(t)]
  BY DEF UnlockReturns, WalkEnds, ReturnToProgram, At
<1>2. ~BindMain(t)
  BY DEF UnlockReturns, WalkEnds, ReturnToProgram, At, BindMain, DepsRemain
<1>3. ~BindDep(t)
  <2>1. CASE Len(stack[t]) = 1
    BY <2>1 DEF BindDep, CalledFrom
  <2>2. CASE Len(stack[t]) # 1
    BY <2>2 DEF UnlockReturns, WalkEnds, ReturnToProgram, At, BindDep, CalledFrom
  <2> QED BY <2>1, <2>2
<1>4. PICK f : f = DoneFrame(Null)
  OBVIOUS
<1>5. Idle(f) /\ Advances(Top(t), f)
  BY <1>4, IdleFrames, AdvanceIdle
<1>6. Stacked(t, Under(t), f, f)
  BY <1>1 DEF Stacked
<1>7. Proceeds(t)
  BY <1>1, <1>5, <1>6 DEF Proceeds
<1> QED BY <1>2, <1>3, <1>7, SoundAdvance

LEMMA CallSound ==
  ASSUME NEW t \in Thread, Tidy(t), DInv, Call(t)
  PROVE  stack' = stack \/ Sound(t)
<1>1. InProgram(t)
  BY DEF Call, CallOpen, CallOpenFile, CallClose, CallByAddress, CallInfo,
         CallWalk, MayCall
<1>2. Running(t) => Top(t).pc \notin {"deps", "done"}
  BY <1>1, LoaderAssumption DEF InProgram
<1>3. ~BindMain(t) /\ ~BindDep(t) /\ (Running(t) => \A f : CallOK(obj', Top(t), f))
  BY <1>2 DEF BindMain, BindDep, DepsRemain, At, CallOK
<1>4. CASE CallOpen(t) \/ CallOpenFile(t)
  <2>1. \E pc, req : /\ pc \in OpenPC /\ req.path \in {NoPath, req.image}
                     /\ Enter(t, OpenFrame(pc, req))
    <3>1. CASE CallOpen(t)
      <4>1. PICK p \in Path, m \in Modes :
              Enter(t, OpenFrame("find",
                [path |-> p, image |-> p, global |-> m.global,
                 noload |-> m.noload, resolver |-> m.resolver]))
        BY <3>1 DEF CallOpen
      <4> QED BY <4>1 DEF OpenPC
    <3>2. CASE CallOpenFile(t)
      <4>1. PICK p \in Path, m \in Modes :
              Enter(t, OpenFrame("create",
                [path |-> NoPath, image |-> p, global |-> m.global,
                 noload |-> FALSE, resolver |-> m.resolver]))
        BY <3>2 DEF CallOpenFile
      <4> QED BY <4>1 DEF OpenPC
    <3> QED BY <1>4, <3>1, <3>2
  <2>2. PICK pc, req : /\ pc \in OpenPC /\ req.path \in {NoPath, req.image}
                       /\ Enter(t, OpenFrame(pc, req))
    BY <2>1
  <2>3. PICK f : f = OpenFrame(pc, req)
    OBVIOUS
  <2>4. f.pc \in OpenPC /\ f.req = req
    BY <2>2, <2>3 DEF OpenFrame
  <2>5. LoadOK(obj', f)
    BY <2>2, <2>4 DEF LoadOK, OpenPC, LoadPC, EarlyPC, MappedPC
  <2> QED BY <1>3, <2>2, <2>3, <2>5, SoundEnter
<1>5. CASE CallClose(t) \/ CallInfo(t) \/ CallWalk(t)
  <2>1. PICK f : f.pc \in WalkPC \cup {"unlock"} /\ Enter(t, f)
    <3>1. CASE CallWalk(t)
      <4>1. PICK pc \in WalkPC : Enter(t, WalkFrame(pc))
        BY <3>1 DEF CallWalk
      <4> QED BY <4>1 DEF WalkFrame
    <3>2. CASE CallClose(t) \/ CallInfo(t)
      <4>1. PICK h : Enter(t, UnlockFrame(h))
        BY <3>2 DEF CallClose, CallInfo
      <4> QED BY <4>1 DEF UnlockFrame
    <3> QED BY <1>5, <3>1, <3>2
  <2>2. LoadOK(obj', f)
    BY <2>1 DEF LoadOK, WalkPC, OpenPC, EarlyPC, MappedPC, LoadPC
  <2> QED BY <1>3, <2>1, <2>2, SoundEnter
<1>6. CASE CallByAddress(t)
  BY <1>6 DEF CallByAddress
<1> QED BY <1>4, <1>5, <1>6 DEF Call

(* The searches, and the loads they start.                                 *)
LEMMA MissSound ==
  ASSUME NEW t \in Thread, Tidy(t), DInv, obj' \in [Handle -> Object],
         OpenMiss(t) \/ CreateFails(t)
  PROVE  Sound(t) /\ Proceeds(t)
<1>1. Running(t) /\ Top(t).pc \in OpenPC
  BY DEF OpenMiss, CreateFails, At, OpenPC
<1>2. PICK e \in Shaped : e = Top(t) /\ e.pc \in OpenPC
  BY <1>1, TidyFacts, TopShape
<1>3. ~BindDep(t) /\ ~BindMain(t)
  BY <1>1 DEF BindDep, BindMain, DepsRemain, At, OpenPC
<1>4. PICK f : f = [e EXCEPT !.pc = "create"]
  OBVIOUS
<1>5. Advances(e, f)
  <2>1. f.pc = "create" /\ f.req = e.req
    BY <1>4 DEF Shaped, Frame
  <2> QED BY <1>2, <2>1 DEF Advances, OpenPC
<1>6. Become(t, f) \/ Become(t, DoneFrame(Null))
  BY <1>2, <1>4 DEF OpenMiss, CreateFails
<1>7. \E r, g : Idle(g) /\ Advances(e, r) /\ Stacked(t, Under(t), r, g)
  BY <1>5, <1>6, AdvanceIdle, IdleFrames, NewStack
<1>8. Proceeds(t)
  BY <1>1, <1>2, <1>7 DEF Proceeds
<1> QED BY <1>3, <1>8, SoundAdvance

LEMMA HitSound ==
  ASSUME NEW t \in Thread, Tidy(t), DInv, OpenHit(t)
  PROVE  Sound(t)
<1>1. Running(t) /\ Top(t).pc = "find"
  BY DEF OpenHit, At
<1>2. PICK e \in Shaped : e = Top(t) /\ e.pc = "find"
  BY <1>1, TidyFacts, TopShape
<1>3. Rest /\ obj \in [Handle -> Object] /\ members \subseteq Handle
  BY TidyFacts DEF Rest
<1>4. PICK h \in members :
        /\ Matches(h, e.req.path)
        /\ obj' = [obj EXCEPT ![h].refc = @ + 1, ![h].global = e.req.global]
        /\ Become(t, DoneFrame(h))
  BY <1>2 DEF OpenHit, Found
<1>5. PICK ob : ob = obj'
  OBVIOUS
<1>6. h \in Handle /\ ob[h].path = obj[h].path
  <2>1. PICK v : v = obj[h].refc + 1
    OBVIOUS
  <2>2. PICK w : w = e.req.global
    OBVIOUS
  <2>3. ob = [obj EXCEPT ![h].refc = v, ![h].global = w]
    BY <1>3, <1>4, <1>5, <2>1, <2>2
  <2>4. obj[h] \in Object
    BY <1>3
  <2> QED BY <1>3, <2>3, <2>4 DEF Object
<1>7. PICK f : f = DoneFrame(h)
  OBVIOUS
<1>8. f.pc = "done" /\ f.h = h
  BY <1>7 DEF DoneFrame
<1>9. LoadOK(ob, f)
  BY <1>8 DEF LoadOK, OpenPC, EarlyPC, MappedPC, LoadPC
<1>10. ASSUME NEW b, Over(ob, b, e)
       PROVE  Over(ob, b, f)
  BY <1>2, <1>4, <1>6, <1>8, <1>10 DEF Over, CallOK, Matches, OpenPC
<1>11. Stacked(t, Under(t), f, f)
  BY <1>4, <1>7, NewStack
<1>12. ~BindDep(t)
  BY <1>1 DEF BindDep, At
<1>13. Over(obj', Under(t), Top(t)) => Over(obj', Under(t), f)
  BY <1>2, <1>5, <1>10
<1> QED BY <1>1, <1>5, <1>9, <1>11, <1>12, <1>13, SoundTop

LEMMA CreateSound ==
  ASSUME NEW t \in Thread, Tidy(t), DInv, Create(t)
  PROVE  Sound(t) /\ \A h \in alive' \ alive : HandleOK(obj', h)
<1>1. Running(t) /\ Top(t).pc = "create"
  BY DEF Create, At
<1>2. PICK e \in Shaped : e = Top(t) /\ e.pc = "create" /\ e.req \in Request
  BY <1>1, TidyFacts, TopShape DEF OpenPC
<1>3. obj \in [Handle -> Object]
  BY TidyFacts DEF Rest
<1>4. PICK o : o = FreshObject(e.req)
  OBVIOUS
<1>5. o.path = e.req.path /\ o.image = e.req.image /\ o.deps = <<>> /\ o.released = 0
  BY <1>4 DEF FreshObject
<1>6. PICK h \in Handle :
        /\ obj' = [obj EXCEPT ![h] = o] /\ alive' = alive \cup {h}
        /\ Become(t, [e EXCEPT !.pc = "parse", !.h = h])
  BY <1>2, <1>4 DEF Create
<1>7. PICK ob : ob = obj'
  OBVIOUS
<1>8. ob[h] = o
  BY <1>3, <1>6, <1>7
<1>9. PICK f : f = [e EXCEPT !.pc = "parse", !.h = h]
  OBVIOUS
<1>10. f.pc = "parse" /\ f.h = h /\ f.req = e.req
  BY <1>9 DEF Shaped, Frame
<1>11. LoadOK(ob, f)
  <2>1. Needs[e.req.image] \in Seq(Path) /\ Len(Needs[e.req.image]) \in Nat
    BY <1>2, LoaderAssumption DEF Request
  <2>2. Len(o.deps) = 0
    BY <1>5
  <2>3. BoundOK(ob, f)
    BY <1>5, <1>8, <1>10, <2>1, <2>2 DEF BoundOK, Needed
  <2> QED BY <1>5, <1>8, <1>10, <2>3 DEF LoadOK, OpenPC, MappedPC
<1>12. ASSUME NEW b \in Seq(Shaped), Over(ob, b, e)
       PROVE  Over(ob, b, f)
  <2> SUFFICES ASSUME Len(b) > 0
               PROVE  CallOK(ob, b[Len(b)], f)
    BY DEF Over
  <2>1. PICK c \in Shaped : c = b[Len(b)]
    BY <1>12
  <2>2. ASSUME c.pc = "deps"
        PROVE  /\ c.i \in 1 .. Len(Needed(c)) /\ e.req.path = Needed(c)[c.i]
               /\ e.req.path \in Path
    <3>1. c.i \in 1 .. Len(Needed(c)) /\ e.req.path = Needed(c)[c.i]
      BY <1>2, <1>12, <2>1, <2>2 DEF Over, CallOK, OpenPC
    <3>2. c.req \in Request
      BY <2>2 DEF Shaped, LoadPC
    <3>3. Needed(c) \in Seq(Path)
      BY <3>2, LoaderAssumption DEF Needed, Request
    <3> QED BY <3>1, <3>3
  <2>3. \A p \in Path : <<p, p>> \in Inside
    BY LoaderAssumption
  <2>4. f.pc \notin OpenPC
    BY <1>10 DEF OpenPC
  <2>5. CallOK(ob, c, f)
    BY <1>5, <1>8, <1>10, <2>2, <2>3, <2>4 DEF CallOK
  <2> QED BY <2>1, <2>5
<1>13. Under(t) \in Seq(Shaped)
  BY <1>1, TidyFacts, UnderAt
<1>14. Stacked(t, Under(t), f, f)
  BY <1>6, <1>9, NewStack
<1>15. ~BindDep(t)
  BY <1>1 DEF BindDep, At
<1>16. Over(obj', Under(t), Top(t)) => Over(obj', Under(t), f)
  BY <1>2, <1>7, <1>12, <1>13
<1>17. Sound(t)
  BY <1>1, <1>7, <1>11, <1>14, <1>15, <1>16, SoundTop
<1>18. HandleOK(ob, h)
  <2>1. PICK k \in 1 .. Len(stack[t]) : stack[t][k] = e
    BY <1>1, <1>2, TidyFacts, TopAt
  <2>2. LoadOK(obj, e)
    BY <2>1 DEF DInv, LoadsOK
  <2>3. o.path \in {NoPath, o.image}
    BY <1>2, <1>5, <2>2 DEF LoadOK, OpenPC
  <2>4. Len(o.deps) = 0
    BY <1>5
  <2> QED BY <1>8, <2>3, <2>4 DEF HandleOK
<1> QED BY <1>6, <1>7, <1>17, <1>18

(* The dependencies: asked for, and bound.                                 *)
LEMMA OpenDepSound ==
  ASSUME NEW t \in Thread, Tidy(t), DInv, OpenDep(t)
  PROVE  Sound(t)
<1>1. Running(t) /\ Top(t).pc = "deps"
  BY DEF OpenDep, DepsRemain, At
<1>2. PICK e \in Shaped : e = Top(t) /\ e.pc = "deps"
  BY <1>1, TidyFacts, TopShape
<1>3. PICK p : p = Needed(e)[e.i]
  OBVIOUS
<1>4. PICK f :
        f = OpenFrame("find", [path |-> p, image |-> p, global |-> TRUE,
                               noload |-> FALSE, resolver |-> e.req.resolver])
  OBVIOUS
<1>5. f.pc = "find" /\ f.req.path = p /\ f.req.image = p
  BY <1>4 DEF OpenFrame
<1>6. Enter(t, f)
  BY <1>2, <1>3, <1>4 DEF OpenDep
<1>7. LoadOK(obj', f)
  BY <1>5 DEF LoadOK, LoadPC, EarlyPC, MappedPC
<1>8. e.i \in 1 .. Len(Needed(e))
  <2>1. e.i \in Nat /\ e.i > 0 /\ e.req \in Request
    BY <1>2 DEF Shaped, Frame, LoadPC
  <2>2. Needed(e) \in Seq(Path)
    BY <2>1, LoaderAssumption DEF Needed, Request
  <2>3. e.i <= Len(Needed(e))
    BY <1>2 DEF OpenDep, DepsRemain
  <2> QED BY <2>1, <2>2, <2>3
<1>9. CallOK(obj', e, f)
  BY <1>3, <1>5, <1>8 DEF CallOK, LoadPC
<1>10. ~BindMain(t) /\ ~BindDep(t)
  BY <1>1 DEF OpenDep, BindMain, BindDep, At
<1> QED BY <1>2, <1>6, <1>7, <1>9, <1>10, SoundEnter

(* One more dependency is bound, and the load goes on as f.                *)
BindsOne(ob, e, d, f) ==
  /\ ob = [obj EXCEPT ![e.h].deps = Append(obj[e.h].deps, d)]
  /\ f = [e EXCEPT !.i = e.i + 1]

LEMMA BoundNext ==
  ASSUME NEW e \in Shaped, e.pc = "deps", LoadOK(obj, e), obj \in [Handle -> Object],
         e.i <= Len(Needed(e)), NEW d \in Handle \cup {Main},
         obj[e.h].path # NoPath => Serves(obj, Needed(e)[e.i], d),
         NEW ob, NEW f, BindsOne(ob, e, d, f)
  PROVE  /\ LoadOK(ob, f) /\ Succeeds(e, f)
         /\ /\ HandleOK(obj, e.h)
            /\ d # Main => Serves(obj, Needed(e)[e.i], d)
            => HandleOK(ob, e.h)
<1>1. e.h \in Handle /\ e.i \in Nat /\ e.req \in Request
  BY DEF Shaped, Frame, LoadPC
<1>2. PICK h \in Handle : h = e.h
  BY <1>1
<1>3. f.pc = "deps" /\ f.h = h /\ f.i = e.i + 1 /\ f.req = e.req
  BY <1>1, <1>2 DEF BindsOne, Shaped, Frame
<1>4. PICK ds \in Seq(Handle \cup {Main}) : ds = obj[h].deps
  BY DEF Object
<1>5. PICK n \in Nat : n = Len(ds)
  BY <1>4
<1>6. PICK es : es = Append(ds, d)
  OBVIOUS
<1>7. Len(es) = n + 1 /\ es[n + 1] = d /\ \A i \in 1 .. n : es[i] = ds[i]
  BY <1>4, <1>5, <1>6, PushAt
<1>8. ob = [obj EXCEPT ![h].deps = es]
  BY <1>2, <1>4, <1>6 DEF BindsOne
<1>9. /\ ob[h].deps = es /\ ob[h].released = obj[h].released
      /\ ob[h].image = obj[h].image
      /\ \A g \in Handle : ob[g].path = obj[g].path
  <2>1. obj[h] \in Object /\ \A g \in Handle \ {h} : ob[g] = obj[g]
    BY <1>8
  <2>2. /\ ob[h].deps = es /\ ob[h].released = obj[h].released
        /\ ob[h].image = obj[h].image /\ ob[h].path = obj[h].path
    BY <1>8, <2>1 DEF Object
  <2> QED BY <2>1, <2>2
<1>10. BoundOK(obj, e) /\ e.req.image = obj[h].image
  BY <1>2 DEF LoadOK, EarlyPC, LoadPC
<1>11. n = e.i - 1
  BY <1>2, <1>4, <1>5, <1>10 DEF BoundOK
<1>12. Needed(f) = Needed(e)
  BY <1>3 DEF Needed
<1>13. ASSUME NEW i \in 1 .. n + 1, ob[h].path # NoPath
       PROVE  Serves(ob, Needed(f)[i], es[i])
  <2>1. Serves(obj, Needed(f)[i], es[i]) /\ es[i] \in Handle \cup {Main}
    <3>1. CASE i \in 1 .. n
      BY <1>2, <1>4, <1>5, <1>7, <1>9, <1>10, <1>12, <1>13, <3>1 DEF BoundOK
    <3>2. CASE i = n + 1
      BY <1>1, <1>2, <1>7, <1>9, <1>11, <1>12, <1>13, <3>2
    <3> QED BY <1>13, <3>1, <3>2
  <2> QED BY <1>9, <2>1 DEF Serves
<1>14. BoundOK(ob, f)
  <2>1. Needed(e) \in Seq(Path)
    BY <1>1, LoaderAssumption DEF Needed, Request
  <2>2. ob[h].released = 0
    BY <1>2, <1>9, <1>10 DEF BoundOK
  <2>3. n + 1 = f.i - 1 /\ n + 1 <= Len(Needed(f))
    BY <1>1, <1>3, <1>11, <1>12, <2>1
  <2> QED BY <1>3, <1>7, <1>9, <1>13, <2>2, <2>3 DEF BoundOK
<1>15. LoadOK(ob, f) /\ Succeeds(e, f)
  BY <1>2, <1>3, <1>9, <1>10, <1>14 DEF LoadOK, Succeeds, EarlyPC, MappedPC, OpenPC, LoadPC
<1>16. ASSUME HandleOK(obj, h), d # Main => Serves(obj, Needed(e)[e.i], d)
       PROVE  HandleOK(ob, h)
  <2>1. ASSUME NEW k \in 1 .. n + 1, k > obj[h].released, es[k] # Main
        PROVE  \E j \in 1 .. Len(Needs[obj[h].image]) :
                 Serves(ob, Needs[obj[h].image][j], es[k])
    <3>1. Needed(e) = Needs[obj[h].image]
      BY <1>10 DEF Needed
    <3>2. PICK j \in 1 .. Len(Needed(e)) : Serves(obj, Needed(e)[j], es[k])
      <4>1. CASE k \in 1 .. n
        BY <1>4, <1>5, <1>7, <1>16, <2>1, <3>1, <4>1 DEF HandleOK, EntryOK
      <4>2. CASE k = n + 1
        <5>1. e.i \in 1 .. Len(Needed(e))
          <6>1. Needed(e) \in Seq(Path)
            BY <1>1, LoaderAssumption DEF Needed, Request
          <6> QED BY <1>1, <1>11, <6>1
        <5> QED BY <1>7, <1>16, <2>1, <4>2, <5>1
      <4> QED BY <2>1, <4>1, <4>2
    <3>3. es[k] \in Handle
      BY <1>4, <1>5, <1>7, <2>1
    <3>4. Serves(ob, Needed(e)[j], es[k])
      BY <1>9, <3>2, <3>3 DEF Serves
    <3> QED BY <3>1, <3>4
  <2>2. ob[h].path \in {NoPath, ob[h].image}
    BY <1>9, <1>16 DEF HandleOK
  <2> QED BY <1>7, <1>9, <2>1, <2>2 DEF HandleOK, EntryOK
<1> QED BY <1>2, <1>15, <1>16

LEMMA BindSound ==
  ASSUME NEW t \in Thread, Tidy(t), DInv, BindMain(t) \/ BindDep(t)
  PROVE  /\ Sound(t)
         /\ BindMain(t) => HandleOK(obj', Top(t).h)
         /\ BindDep(t) => HandleOK(obj', Caller(t).h)
<1>0. /\ Stacks /\ obj \in [Handle -> Object] /\ stack[t] \in Seq(Shaped)
      /\ LoadsOK(obj, stack[t]) /\ CallsOK(obj, stack[t])
  BY TidyFacts DEF Rest, Stacks, DInv
<1>1. PICK ob : ob = obj'
  OBVIOUS
<1>a. ASSUME NEW k \in 1 .. Len(stack[t]), stack[t][k].pc = "deps"
      PROVE  HandleOK(obj, stack[t][k].h)
  <2>1. Loads(t, k, stack[t][k].h)
    BY <1>a DEF Loads, LoadPC
  <2> QED BY <2>1, LoadsAlive, TidyFacts DEF DInv
<1>2. CASE BindMain(t)
  <2>1. Running(t) /\ Top(t).pc = "deps"
    BY <1>2 DEF BindMain, DepsRemain, At
  <2>2. PICK e \in Shaped : e = Top(t) /\ e.pc = "deps" /\ LoadOK(obj, e)
    BY <1>0, <2>1, TopAt, TopShape DEF LoadsOK
  <2>3. PICK f : f = [e EXCEPT !.i = e.i + 1]
    OBVIOUS
  <2>a. e.h \in Handle
    BY <2>2 DEF Shaped, LoadPC
  <2>b. BindsOne(ob, e, Main, f)
    <3>1. PICK v : v = Append(obj[e.h].deps, Main)
      OBVIOUS
    <3>2. ob = [obj EXCEPT ![e.h].deps = v]
      BY <1>0, <1>1, <1>2, <2>2, <2>a, <3>1 DEF BindMain
    <3> QED BY <2>3, <3>1, <3>2 DEF BindsOne
  <2>4. Become(t, f) /\ obj[e.h].path = NoPath /\ e.i <= Len(Needed(e))
    BY <1>2, <2>2, <2>3 DEF BindMain, DepsRemain, This
  <2>c. HandleOK(obj, e.h)
    BY <1>0, <1>a, <2>1, <2>2, TopAt
  <2>5. LoadOK(ob, f) /\ Succeeds(e, f) /\ HandleOK(ob, e.h)
    BY <1>0, <2>2, <2>b, <2>c, <2>4, BoundNext
  <2>6. Over(ob, Under(t), Top(t)) => Over(ob, Under(t), f)
    BY <2>2, <2>5, OverNext
  <2>7. Stacked(t, Under(t), f, f) /\ ~BindDep(t)
    BY <2>1, <2>4, NewStack DEF BindDep, At
  <2>8. Sound(t)
    BY <1>1, <2>1, <2>5, <2>6, <2>7, SoundTop
  <2> QED BY <1>1, <2>2, <2>5, <2>7, <2>8
<1>3. CASE BindDep(t)
  <2>1. /\ Len(stack[t]) > 1 /\ Caller(t).pc = "deps"
        /\ Top(t).pc = "done" /\ Top(t).h # Null /\ Running(t)
    BY <1>3 DEF BindDep, CalledFrom, At
  <2>2. PICK e \in Shaped : e = Caller(t) /\ e.pc = "deps" /\ LoadOK(obj, e)
    BY <1>0, <2>1, CallerAt, CallerFrame DEF LoadsOK
  <2>3. PICK d : d = Top(t).h
    OBVIOUS
  <2>4. CallOK(obj, e, Top(t))
    <3>1. PICK n \in Nat : n = Len(stack[t]) /\ n \in 2 .. n
      BY <1>0, <2>1
    <3>2. stack[t][n] = Top(t) /\ stack[t][n - 1] = e
      BY <2>2, <3>1 DEF Top, Caller
    <3> QED BY <1>0, <3>1, <3>2 DEF CallsOK
  <2>5. /\ d \in Handle /\ e.i \in 1 .. Len(Needed(e))
        /\ <<Needed(e)[e.i], obj[d].path>> \in Inside
    BY <2>1, <2>2, <2>3, <2>4 DEF CallOK
  <2>6. Serves(obj, Needed(e)[e.i], d) /\ e.i <= Len(Needed(e))
    BY <2>5, LoaderAssumption DEF Serves
  <2>7. PICK f : f = [e EXCEPT !.i = e.i + 1]
    OBVIOUS
  <2>a. e.h \in Handle
    BY <2>2 DEF Shaped, LoadPC
  <2>b. BindsOne(ob, e, d, f)
    <3>1. PICK v : v = Append(obj[e.h].deps, d)
      OBVIOUS
    <3>2. ob = [obj EXCEPT ![e.h].deps = v]
      BY <1>0, <1>1, <1>3, <2>2, <2>3, <2>a, <3>1 DEF BindDep
    <3> QED BY <2>7, <3>1, <3>2 DEF BindsOne
  <2>8. ReturnTo(t, f)
    BY <1>3, <2>2, <2>7 DEF BindDep
  <2>c. HandleOK(obj, e.h)
    BY <1>0, <1>a, <2>1, <2>2, CallerAt
  <2>9. LoadOK(ob, f) /\ Succeeds(e, f) /\ HandleOK(ob, e.h)
    BY <1>0, <2>2, <2>5, <2>6, <2>b, <2>c, BoundNext
  <2>10. Stacked(t, UnderCaller(t), f, f) /\ ~BindMain(t)
    BY <2>1, <2>8, NewStack DEF BindMain, DepsRemain, At
  <2>11. Sound(t)
    BY <1>1, <2>1, <2>2, <2>9, <2>10, SoundReturn
  <2> QED BY <1>1, <2>2, <2>9, <2>10, <2>11
<1> QED BY <1>2, <1>3

-----------------------------------------------------------------------------
(* What was given back is not taken again.                                 *)
LEMMA ReleasedGrows ==
  ASSUME Rest, Stacks, NEW t \in Thread, NEW h \in alive,
         Linked(h) \/ (ReleaseDep(t) /\ h = Top(t).h)
  PROVE  /\ obj[h].released \in Nat /\ obj'[h].released \in Nat
         /\ obj'[h].released >= obj[h].released
<1>0. h \in Handle
  BY DEF Rest
<1>1. PICK ob : ob = obj'
  OBVIOUS
<1>2. obj[h].released \in Nat
  BY <1>0, ObjectFields
<1>3. CASE Linked(h)
  BY <1>2, <1>3 DEF Linked
<1>4. CASE ReleaseDep(t) /\ h = Top(t).h
  <2>1. Running(t) /\ Top(t).i \in Nat
    BY <1>4, TopShape DEF ReleaseDep, At
  <2>2. PICK v : v = IF obj[h].released < Top(t).i THEN Top(t).i ELSE obj[h].released
    OBVIOUS
  <2>3. ob = [obj EXCEPT ![h].released = v]
    BY <1>0, <1>1, <1>4, <2>2 DEF ReleaseDep, Rest
  <2>4. obj \in [Handle -> Object]
    BY DEF Rest
  <2>5. ob[h].released = v
    BY <1>0, <2>3, <2>4 DEF Object
  <2> QED BY <1>1, <1>2, <2>1, <2>2, <2>5
<1> QED BY <1>3, <1>4

(* Names and entries of the objects that were there before the step.       *)
LEMMA HandleKept ==
  ASSUME NEW t \in Thread, Tidy(t), DInv, NEW h \in alive, h \in alive',
         ~(BindMain(t) /\ h = Top(t).h), ~(BindDep(t) /\ h = Caller(t).h)
  PROVE  HandleOK(obj', h)
<1>0. /\ Safe /\ Rest /\ Stacks /\ Effect(t) /\ Relinks(t) /\ members' = alive'
      /\ members = alive /\ HandleOK(obj, h) /\ h \in Handle
  BY TidyFacts DEF DInv, RInv, Rest
<1>1. PICK ob : ob = obj'
  OBVIOUS
<1>2. /\ ob[h].path = obj[h].path /\ ob[h].image = obj[h].image
      /\ ob[h].deps = obj[h].deps
      /\ Linked(h) \/ (ReleaseDep(t) /\ h = Top(t).h)
  BY <1>0, <1>1 DEF Relinks, SameName, Linked
<1>3. obj[h].released \in Nat /\ ob[h].released \in Nat
      /\ ob[h].released >= obj[h].released
  BY <1>0, <1>1, <1>2, ReleasedGrows
<1>4. PICK ds \in Seq(Handle \cup {Main}) : ds = obj[h].deps
  BY <1>0, ObjectFields
<1>5. ASSUME NEW k \in 1 .. Len(ds), k > ob[h].released, ds[k] # Main
      PROVE  \E n \in 1 .. Len(Needs[ob[h].image]) :
               Serves(ob, Needs[ob[h].image][n], ds[k])
  <2>1. k > obj[h].released
    BY <1>3, <1>4, <1>5
  <2>2. PICK n \in 1 .. Len(Needs[obj[h].image]) :
          Serves(obj, Needs[obj[h].image][n], ds[k])
    BY <1>0, <1>4, <1>5, <2>1 DEF HandleOK, EntryOK
  <2>3. ds[k] \in alive /\ obj[ds[k]].refc > 0
    BY <1>0, <1>4, <1>5, <2>1, EntryAlive
  <2>4. ob[ds[k]].path = obj[ds[k]].path
    BY <1>0, <1>1, <2>3, NameKept DEF SameName
  <2> QED BY <1>2, <2>2, <2>4 DEF Serves
<1>6. ob[h].path \in {NoPath, ob[h].image}
  BY <1>0, <1>2 DEF HandleOK
<1> QED BY <1>1, <1>2, <1>4, <1>5, <1>6 DEF HandleOK, EntryOK

LEMMA StepSound ==
  ASSUME Reliable, NEW t \in Thread, Tidy(t), DInv, obj' \in [Handle -> Object],
         Call(t) \/ Step(t)
  PROVE  stack' = stack \/ Sound(t)
<1>1. ~crashed' /\ ~KeepUnfreed(t) /\ ~PassUnreferred(t)
  BY TidyFacts, NeverHappens DEF Effect
<1>2. ~CreateFilledAfterFree(t) /\ ~UseAfterFree(t)
  BY <1>1 DEF CreateFilledAfterFree, UseAfterFree
<1>3. CASE Call(t)
  BY <1>3, CallSound
<1>4. CASE Load(t)
  BY <1>2, <1>4, HitSound, MissSound, CreateSound, LoadSound, InitialiseSound,
     MapSound, OpenDepSound, BindSound, ReturnSound DEF Load
<1>5. CASE Unload(t)
  BY <1>1, <1>5, UnloadSound, ReturnSound, PopSound DEF Unload
<1>6. CASE ReturnToProgram(t)
  BY <1>6, PopSound
<1> QED BY <1>2, <1>3, <1>4, <1>5, <1>6 DEF Step

(* What an object has got is taken from it when nobody refers to it, or    *)
(* with the load that it got it from.                                      *)
LEMMA UsedKept ==
  ASSUME NEW t \in Thread, Tidy(t), Marks(t), DInv, NEW h \in alive, h \in alive'
  PROVE  UsedOK(obj', h)
<1>0. /\ Safe /\ Stacks /\ Rest /\ Effect(t) /\ Relinks(t) /\ Repages(t)
      /\ members = alive /\ members' = alive' /\ UsedOK(obj, h) /\ h \in Handle
  BY TidyFacts DEF DInv, RInv, Rest
<1> SUFFICES ASSUME obj'[h].fini, obj'[h].refc > 0
             PROVE  obj'[h].pages = "mapped" /\ obj'[h].released = 0
  BY DEF UsedOK
<1>1. obj[h].refc > 0
  BY <1>0, StillReferred
<1>2. CASE ~obj[h].fini
  <2>1. Initialise(t)
    <3>1. ~Unmarked(h) /\ ~Finalise(t) => Initialise(t)
      BY DEF Marks
    <3>2. ~Finalise(t)
      <4> SUFFICES ASSUME Finalise(t)
                   PROVE  FALSE
        OBVIOUS
      <4>1. PICK d : d = Top(t).h
        OBVIOUS
      <4>2. PICK v : v = IF This(t).fini THEN obj[d].finis + 1 ELSE obj[d].finis
        OBVIOUS
      <4>3. obj' = [obj EXCEPT ![d].finis = v] /\ obj \in [Handle -> Object]
        BY <1>0, <4>1, <4>2 DEF Finalise, Rest
      <4>4. obj'[h].fini = obj[h].fini
        BY <1>0, <4>3 DEF Object
      <4> QED BY <1>2, <4>4
    <3> QED BY <1>2, <3>1, <3>2 DEF Unmarked
  <2>2. Running(t) /\ Top(t).pc = "init"
    BY <2>1 DEF Initialise, At
  <2>3. PICK e \in Shaped, d \in Handle : e = Top(t) /\ e.pc = "init" /\ d = e.h
    BY <1>0, <2>2, TopShape DEF LoadPC
  <2>4. LoadOK(obj, e)
    BY <1>0, <2>2, <2>3, TopAt DEF DInv, LoadsOK
  <2>5. PICK ob : ob = obj'
    OBVIOUS
  <2>6. ob = [obj EXCEPT ![d].fini = TRUE] /\ obj \in [Handle -> Object]
    BY <1>0, <2>1, <2>3, <2>5 DEF Initialise, Rest
  <2>7. h = d
    BY <1>0, <1>2, <2>5, <2>6
  <2>8. ob[d].pages = "mapped" /\ ob[d].released = 0
    <3>1. obj[d].pages = "mapped" /\ obj[d].released = 0
      BY <2>3, <2>4 DEF LoadOK, BoundOK, MappedPC, EarlyPC, LoadPC
    <3> QED BY <2>6, <3>1 DEF Object
  <2> QED BY <2>5, <2>7, <2>8
<1>3. CASE obj[h].fini
  <2>1. obj[h].pages = "mapped" /\ obj[h].released = 0
    BY <1>0, <1>1, <1>3 DEF UsedOK
  <2>2. \A u \in Thread : \A k : ~Loads(u, k, h)
    BY <1>3, TidyFacts DEF LoadsUnrecorded
  <2>3. ~(Running(t) /\ Top(t).pc \in UnloadPC /\ h = Top(t).h)
    BY <1>1, <2>2, UndoesLoad
  <2>4. ~(Running(t) /\ Top(t).pc = "map" /\ h = Top(t).h)
    BY <1>0, <2>2, TopAt DEF Loads, LoadPC
  <2>5. SamePages(h)
    BY <1>0, <2>3, <2>4 DEF Repages, Map, MapFails, FreePages, Reclaim, At, UnloadPC
  <2>6. /\ ~(ReleaseDep(t) /\ h = Top(t).h)
        /\ ~(BindMain(t) /\ h = Top(t).h)
        /\ ~(BindDep(t) /\ h = Caller(t).h)
    <3>1. ~(Running(t) /\ Top(t).pc = "deps" /\ h = Top(t).h)
      BY <1>0, <2>2, TopAt DEF Loads, LoadPC
    <3>2. ~(Len(stack[t]) > 1 /\ Caller(t).pc = "deps" /\ h = Caller(t).h)
      BY <1>0, <2>2, CallerAt DEF Loads, LoadPC
    <3> QED BY <2>3, <3>1, <3>2 DEF ReleaseDep, BindMain, BindDep, DepsRemain,
                                    CalledFrom, At, UnloadPC
  <2>7. Linked(h)
    BY <1>0, <2>6 DEF Relinks
  <2>8. obj'[h].released = 0
    BY <2>1, <2>7 DEF Linked
  <2> QED BY <2>1, <2>5, <2>8 DEF SamePages
<1> QED BY <1>2, <1>3

LEMMA NewUnmarked ==
  ASSUME Rest, NEW t, Create(t), NEW h \in alive' \ alive
  PROVE  ~obj'[h].fini
<1>1. PICK o : o = FreshObject(Top(t).req)
  OBVIOUS
<1>2. obj' = [obj EXCEPT ![h] = o] /\ h \in Handle /\ ~o.fini
  BY <1>1 DEF Create, FreshObject
<1> QED BY <1>2 DEF Rest

LEMMA StepDInv ==
  ASSUME Reliable, "fini" \notin Callers
  PROVE  DInv /\ FInv /\ Safe /\ Safe' /\ [Next]_vars => DInv'
<1> SUFFICES ASSUME DInv, FInv, Safe, Safe', [Next]_vars
             PROVE  DInv'
  OBVIOUS
<1>0. /\ IInv /\ RInv /\ Rest /\ LoadsAlone
      /\ obj' \in [Handle -> Object] /\ members' = alive'
  BY DEF Safe, FInv, IInv, RInv, Rest
<1>1. CASE UNCHANGED vars
  BY <1>1 DEF vars, DInv
<1>2. ASSUME NEW t \in Thread, Call(t) \/ Step(t), Effect(t), Follows(t)
      PROVE  DInv'
  <2>1. Relinks(t) /\ (members' \subseteq members \/ Create(t))
    BY <1>0, <1>2, StepLinks DEF IInv
  <2>2. Tidy(t) /\ Marks(t)
    BY <1>0, <1>2, <2>1, StepPages DEF Tidy, FInv, Follows
  <2>3. ASSUME NEW u \in Thread
        PROVE  Deep(obj', stack'[u])
    <3>1. CASE stack'[u] = stack[u] /\ ~BindMain(t) /\ ~BindDep(t)
      BY <2>2, <2>3, <3>1, StacksKept DEF Deep, LoadsOK, Binds
    <3>2. CASE stack'[u] = stack[u] /\ u # t
      BY <2>2, <2>3, <3>2, StacksKept DEF Deep, LoadsOK, Binds
    <3>3. CASE Sound(t)
      BY <3>2, <3>3 DEF Sound
    <3>4. CASE BindMain(t) \/ BindDep(t)
      BY <2>2, <3>3, <3>4, BindSound
    <3> QED BY <1>0, <1>2, <2>2, <3>1, <3>3, <3>4, StepSound
  <2>4. ASSUME NEW h \in alive'
        PROVE  HandleOK(obj', h) /\ UsedOK(obj', h)
    <3>1. CASE h \notin alive
      <4>1. Create(t)
        BY <1>0, <2>1, <2>4, <3>1 DEF RInv
      <4>2. HandleOK(obj', h)
        BY <2>2, <2>4, <3>1, <4>1, CreateSound
      <4>3. ~obj'[h].fini
        BY <1>0, <2>4, <3>1, <4>1, NewUnmarked
      <4> QED BY <4>2, <4>3 DEF UsedOK
    <3>2. CASE h \in alive
      BY <2>2, <2>4, <3>2, HandleKept, BindSound, UsedKept
    <3> QED BY <3>1, <3>2
  <2> QED BY <2>3, <2>4 DEF DInv, Deep
<1> QED BY <1>1, <1>2, StepFollows

LEMMA InitDInv == Init => DInv
<1> SUFFICES ASSUME Init
             PROVE  DInv
  OBVIOUS
<1>1. alive = {} /\ \A t \in Thread : stack[t] = <<>>
  BY DEF Init
<1>2. \A t \in Thread : Len(stack[t]) = 0
  BY <1>1
<1> QED BY <1>1, <1>2 DEF DInv, LoadsOK, CallsOK

LEMMA SpecDInv ==
  ASSUME Reliable, "fini" \notin Callers
  PROVE  Spec /\ GivesBackOnce => [](Safe /\ FInv /\ DInv)
<1>1. Init => FInv /\ DInv
  BY InitFInv, InitDInv
<1>2. FInv /\ DInv /\ Safe /\ Safe' /\ [Next]_vars => FInv' /\ DInv'
  BY StepFInv, StepDInv
<1> QED BY <1>1, <1>2, SpecSafe, PTL DEF Spec

(* An object that gets as far as its initialisers has bound all that its   *)
(* file needs, in order, and each dependency is an object whose path       *)
(* contains the one asked for: no failure, and no other thread that closes *)
(* what is being bound, leaves a gap.                                      *)
THEOREM DependenciesComplete ==
  ASSUME Reliable, "fini" \notin Callers
  PROVE  Spec /\ GivesBackOnce => []DepsComplete
<1>1. Safe /\ DInv => DepsComplete
  <2> SUFFICES ASSUME Safe, DInv, NEW t \in Thread, NEW k \in DOMAIN stack[t],
                      stack[t][k].pc = "init", ~stack[t][k].req.resolver
               PROVE  LET f == stack[t][k]
                      IN /\ Len(obj[f.h].deps) = Len(Needed(f))
                         /\ obj[f.h].path # NoPath => \A i \in DOMAIN Needed(f) :
                              /\ obj[f.h].deps[i] # Main
                              /\ <<Needed(f)[i], obj[obj[f.h].deps[i]].path>> \in Inside
    BY DEF DepsComplete
  <2>1. stack[t] \in Seq(Shaped)
    BY DEF Safe, IInv, Stacks
  <2>2. PICK f \in Shaped : f = stack[t][k] /\ LoadOK(obj, f)
    BY <2>1 DEF DInv, LoadsOK
  <2>3. BoundOK(obj, f)
    BY <2>2 DEF LoadOK, EarlyPC, LoadPC
  <2>4. Needed(f) \in Seq(Path)
    <3>1. f.req \in Request
      BY <2>2 DEF Shaped, LoadPC
    <3> QED BY <3>1, LoaderAssumption DEF Needed, Request
  <2>5. DOMAIN Needed(f) = 1 .. Len(Needed(f))
    BY <2>4
  <2> QED BY <2>2, <2>3, <2>5 DEF BoundOK, Serves
<1> QED BY <1>1, SpecDInv, PTL

(* What an initialised object depends on stays: a dependency is not given  *)
(* back before the object is unloaded, and until then it is not finalised  *)
(* and not unmapped.  (That it is initialised, too, is DepsReady.)         *)
THEOREM DependenciesStay ==
  ASSUME Reliable, "fini" \notin Callers
  PROVE  Spec /\ GivesBackOnce => []DepsStay
<1>1. Safe /\ FInv /\ DInv => DepsStay
  <2> SUFFICES ASSUME Safe, FInv, DInv, NEW h \in Handle, Initialised(h),
                      obj[h].refc > 0, NEW k \in DOMAIN obj[h].deps,
                      NEW d, d = obj[h].deps[k], d # Main
               PROVE  /\ obj[d].refc > 0
                      /\ obj[d].fini => Initialised(d) /\ obj[d].pages = "mapped"
    BY DEF DepsStay
  <2>1. h \in alive /\ obj[h].released = 0
    BY DEF Initialised, DInv, UsedOK
  <2>2. k \in 1 .. Len(obj[h].deps)
    <3>1. obj[h].deps \in Seq(Handle \cup {Main})
      BY ObjectFields DEF Safe, IInv
    <3> QED BY <3>1
  <2>3. k > obj[h].released
    BY <2>1, <2>2
  <2>4. d \in alive /\ obj[d].refc > 0
    BY <2>1, <2>2, <2>3, EntryAlive
  <2>5. obj[d].finis = 0
    BY <2>4 DEF FInv, FinalisedLast
  <2>6. UsedOK(obj, d)
    BY <2>4 DEF DInv
  <2> QED BY <2>4, <2>5, <2>6 DEF UsedOK, Initialised
<1> QED BY <1>1, SpecDInv, PTL

(* No file needs itself, by way of the objects that serve what it needs.   *)
Ascends(rank) ==
  \A p, q \in Path : \A n \in 1 .. Len(Needs[p]) :
    <<Needs[p][n], q>> \in Inside => rank[p] < rank[q]
Ordered == \E rank \in [Path -> Nat] : Ascends(rank)

LEMMA RestEmpty ==
  ASSUME Ordered, Safe, DInv, \A t \in Thread : ~Running(t),
         \A h \in Handle : held[h] = 0
  PROVE  members = {}
<1> SUFFICES ASSUME members # {}
             PROVE  FALSE
  OBVIOUS
<1>0. /\ members = alive /\ Rest /\ RInv /\ CInv /\ Stacks
      /\ \A h \in alive : h \in Handle /\ obj[h] \in Object
  BY DEF Safe, IInv, RInv, Rest
<1>1. PICK rank \in [Path -> Nat] : Ascends(rank)
  BY DEF Ordered
<1>2. PICK N : N = {rank[obj[h].image] : h \in alive}
  OBVIOUS
<1>3. N \subseteq Nat /\ N # {}
  <2>1. \A h \in alive : obj[h].image \in Path
    BY <1>0 DEF Object
  <2> QED BY <1>0, <1>1, <1>2, <2>1
<1>4. PICK m \in N : \A j \in N : ~(j < m)
  <2>1. IsWellFoundedOn(OpToRel(<, Nat), Nat)
    BY NatLessThanWellFounded
  <2>2. PICK m \in N : \A j \in N : <<j, m>> \notin OpToRel(<, Nat)
    BY <1>3, <2>1, WFMin, Zenon
  <2> QED BY <1>3, <2>2 DEF OpToRel
<1>5. PICK d \in alive : m = rank[obj[d].image]
  BY <1>2
<1>6. \A t \in Thread : Len(stack[t]) = 0
  BY DEF Running
<1>7. obj[d].refc # 0
  BY <1>0, <1>5, <1>6 DEF CInv, Attended, Unlocking
<1>8. Entries(stack, d, RefPC) = {}
  <2>1. \A t \in Thread : DOMAIN stack[t] = {}
    BY DEF Running
  <2> QED BY <2>1 DEF Entries
<1>9. DepEntries(alive, obj, d) # {}
  <2>1. PICK D : D = DepEntries(alive, obj, d)
    OBVIOUS
  <2>2. obj[d].refc = 0 + 0 + Cardinality(D)
    BY <1>0, <1>5, <1>8, <2>1, FS_EmptySet DEF RInv, RInvOf, Exact, Count
  <2> QED BY <1>7, <2>1, <2>2, FS_EmptySet
<1>10. PICK g \in alive : \E k \in 1 .. Len(obj[g].deps) :
         k > obj[g].released /\ obj[g].deps[k] = d
  <2>1. Memory(alive, obj)
    BY <1>0 DEF Rest, Memory
  <2> QED BY <1>9, <2>1, DepIs
<1>11. d # Main
  BY <1>0, LoaderAssumption
<1>12. PICK n \in 1 .. Len(Needs[obj[g].image]) :
         <<Needs[obj[g].image][n], obj[d].path>> \in Inside
  BY <1>10, <1>11 DEF DInv, HandleOK, EntryOK, Serves
<1>13. obj[d].path = obj[d].image
  <2>1. obj[d].path \in Path /\ NoPath \notin Path
    BY <1>12, LoaderAssumption
  <2> QED BY <2>1 DEF DInv, HandleOK
<1>14. rank[obj[g].image] < m
  <2>1. obj[g].image \in Path /\ obj[d].image \in Path
    BY <1>0 DEF Object
  <2> QED BY <1>1, <1>5, <1>12, <1>13, <2>1 DEF Ascends
<1> QED BY <1>2, <1>4, <1>14

(* When the program has closed what it opened and no call is under way,    *)
(* every object has been unloaded: no failure and no order of calls loses  *)
(* a reference.  Files that need each other keep each other open.          *)
THEOREM ClosedIsUnloaded ==
  ASSUME Reliable, "fini" \notin Callers, Ordered
  PROVE  Spec /\ GivesBackOnce => []NothingLeaks
<1>1. Safe /\ DInv => NothingLeaks
  BY RestEmpty DEF NothingLeaks
<1> QED BY <1>1, SpecDInv, PTL
-----------------------------------------------------------------------------
(* With one thread, whose initialisers do not call the loader, the loads   *)
(* under way wait for each other, and ranks grow from the call below to    *)
(* the one above.  What a call hands out is initialised.                   *)
ActivePC == OpenPC \cup LoadPC
Below(rank, c, f) ==
  f.pc \in ActivePC \cup {"enum"} =>
    /\ c.pc \in {"deps", "enum"}
    /\ f.pc = "enum" => c.pc = "enum"
    /\ c.pc = "deps" => rank[c.req.image] < rank[f.req.image]
Handed(ob, f) == f.pc = "done" /\ f.h \in Handle => ob[f.h].fini

Neat(rank, ob, s) ==
  /\ \A k \in 1 .. Len(s) : \A j \in 1 .. k - 1 : Below(rank, s[j], s[k])
  /\ \A k \in 1 .. Len(s) : Handed(ob, s[k])
Above(rank, b, f) == \A j \in 1 .. Len(b) : Below(rank, b[j], f)

(* What was bound and not given back is initialised.                       *)
ReadyOK(ob, h) ==
  \A k \in 1 .. Len(ob[h].deps) :
    k > ob[h].released /\ ob[h].deps[k] # Main => ob[ob[h].deps[k]].fini

AInv(rank) ==
  /\ \A t \in Thread : Neat(rank, obj, stack[t])
  /\ \A h \in Handle : held[h] > 0 => obj[h].fini
  /\ \A h \in alive : ReadyOK(obj, h)

LEMMA NeatPush ==
  ASSUME NEW S, NEW b \in Seq(S), NEW rank, NEW ob, Neat(rank, ob, b),
         NEW f, Above(rank, b, f), Handed(ob, f)
  PROVE  Neat(rank, ob, Append(b, f))
<1>1. PICK r : r = Append(b, f)
  OBVIOUS
<1>2. PICK n \in Nat : n = Len(b)
  OBVIOUS
<1>3. Len(r) = n + 1 /\ r[n + 1] = f /\ \A k \in 1 .. n : r[k] = b[k]
  BY <1>1, <1>2, PushAt
<1>4. ASSUME NEW k \in 1 .. n + 1
      PROVE  Handed(ob, r[k]) /\ \A j \in 1 .. k - 1 : Below(rank, r[j], r[k])
  <2>1. CASE k \in 1 .. n
    <3>1. r[k] = b[k] /\ \A j \in 1 .. k - 1 : j \in 1 .. n
      BY <1>3, <2>1
    <3> QED BY <1>2, <1>3, <2>1, <3>1 DEF Neat
  <2>2. CASE k = n + 1
    <3>1. r[k] = f /\ \A j \in 1 .. k - 1 : j \in 1 .. n
      BY <1>3, <2>2
    <3> QED BY <1>2, <1>3, <3>1 DEF Above
  <2> QED BY <1>4, <2>1, <2>2
<1> QED BY <1>1, <1>3, <1>4 DEF Neat

LEMMA NeatStep ==
  ASSUME Stacks, NEW t \in Thread, NEW b \in Seq(Shaped), NEW rank, NEW ob,
         Neat(rank, ob, b), NEW f, NEW g, Above(rank, b, f), Handed(ob, f), Idle(g),
         Stacked(t, b, f, g)
  PROVE  Neat(rank, ob, stack'[t])
<1>1. PICK r : r = Append(b, f)
  OBVIOUS
<1>2. PICK S : S = Shaped \cup {f}
  OBVIOUS
<1>3. PICK q : q = Append(r, g)
  OBVIOUS
<1>4. r \in Seq(S)
  BY <1>1, <1>2, PushAt
<1>5. Neat(rank, ob, r)
  BY <1>1, NeatPush
<1>6. Above(rank, r, g) /\ Handed(ob, g)
  BY DEF Above, Below, Handed, Idle, ActivePC
<1>7. Neat(rank, ob, q)
  BY <1>3, <1>4, <1>5, <1>6, NeatPush
<1>8. stack'[t] \in {b, r, q}
  <2>1. \/ stack' = [stack EXCEPT ![t] = b]
        \/ stack' = [stack EXCEPT ![t] = r]
        \/ stack' = [stack EXCEPT ![t] = q]
    BY <1>1, <1>3 DEF Stacked
  <2>2. stack \in [Thread -> Seq(Shaped)]
    BY DEF Stacks
  <2>3. \A c : stack' = [stack EXCEPT ![t] = c] => stack'[t] = c
    BY <2>2, Zenon
  <2> QED BY <2>1, <2>3
<1> QED BY <1>5, <1>7, <1>8

LEMMA NeatUnder ==
  ASSUME Stacks, NEW t \in Thread, Running(t), NEW rank, NEW ob,
         Neat(rank, ob, stack[t])
  PROVE  /\ Under(t) \in Seq(Shaped) /\ Neat(rank, ob, Under(t))
         /\ Above(rank, Under(t), Top(t)) /\ Handed(ob, Top(t))
<1>1. PICK n \in Nat \ {0} : n = Len(stack[t]) /\ stack[t][n] = Top(t)
  BY UnderAt, TopAt
<1>2. PICK b \in Seq(Shaped) :
        b = Under(t) /\ Len(b) = n - 1 /\ \A k \in 1 .. n - 1 : b[k] = stack[t][k]
  BY <1>1, UnderAt
<1>3. \A k \in 1 .. n - 1 :
        k \in 1 .. n /\ \A j \in 1 .. k - 1 : j \in 1 .. n - 1
  BY <1>1
<1>4. Neat(rank, ob, b)
  BY <1>1, <1>2, <1>3 DEF Neat
<1>5. n \in 1 .. n
  BY <1>1
<1> QED BY <1>1, <1>2, <1>4, <1>5 DEF Neat, Above

LEMMA NeatUnderCaller ==
  ASSUME Stacks, NEW t \in Thread, Len(stack[t]) > 1, NEW rank, NEW ob,
         Neat(rank, ob, stack[t])
  PROVE  /\ UnderCaller(t) \in Seq(Shaped) /\ Neat(rank, ob, UnderCaller(t))
         /\ Above(rank, UnderCaller(t), Caller(t)) /\ Handed(ob, Caller(t))
<1>1. PICK n \in Nat : n = Len(stack[t]) /\ n > 1 /\ stack[t][n - 1] = Caller(t)
  BY UnderCallerAt, CallerAt
<1>2. PICK b \in Seq(Shaped) :
        /\ b = UnderCaller(t) /\ Len(b) = n - 2
        /\ \A k \in 1 .. n - 2 : b[k] = stack[t][k]
  BY <1>1, UnderCallerAt
<1>3. \A k \in 1 .. n - 2 :
        k \in 1 .. n /\ \A j \in 1 .. k - 1 : j \in 1 .. n - 2
  BY <1>1
<1>4. Neat(rank, ob, b)
  BY <1>1, <1>2, <1>3 DEF Neat
<1>5. n - 1 \in 1 .. n /\ (n - 1) - 1 = n - 2
  BY <1>1
<1>6. \A j \in 1 .. n - 2 : Below(rank, stack[t][j], stack[t][n - 1])
  BY <1>1, <1>5 DEF Neat
<1>7. Handed(ob, stack[t][n - 1])
  BY <1>1, <1>5 DEF Neat
<1> QED BY <1>1, <1>2, <1>4, <1>6, <1>7 DEF Above

(* A frame that goes on as f, and one that is entered.                     *)
Descends(ob, e, f) ==
  /\ f.pc \in ActivePC => e.pc \in ActivePC /\ f.req = e.req
  /\ f.pc # "enum" /\ Handed(ob, f)

LEMMA NeatMove ==
  ASSUME Stacks, NEW t \in Thread, NEW rank, NEW ob, Neat(rank, ob, stack[t]),
         NEW f, NEW g, Idle(g),
         \/ Running(t) /\ Descends(ob, Top(t), f) /\ Stacked(t, Under(t), f, g)
         \/ /\ Len(stack[t]) > 1 /\ Descends(ob, Caller(t), f)
            /\ Stacked(t, UnderCaller(t), f, g)
  PROVE  Neat(rank, ob, stack'[t])
<1>1. ASSUME NEW b \in Seq(Shaped), NEW e, Neat(rank, ob, b), Above(rank, b, e),
             Descends(ob, e, f), Stacked(t, b, f, g)
      PROVE  Neat(rank, ob, stack'[t])
  <2>1. Above(rank, b, f) /\ Handed(ob, f)
    BY <1>1 DEF Above, Below, Descends
  <2> QED BY <1>1, <2>1, NeatStep
<1>2. CASE Running(t) /\ Descends(ob, Top(t), f) /\ Stacked(t, Under(t), f, g)
  BY <1>1, <1>2, NeatUnder
<1>3. CASE /\ Len(stack[t]) > 1 /\ Descends(ob, Caller(t), f)
           /\ Stacked(t, UnderCaller(t), f, g)
  BY <1>1, <1>3, NeatUnderCaller
<1> QED BY <1>2, <1>3

LEMMA NeatProceed ==
  ASSUME Stacks, NEW t \in Thread, NEW rank, NEW ob, Neat(rank, ob, stack[t]),
         Proceeds(t)
  PROVE  Neat(rank, ob, stack'[t])
<1>1. PICK f, g :
        /\ Idle(g)
        /\ \/ Running(t) /\ Advances(Top(t), f) /\ Stacked(t, Under(t), f, g)
           \/ /\ Len(stack[t]) > 1 /\ Advances(Caller(t), f)
              /\ Stacked(t, UnderCaller(t), f, g)
  BY DEF Proceeds
<1>2. \A e : Advances(e, f) => Descends(ob, e, f)
  BY DEF Advances, Descends, Handed, Idle, ActivePC, OpenPC, LoadPC
<1> QED BY <1>1, <1>2, NeatMove

LEMMA NeatEnter ==
  ASSUME Stacks, NEW t \in Thread, NEW rank, NEW ob, Neat(rank, ob, stack[t]),
         NEW f, Above(rank, stack[t], f), Handed(ob, f), Enter(t, f)
  PROVE  Neat(rank, ob, stack'[t])
<1>1. PICK b \in Seq(Shaped) : b = stack[t]
  BY DEF Stacks
<1>2. PICK r : r = Append(b, f)
  OBVIOUS
<1>3. Neat(rank, ob, r)
  BY <1>1, <1>2, NeatPush
<1>4. stack'[t] = r
  BY <1>1, <1>2 DEF Enter, Stacks
<1> QED BY <1>3, <1>4

(* What was initialised stays so as long as it is referred to.             *)
LEMMA FiniKept ==
  ASSUME Rest, NEW t, Marks(t), NEW h \in alive, h \in alive', obj[h].fini
  PROVE  obj'[h].fini
<1>0. obj \in [Handle -> Object] /\ h \in Handle
  BY DEF Rest
<1>1. PICK d : d = Top(t).h
  OBVIOUS
<1>2. PICK ob : ob = obj'
  OBVIOUS
<1>3. CASE Finalise(t)
  <2>1. PICK v : v = IF This(t).fini THEN obj[d].finis + 1 ELSE obj[d].finis
    OBVIOUS
  <2>2. ob = [obj EXCEPT ![d].finis = v]
    BY <1>0, <1>1, <1>2, <1>3, <2>1 DEF Finalise
  <2>3. ob[h].fini = obj[h].fini
    BY <1>0, <2>2 DEF Object
  <2> QED BY <1>2, <2>3
<1>4. CASE Initialise(t)
  <2>1. ob = [obj EXCEPT ![d].fini = TRUE]
    BY <1>0, <1>1, <1>2, <1>4 DEF Initialise
  <2>2. ob[h].fini
    BY <1>0, <2>1 DEF Object
  <2> QED BY <1>2, <2>2
<1> QED BY <1>3, <1>4 DEF Marks, Unmarked

LEMMA NeatKept ==
  ASSUME NEW t \in Thread, Tidy(t), Marks(t), NEW rank, NEW u \in Thread,
         Neat(rank, obj, stack[u])
  PROVE  Neat(rank, obj', stack[u])
<1>0. IInv /\ RInv /\ Rest /\ Safe
  BY TidyFacts
<1>1. ASSUME NEW k \in 1 .. Len(stack[u])
      PROVE  Handed(obj', stack[u][k])
  <2> SUFFICES ASSUME stack[u][k].pc = "done", stack[u][k].h \in Handle
               PROVE  obj'[stack[u][k].h].fini
    BY DEF Handed
  <2>1. PICK h \in Handle : h = stack[u][k].h
    OBVIOUS
  <2>2. h \in alive /\ obj[h].refc > 0
    BY <1>0, <1>1, <2>1, RefAlive DEF RefPC
  <2>3. h \in alive'
    BY <2>2, NameKept, TidyFacts
  <2>4. obj[h].fini
    BY <1>1, <2>1 DEF Neat, Handed
  <2> QED BY <1>0, <2>1, <2>2, <2>3, <2>4, FiniKept
<1> QED BY <1>1 DEF Neat

(* An object that is not initialised is referred to by calls only.         *)
LEMMA UnreadyCount ==
  ASSUME Safe, NEW rank, AInv(rank), NEW h \in alive, ~obj[h].fini
  PROVE  obj[h].refc = Cardinality(Entries(stack, h, RefPC))
<1>0. /\ IInv /\ RInv /\ Rest /\ h \in Handle
      /\ stack \in [Thread -> Seq(Shaped)]
  BY DEF Safe, IInv, Rest, Stacks
<1>1. PICK D : D = DepEntries(alive, obj, h)
  OBVIOUS
<1>2. PICK E : E = Entries(stack, h, RefPC)
  OBVIOUS
<1>3. obj[h].refc = held[h] + Cardinality(E) + Cardinality(D)
  BY <1>0, <1>1, <1>2 DEF RInv, RInvOf, Exact, Count
<1>4. held[h] = 0
  <2>1. held[h] \in Nat /\ ~(held[h] > 0)
    BY <1>0 DEF AInv, Rest
  <2> QED BY <2>1
<1>5. D = {}
  <2> SUFFICES ASSUME NEW x \in D
               PROVE  FALSE
    OBVIOUS
  <2>1. Memory(alive, obj)
    BY <1>0 DEF Rest, Memory
  <2>2. PICK g \in alive : \E k \in 1 .. Len(obj[g].deps) :
          k > obj[g].released /\ obj[g].deps[k] = h
    BY <1>1, <2>1, DepIs
  <2>3. h # Main
    BY <1>0, LoaderAssumption
  <2> QED BY <2>2, <2>3 DEF AInv, ReadyOK
<1>6. Cardinality(D) = 0
  BY <1>5, FS_EmptySet
<1>7. IsFiniteSet(E)
  BY <1>0, <1>2 DEF RInv, RInvOf, Finite
<1>8. Cardinality(E) \in Nat
  BY <1>7, FS_CardinalityType
<1> QED BY <1>2, <1>3, <1>4, <1>6, <1>8

(* Who has an object that is not initialised: the call that loads it, or   *)
(* one that gives it back.                                                 *)
LEMMA UnreadyHeld ==
  ASSUME Safe, \A t, u \in Thread : t = u, NEW t \in Thread, NEW rank, AInv(rank),
         NEW h \in alive, ~obj[h].fini
  PROVE  \E k \in 1 .. Len(stack[t]) :
           stack[t][k].h = h /\ stack[t][k].pc \in LoadPC \cup UnlockPC
<1>0. /\ IInv /\ RInv /\ Rest /\ CInv /\ h \in Handle
      /\ stack \in [Thread -> Seq(Shaped)]
  BY DEF Safe, IInv, Rest, Stacks
<1>1. CASE obj[h].refc = 0
  <2>1. PICK u \in Thread : Unlocking(stack[u], h)
    BY <1>0, <1>1 DEF CInv, Attended
  <2>2. Unlocking(stack[t], h)
    BY <2>1
  <2> QED BY <2>2 DEF Unlocking, UnlockPC
<1>2. CASE obj[h].refc # 0
  <2>1. PICK E : E = Entries(stack, h, RefPC)
    OBVIOUS
  <2>2. E # {}
    BY <1>2, <2>1, UnreadyCount, FS_EmptySet
  <2>3. PICK u \in Thread : \E k \in 1 .. Len(stack[u]) : On(stack[u][k], h, RefPC)
    BY <1>0, <2>1, <2>2, EntryIs
  <2>4. PICK k \in 1 .. Len(stack[t]) : On(stack[t][k], h, RefPC)
    <3>1. u = t
      OBVIOUS
    <3> QED BY <2>3, <3>1
  <2>5. stack[t][k].pc # "done"
    BY <1>0, <2>4 DEF AInv, Neat, Handed, On
  <2> QED BY <2>4, <2>5 DEF On, RefPC, UnlockPC
<1> QED BY <1>1, <1>2

(* Where the program runs, no call has one.                                *)
LEMMA AllReady ==
  ASSUME Callers \subseteq {"enum"}, Safe, \A t, u \in Thread : t = u,
         NEW t \in Thread, NEW rank, AInv(rank), InProgram(t), NEW h \in alive
  PROVE  obj[h].fini
<1> SUFFICES ASSUME ~obj[h].fini
             PROVE  FALSE
  OBVIOUS
<1>0. Stacks
  BY DEF Safe, IInv
<1>1. PICK k \in 1 .. Len(stack[t]) :
        stack[t][k].h = h /\ stack[t][k].pc \in LoadPC \cup UnlockPC
  BY UnreadyHeld
<1>2. Running(t)
  BY <1>0, <1>1 DEF Running, Stacks
<1>3. Top(t).pc = "enum"
  BY <1>2 DEF InProgram
<1>4. PICK n \in Nat \ {0} : n = Len(stack[t]) /\ stack[t][n] = Top(t)
  BY <1>0, <1>2, UnderAt, TopAt
<1>5. k = n \/ k \in 1 .. n - 1
  BY <1>1, <1>4
<1>6. CASE k = n
  BY <1>1, <1>3, <1>4, <1>6 DEF LoadPC, UnlockPC
<1>7. CASE k \in 1 .. n - 1
  <2>1. n \in 1 .. n
    BY <1>4
  <2>2. Below(rank, stack[t][k], Top(t))
    BY <1>4, <1>7, <2>1 DEF AInv, Neat
  <2> QED BY <1>1, <1>3, <2>2 DEF Below, LoadPC, UnlockPC
<1> QED BY <1>5, <1>6, <1>7

(* And a search meets none that it may find: the loads below it need the   *)
(* file it looks for, or are themselves needed for it.                     *)
LEMMA FoundReady ==
  ASSUME Safe, DInv, \A t, u \in Thread : t = u, NEW t \in Thread,
         NEW rank \in [Path -> Nat], Ascends(rank), AInv(rank), At(t, "find"),
         NEW h \in members, Matches(h, Top(t).req.path)
  PROVE  obj[h].fini
<1> SUFFICES ASSUME ~obj[h].fini
             PROVE  FALSE
  OBVIOUS
<1>0. Stacks /\ Rest /\ h \in alive
  BY DEF Safe, IInv, RInv
<1>1. PICK k \in 1 .. Len(stack[t]) :
        stack[t][k].h = h /\ stack[t][k].pc \in LoadPC \cup UnlockPC
  BY <1>0, UnreadyHeld
<1>2. PICK s \in Seq(Shaped), n \in Nat \ {0} :
        s = stack[t] /\ n = Len(s) /\ s[n] = Top(t) /\ s[n].pc = "find"
  BY <1>0, UnderAt, TopAt DEF At, Stacks
<1>3. /\ \A j \in 1 .. n - 1 : Below(rank, s[j], s[n])
      /\ \A i \in 1 .. n : \A j \in 1 .. i - 1 : Below(rank, s[j], s[i])
  <2>1. n \in 1 .. n
    BY <1>2
  <2> QED BY <1>2, <2>1 DEF AInv, Neat
<1>4. k \in 1 .. n - 1
  <2>1. k # n
    BY <1>1, <1>2 DEF LoadPC, UnlockPC
  <2> QED BY <1>1, <1>2, <2>1
<1>5. s[k].pc = "deps"
  BY <1>1, <1>2, <1>3, <1>4 DEF Below, ActivePC, OpenPC, LoadPC, UnlockPC
<1>6. n - 1 \in 1 .. n - 1 /\ n - 1 \in 1 .. n /\ n \in 2 .. n
  BY <1>4
<1>7. PICK e \in Shaped : e = s[n - 1]
  BY <1>2, <1>6
<1>8. k = n - 1 \/ Below(rank, s[k], e)
  <2>1. k = n - 1 \/ k \in 1 .. (n - 1) - 1
    BY <1>2, <1>4
  <2> QED BY <1>3, <1>6, <1>7, <2>1
<1>9. e.pc = "deps"
  <2>1. e.pc \in {"deps", "enum"}
    BY <1>2, <1>3, <1>6, <1>7 DEF Below, ActivePC, OpenPC
  <2> QED BY <1>5, <1>7, <1>8, <2>1 DEF Below
<1>10. CallOK(obj, e, s[n])
  BY <1>2, <1>6, <1>7 DEF DInv, CallsOK
<1>11. e.i \in 1 .. Len(Needed(e)) /\ <<Needed(e)[e.i], obj[h].path>> \in Inside
  BY <1>2, <1>9, <1>10 DEF CallOK, OpenPC, Matches
<1>12. obj[h].path = obj[h].image
  BY <1>0 DEF DInv, HandleOK, Matches
<1>13. s[k].req.image = obj[h].image
  BY <1>1, <1>2, <1>5 DEF DInv, LoadsOK, LoadOK, LoadPC
<1>14. e.req.image \in Path /\ obj[h].image \in Path
  <2>1. e.req \in Request
    BY <1>9 DEF Shaped, LoadPC
  <2>2. obj[h] \in Object
    BY <1>0 DEF Rest
  <2> QED BY <2>1, <2>2 DEF Request, Object
<1>15. rank[e.req.image] < rank[obj[h].image]
  BY <1>11, <1>12, <1>14 DEF Ascends, Needed
<1>16. rank[obj[h].image] <= rank[e.req.image]
  <2>1. CASE k = n - 1
    BY <1>7, <1>13, <1>14, <2>1
  <2>2. CASE Below(rank, s[k], e)
    BY <1>5, <1>9, <1>13, <1>14, <2>2 DEF Below, ActivePC, LoadPC
  <2> QED BY <1>8, <2>1, <2>2
<1> QED BY <1>14, <1>15, <1>16

-----------------------------------------------------------------------------
(* The steps that go on otherwise: a search that hits, a load that begins, *)
(* binds, maps or ends ...                                                 *)
LEMMA GoesOn ==
  ASSUME NEW ob, NEW e, NEW f, e.pc \in ActivePC, f.pc \in LoadPC, f.req = e.req
  PROVE  Descends(ob, e, f)
BY DEF Descends, Handed, LoadPC

LEMMA HitNeat ==
  ASSUME \A t, u \in Thread : t = u, NEW t \in Thread, Tidy(t), Marks(t), DInv,
         NEW rank \in [Path -> Nat], Ascends(rank), AInv(rank), OpenHit(t)
  PROVE  Neat(rank, obj', stack'[t])
<1>0. Safe /\ Stacks /\ Rest /\ At(t, "find") /\ Running(t)
  BY TidyFacts DEF OpenHit, At
<1>1. PICK h \in members : Matches(h, Top(t).req.path) /\ Become(t, DoneFrame(h))
  BY DEF OpenHit, Found
<1>2. h \in alive /\ h \in alive'
  BY <1>0 DEF Safe, RInv, OpenHit, table
<1>3. obj[h].fini
  BY <1>0, <1>1, FoundReady
<1>4. obj'[h].fini
  BY <1>0, <1>2, <1>3, FiniKept
<1>5. PICK f : f = DoneFrame(h)
  OBVIOUS
<1>6. f.pc = "done" /\ f.h = h
  BY <1>5 DEF DoneFrame
<1>7. Descends(obj', Top(t), f)
  BY <1>4, <1>6 DEF Descends, Handed, ActivePC, OpenPC, LoadPC
<1>8. Stacked(t, Under(t), f, UnlockFrame(h)) /\ Idle(UnlockFrame(h))
  BY <1>1, <1>5, NewStack, IdleFrames
<1>9. Neat(rank, obj', stack[t])
  BY NeatKept DEF AInv
<1> QED BY <1>0, <1>7, <1>8, <1>9, NeatMove

LEMMA LoadNeat ==
  ASSUME NEW t \in Thread, Tidy(t), Marks(t), NEW rank, AInv(rank),
         Create(t) \/ BindMain(t) \/ BindDep(t) \/ Map(t) \/ Initialise(t)
  PROVE  Neat(rank, obj', stack'[t])
<1>0. Stacks /\ Rest
  BY TidyFacts
<1>1. Neat(rank, obj', stack[t])
  BY NeatKept DEF AInv
<1>2. \A f : /\ Become(t, f) => Stacked(t, Under(t), f, UnlockFrame(Null))
             /\ ReturnTo(t, f) => Stacked(t, UnderCaller(t), f, UnlockFrame(Null))
  BY NewStack
<1>3. Idle(UnlockFrame(Null))
  BY IdleFrames
<1>4. CASE Create(t) \/ BindMain(t) \/ Map(t)
  <2>1. Running(t) /\ Top(t).pc \in {"create", "deps", "map"}
    BY <1>4 DEF Create, BindMain, DepsRemain, Map, At
  <2>2. PICK e \in Shaped : e = Top(t) /\ e.pc \in {"create", "deps", "map"}
    BY <1>0, <2>1, TopShape
  <2>3. PICK f : /\ Become(t, f)
                 /\ \/ \E h : f = [e EXCEPT !.pc = "parse", !.h = h]
                    \/ f = [e EXCEPT !.i = @ + 1] /\ e.pc = "deps"
                    \/ f = [e EXCEPT !.pc = "reloc"]
    BY <1>4, <2>2 DEF Create, BindMain, DepsRemain, Map, At
  <2>4. f.pc \in LoadPC /\ f.req = e.req
    BY <2>2, <2>3 DEF Shaped, Frame, LoadPC
  <2>5. Descends(obj', Top(t), f)
    BY <2>2, <2>4, GoesOn DEF ActivePC, OpenPC, LoadPC
  <2> QED BY <1>0, <1>1, <1>2, <1>3, <2>1, <2>3, <2>5, NeatMove
<1>5. CASE BindDep(t)
  <2>1. Len(stack[t]) > 1 /\ Caller(t).pc = "deps"
    BY <1>5 DEF BindDep, CalledFrom
  <2>2. PICK e \in Shaped : e = Caller(t) /\ e.pc = "deps"
    BY <1>0, <2>1, CallerFrame
  <2>3. PICK f : ReturnTo(t, f) /\ f = [e EXCEPT !.i = @ + 1]
    BY <1>5, <2>2 DEF BindDep
  <2>4. f.pc \in LoadPC /\ f.req = e.req
    BY <2>2, <2>3 DEF Shaped, Frame, LoadPC
  <2>5. Descends(obj', Caller(t), f)
    BY <2>2, <2>4, GoesOn DEF ActivePC, LoadPC
  <2> QED BY <1>0, <1>1, <1>2, <1>3, <2>1, <2>3, <2>5, NeatMove
<1>6. CASE Initialise(t)
  <2>1. Running(t) /\ Top(t).pc = "init"
    BY <1>6 DEF Initialise, At
  <2>2. PICK h : h = Top(t).h
    OBVIOUS
  <2>3. PICK ob : ob = obj'
    OBVIOUS
  <2>4. ob = [obj EXCEPT ![h].fini = TRUE] /\ obj \in [Handle -> Object]
    BY <1>0, <1>6, <2>2, <2>3 DEF Initialise, Rest
  <2>5. h \in Handle => ob[h].fini
    BY <2>4 DEF Object
  <2>6. PICK f : f = DoneFrame(h) /\ Become(t, f)
    BY <1>6, <2>2 DEF Initialise
  <2>7. f.pc = "done" /\ f.h = h
    BY <2>6 DEF DoneFrame
  <2>8. Descends(obj', Top(t), f)
    BY <2>3, <2>5, <2>7 DEF Descends, Handed, ActivePC, OpenPC, LoadPC
  <2> QED BY <1>0, <1>1, <1>2, <1>3, <2>1, <2>6, <2>8, NeatMove
<1> QED BY <1>4, <1>5, <1>6

(* ... or asks for a dependency, whose rank is higher; and the calls of    *)
(* the program, below which there are only enumerations.                   *)
LEMMA AskNeat ==
  ASSUME NEW t \in Thread, Tidy(t), Marks(t), NEW rank \in [Path -> Nat],
         Ascends(rank), AInv(rank), OpenDep(t)
  PROVE  Neat(rank, obj', stack'[t])
<1>0. Stacks /\ Running(t) /\ Top(t).pc = "deps"
  BY TidyFacts DEF OpenDep, DepsRemain, At
<1>1. PICK s \in Seq(Shaped), n \in Nat \ {0} :
        s = stack[t] /\ n = Len(s) /\ s[n] = Top(t)
  BY <1>0, UnderAt, TopAt DEF Stacks
<1>2. PICK e \in Shaped : e = s[n] /\ e = Top(t) /\ e.pc = "deps"
  BY <1>0, <1>1, TopShape
<1>3. PICK p : p = Needed(e)[e.i]
  OBVIOUS
<1>4. PICK f :
        f = OpenFrame("find", [path |-> p, image |-> p, global |-> TRUE,
                               noload |-> FALSE, resolver |-> e.req.resolver])
  OBVIOUS
<1>5. f.pc = "find" /\ f.req.image = p /\ Enter(t, f)
  BY <1>2, <1>3, <1>4 DEF OpenFrame, OpenDep
<1>6. e.i \in 1 .. Len(Needed(e)) /\ p \in Path /\ e.req.image \in Path
  <2>1. e.i \in Nat /\ e.i > 0 /\ e.req \in Request
    BY <1>2 DEF Shaped, Frame, LoadPC
  <2>2. Needed(e) \in Seq(Path)
    BY <2>1, LoaderAssumption DEF Needed, Request
  <2>3. e.i <= Len(Needed(e))
    BY <1>2 DEF OpenDep, DepsRemain
  <2> QED BY <1>3, <2>1, <2>2, <2>3 DEF Request
<1>7. rank[e.req.image] < rank[p]
  BY <1>3, <1>6, LoaderAssumption DEF Ascends, Needed
<1>8. ASSUME NEW j \in 1 .. n
      PROVE  Below(rank, s[j], f)
  <2>1. CASE j = n
    BY <1>2, <1>5, <1>7, <2>1 DEF Below
  <2>2. CASE j # n
    <3>1. n \in 1 .. n /\ j \in 1 .. n - 1
      BY <1>8, <2>2
    <3>2. Below(rank, s[j], e)
      BY <1>1, <1>2, <3>1 DEF AInv, Neat
    <3>3. s[j].pc \in {"deps", "enum"}
      BY <1>2, <3>2 DEF Below, ActivePC, LoadPC
    <3>4. s[j].pc = "deps" => rank[s[j].req.image] < rank[p]
      <4> SUFFICES ASSUME s[j].pc = "deps"
                   PROVE  rank[s[j].req.image] < rank[p]
        OBVIOUS
      <4>1. s[j] \in Shaped /\ s[j].req \in Request
        BY <1>1, <1>8 DEF Shaped, LoadPC
      <4>2. s[j].req.image \in Path
        BY <4>1 DEF Request
      <4>3. rank[s[j].req.image] < rank[e.req.image]
        BY <1>2, <3>2 DEF Below, ActivePC, LoadPC
      <4> QED BY <1>6, <1>7, <4>2, <4>3
    <3> QED BY <1>5, <3>3, <3>4 DEF Below
  <2> QED BY <2>1, <2>2
<1>9. Above(rank, stack[t], f) /\ Handed(obj', f)
  BY <1>1, <1>5, <1>8 DEF Above, Handed
<1>10. Neat(rank, obj', stack[t])
  BY NeatKept DEF AInv
<1> QED BY <1>0, <1>5, <1>9, <1>10, NeatEnter

LEMMA CallNeat ==
  ASSUME Callers \subseteq {"enum"}, NEW t \in Thread, Tidy(t), Marks(t), NEW rank,
         AInv(rank), Call(t)
  PROVE  Neat(rank, obj', stack'[t])
<1>0. Stacks
  BY TidyFacts
<1>1. InProgram(t)
  BY DEF Call, CallOpen, CallOpenFile, CallClose, CallByAddress, CallInfo,
         CallWalk, MayCall
<1>2. Neat(rank, obj', stack[t])
  BY NeatKept DEF AInv
<1>3. CASE stack' = stack
  BY <1>2, <1>3
<1>4. ASSUME NEW f, Enter(t, f), f.pc \in OpenPC \cup WalkPC \cup {"unlock"}
      PROVE  Neat(rank, obj', stack'[t])
  <2>1. ASSUME NEW j \in 1 .. Len(stack[t])
        PROVE  stack[t][j].pc = "enum"
    <3>1. Running(t)
      BY <1>0, <2>1 DEF Running, Stacks
    <3>2. Top(t).pc = "enum"
      BY <1>1, <3>1 DEF InProgram
    <3>3. PICK n \in Nat \ {0} : n = Len(stack[t]) /\ stack[t][n] = Top(t)
      BY <1>0, <3>1, UnderAt, TopAt
    <3>4. n \in 1 .. n /\ (j = n \/ j \in 1 .. n - 1)
      BY <2>1, <3>3
    <3>5. j # n => Below(rank, stack[t][j], stack[t][n])
      BY <3>3, <3>4 DEF AInv, Neat
    <3> QED BY <3>2, <3>3, <3>5 DEF Below
  <2>2. Above(rank, stack[t], f)
    BY <2>1 DEF Above, Below
  <2>3. Handed(obj', f)
    BY <1>4 DEF Handed, OpenPC, WalkPC
  <2> QED BY <1>0, <1>2, <1>4, <2>2, <2>3, NeatEnter
<1>5. CASE CallOpen(t) \/ CallOpenFile(t)
  <2>1. PICK req : \E pc \in OpenPC : Enter(t, OpenFrame(pc, req))
    BY <1>5 DEF CallOpen, CallOpenFile, OpenPC
  <2>2. PICK f : Enter(t, f) /\ f.pc \in OpenPC
    BY <2>1 DEF OpenFrame
  <2> QED BY <1>4, <2>2
<1>6. CASE CallClose(t) \/ CallInfo(t)
  <2>1. PICK h : Enter(t, UnlockFrame(h))
    BY <1>6 DEF CallClose, CallInfo
  <2>2. UnlockFrame(h).pc = "unlock"
    BY DEF UnlockFrame
  <2> QED BY <1>4, <2>1, <2>2
<1>7. CASE CallWalk(t)
  <2>1. PICK pc \in WalkPC : Enter(t, WalkFrame(pc))
    BY <1>7 DEF CallWalk
  <2>2. WalkFrame(pc).pc = pc
    BY DEF WalkFrame
  <2> QED BY <1>4, <2>1, <2>2
<1>8. CASE CallByAddress(t)
  BY <1>3, <1>8 DEF CallByAddress
<1> QED BY <1>5, <1>6, <1>7, <1>8 DEF Call

LEMMA StepNeat ==
  ASSUME Reliable, Callers \subseteq {"enum"}, \A t, u \in Thread : t = u,
         NEW t \in Thread, Tidy(t), Marks(t), DInv, obj' \in [Handle -> Object],
         NEW rank \in [Path -> Nat], Ascends(rank), AInv(rank), Call(t) \/ Step(t)
  PROVE  Neat(rank, obj', stack'[t])
<1>1. ~crashed' /\ ~KeepUnfreed(t) /\ ~PassUnreferred(t)
  BY TidyFacts, NeverHappens DEF Effect
<1>2. ~CreateFilledAfterFree(t) /\ ~UseAfterFree(t)
  BY <1>1 DEF CreateFilledAfterFree, UseAfterFree
<1>3. Proceeds(t) => Neat(rank, obj', stack'[t])
  <2>1. Neat(rank, obj', stack[t])
    BY NeatKept DEF AInv
  <2> QED BY <2>1, NeatProceed, TidyFacts
<1>4. CASE Call(t)
  BY <1>4, CallNeat
<1>5. CASE Load(t)
  BY <1>2, <1>3, <1>5, HitNeat, LoadNeat, AskNeat, MissSound, LoadSound, ReturnSound
     DEF Load
<1>6. CASE Unload(t)
  BY <1>1, <1>3, <1>6, UnloadSound, ReturnSound, PopSound DEF Unload
<1>7. CASE ReturnToProgram(t)
  BY <1>3, <1>7, PopSound
<1> QED BY <1>2, <1>4, <1>5, <1>6, <1>7 DEF Step

-----------------------------------------------------------------------------
(* What the program holds: what a call handed to it, or what it found by   *)
(* address.                                                                *)
LEMMA HeldFrom ==
  ASSUME Rest, NEW t \in Thread, Call(t) \/ Step(t), NEW h \in Handle, held'[h] > 0
  PROVE  \/ held[h] > 0
         \/ CallByAddress(t) /\ h \in members
         \/ ReturnToProgram(t) /\ h = Top(t).h
<1>0. held \in [Handle -> Nat]
  BY DEF Rest
<1>1. CASE held' = held
  BY <1>1
<1>2. CASE CallClose(t)
  <2>1. PICK g \in Handle : held[g] > 0 /\ held' = [held EXCEPT ![g] = @ - 1]
    BY <1>2 DEF CallClose
  <2> QED BY <1>0, <2>1
<1>3. CASE CallByAddress(t)
  <2>1. PICK g \in Handle : HasAddress(g) /\ held' = [held EXCEPT ![g] = @ + 1]
    BY <1>3 DEF CallByAddress
  <2> QED BY <1>0, <1>3, <2>1 DEF HasAddress
<1>4. CASE ReturnToProgram(t)
  <2>1. PICK g : g = Top(t).h
    OBVIOUS
  <2>2. held' = held \/ held' = [held EXCEPT ![g] = @ + 1]
    BY <1>4, <2>1 DEF ReturnToProgram
  <2> QED BY <1>0, <1>4, <2>1, <2>2
<1>5. CASE Call(t) /\ ~CallClose(t) /\ ~CallByAddress(t)
  <2>1. held' = held
    BY <1>5 DEF Call, CallOpen, CallOpenFile, CallInfo, CallWalk
  <2> QED BY <1>1, <2>1
<1>6. CASE Load(t)
  <2>1. held' = held
    BY <1>6 DEF Load, OpenHit, OpenMiss, Create, CreateFails, CreateFilledAfterFree,
                Parse, ParseFails, TooManyDeps, OpenDep, BindMain, BindDep,
                DepFails, DepsLoaded, Map, MapFails, Resolve, Relocated,
                RelocFails, Initialise, DropFailedLoad, program
  <2> QED BY <1>1, <2>1
<1>7. CASE Unload(t) \/ UseAfterFree(t)
  <2>1. held' = held
    BY <1>7 DEF Unload, Unlock, LastUnlock, Reclaim, KeepUnfreed, Finalise, FreePages,
                FreePagesFails, ReleaseDep, UnlockReturns, DepsReleased,
                PassUnreferred, WalkEnds, UseAfterFree, program
  <2> QED BY <1>1, <2>1
<1> QED BY <1>2, <1>3, <1>4, <1>5, <1>6, <1>7 DEF Step

LEMMA HeldReferred ==
  ASSUME Safe, NEW h \in Handle, held[h] > 0
  PROVE  h \in alive /\ obj[h].refc > 0
<1>1. h \in alive
  BY HeldAlive DEF Safe
<1>2. PICK E : E = Cardinality(Entries(stack, h, RefPC))
  OBVIOUS
<1>3. PICK D : D = Cardinality(DepEntries(alive, obj, h))
  OBVIOUS
<1>4. E \in Nat /\ D \in Nat
  BY <1>2, <1>3, FS_CardinalityType DEF Safe, RInv, RInvOf, Finite
<1>5. obj[h].refc = held[h] + E + D
  BY <1>1, <1>2, <1>3 DEF Safe, RInv, RInvOf, Exact, Count
<1>6. held[h] \in Nat
  BY DEF Safe, IInv, Rest
<1> QED BY <1>1, <1>4, <1>5, <1>6

LEMMA StepHeld ==
  ASSUME Callers \subseteq {"enum"}, \A t, u \in Thread : t = u, NEW t \in Thread,
         Tidy(t), Marks(t), Call(t) \/ Step(t), NEW rank, AInv(rank),
         NEW h \in Handle, held'[h] > 0
  PROVE  obj'[h].fini
<1>0. Safe /\ Stacks /\ Rest /\ RInv
  BY TidyFacts
<1>1. CASE held[h] > 0
  <2>1. h \in alive /\ h \in alive'
    BY <1>0, <1>1, HeldReferred, NameKept, TidyFacts
  <2> QED BY <1>0, <1>1, <2>1, FiniKept DEF AInv
<1>2. CASE CallByAddress(t) /\ h \in members
  <2>1. h \in alive /\ h \in alive' /\ InProgram(t)
    BY <1>0, <1>2 DEF RInv, CallByAddress, MayCall, table
  <2> QED BY <1>0, <2>1, AllReady, FiniKept
<1>3. CASE ReturnToProgram(t) /\ h = Top(t).h
  <2>1. Running(t) /\ Top(t).pc = "done"
    BY <1>3 DEF ReturnToProgram, At
  <2>2. Handed(obj', Top(t))
    BY <1>0, <2>1, NeatKept, NeatUnder DEF AInv
  <2> QED BY <1>3, <2>1, <2>2 DEF Handed
<1> QED BY <1>0, <1>1, <1>2, <1>3, HeldFrom

(* An entry that was not given back: an old one, or what a call handed to  *)
(* the load that binds it.                                                 *)
LEMMA EntryFrom ==
  ASSUME NEW t \in Thread, Tidy(t), NEW h \in alive, h \in alive',
         NEW k \in 1 .. Len(obj'[h].deps), k > obj'[h].released,
         obj'[h].deps[k] # Main
  PROVE  \/ /\ k \in 1 .. Len(obj[h].deps) /\ k > obj[h].released
            /\ obj[h].deps[k] = obj'[h].deps[k]
         \/ BindDep(t) /\ obj'[h].deps[k] = Top(t).h
<1>0. /\ Rest /\ Stacks /\ Relinks(t) /\ h \in Handle
      /\ h \in members /\ h \in members' /\ obj \in [Handle -> Object]
  BY TidyFacts DEF RInv, Rest
<1>1. PICK ob : ob = obj'
  OBVIOUS
<1>2. PICK ds \in Seq(Handle \cup {Main}) : ds = obj[h].deps
  BY <1>0, ObjectFields
<1>3. CASE Linked(h) \/ (ReleaseDep(t) /\ h = Top(t).h /\ ob[h].deps = ds)
  <2>1. ob[h].deps = ds
    BY <1>1, <1>2, <1>3 DEF Linked
  <2>2. /\ obj[h].released \in Nat /\ ob[h].released \in Nat
        /\ ob[h].released >= obj[h].released
    BY <1>0, <1>1, <1>3, ReleasedGrows
  <2>3. k \in 1 .. Len(ds) /\ k > ob[h].released
    BY <1>1, <2>1
  <2>4. k > obj[h].released
    BY <1>2, <2>2, <2>3
  <2> QED BY <1>1, <1>2, <2>1, <2>3, <2>4
<1>4. ASSUME NEW d, ob = [obj EXCEPT ![h].deps = Append(obj[h].deps, d)]
      PROVE  \/ /\ k \in 1 .. Len(ds) /\ k > obj[h].released
                /\ ds[k] = ob[h].deps[k]
             \/ ob[h].deps[k] = d
  <2>1. PICK es : es = Append(ds, d)
    OBVIOUS
  <2>2. ob = [obj EXCEPT ![h].deps = es]
    BY <1>2, <1>4, <2>1
  <2>3. ob[h].deps = es /\ ob[h].released = obj[h].released
    BY <1>0, <2>2 DEF Object
  <2>4. PICK n \in Nat : n = Len(ds)
    BY <1>2
  <2>5. Len(es) = n + 1 /\ es[n + 1] = d /\ \A i \in 1 .. n : es[i] = ds[i]
    BY <1>2, <2>1, <2>4, PushAt
  <2>6. k \in 1 .. n + 1 /\ k > obj[h].released
    BY <1>1, <2>3, <2>5
  <2>7. k \in 1 .. n \/ k = n + 1
    BY <2>4, <2>6
  <2> QED BY <2>3, <2>4, <2>5, <2>6, <2>7
<1>5. CASE BindMain(t) /\ h = Top(t).h
  <2>1. ob = [obj EXCEPT ![h].deps = Append(obj[h].deps, Main)]
    BY <1>0, <1>1, <1>5 DEF BindMain
  <2> QED BY <1>1, <1>2, <1>4, <2>1
<1>6. CASE BindDep(t) /\ h = Caller(t).h
  <2>1. ob = [obj EXCEPT ![h].deps = Append(obj[h].deps, Top(t).h)]
    BY <1>0, <1>1, <1>6 DEF BindDep
  <2> QED BY <1>1, <1>2, <1>4, <1>6, <2>1
<1> QED BY <1>0, <1>1, <1>2, <1>3, <1>5, <1>6 DEF Relinks

LEMMA ReadyKept ==
  ASSUME NEW t \in Thread, Tidy(t), Marks(t), NEW rank, AInv(rank),
         NEW h \in alive, h \in alive'
  PROVE  ReadyOK(obj', h)
<1>0. Safe /\ Stacks /\ Rest /\ RInv
  BY TidyFacts
<1> SUFFICES ASSUME NEW k \in 1 .. Len(obj'[h].deps), k > obj'[h].released,
                    obj'[h].deps[k] # Main
             PROVE  obj'[obj'[h].deps[k]].fini
  BY DEF ReadyOK
<1>1. PICK d : d = obj'[h].deps[k]
  OBVIOUS
<1>2. CASE /\ k \in 1 .. Len(obj[h].deps) /\ k > obj[h].released
           /\ obj[h].deps[k] = d
  <2>1. d \in alive /\ obj[d].refc > 0 /\ obj[d].fini
    BY <1>0, <1>1, <1>2, EntryAlive DEF AInv, ReadyOK
  <2>2. d \in alive'
    BY <2>1, NameKept, TidyFacts
  <2> QED BY <1>0, <1>1, <2>1, <2>2, FiniKept
<1>3. CASE BindDep(t) /\ d = Top(t).h
  <2>1. Running(t) /\ Top(t).pc = "done" /\ d # Null /\ d # Main
    BY <1>1, <1>3 DEF BindDep, At
  <2>2. d \in Handle
    <3>1. Top(t) \in Shaped
      BY <1>0, <2>1, TopShape
    <3> QED BY <1>3, <2>1, <3>1 DEF Shaped, Frame
  <2>3. Handed(obj', Top(t))
    BY <1>0, <2>1, NeatKept, NeatUnder DEF AInv
  <2> QED BY <1>1, <1>3, <2>1, <2>2, <2>3 DEF Handed
<1> QED BY <1>1, <1>2, <1>3, EntryFrom

LEMMA NewReady ==
  ASSUME Rest, NEW t, Create(t), NEW h \in alive' \ alive
  PROVE  ReadyOK(obj', h)
<1>1. PICK o : o = FreshObject(Top(t).req)
  OBVIOUS
<1>2. obj' = [obj EXCEPT ![h] = o] /\ h \in Handle /\ o.deps = <<>>
  BY <1>1 DEF Create, FreshObject
<1>3. obj'[h].deps = <<>>
  BY <1>2 DEF Rest
<1>4. Len(obj'[h].deps) = 0
  BY <1>3
<1> QED BY <1>4 DEF ReadyOK

LEMMA StepAInv ==
  ASSUME Reliable, Callers \subseteq {"enum"}, \A t, u \in Thread : t = u,
         NEW rank \in [Path -> Nat], Ascends(rank)
  PROVE  AInv(rank) /\ DInv /\ FInv /\ Safe /\ Safe' /\ [Next]_vars => AInv(rank)'
<1> SUFFICES ASSUME AInv(rank), DInv, FInv, Safe, Safe', [Next]_vars
             PROVE  AInv(rank)'
  OBVIOUS
<1>0. /\ IInv /\ RInv /\ Rest /\ LoadsAlone /\ "fini" \notin Callers
      /\ obj' \in [Handle -> Object] /\ members' = alive'
  BY DEF Safe, FInv, IInv, RInv, Rest
<1>1. CASE UNCHANGED vars
  BY <1>1 DEF vars, AInv
<1>2. ASSUME NEW t \in Thread, Call(t) \/ Step(t), Effect(t), Follows(t)
      PROVE  AInv(rank)'
  <2>1. Relinks(t) /\ (members' \subseteq members \/ Create(t))
    BY <1>0, <1>2, StepLinks DEF IInv
  <2>2. Tidy(t) /\ Marks(t)
    BY <1>0, <1>2, <2>1, StepPages DEF Tidy, FInv, Follows
  <2>3. ASSUME NEW u \in Thread
        PROVE  Neat(rank, obj', stack'[u])
    <3>1. u = t
      OBVIOUS
    <3> QED BY <1>0, <1>2, <2>2, <3>1, StepNeat
  <2>4. ASSUME NEW h \in Handle, held'[h] > 0
        PROVE  obj'[h].fini
    BY <1>2, <2>2, <2>4, StepHeld
  <2>5. ASSUME NEW h \in alive'
        PROVE  ReadyOK(obj', h)
    <3>1. CASE h \notin alive
      <4>1. Create(t)
        BY <1>0, <2>1, <2>5, <3>1 DEF RInv
      <4> QED BY <1>0, <2>5, <3>1, <4>1, NewReady
    <3>2. CASE h \in alive
      BY <2>2, <2>5, <3>2, ReadyKept
    <3> QED BY <3>1, <3>2
  <2> QED BY <2>3, <2>4, <2>5 DEF AInv
<1> QED BY <1>0, <1>1, <1>2, StepFollows

LEMMA InitAInv ==
  ASSUME NEW rank
  PROVE  Init => AInv(rank)
<1> SUFFICES ASSUME Init
             PROVE  AInv(rank)
  OBVIOUS
<1>1. alive = {} /\ \A t \in Thread : stack[t] = <<>>
  BY DEF Init
<1>2. \A t \in Thread : Len(stack[t]) = 0
  BY <1>1
<1>3. \A h \in Handle : held[h] = 0
  BY DEF Init
<1> QED BY <1>1, <1>2, <1>3 DEF AInv, Neat

LEMMA SpecAInv ==
  ASSUME Reliable, Callers \subseteq {"enum"}, \A t, u \in Thread : t = u,
         NEW rank \in [Path -> Nat], Ascends(rank)
  PROVE  Spec /\ GivesBackOnce => [](Safe /\ FInv /\ DInv /\ AInv(rank))
<1>1. "fini" \notin Callers
  OBVIOUS
<1>2. Init => AInv(rank)
  BY InitAInv
<1>3. AInv(rank) /\ DInv /\ FInv /\ Safe /\ Safe' /\ [Next]_vars => AInv(rank)'
  BY StepAInv
<1>4. Spec /\ GivesBackOnce => [](Safe /\ FInv /\ DInv)
  BY <1>1, SpecDInv
<1> QED BY <1>2, <1>3, <1>4, PTL DEF Spec

(* Dependencies are there first and go last: in a program of one thread,   *)
(* whose initialisers do not call the loader, all that an initialised      *)
(* object has bound is initialised, mapped and referred to as long as the  *)
(* object is in use.  A search may find an object whose load is under way; *)
(* then the search is for what that load itself waits for, and there is a  *)
(* cycle of dependencies.                                                  *)
THEOREM DependenciesOutlive ==
  ASSUME Reliable, Callers \subseteq {"enum"}, \A t, u \in Thread : t = u, Ordered
  PROVE  Spec /\ GivesBackOnce => []DepsOutlive
<1>1. PICK rank \in [Path -> Nat] : Ascends(rank)
  BY DEF Ordered
<1>2. Spec /\ GivesBackOnce => [](Safe /\ FInv /\ DInv /\ AInv(rank))
  BY <1>1, SpecAInv
<1>3. Safe /\ DInv /\ AInv(rank) => DepsReady
  <2> SUFFICES ASSUME Safe, DInv, AInv(rank), NEW h \in Handle, Initialised(h),
                      obj[h].refc > 0, NEW k \in DOMAIN obj[h].deps,
                      obj[h].deps[k] # Main
               PROVE  obj[obj[h].deps[k]].fini
    BY DEF DepsReady
  <2>1. h \in alive /\ obj[h].released = 0 /\ ReadyOK(obj, h)
    BY DEF Initialised, DInv, UsedOK, AInv
  <2>2. k \in 1 .. Len(obj[h].deps)
    <3>1. obj[h].deps \in Seq(Handle \cup {Main})
      BY ObjectFields DEF Safe, IInv
    <3> QED BY <3>1
  <2> QED BY <2>1, <2>2 DEF ReadyOK
<1>4. Spec /\ GivesBackOnce => []DepsStay
  BY DependenciesStay
<1>5. DepsStay /\ DepsReady => DepsOutlive
  BY DEF DepsOutlive
<1> QED BY <1>2, <1>3, <1>4, <1>5, PTL
-----------------------------------------------------------------------------
(* A load that fails after it has mapped its object unmaps what nobody     *)
(* else has.                                                               *)
LEMMA DroppingAlone ==
  ASSUME Safe, FInv, \A t, u \in Thread : t = u, NEW t \in Thread,
         NEW rank, AInv(rank), NEW h \in alive,
         Running(t), Top(t).pc \in UnloadPC,
         NEW k \in 1 .. Len(stack[t]), stack[t][k].pc = "drop", stack[t][k].h = h
  PROVE  References(h) = Cardinality(LoadersDropping(h))
<1>0. /\ IInv /\ RInv /\ Stacks /\ stack \in [Thread -> Seq(Shaped)]
      /\ Good(alive, obj, stack[t])
  BY DEF Safe, IInv, Stacks, RInv, RInvOf
<1>1. Loads(t, k, h)
  BY DEF Loads, LoadPC
<1>2. ~obj[h].fini
  BY <1>1 DEF FInv, LoadsUnrecorded
<1>3. PICK E : E = Entries(stack, h, RefPC)
  OBVIOUS
<1>4. ASSUME NEW j \in 1 .. Len(stack[t]), On(stack[t][j], h, RefPC)
      PROVE  j = k
  <2>1. CASE stack[t][j].pc \in LoadPC
    <3>1. Loads(t, j, h)
      BY <1>4, <2>1 DEF Loads, On
    <3> QED BY <1>1, <3>1 DEF FInv, LoadsAlone
  <2>2. CASE stack[t][j].pc = "done"
    BY <1>0, <1>2, <1>4, <2>2 DEF AInv, Neat, Handed, On, Safe, IInv, Rest
  <2>3. CASE stack[t][j].pc = "unlock"
    <3>1. PICK s \in Seq(Shaped) : s = stack[t] /\ j \in 1 .. Len(s)
      BY <1>0
    <3>2. s[Len(s)] = Top(t)
      BY <3>1 DEF Top
    <3>3. j # Len(s)
      BY <2>3, <3>1, <3>2 DEF UnloadPC
    <3>4. PICK n : n = j + 1
      OBVIOUS
    <3>5. n \in 2 .. Len(s) /\ n - 1 = j
      BY <3>1, <3>3, <3>4
    <3>6. Calls(s[n - 1], s[n])
      BY <1>0, <3>1, <3>5 DEF Good
    <3> QED BY <2>3, <3>1, <3>5, <3>6 DEF Calls
  <2> QED BY <1>4, <2>1, <2>2, <2>3 DEF On, RefPC
<1>5. E = {<<t, k>>}
  <2>1. On(stack[t][k], h, RefPC)
    BY DEF On, RefPC, LoadPC
  <2>2. <<t, k>> \in E
    BY <1>0, <1>3, <2>1, EntryIs
  <2>3. ASSUME NEW e \in E
        PROVE  e = <<t, k>>
    <3>1. PICK u \in Thread : \E j \in 1 .. Len(stack[u]) :
            e = <<u, j>> /\ On(stack[u][j], h, RefPC)
      BY <1>0, <1>3, <2>3, EntryIs
    <3>2. u = t
      OBVIOUS
    <3> QED BY <1>4, <3>1, <3>2
  <2> QED BY <2>2, <2>3
<1>6. References(h) = 1
  <2>1. obj[h].refc = Cardinality(E)
    BY <1>2, <1>3, UnreadyCount
  <2>2. References(h) = obj[h].refc
    BY <1>0, RInvCounts DEF RefcountExact
  <2> QED BY <1>5, <2>1, <2>2, FS_Singleton
<1>7. LoadersDropping(h) = {t}
  <2>1. k \in DOMAIN stack[t]
    BY <1>0
  <2> QED BY <2>1 DEF LoadersDropping
<1> QED BY <1>6, <1>7, FS_Singleton

(* Also where loads fail after they have mapped their object, an object is *)
(* unmapped only when nobody refers to it but the call that failed: in a   *)
(* program of one thread, whose initialisers do not call the loader, for   *)
(* files none of which needs itself.  Other threads, initialisers and      *)
(* cycles can get an object whose load is under way.                       *)
THEOREM MappedIfUnready ==
  ASSUME Reliable, Callers \subseteq {"enum"}, \A t, u \in Thread : t = u, Ordered
  PROVE  Spec /\ GivesBackOnce => MappedWhileReferred
<1> DEFINE Keeps == \A h \in alive :
                      obj[h].pages = "mapped" /\ obj'[h].pages # "mapped" =>
                        References(h) = Cardinality(LoadersDropping(h))
<1>1. PICK rank \in [Path -> Nat] : Ascends(rank)
  BY DEF Ordered
<1>2. Spec /\ GivesBackOnce => [](Safe /\ FInv /\ DInv /\ AInv(rank))
  BY <1>1, SpecAInv
<1>3. Init => LoadsUnmapped
  BY InitLoadsUnmapped
<1>4. /\ Safe /\ Safe' /\ FInv /\ AInv(rank) /\ LoadsUnmapped /\ [Next]_vars
      => LoadsUnmapped' /\ [Keeps]_vars
  <2> SUFFICES ASSUME Safe, Safe', FInv, AInv(rank), LoadsUnmapped, [Next]_vars
               PROVE  LoadsUnmapped' /\ [Keeps]_vars
    OBVIOUS
  <2>1. CASE UNCHANGED vars
    BY <2>1 DEF vars, LoadsUnmapped, Loads
  <2>2. ASSUME NEW t \in Thread, Call(t) \/ Step(t), Follows(t)
        PROVE  LoadsUnmapped' /\ [Keeps]_vars
    <3>1. Repages(t)
      BY <2>2, StepPages
    <3>2. LoadsUnmapped'
      BY <2>2, <3>1, StepLoadsUnmapped
    <3>3. ASSUME NEW h \in alive, obj[h].pages = "mapped", obj'[h].pages # "mapped"
          PROVE  References(h) = Cardinality(LoadersDropping(h))
      <4>1. /\ Running(t) /\ Top(t).pc \in UnloadPC
            /\ \E k \in 1 .. Len(stack[t]) :
                 stack[t][k].pc \in {"drop", "unlocking"} /\ stack[t][k].h = h
        BY <3>1, <3>3, UnmapsInUnload
      <4> QED BY <3>3, <4>1, DroppingAlone, UnlockingLast
    <3> QED BY <3>2, <3>3
  <2> QED BY <2>1, <2>2, StepFollows
<1>5. [Keeps]_vars => [\A h \in alive :
                          obj[h].pages = "mapped" /\ obj'[h].pages # "mapped" =>
                            References(h) = Cardinality(LoadersDropping(h))]_vars
  OBVIOUS
<1> QED BY <1>2, <1>3, <1>4, <1>5, PTL DEF Spec, MappedWhileReferred
=============================================================================
