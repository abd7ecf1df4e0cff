---------------------------- MODULE RefcountProofs ----------------------------
(***************************************************************************)
(* The reference counts of Lifecycle are exact, for any threads, objects,  *)
(* dependencies (cycles too) and failures, as long as                      *)
(*   - ctrdl_unloadObject gives no dependency back a second time, which it *)
(*     does when it is called again for an object (see the run             *)
(*     double_release), and                                                *)
(*   - finalisers do not call the loader, because they run while an object *)
(*     without references is still in the table.                           *)
(***************************************************************************)
EXTENDS LifecycleProofs

(* ctrdl_unloadObject gives an entry of handle->deps back once.            *)
NotYetGiven == \A t \in Thread : ReleaseDep(t) => Top(t).i > This(t).released
GivesBackOnce == [][NotYetGiven]_vars

(* The calls that work on a reference, and those that give one back.       *)
RefPC == LoadPC \cup {"unlock", "done"}
ClosingPC == UnlockPC \cup UnloadPC \cup {"done"}

(* Who may be running above whom.                                          *)
Calls(f, g) ==
  \/ f.pc \in {"drop", "unlocking"} /\ g.pc \in UnloadPC /\ g.h = f.h
  \/ /\ f.pc \in {"release", "lookup"}
     /\ g.pc \in UnlockPC \cup {"done"}
     /\ g.pc = "done" => g.h = Null
  \/ f.pc = "deps" /\ g.pc \in OpenPC \cup LoadPC \cup UnlockPC \cup {"done"}
  \/ f.pc = "fix" /\ g.pc = "lookup"
  \/ f.pc \in {"init", "enum"} /\ g.pc \notin UnloadPC

(* What the objects look like to a call that unloads one: f is the call,   *)
(* c its caller.  The counts of what was given back are kept.              *)
FrameOK(al, ob, f) ==
  /\ f.pc = "unlocking" => f.h \in al /\ ob[f.h].refc = 0
  /\ f.pc \in {"fini", "pages", "release"} => ob[f.h].released >= f.i - 1
PairOK(ob, c, f) ==
  c.pc = "unlocking" /\ f.pc = "unloaded" =>
    ob[f.h].released = Len(ob[f.h].deps)

Good(al, ob, s) ==
  /\ s # <<>> => s[1].pc \notin UnloadPC
  /\ \A k \in 2 .. Len(s) : Calls(s[k - 1], s[k]) /\ PairOK(ob, s[k - 1], s[k])
  /\ \A j, k \in 1 .. Len(s) :
       j <= k /\ s[j].pc = "unlocking" => s[k].pc \in ClosingPC
  /\ \A k \in 1 .. Len(s) : FrameOK(al, ob, s[k])

(* The calls on h among the stacks st, and the dependencies on h that the  *)
(* objects al have not given back.                                         *)
On(f, h, pcs) == f.h = h /\ f.pc \in pcs
Entries(st, h, pcs) ==
  {e \in UNION {{t} \X DOMAIN st[t] : t \in Thread} : On(st[e[1]][e[2]], h, pcs)}
DepEntries(al, ob, h) ==
  {e \in UNION {{g} \X DOMAIN ob[g].deps : g \in al} :
     e[2] > ob[e[1]].released /\ ob[e[1]].deps[e[2]] = h}

Count(al, ob, h) == IF h \in al THEN ob[h].refc ELSE 0

Finite(al, ob, st, h) ==
  /\ IsFiniteSet(Entries(st, h, RefPC))
  /\ IsFiniteSet(Entries(st, h, {"unlocking"}))
  /\ IsFiniteSet(DepEntries(al, ob, h))

Exact(al, ob, st, hd, h) ==
  Count(al, ob, h) = hd[h] + Cardinality(Entries(st, h, RefPC))
                           + Cardinality(DepEntries(al, ob, h))

RInvOf(al, ob, st, hd) ==
  /\ \A h \in Handle :
       /\ Finite(al, ob, st, h)
       /\ Exact(al, ob, st, hd, h)
       /\ Cardinality(Entries(st, h, {"unlocking"})) <= 1
       /\ h \in al => ob[h].released <= Len(ob[h].deps)
  /\ \A t \in Thread : Good(al, ob, st[t])

RInv == members = alive /\ RInvOf(alive, obj, stack, held)

-----------------------------------------------------------------------------
(* One call more, or one call less, on the stack of a thread.              *)
One(f, h, pcs) == IF On(f, h, pcs) THEN 1 ELSE 0

Pushed(st, t, f) == [st EXCEPT ![t] = Append(st[t], f)]
Popped(st, t) == [st EXCEPT ![t] = SubSeq(st[t], 1, Len(st[t]) - 1)]

LEMMA EntryIs ==
  ASSUME NEW st \in [Thread -> Seq(Shaped)], NEW h, NEW pcs, NEW e
  PROVE  e \in Entries(st, h, pcs) <=>
           \E u \in Thread : \E k \in 1 .. Len(st[u]) :
             e = <<u, k>> /\ On(st[u][k], h, pcs)
<1>1. \A u \in Thread : DOMAIN st[u] = 1 .. Len(st[u])
  OBVIOUS
<1> QED BY <1>1 DEF Entries

LEMMA PushEntries ==
  ASSUME NEW st \in [Thread -> Seq(Shaped)], NEW t \in Thread, NEW f \in Shaped,
         NEW h, NEW pcs, IsFiniteSet(Entries(st, h, pcs))
  PROVE  /\ IsFiniteSet(Entries(Pushed(st, t, f), h, pcs))
         /\ Cardinality(Entries(st, h, pcs)) \in Nat
         /\ Cardinality(Entries(Pushed(st, t, f), h, pcs)) =
              Cardinality(Entries(st, h, pcs)) + One(f, h, pcs)
<1> DEFINE st2 == Pushed(st, t, f)
           n == Len(st[t]) + 1
           E == Entries(st, h, pcs)
           E2 == Entries(st2, h, pcs)
<1>1. /\ st2 \in [Thread -> Seq(Shaped)]
      /\ \A u \in Thread : u # t => st2[u] = st[u]
      /\ n \in Nat /\ Len(st2[t]) = n /\ st2[t][n] = f
      /\ \A k \in 1 .. n - 1 : st2[t][k] = st[t][k]
      /\ Len(st[t]) = n - 1
  BY DEF Pushed
<1> HIDE DEF st2, n
<1>2. \A e : e \in E <=> \E u \in Thread : \E k \in 1 .. Len(st[u]) :
                           e = <<u, k>> /\ On(st[u][k], h, pcs)
  BY EntryIs
<1>3. \A e : e \in E2 <=> \E u \in Thread : \E k \in 1 .. Len(st2[u]) :
                            e = <<u, k>> /\ On(st2[u][k], h, pcs)
  BY <1>1, EntryIs
<1> HIDE DEF E, E2
<1>4. \A e : e \in E2 <=> e \in E \/ (On(f, h, pcs) /\ e = <<t, n>>)
  <2> TAKE e
  <2>1. ASSUME e \in E2
        PROVE  e \in E \/ (On(f, h, pcs) /\ e = <<t, n>>)
    <3>0. PICK u \in Thread : \E k \in 1 .. Len(st2[u]) :
                                e = <<u, k>> /\ On(st2[u][k], h, pcs)
      BY <1>3, <2>1
    <3>1. PICK k \in 1 .. Len(st2[u]) : e = <<u, k>> /\ On(st2[u][k], h, pcs)
      BY <3>0
    <3>2. CASE u = t /\ k = n
      BY <1>1, <3>1, <3>2
    <3>3. CASE u # t \/ k # n
      <4>1. k \in 1 .. Len(st[u]) /\ st2[u][k] = st[u][k]
        BY <1>1, <3>3
      <4> QED BY <1>2, <3>1, <4>1
    <3> QED BY <3>2, <3>3
  <2>2. ASSUME e \in E
        PROVE  e \in E2
    <3>0. PICK u \in Thread : \E k \in 1 .. Len(st[u]) :
                                e = <<u, k>> /\ On(st[u][k], h, pcs)
      BY <1>2, <2>2
    <3>1. PICK k \in 1 .. Len(st[u]) : e = <<u, k>> /\ On(st[u][k], h, pcs)
      BY <3>0
    <3>2. k \in 1 .. Len(st2[u]) /\ st2[u][k] = st[u][k]
      <4>1. CASE u = t
        BY <1>1, <4>1
      <4>2. CASE u # t
        BY <1>1, <4>2
      <4> QED BY <4>1, <4>2
    <3> QED BY <1>3, <3>1, <3>2
  <2>3. ASSUME On(f, h, pcs), e = <<t, n>>
        PROVE  e \in E2
    <3>1. n \in 1 .. Len(st2[t])
      BY <1>1
    <3> QED BY <1>1, <1>3, <2>3, <3>1
  <2> QED BY <2>1, <2>2, <2>3
<1>5. <<t, n>> \notin E
  BY <1>1, <1>2
<1>6. IsFiniteSet(E)
  BY DEF E
<1>7. CASE On(f, h, pcs)
  <2>1. E2 = E \cup {<<t, n>>}
    BY <1>4, <1>7
  <2>2. IsFiniteSet(E2) /\ Cardinality(E2) = Cardinality(E) + 1 /\ Cardinality(E) \in Nat
    BY <1>5, <1>6, <2>1, FS_AddElement, FS_CardinalityType
  <2> QED BY <1>7, <2>2 DEF One, E, E2, st2
<1>8. CASE ~On(f, h, pcs)
  <2>1. E2 = E
    BY <1>4, <1>8
  <2>2. Cardinality(E) \in Nat
    BY <1>6, FS_CardinalityType
  <2> QED BY <1>6, <1>8, <2>1, <2>2 DEF One, E, E2, st2
<1> QED BY <1>7, <1>8

LEMMA PopEntries ==
  ASSUME NEW st \in [Thread -> Seq(Shaped)], NEW t \in Thread, st[t] # <<>>,
         NEW h, NEW pcs, IsFiniteSet(Entries(st, h, pcs))
  PROVE  /\ IsFiniteSet(Entries(Popped(st, t), h, pcs))
         /\ Cardinality(Entries(Popped(st, t), h, pcs)) \in Nat
         /\ Cardinality(Entries(st, h, pcs)) =
              Cardinality(Entries(Popped(st, t), h, pcs))
              + One(st[t][Len(st[t])], h, pcs)
<1> DEFINE st1 == Popped(st, t)
           f == st[t][Len(st[t])]
<1>1. st[t] \in Seq(Shaped)
  OBVIOUS
<1>2. PICK u \in Seq(Shaped) : u = SubSeq(st[t], 1, Len(st[t]) - 1)
  BY <1>1, Split
<1>3. f \in Shaped /\ st[t] = Append(u, f)
  BY <1>1, <1>2, Split
<1>4. st1 \in [Thread -> Seq(Shaped)] /\ st1[t] = u
  BY <1>2 DEF Popped
<1>5. st = Pushed(st1, t, f)
  BY <1>2, <1>3, <1>4 DEF Pushed, Popped
<1>6. Entries(st1, h, pcs) \subseteq Entries(st, h, pcs)
  <2> SUFFICES ASSUME NEW e \in Entries(st1, h, pcs)
               PROVE  e \in Entries(st, h, pcs)
    OBVIOUS
  <2>0. PICK v \in Thread : \E k \in 1 .. Len(st1[v]) :
                              e = <<v, k>> /\ On(st1[v][k], h, pcs)
    BY <1>4, EntryIs
  <2>1. PICK k \in 1 .. Len(st1[v]) : e = <<v, k>> /\ On(st1[v][k], h, pcs)
    BY <2>0
  <2>2. k \in 1 .. Len(st[v]) /\ st1[v][k] = st[v][k]
    <3>1. CASE v # t
      BY <3>1 DEF Popped
    <3>2. CASE v = t
      BY <1>2, <1>3, <1>4, <3>2
    <3> QED BY <3>1, <3>2
  <2> QED BY <2>1, <2>2, EntryIs
<1>7. IsFiniteSet(Entries(st1, h, pcs))
  BY <1>6, FS_Subset
<1> HIDE DEF st1, f
<1> QED BY <1>3, <1>4, <1>5, <1>7, PushEntries DEF st1, f

LEMMA EntryCounts ==
  ASSUME NEW st \in [Thread -> Seq(Shaped)], NEW h, NEW pcs,
         IsFiniteSet(Entries(st, h, pcs)),
         NEW t \in Thread, NEW k \in 1 .. Len(st[t]), On(st[t][k], h, pcs)
  PROVE  Cardinality(Entries(st, h, pcs)) \in Nat /\ Cardinality(Entries(st, h, pcs)) > 0
<1>1. <<t, k>> \in Entries(st, h, pcs)
  BY EntryIs
<1>2. Cardinality(Entries(st, h, pcs)) \in Nat
  BY FS_CardinalityType
<1>3. Cardinality(Entries(st, h, pcs)) # 0
  BY <1>1, FS_EmptySet
<1> QED BY <1>2, <1>3

LEMMA PushPopTypes ==
  ASSUME NEW st \in [Thread -> Seq(Shaped)], NEW t \in Thread
  PROVE  /\ \A f \in Shaped : Pushed(st, t, f) \in [Thread -> Seq(Shaped)]
         /\ \A f \in Shaped : Pushed(st, t, f)[t] = Append(st[t], f)
         /\ st[t] # <<>> => /\ Popped(st, t) \in [Thread -> Seq(Shaped)]
                            /\ Popped(st, t)[t] = SubSeq(st[t], 1, Len(st[t]) - 1)
<1>1. st[t] # <<>> => SubSeq(st[t], 1, Len(st[t]) - 1) \in Seq(Shaped)
  BY Split
<1> QED BY <1>1 DEF Pushed, Popped

(* The stack of a step in terms of calls that return and calls made.       *)
LEMMA Moves ==
  ASSUME Stacks, NEW t \in Thread
  PROVE  /\ \A f \in Shaped : Enter(t, f) <=> stack' = Pushed(stack, t, f)
         /\ Running(t) =>
              /\ Popped(stack, t) = [stack EXCEPT ![t] = Under(t)]
              /\ \A f \in Shaped :
                   Become(t, f) <=> stack' = Pushed(Popped(stack, t), t, f)
              /\ \A f, g \in Shaped :
                   BecomeAndCall(t, f, g) <=>
                     stack' = Pushed(Pushed(Popped(stack, t), t, f), t, g)
<1>1. stack \in [Thread -> Seq(Shaped)]
  BY DEF Stacks
<1>2. \A f \in Shaped : Enter(t, f) <=> stack' = Pushed(stack, t, f)
  BY <1>1 DEF Enter, Pushed
<1>3. ASSUME Running(t)
      PROVE  Popped(stack, t) = [stack EXCEPT ![t] = Under(t)]
  BY DEF Popped, Under
<1>4. ASSUME Running(t), NEW f \in Shaped
      PROVE  Pushed(Popped(stack, t), t, f) = [stack EXCEPT ![t] = Append(Under(t), f)]
  BY <1>1, <1>3, <1>4 DEF Pushed
<1>5. ASSUME Running(t), NEW f \in Shaped, NEW g \in Shaped
      PROVE  Pushed(Pushed(Popped(stack, t), t, f), t, g) =
               [stack EXCEPT ![t] = Append(Append(Under(t), f), g)]
  BY <1>1, <1>4, <1>5 DEF Pushed
<1> QED BY <1>2, <1>3, <1>4, <1>5 DEF Become, BecomeAndCall

LEMMA Returns ==
  ASSUME Stacks, NEW t \in Thread, Len(stack[t]) > 1
  PROVE  /\ Popped(stack, t) \in [Thread -> Seq(Shaped)]
         /\ Popped(stack, t)[t] # <<>>
         /\ Popped(stack, t)[t][Len(Popped(stack, t)[t])] = Caller(t)
         /\ Popped(Popped(stack, t), t) = [stack EXCEPT ![t] = UnderCaller(t)]
         /\ \A f \in Shaped :
              ReturnTo(t, f) <=> stack' = Pushed(Popped(Popped(stack, t), t), t, f)
<1>1. stack \in [Thread -> Seq(Shaped)] /\ stack[t] \in Seq(Shaped) /\ stack[t] # <<>>
  BY DEF Stacks
<1>2. PICK s \in Seq(Shaped) : s = stack[t] /\ Len(s) > 1 /\ s # <<>>
  BY <1>1
<1>3. PICK u \in Seq(Shaped) : u = SubSeq(s, 1, Len(s) - 1)
  BY <1>2, Split
<1>4. Len(u) = Len(s) - 1 /\ u # <<>> /\ Len(s) \in Nat
  <2>1. Len(s) \in Nat /\ Len(u) = Len(s) - 1
    BY <1>2, <1>3, Split
  <2>2. Len(u) > 0
    BY <1>2, <2>1
  <2> QED BY <2>1, <2>2
<1>5. \A k \in 1 .. Len(u) : u[k] = s[k]
  BY <1>2, <1>3, <1>4
<1>6. /\ u[Len(u)] = s[Len(s) - 1]
      /\ SubSeq(u, 1, Len(u) - 1) = SubSeq(s, 1, Len(s) - 2)
  <2>1. Len(u) \in 1 .. Len(u) /\ Len(u) = Len(s) - 1
    BY <1>2, <1>4
  <2>2. u[Len(u)] = s[Len(u)]
    BY <1>5, <2>1
  <2>3. [k \in 1 .. Len(u) - 1 |-> u[k]] = [k \in 1 .. Len(s) - 2 |-> s[k]]
    BY <1>4, <1>5
  <2>4. SubSeq(u, 1, Len(u) - 1) = [k \in 1 .. Len(u) - 1 |-> u[k]]
    BY <1>4
  <2>5. SubSeq(s, 1, Len(s) - 2) = [k \in 1 .. Len(s) - 2 |-> s[k]]
    BY <1>2, <1>4
  <2> QED BY <2>1, <2>2, <2>3, <2>4, <2>5
<1>7. Popped(stack, t) \in [Thread -> Seq(Shaped)] /\ Popped(stack, t)[t] = u
  BY <1>1, <1>2, <1>3 DEF Popped
<1>8. Popped(Popped(stack, t), t) = [stack EXCEPT ![t] = SubSeq(u, 1, Len(u) - 1)]
  BY <1>1, <1>7 DEF Popped
<1>9. Popped(Popped(stack, t), t) = [stack EXCEPT ![t] = UnderCaller(t)]
  BY <1>2, <1>6, <1>8 DEF UnderCaller
<1>10. \A f \in Shaped : Pushed(Popped(Popped(stack, t), t), t, f) =
                           [stack EXCEPT ![t] = Append(UnderCaller(t), f)]
  BY <1>1, <1>9 DEF Pushed
<1> QED BY <1>2, <1>4, <1>6, <1>7, <1>9, <1>10 DEF ReturnTo, Caller

-----------------------------------------------------------------------------
(* What may replace a running call whoever its caller is.                  *)
MayBecome(f, g) ==
  \/ f.pc \in UnloadPC /\ g.pc \in UnloadPC /\ g.h = f.h
  \/ f.pc \in OpenPC /\ g.pc \in OpenPC \cup LoadPC \cup {"done"}
  \/ f.pc \in LoadPC /\ g.pc \in LoadPC \cup UnlockPC \cup {"done"}
  \/ f.pc \in UnlockPC /\ g.pc \in UnlockPC
  \/ f.pc \in UnlockPC /\ g.pc = "done" /\ g.h = Null
  \/ f.pc = "lookup" /\ g.pc = "lookup"

LEMMA Replaced ==
  ASSUME NEW f, NEW g, MayBecome(f, g)
  PROVE  /\ f.pc \in UnloadPC <=> g.pc \in UnloadPC
         /\ \A c : Calls(c, f) => Calls(c, g)
BY DEF MayBecome, Calls, OpenPC, LoadPC, UnlockPC, UnloadPC

(* A stack keeps its shape when a call is made or returns.                 *)
LEMMA GoodPush ==
  ASSUME NEW al, NEW ob, NEW s \in Seq(Shaped), NEW f \in Shaped,
         Good(al, ob, s), FrameOK(al, ob, f),
         s = <<>> => f.pc \notin UnloadPC,
         s # <<>> => Calls(s[Len(s)], f) /\ PairOK(ob, s[Len(s)], f)
  PROVE  Good(al, ob, Append(s, f))
<1> DEFINE r == Append(s, f)
           n == Len(s) + 1
<1>1. /\ n \in Nat \ {0} /\ Len(r) = n /\ r[n] = f /\ Len(s) = n - 1
      /\ \A k \in 1 .. n - 1 : r[k] = s[k]
      /\ r # <<>> /\ (s = <<>> <=> n = 1)
  <2>1. Len(s) \in Nat /\ (s = <<>> <=> Len(s) = 0)
    OBVIOUS
  <2>2. r \in Seq(Shaped) /\ Len(r) = n /\ r[n] = f /\ \A k \in 1 .. n - 1 : r[k] = s[k]
    OBVIOUS
  <2>3. n \in Nat \ {0} /\ Len(s) = n - 1 /\ (Len(s) = 0 <=> n = 1)
    BY <2>1
  <2> QED BY <2>1, <2>2, <2>3
<1> HIDE DEF r, n
<1>2. r[1].pc \notin UnloadPC
  BY <1>1 DEF Good
<1>3. \A k \in 2 .. n : Calls(r[k - 1], r[k]) /\ PairOK(ob, r[k - 1], r[k])
  <2> SUFFICES ASSUME NEW k \in 2 .. n
               PROVE  Calls(r[k - 1], r[k]) /\ PairOK(ob, r[k - 1], r[k])
    OBVIOUS
  <2>1. CASE k = n
    BY <1>1, <2>1
  <2>2. CASE k # n
    <3>1. k \in 2 .. Len(s) /\ r[k] = s[k] /\ r[k - 1] = s[k - 1]
      BY <1>1, <2>2
    <3> QED BY <3>1 DEF Good
  <2> QED BY <2>1, <2>2
<1>4. \A j, k \in 1 .. n :
        j <= k /\ r[j].pc = "unlocking" => r[k].pc \in ClosingPC
  <2> SUFFICES ASSUME NEW j \in 1 .. n, NEW k \in 1 .. n, j <= k, r[j].pc = "unlocking"
               PROVE  r[k].pc \in ClosingPC
    OBVIOUS
  <2>1. CASE k # n
    <3>1. j \in 1 .. Len(s) /\ k \in 1 .. Len(s) /\ r[k] = s[k] /\ r[j] = s[j]
      BY <1>1, <2>1
    <3> QED BY <3>1 DEF Good
  <2>2. CASE j = n
    <3>1. k = n
      BY <1>1, <2>2
    <3> QED BY <2>2, <3>1 DEF ClosingPC, UnlockPC
  <2>3. CASE k = n /\ j # n
    <3>1. /\ j \in 1 .. Len(s) /\ Len(s) \in 1 .. Len(s) /\ j <= Len(s)
          /\ r[j] = s[j] /\ s # <<>>
      BY <1>1, <2>3
    <3>2. s[Len(s)].pc \in ClosingPC
      BY <3>1 DEF Good
    <3>3. Calls(s[Len(s)], f)
      BY <3>1
    <3>4. f.pc \in ClosingPC
      BY <3>2, <3>3 DEF Calls, ClosingPC, UnlockPC, UnloadPC
    <3> QED BY <1>1, <2>3, <3>4
  <2> QED BY <2>1, <2>2, <2>3
<1>5. \A k \in 1 .. n : FrameOK(al, ob, r[k])
  <2> SUFFICES ASSUME NEW k \in 1 .. n
               PROVE  FrameOK(al, ob, r[k])
    OBVIOUS
  <2>1. CASE k = n
    BY <1>1, <2>1
  <2>2. CASE k # n
    <3>1. k \in 1 .. Len(s) /\ r[k] = s[k]
      BY <1>1, <2>2
    <3> QED BY <3>1 DEF Good
  <2> QED BY <2>1, <2>2
<1> QED BY <1>1, <1>2, <1>3, <1>4, <1>5 DEF Good, r

LEMMA GoodPop ==
  ASSUME NEW al, NEW ob, NEW s \in Seq(Shaped), s # <<>>, Good(al, ob, s)
  PROVE  LET u == SubSeq(s, 1, Len(s) - 1)
         IN /\ Good(al, ob, u)
            /\ u = <<>> => s[Len(s)].pc \notin UnloadPC
            /\ u # <<>> => /\ Calls(u[Len(u)], s[Len(s)])
                           /\ PairOK(ob, u[Len(u)], s[Len(s)])
            /\ FrameOK(al, ob, s[Len(s)])
<1> DEFINE u == SubSeq(s, 1, Len(s) - 1)
           n == Len(s)
<1>1. /\ n \in Nat \ {0} /\ Len(u) = n - 1
      /\ \A k \in 1 .. n - 1 : u[k] = s[k]
      /\ u = <<>> <=> n = 1
  <2>1. n \in Nat \ {0}
    OBVIOUS
  <2>2. u \in Seq(Shaped) /\ Len(u) = n - 1
    BY Split
  <2>3. \A k \in 1 .. n - 1 : u[k] = s[k]
    OBVIOUS
  <2> HIDE DEF u, n
  <2>4. u = <<>> <=> Len(u) = 0
    BY <2>2, EmptySeq
  <2>5. n - 1 = 0 <=> n = 1
    BY <2>1
  <2> QED BY <2>1, <2>2, <2>3, <2>4, <2>5
<1> HIDE DEF u, n
<1>2. \A k \in 1 .. n - 1 : k \in 1 .. n
  BY <1>1
<1>3. /\ s[1].pc \notin UnloadPC
      /\ \A k \in 2 .. n : Calls(s[k - 1], s[k]) /\ PairOK(ob, s[k - 1], s[k])
      /\ \A j, k \in 1 .. n :
           j <= k /\ s[j].pc = "unlocking" => s[k].pc \in ClosingPC
      /\ \A k \in 1 .. n : FrameOK(al, ob, s[k])
  BY DEF Good, n
<1>4. Good(al, ob, u)
  <2>1. u # <<>> => u[1].pc \notin UnloadPC
    BY <1>1, <1>3
  <2>2. \A k \in 2 .. n - 1 : Calls(u[k - 1], u[k]) /\ PairOK(ob, u[k - 1], u[k])
    <3> SUFFICES ASSUME NEW k \in 2 .. n - 1
                 PROVE  Calls(u[k - 1], u[k]) /\ PairOK(ob, u[k - 1], u[k])
      OBVIOUS
    <3>1. k \in 2 .. n /\ u[k] = s[k] /\ u[k - 1] = s[k - 1]
      BY <1>1
    <3> QED BY <1>3, <3>1
  <2>3. \A j, k \in 1 .. n - 1 :
          j <= k /\ u[j].pc = "unlocking" => u[k].pc \in ClosingPC
    BY <1>1, <1>2, <1>3
  <2>4. \A k \in 1 .. n - 1 : FrameOK(al, ob, u[k])
    BY <1>1, <1>2, <1>3
  <2> QED BY <1>1, <2>1, <2>2, <2>3, <2>4 DEF Good
<1>5. u # <<>> => Calls(u[Len(u)], s[n]) /\ PairOK(ob, u[Len(u)], s[n])
  <2> SUFFICES ASSUME u # <<>>
               PROVE  Calls(u[Len(u)], s[n]) /\ PairOK(ob, u[Len(u)], s[n])
    OBVIOUS
  <2>1. n \in 2 .. n /\ u[Len(u)] = s[n - 1]
    BY <1>1
  <2> QED BY <1>3, <2>1
<1>6. u = <<>> => s[n].pc \notin UnloadPC
  BY <1>1, <1>3
<1>7. FrameOK(al, ob, s[n])
  BY <1>1, <1>3
<1> QED BY <1>4, <1>5, <1>6, <1>7 DEF u, n

AllGood(al, ob, st) == \A t \in Thread : Good(al, ob, st[t])

LEMMA PushGood ==
  ASSUME NEW al, NEW ob, NEW st \in [Thread -> Seq(Shaped)], NEW t \in Thread,
         NEW f \in Shaped, AllGood(al, ob, st), FrameOK(al, ob, f),
         st[t] = <<>> => f.pc \notin UnloadPC,
         st[t] # <<>> => /\ Calls(st[t][Len(st[t])], f)
                         /\ PairOK(ob, st[t][Len(st[t])], f)
  PROVE  AllGood(al, ob, Pushed(st, t, f))
<1>1. st[t] \in Seq(Shaped) /\ Good(al, ob, st[t])
  BY DEF AllGood
<1>2. Good(al, ob, Append(st[t], f))
  BY <1>1, GoodPush
<1> QED BY <1>2, PushPopTypes DEF AllGood, Pushed

LEMMA PopGood ==
  ASSUME NEW al, NEW ob, NEW st \in [Thread -> Seq(Shaped)], NEW t \in Thread,
         st[t] # <<>>, AllGood(al, ob, st)
  PROVE  AllGood(al, ob, Popped(st, t))
<1>1. st[t] \in Seq(Shaped) /\ Good(al, ob, st[t])
  BY DEF AllGood
<1>2. Good(al, ob, SubSeq(st[t], 1, Len(st[t]) - 1))
  BY <1>1, GoodPop
<1> QED BY <1>2, PushPopTypes DEF AllGood, Popped

(* A running call is replaced, and may then make a call.                   *)
LEMMA BecomeGood ==
  ASSUME NEW al, NEW ob, NEW st \in [Thread -> Seq(Shaped)], NEW t \in Thread,
         st[t] # <<>>, NEW f \in Shaped, AllGood(al, ob, st),
         MayBecome(st[t][Len(st[t])], f), FrameOK(al, ob, f),
         \A c \in Shaped : Calls(c, f) => PairOK(ob, c, f)
  PROVE  AllGood(al, ob, Pushed(Popped(st, t), t, f))
<1> DEFINE st1 == Popped(st, t)
           s == st[t]
           u == SubSeq(s, 1, Len(s) - 1)
<1>1. s \in Seq(Shaped) /\ Good(al, ob, s) /\ s # <<>>
  BY DEF AllGood
<1>2. st1 \in [Thread -> Seq(Shaped)] /\ st1[t] = u /\ AllGood(al, ob, st1)
  BY PushPopTypes, PopGood
<1>3. /\ u = <<>> => s[Len(s)].pc \notin UnloadPC
      /\ u # <<>> => Calls(u[Len(u)], s[Len(s)])
  BY <1>1, GoodPop
<1>4. /\ s[Len(s)].pc \in UnloadPC <=> f.pc \in UnloadPC
      /\ \A c : Calls(c, s[Len(s)]) => Calls(c, f)
  BY Replaced
<1>5. u # <<>> => u[Len(u)] \in Shaped
  BY <1>1, Split
<1> HIDE DEF st1, s, u
<1>6. /\ st1[t] = <<>> => f.pc \notin UnloadPC
      /\ st1[t] # <<>> => /\ Calls(st1[t][Len(st1[t])], f)
                          /\ PairOK(ob, st1[t][Len(st1[t])], f)
  BY <1>2, <1>3, <1>4, <1>5
<1>7. AllGood(al, ob, Pushed(st1, t, f))
  BY <1>2, <1>6, PushGood
<1> QED BY <1>7 DEF st1

(* Fields that no call depends on may change.                              *)
Same(ob, ob2) ==
  \A h \in Handle : /\ ob2[h].refc = ob[h].refc /\ ob2[h].deps = ob[h].deps
                    /\ ob2[h].released = ob[h].released

LEMMA SameGood ==
  ASSUME NEW al, NEW ob, NEW ob2, Same(ob, ob2), NEW s \in Seq(Shaped),
         Good(al, ob, s)
  PROVE  Good(al, ob2, s)
<1>1. \A k \in 1 .. Len(s) : s[k] \in Shaped
  OBVIOUS
<1>2. \A f \in Shaped : FrameOK(al, ob, f) => FrameOK(al, ob2, f)
  <2> SUFFICES ASSUME NEW f \in Shaped, FrameOK(al, ob, f)
               PROVE  FrameOK(al, ob2, f)
    OBVIOUS
  <2>1. f.pc \in UnlockPC \cup UnloadPC => f.h \in Handle
    BY DEF Shaped
  <2> QED BY <2>1 DEF FrameOK, Same, UnlockPC, UnloadPC
<1>3. \A c, f \in Shaped : PairOK(ob, c, f) => PairOK(ob2, c, f)
  <2> SUFFICES ASSUME NEW c \in Shaped, NEW f \in Shaped, PairOK(ob, c, f)
               PROVE  PairOK(ob2, c, f)
    OBVIOUS
  <2>1. f.pc \in UnloadPC => f.h \in Handle
    BY DEF Shaped
  <2> QED BY <2>1 DEF PairOK, Same, UnloadPC
<1>4. \A k \in 2 .. Len(s) : k \in 1 .. Len(s) /\ k - 1 \in 1 .. Len(s)
  OBVIOUS
<1>5. \A k \in 2 .. Len(s) : Calls(s[k - 1], s[k]) /\ PairOK(ob2, s[k - 1], s[k])
  BY <1>1, <1>3, <1>4 DEF Good
<1>6. \A k \in 1 .. Len(s) : FrameOK(al, ob2, s[k])
  BY <1>1, <1>2 DEF Good
<1> QED BY <1>5, <1>6 DEF Good

SameLinks(ob, ob2) ==
  \A h \in Handle : ob2[h].deps = ob[h].deps /\ ob2[h].released = ob[h].released

LEMMA SameDeps ==
  ASSUME NEW al \in SUBSET Handle, NEW ob, NEW ob2, SameLinks(ob, ob2), NEW h
  PROVE  DepEntries(al, ob2, h) = DepEntries(al, ob, h)
<1>1. \A g \in al : DOMAIN ob2[g].deps = DOMAIN ob[g].deps
  BY DEF SameLinks
<1>2. \A e : e \in DepEntries(al, ob, h) <=> e \in DepEntries(al, ob2, h)
  <2> TAKE e
  <2>1. e \in DepEntries(al, ob, h) <=>
          \E g \in al : \E k \in DOMAIN ob[g].deps :
            e = <<g, k>> /\ k > ob[g].released /\ ob[g].deps[k] = h
    BY DEF DepEntries
  <2>2. e \in DepEntries(al, ob2, h) <=>
          \E g \in al : \E k \in DOMAIN ob2[g].deps :
            e = <<g, k>> /\ k > ob2[g].released /\ ob2[g].deps[k] = h
    BY DEF DepEntries
  <2>3. \A g \in al : /\ ob2[g].deps = ob[g].deps
                      /\ ob2[g].released = ob[g].released
    BY DEF SameLinks
  <2> QED BY <2>1, <2>2, <2>3
<1> QED BY <1>2

-----------------------------------------------------------------------------
(* A call that works on a reference works on a handle that has one.        *)
LEMMA RefAlive ==
  ASSUME IInv, RInv, NEW t \in Thread, NEW k \in 1 .. Len(stack[t]),
         stack[t][k].pc \in RefPC, stack[t][k].h \in Handle
  PROVE  stack[t][k].h \in alive /\ obj[stack[t][k].h].refc > 0
<1>1. PICK h \in Handle : h = stack[t][k].h
  OBVIOUS
<1> DEFINE E == Cardinality(Entries(stack, h, RefPC))
           D == Cardinality(DepEntries(alive, obj, h))
<1>2. stack \in [Thread -> Seq(Shaped)] /\ Finite(alive, obj, stack, h)
  BY DEF IInv, Stacks, RInv, RInvOf
<1>3. E \in Nat /\ E > 0
  BY <1>1, <1>2, EntryCounts DEF Finite, On
<1>4. D \in Nat
  BY <1>2, FS_CardinalityType DEF Finite
<1>5. held[h] \in Nat
  BY DEF IInv, Rest
<1>6. Count(alive, obj, h) = held[h] + E + D
  BY DEF RInv, RInvOf, Exact
<1> HIDE DEF E, D
<1>7. Count(alive, obj, h) # 0 /\ held[h] + E + D > 0
  BY <1>3, <1>4, <1>5, <1>6
<1> QED BY <1>1, <1>6, <1>7 DEF Count

(* So does one that is given a handle the program holds.                   *)
LEMMA HeldAlive ==
  ASSUME IInv, RInv, NEW h \in Handle, held[h] > 0
  PROVE  h \in alive
<1> DEFINE E == Cardinality(Entries(stack, h, RefPC))
           D == Cardinality(DepEntries(alive, obj, h))
<1>1. Finite(alive, obj, stack, h)
  BY DEF RInv, RInvOf
<1>2. E \in Nat /\ D \in Nat
  BY <1>1, FS_CardinalityType DEF Finite
<1>3. held[h] \in Nat
  BY DEF IInv, Rest
<1>4. Count(alive, obj, h) = held[h] + E + D
  BY DEF RInv, RInvOf, Exact
<1> HIDE DEF E, D
<1>5. held[h] + E + D > 0
  BY <1>2, <1>3
<1> QED BY <1>4, <1>5 DEF Count

(* A step that changes no count, no dependency and no allocation.          *)
LEMMA QuietStep ==
  ASSUME IInv, RInv, UNCHANGED <<alive, members>>, Same(obj, obj'),
         NEW st \in [Thread -> Seq(Shaped)], stack' = st,
         AllGood(alive, obj, st),
         \A h \in Handle :
           /\ IsFiniteSet(Entries(st, h, RefPC))
           /\ IsFiniteSet(Entries(st, h, {"unlocking"}))
           /\ held'[h] + Cardinality(Entries(st, h, RefPC)) =
                held[h] + Cardinality(Entries(stack, h, RefPC))
           /\ Cardinality(Entries(st, h, {"unlocking"})) <= 1
  PROVE  RInv'
<1>1. PICK ob2 : ob2 = obj'
  OBVIOUS
<1>2. PICK hd2 : hd2 = held'
  OBVIOUS
<1>3. PICK al \in SUBSET Handle : al = alive /\ al = alive'
  BY DEF IInv, Rest
<1>4. Same(obj, ob2)
  BY <1>1
<1>5. \A h \in Handle :
        /\ Finite(al, ob2, st, h)
        /\ Exact(al, ob2, st, hd2, h)
        /\ Cardinality(Entries(st, h, {"unlocking"})) <= 1
        /\ h \in al => ob2[h].released <= Len(ob2[h].deps)
  <2> SUFFICES ASSUME NEW h \in Handle
               PROVE  /\ Finite(al, ob2, st, h)
                      /\ Exact(al, ob2, st, hd2, h)
                      /\ Cardinality(Entries(st, h, {"unlocking"})) <= 1
                      /\ h \in al => ob2[h].released <= Len(ob2[h].deps)
    OBVIOUS
  <2>1. DepEntries(al, ob2, h) = DepEntries(al, obj, h)
    BY <1>4, SameDeps DEF Same, SameLinks
  <2>2. /\ Finite(al, obj, stack, h) /\ Exact(al, obj, stack, held, h)
        /\ h \in al => obj[h].released <= Len(obj[h].deps)
    BY <1>3 DEF RInv, RInvOf
  <2>3. Finite(al, ob2, st, h)
    BY <2>1, <2>2 DEF Finite
  <2> DEFINE E == Cardinality(Entries(stack, h, RefPC))
             E2 == Cardinality(Entries(st, h, RefPC))
             D == Cardinality(DepEntries(al, obj, h))
  <2>4. hd2[h] + E2 = held[h] + E
    BY <1>2
  <2>5. Count(al, ob2, h) = Count(al, obj, h)
    BY <1>4 DEF Count, Same
  <2>6. Count(al, obj, h) = held[h] + E + D
    BY <2>2 DEF Exact
  <2> HIDE DEF E, E2, D
  <2>7. Count(al, ob2, h) = hd2[h] + E2 + D
    BY <2>4, <2>5, <2>6
  <2>8. Exact(al, ob2, st, hd2, h)
    BY <2>1, <2>7 DEF Exact, E2, D
  <2> QED BY <1>4, <2>2, <2>3, <2>8 DEF Same
<1>6. \A t \in Thread : Good(al, ob2, st[t])
  BY <1>3, <1>4, SameGood DEF AllGood
<1>7. RInvOf(al, ob2, st, hd2)
  BY <1>5, <1>6 DEF RInvOf
<1>8. RInvOf(alive', obj', stack', held')
  BY <1>1, <1>2, <1>3, <1>7
<1> QED BY <1>8 DEF RInv

LEMMA BecomeCounts ==
  ASSUME NEW st \in [Thread -> Seq(Shaped)], NEW t \in Thread, st[t] # <<>>,
         NEW f \in Shaped, NEW h, NEW pcs, IsFiniteSet(Entries(st, h, pcs))
  PROVE  LET st2 == Pushed(Popped(st, t), t, f)
         IN /\ IsFiniteSet(Entries(st2, h, pcs))
            /\ Cardinality(Entries(st, h, pcs)) \in Nat
            /\ Cardinality(Entries(st2, h, pcs)) \in Nat
            /\ Cardinality(Entries(st2, h, pcs)) + One(st[t][Len(st[t])], h, pcs) =
                 Cardinality(Entries(st, h, pcs)) + One(f, h, pcs)
<1> DEFINE st1 == Popped(st, t)
           st2 == Pushed(st1, t, f)
           top == st[t][Len(st[t])]
           N == Cardinality(Entries(st, h, pcs))
           N1 == Cardinality(Entries(st1, h, pcs))
           N2 == Cardinality(Entries(st2, h, pcs))
<1>1. /\ IsFiniteSet(Entries(st1, h, pcs)) /\ N1 \in Nat
      /\ N = N1 + One(top, h, pcs)
  BY PopEntries
<1>2. PICK s \in [Thread -> Seq(Shaped)] : s = st1
  BY PushPopTypes
<1> HIDE DEF st1, top
<1>3. IsFiniteSet(Entries(st2, h, pcs)) /\ N2 = N1 + One(f, h, pcs)
  <2>1. IsFiniteSet(Entries(s, h, pcs))
    BY <1>1, <1>2
  <2> DEFINE M(z) == Cardinality(Entries(z, h, pcs))
  <2>2. /\ IsFiniteSet(Entries(Pushed(s, t, f), h, pcs))
        /\ M(Pushed(s, t, f)) = M(s) + One(f, h, pcs)
    BY <2>1, PushEntries
  <2> QED BY <1>2, <2>2
<1>4. One(f, h, pcs) \in {0, 1} /\ One(top, h, pcs) \in {0, 1}
  BY DEF One
<1> HIDE DEF st2, N, N1, N2
<1>5. N \in Nat /\ N2 \in Nat /\ N2 + One(top, h, pcs) = N + One(f, h, pcs)
  BY <1>1, <1>3, <1>4
<1> QED BY <1>3, <1>5 DEF st1, st2, top, N, N2

(* Stacks that count as much as those of the state.                        *)
Settled(st) ==
  /\ st \in [Thread -> Seq(Shaped)] /\ AllGood(alive, obj, st)
  /\ \A h \in Handle :
       /\ IsFiniteSet(Entries(st, h, RefPC))
       /\ IsFiniteSet(Entries(st, h, {"unlocking"}))
       /\ Cardinality(Entries(st, h, RefPC)) = Cardinality(Entries(stack, h, RefPC))
       /\ Cardinality(Entries(st, h, {"unlocking"})) <= 1

LEMMA SettledStack ==
  ASSUME IInv, RInv
  PROVE  Settled(stack)
BY DEF IInv, Stacks, RInv, RInvOf, AllGood, Settled, Finite

LEMMA SettledPop ==
  ASSUME IInv, RInv, NEW t \in Thread, Len(stack[t]) > 1,
         \A h \in Handle : ~On(Top(t), h, RefPC)
  PROVE  Settled(Popped(stack, t))
<1>1. stack \in [Thread -> Seq(Shaped)] /\ Stacks /\ stack[t] # <<>>
  BY DEF IInv, Stacks
<1>2. AllGood(alive, obj, Popped(stack, t))
  BY <1>1, PopGood DEF RInv, RInvOf, AllGood
<1>3. ASSUME NEW h \in Handle
      PROVE  /\ IsFiniteSet(Entries(Popped(stack, t), h, RefPC))
             /\ IsFiniteSet(Entries(Popped(stack, t), h, {"unlocking"}))
             /\ Cardinality(Entries(Popped(stack, t), h, RefPC)) =
                  Cardinality(Entries(stack, h, RefPC))
             /\ Cardinality(Entries(Popped(stack, t), h, {"unlocking"})) <= 1
  <2>1. /\ Finite(alive, obj, stack, h)
        /\ Cardinality(Entries(stack, h, {"unlocking"})) <= 1
    BY DEF RInv, RInvOf
  <2> DEFINE N(s, p) == Cardinality(Entries(s, h, p))
             st == Popped(stack, t)
  <2>2. /\ IsFiniteSet(Entries(st, h, RefPC)) /\ N(st, RefPC) \in Nat
        /\ N(stack, RefPC) = N(st, RefPC) + One(Top(t), h, RefPC)
    BY <1>1, <2>1, PopEntries DEF Finite, Top
  <2>3. /\ IsFiniteSet(Entries(st, h, {"unlocking"})) /\ N(st, {"unlocking"}) \in Nat
        /\ N(stack, {"unlocking"}) = N(st, {"unlocking"}) + One(Top(t), h, {"unlocking"})
    BY <1>1, <2>1, PopEntries DEF Finite, Top
  <2>4. One(Top(t), h, {"unlocking"}) \in {0, 1} /\ One(Top(t), h, RefPC) = 0
    BY DEF One
  <2>5. N(stack, {"unlocking"}) <= 1
    BY <2>1
  <2> HIDE DEF N, st
  <2>6. N(stack, RefPC) = N(st, RefPC) /\ N(st, {"unlocking"}) <= 1
    BY <2>2, <2>3, <2>4, <2>5
  <2> QED BY <2>2, <2>3, <2>6 DEF N, st
<1> QED BY <1>1, <1>2, <1>3, PushPopTypes DEF Settled

(* The ways a quiet step goes on: the running call of such stacks becomes  *)
(* f; it becomes f and calls g; the program calls g; a call returns.       *)
LEMMA QuietBecome ==
  ASSUME IInv, RInv, UNCHANGED <<alive, members, held>>, Same(obj, obj'),
         NEW sk, Settled(sk), NEW t \in Thread, sk[t] # <<>>, NEW f \in Shaped,
         stack' = Pushed(Popped(sk, t), t, f),
         MayBecome(sk[t][Len(sk[t])], f), FrameOK(alive, obj, f), f.pc # "unlocking",
         \A c \in Shaped : Calls(c, f) => PairOK(obj, c, f),
         \A h \in Handle : On(f, h, RefPC) <=> On(sk[t][Len(sk[t])], h, RefPC)
  PROVE  RInv'
<1> DEFINE top == sk[t][Len(sk[t])]
           st == Pushed(Popped(sk, t), t, f)
<1>1. sk \in [Thread -> Seq(Shaped)]
  BY DEF Settled
<1>2. st \in [Thread -> Seq(Shaped)] /\ stack' = st
  BY <1>1, PushPopTypes
<1>3. AllGood(alive, obj, sk)
  BY DEF Settled
<1>4. AllGood(alive, obj, st)
  BY <1>1, <1>3, BecomeGood
<1>5. ASSUME NEW h \in Handle
      PROVE  /\ IsFiniteSet(Entries(st, h, RefPC))
             /\ IsFiniteSet(Entries(st, h, {"unlocking"}))
             /\ held'[h] + Cardinality(Entries(st, h, RefPC)) =
                  held[h] + Cardinality(Entries(stack, h, RefPC))
             /\ Cardinality(Entries(st, h, {"unlocking"})) <= 1
  <2>1. /\ IsFiniteSet(Entries(sk, h, RefPC))
        /\ IsFiniteSet(Entries(sk, h, {"unlocking"}))
        /\ Cardinality(Entries(sk, h, RefPC)) = Cardinality(Entries(stack, h, RefPC))
        /\ Cardinality(Entries(sk, h, {"unlocking"})) <= 1
    BY DEF Settled
  <2>2. One(f, h, RefPC) = One(top, h, RefPC) /\ One(top, h, RefPC) \in {0, 1}
    BY DEF One
  <2>3. One(f, h, {"unlocking"}) = 0 /\ One(top, h, {"unlocking"}) \in {0, 1}
    BY DEF One, On
  <2> DEFINE N(s, p) == Cardinality(Entries(s, h, p))
  <2>4. /\ IsFiniteSet(Entries(st, h, RefPC))
        /\ N(st, RefPC) \in Nat /\ N(sk, RefPC) \in Nat
        /\ N(st, RefPC) + One(top, h, RefPC) = N(sk, RefPC) + One(f, h, RefPC)
    BY <1>1, <2>1, BecomeCounts DEF top
  <2>5. /\ IsFiniteSet(Entries(st, h, {"unlocking"}))
        /\ N(st, {"unlocking"}) \in Nat /\ N(sk, {"unlocking"}) \in Nat
        /\ N(st, {"unlocking"}) + One(top, h, {"unlocking"}) =
             N(sk, {"unlocking"}) + One(f, h, {"unlocking"})
    BY <1>1, <2>1, BecomeCounts DEF top
  <2>6. N(sk, {"unlocking"}) <= 1
    BY <2>1
  <2> HIDE DEF N, st, top
  <2>7. N(st, RefPC) = N(sk, RefPC)
    BY <2>2, <2>4
  <2>8. N(st, {"unlocking"}) <= 1
    BY <2>3, <2>5, <2>6
  <2> QED BY <2>1, <2>4, <2>5, <2>7, <2>8 DEF N
<1> HIDE DEF st
<1> QED BY <1>2, <1>4, <1>5, QuietStep

LEMMA QuietCall ==
  ASSUME IInv, RInv, UNCHANGED <<alive, members, held>>, Same(obj, obj'),
         NEW sk, Settled(sk), NEW t \in Thread, sk[t] # <<>>,
         NEW f \in Shaped, NEW g \in Shaped,
         stack' = Pushed(Pushed(Popped(sk, t), t, f), t, g),
         MayBecome(sk[t][Len(sk[t])], f), FrameOK(alive, obj, f), f.pc # "unlocking",
         \A c \in Shaped : Calls(c, f) => PairOK(obj, c, f),
         Calls(f, g), FrameOK(alive, obj, g), g.pc \notin RefPC \cup {"unlocking"},
         \A h \in Handle : On(f, h, RefPC) <=> On(sk[t][Len(sk[t])], h, RefPC)
  PROVE  RInv'
<1> DEFINE top == sk[t][Len(sk[t])]
           st1 == Pushed(Popped(sk, t), t, f)
           st == Pushed(st1, t, g)
<1>1. sk \in [Thread -> Seq(Shaped)]
  BY DEF Settled
<1>2. st1 \in [Thread -> Seq(Shaped)] /\ st \in [Thread -> Seq(Shaped)] /\ stack' = st
  <2>1. Popped(sk, t) \in [Thread -> Seq(Shaped)]
    BY <1>1, PushPopTypes
  <2>2. st1 \in [Thread -> Seq(Shaped)]
    BY <2>1, PushPopTypes
  <2>3. stack' = st
    OBVIOUS
  <2> HIDE DEF st1
  <2>4. st \in [Thread -> Seq(Shaped)]
    BY <2>2, PushPopTypes
  <2> QED BY <2>2, <2>3, <2>4
<1>3. AllGood(alive, obj, sk)
  BY DEF Settled
<1>4. AllGood(alive, obj, st1)
  BY <1>1, <1>3, BecomeGood
<1>5. st1[t] # <<>> /\ st1[t][Len(st1[t])] = f
  <2>1. Popped(sk, t) \in [Thread -> Seq(Shaped)]
    BY <1>1, PushPopTypes
  <2>2. PICK u \in Seq(Shaped) : u = Popped(sk, t)[t]
    BY <2>1
  <2>3. st1[t] = Append(u, f)
    BY <2>1, <2>2, PushPopTypes
  <2> QED BY <2>2, <2>3
<1>6. PairOK(obj, f, g)
  BY DEF PairOK
<1> HIDE DEF st1
<1>7. AllGood(alive, obj, st)
  BY <1>2, <1>4, <1>5, <1>6, PushGood
<1>8. ASSUME NEW h \in Handle
      PROVE  /\ IsFiniteSet(Entries(st, h, RefPC))
             /\ IsFiniteSet(Entries(st, h, {"unlocking"}))
             /\ held'[h] + Cardinality(Entries(st, h, RefPC)) =
                  held[h] + Cardinality(Entries(stack, h, RefPC))
             /\ Cardinality(Entries(st, h, {"unlocking"})) <= 1
  <2>1. /\ IsFiniteSet(Entries(sk, h, RefPC))
        /\ IsFiniteSet(Entries(sk, h, {"unlocking"}))
        /\ Cardinality(Entries(sk, h, RefPC)) = Cardinality(Entries(stack, h, RefPC))
        /\ Cardinality(Entries(sk, h, {"unlocking"})) <= 1
    BY DEF Settled
  <2>2. One(f, h, RefPC) = One(top, h, RefPC) /\ One(top, h, RefPC) \in {0, 1}
    BY DEF One
  <2>3. One(f, h, {"unlocking"}) = 0 /\ One(top, h, {"unlocking"}) \in {0, 1}
    BY DEF One, On
  <2>4. One(g, h, RefPC) = 0 /\ One(g, h, {"unlocking"}) = 0
    BY DEF One, On
  <2> DEFINE N(s, p) == Cardinality(Entries(s, h, p))
  <2>5. /\ IsFiniteSet(Entries(st1, h, RefPC))
        /\ N(st1, RefPC) \in Nat /\ N(sk, RefPC) \in Nat
        /\ N(st1, RefPC) + One(top, h, RefPC) = N(sk, RefPC) + One(f, h, RefPC)
    BY <1>1, <2>1, BecomeCounts DEF top, st1
  <2>6. /\ IsFiniteSet(Entries(st1, h, {"unlocking"}))
        /\ N(st1, {"unlocking"}) \in Nat /\ N(sk, {"unlocking"}) \in Nat
        /\ N(st1, {"unlocking"}) + One(top, h, {"unlocking"}) =
             N(sk, {"unlocking"}) + One(f, h, {"unlocking"})
    BY <1>1, <2>1, BecomeCounts DEF top, st1
  <2>7. /\ IsFiniteSet(Entries(st, h, RefPC))
        /\ N(st, RefPC) = N(st1, RefPC) + One(g, h, RefPC)
    BY <1>2, <2>5, PushEntries
  <2>8. /\ IsFiniteSet(Entries(st, h, {"unlocking"}))
        /\ N(st, {"unlocking"}) = N(st1, {"unlocking"}) + One(g, h, {"unlocking"})
    BY <1>2, <2>6, PushEntries
  <2>9. N(sk, {"unlocking"}) <= 1
    BY <2>1
  <2> HIDE DEF N, st, top
  <2>10. N(st, RefPC) = N(sk, RefPC)
    BY <2>2, <2>4, <2>5, <2>7
  <2>11. N(st, {"unlocking"}) <= 1
    BY <2>3, <2>4, <2>6, <2>8, <2>9
  <2> QED BY <2>1, <2>7, <2>8, <2>10, <2>11 DEF N
<1> HIDE DEF st
<1> QED BY <1>2, <1>7, <1>8, QuietStep

LEMMA QuietEnter ==
  ASSUME IInv, RInv, UNCHANGED <<alive, members>>, Same(obj, obj'),
         NEW t \in Thread, NEW g \in Shaped, Enter(t, g),
         g.pc \notin UnloadPC \cup {"unlocking"},
         Running(t) => Calls(Top(t), g),
         \A h \in Handle : held'[h] + One(g, h, RefPC) = held[h] /\ held'[h] \in Nat
  PROVE  RInv'
<1> DEFINE st == Pushed(stack, t, g)
<1>1. stack \in [Thread -> Seq(Shaped)] /\ Stacks
  BY DEF IInv, Stacks
<1>2. st \in [Thread -> Seq(Shaped)] /\ stack' = st
  BY <1>1, PushPopTypes, Moves
<1>3. AllGood(alive, obj, stack)
  BY DEF RInv, RInvOf, AllGood
<1>4. FrameOK(alive, obj, g) /\ \A c : PairOK(obj, c, g)
  BY DEF FrameOK, PairOK, UnloadPC
<1>5. AllGood(alive, obj, st)
  BY <1>1, <1>3, <1>4, PushGood DEF Running, Top
<1>6. ASSUME NEW h \in Handle
      PROVE  /\ IsFiniteSet(Entries(st, h, RefPC))
             /\ IsFiniteSet(Entries(st, h, {"unlocking"}))
             /\ held'[h] + Cardinality(Entries(st, h, RefPC)) =
                  held[h] + Cardinality(Entries(stack, h, RefPC))
             /\ Cardinality(Entries(st, h, {"unlocking"})) <= 1
  <2>1. /\ Finite(alive, obj, stack, h)
        /\ Cardinality(Entries(stack, h, {"unlocking"})) <= 1
    BY DEF RInv, RInvOf
  <2>2. One(g, h, {"unlocking"}) = 0 /\ One(g, h, RefPC) \in {0, 1}
    BY DEF One, On
  <2>3. held'[h] + One(g, h, RefPC) = held[h] /\ held'[h] \in Nat
    OBVIOUS
  <2> DEFINE N(s, p) == Cardinality(Entries(s, h, p))
  <2>4. /\ IsFiniteSet(Entries(st, h, RefPC)) /\ N(stack, RefPC) \in Nat
        /\ N(st, RefPC) = N(stack, RefPC) + One(g, h, RefPC)
    BY <1>1, <2>1, PushEntries DEF Finite
  <2>5. /\ IsFiniteSet(Entries(st, h, {"unlocking"})) /\ N(stack, {"unlocking"}) \in Nat
        /\ N(st, {"unlocking"}) = N(stack, {"unlocking"}) + One(g, h, {"unlocking"})
    BY <1>1, <2>1, PushEntries DEF Finite
  <2>6. N(stack, {"unlocking"}) <= 1
    BY <2>1
  <2> HIDE DEF N, st
  <2>7. held'[h] + N(st, RefPC) = held[h] + N(stack, RefPC)
    BY <2>2, <2>3, <2>4
  <2>8. N(st, {"unlocking"}) <= 1
    BY <2>2, <2>5, <2>6
  <2> QED BY <2>4, <2>5, <2>7, <2>8 DEF N
<1> HIDE DEF st
<1> QED BY <1>2, <1>5, <1>6, QuietStep

LEMMA QuietPop ==
  ASSUME IInv, RInv, UNCHANGED <<alive, members>>, Same(obj, obj'),
         NEW t \in Thread, Running(t), stack' = [stack EXCEPT ![t] = Under(t)],
         \A h \in Handle : held'[h] = held[h] + One(Top(t), h, RefPC) /\ held[h] \in Nat
  PROVE  RInv'
<1> DEFINE st == Popped(stack, t)
<1>1. stack \in [Thread -> Seq(Shaped)] /\ Stacks /\ stack[t] # <<>>
  BY DEF IInv, Stacks, Running
<1>2. st \in [Thread -> Seq(Shaped)] /\ stack' = st
  BY <1>1, PushPopTypes, Moves
<1>3. AllGood(alive, obj, stack)
  BY DEF RInv, RInvOf, AllGood
<1>4. AllGood(alive, obj, st)
  BY <1>1, <1>3, PopGood
<1>5. ASSUME NEW h \in Handle
      PROVE  /\ IsFiniteSet(Entries(st, h, RefPC))
             /\ IsFiniteSet(Entries(st, h, {"unlocking"}))
             /\ held'[h] + Cardinality(Entries(st, h, RefPC)) =
                  held[h] + Cardinality(Entries(stack, h, RefPC))
             /\ Cardinality(Entries(st, h, {"unlocking"})) <= 1
  <2>1. /\ Finite(alive, obj, stack, h)
        /\ Cardinality(Entries(stack, h, {"unlocking"})) <= 1
    BY DEF RInv, RInvOf
  <2>2. One(Top(t), h, {"unlocking"}) \in {0, 1} /\ One(Top(t), h, RefPC) \in {0, 1}
    BY DEF One
  <2>3. held'[h] = held[h] + One(Top(t), h, RefPC) /\ held[h] \in Nat
    OBVIOUS
  <2> DEFINE N(s, p) == Cardinality(Entries(s, h, p))
  <2>4. /\ IsFiniteSet(Entries(st, h, RefPC)) /\ N(st, RefPC) \in Nat
        /\ N(stack, RefPC) = N(st, RefPC) + One(Top(t), h, RefPC)
    BY <1>1, <2>1, PopEntries DEF Finite, Top
  <2>5. /\ IsFiniteSet(Entries(st, h, {"unlocking"})) /\ N(st, {"unlocking"}) \in Nat
        /\ N(stack, {"unlocking"}) = N(st, {"unlocking"}) + One(Top(t), h, {"unlocking"})
    BY <1>1, <2>1, PopEntries DEF Finite, Top
  <2>6. N(stack, {"unlocking"}) <= 1
    BY <2>1
  <2> HIDE DEF N, st
  <2>7. held'[h] + N(st, RefPC) = held[h] + N(stack, RefPC)
    BY <2>2, <2>3, <2>4
  <2>8. N(st, {"unlocking"}) <= 1
    BY <2>2, <2>5, <2>6
  <2> QED BY <2>4, <2>5, <2>7, <2>8 DEF N
<1> HIDE DEF st
<1> QED BY <1>2, <1>4, <1>5, QuietStep

LEMMA MayEnter ==
  ASSUME "fini" \notin Callers, NEW t \in Thread, InProgram(t), Running(t),
         NEW g, g.pc \notin UnloadPC
  PROVE  Calls(Top(t), g)
<1>1. Top(t).pc \in {"init", "enum"}
  BY LoaderAssumption DEF InProgram
<1> QED BY <1>1 DEF Calls

LEMMA SameAll == Same(obj, obj)
BY DEF Same

LEMMA CallCounts ==
  ASSUME "fini" \notin Callers, IInv, RInv, NEW t \in Thread,
         CallOpen(t) \/ CallOpenFile(t) \/ CallClose(t) \/ CallWalk(t)
  PROVE  RInv'
<1> USE DEF table, mutex
<1>1. /\ UNCHANGED <<alive, members, obj>> /\ InProgram(t)
  BY DEF CallOpen, CallOpenFile, CallClose, CallWalk, MayCall
<1>2. Same(obj, obj')
  BY <1>1, SameAll
<1>3. held \in [Handle -> Nat]
  BY DEF IInv, Rest
<1>4. ASSUME NEW g \in Shaped, Enter(t, g), held' = held,
             g.pc \in OpenPC \cup WalkPC
      PROVE  RInv'
  <2>1. g.pc \notin UnloadPC \cup {"unlocking"} /\ g.pc \notin RefPC
    BY <1>4 DEF OpenPC, WalkPC, UnloadPC, RefPC, LoadPC
  <2>2. \A h \in Handle : held'[h] + One(g, h, RefPC) = held[h] /\ held'[h] \in Nat
    BY <1>3, <1>4, <2>1 DEF One, On
  <2>3. Running(t) => Calls(Top(t), g)
    BY <1>1, <2>1, MayEnter
  <2> QED BY <1>1, <1>2, <1>4, <2>1, <2>2, <2>3, QuietEnter
<1>5. CASE CallOpen(t)
  <2>1. PICK p \in Path, m \in Modes :
          Enter(t, OpenFrame("find",
            [path |-> p, image |-> p, global |-> m.global,
             noload |-> m.noload, resolver |-> m.resolver]))
    BY <1>5 DEF CallOpen
  <2>2. PICK req \in Request :
          req = [path |-> p, image |-> p, global |-> m.global,
                 noload |-> m.noload, resolver |-> m.resolver]
    BY LoaderAssumption DEF Request
  <2>3. /\ OpenFrame("find", req) \in Shaped
        /\ OpenFrame("find", req).pc \in OpenPC \cup WalkPC
    BY NewFrames DEF OpenPC, OpenFrame
  <2> QED BY <1>4, <1>5, <2>1, <2>2, <2>3 DEF CallOpen
<1>6. CASE CallOpenFile(t)
  <2>1. PICK p \in Path, m \in Modes :
          Enter(t, OpenFrame("create",
            [path |-> NoPath, image |-> p, global |-> m.global,
             noload |-> FALSE, resolver |-> m.resolver]))
    BY <1>6 DEF CallOpenFile
  <2>2. PICK req \in Request :
          req = [path |-> NoPath, image |-> p, global |-> m.global,
                 noload |-> FALSE, resolver |-> m.resolver]
    BY LoaderAssumption DEF Request
  <2>3. /\ OpenFrame("create", req) \in Shaped
        /\ OpenFrame("create", req).pc \in OpenPC \cup WalkPC
    BY NewFrames DEF OpenPC, OpenFrame
  <2> QED BY <1>4, <1>6, <2>1, <2>2, <2>3 DEF CallOpenFile
<1>7. CASE CallWalk(t)
  <2>1. PICK pc \in WalkPC : Enter(t, WalkFrame(pc))
    BY <1>7 DEF CallWalk
  <2>2. WalkFrame(pc) \in Shaped /\ WalkFrame(pc).pc \in OpenPC \cup WalkPC
    BY NewFrames DEF WalkFrame
  <2> QED BY <1>4, <1>7, <2>1, <2>2 DEF CallWalk
<1>8. CASE CallClose(t)
  <2>1. PICK h \in Handle : /\ held[h] > 0 /\ held' = [held EXCEPT ![h] = @ - 1]
                            /\ Enter(t, UnlockFrame(h))
    BY <1>8 DEF CallClose
  <2>2. PICK g \in Shaped : g = UnlockFrame(h)
    BY NewFrames
  <2>3. g.pc = "unlock" /\ g.h = h
    BY <2>2 DEF UnlockFrame
  <2>4. g.pc \notin UnloadPC \cup {"unlocking"}
    BY <2>3 DEF UnloadPC
  <2>5. ASSUME NEW k \in Handle
        PROVE  held'[k] + One(g, k, RefPC) = held[k] /\ held'[k] \in Nat
    <3>1. One(g, k, RefPC) = IF k = h THEN 1 ELSE 0
      BY <2>3 DEF One, On, RefPC
    <3>2. held'[k] = IF k = h THEN held[k] - 1 ELSE held[k]
      BY <1>3, <2>1
    <3>3. held[k] \in Nat /\ held[h] > 0
      BY <1>3, <2>1
    <3> QED BY <3>1, <3>2, <3>3
  <2>6. Running(t) => Calls(Top(t), g)
    BY <1>1, <2>4, MayEnter
  <2> QED BY <1>1, <1>2, <2>1, <2>2, <2>4, <2>5, <2>6, QuietEnter
<1> QED BY <1>5, <1>6, <1>7, <1>8

(* A call that becomes another one, as seen from the reference counts.     *)
LEMMA QuietNext ==
  ASSUME IInv, RInv, UNCHANGED <<alive, members, held>>, Same(obj, obj'),
         NEW t \in Thread, Running(t), NEW f \in Shaped, Become(t, f),
         MayBecome(Top(t), f), FrameOK(alive, obj, f), f.pc # "unlocking",
         \A c \in Shaped : Calls(c, f) => PairOK(obj, c, f),
         \A h \in Handle : On(f, h, RefPC) <=> On(Top(t), h, RefPC)
  PROVE  RInv'
<1>1. Settled(stack) /\ Stacks
  BY SettledStack DEF IInv
<1>2. stack' = Pushed(Popped(stack, t), t, f)
  BY <1>1, Moves
<1> QED BY <1>1, <1>2, QuietBecome DEF Top, Running

(* In particular a load, or an open, that goes on.                         *)
LEMMA QuietLoad ==
  ASSUME IInv, RInv, UNCHANGED <<alive, members, held>>, Same(obj, obj'),
         NEW t \in Thread, Running(t), NEW f \in Shaped, Become(t, f),
         MayBecome(Top(t), f), f.pc \notin UnloadPC \cup {"unlocking"},
         \A h \in Handle : On(f, h, RefPC) <=> On(Top(t), h, RefPC)
  PROVE  RInv'
<1>1. FrameOK(alive, obj, f) /\ \A c : PairOK(obj, c, f)
  BY DEF FrameOK, PairOK, UnloadPC
<1> QED BY <1>1, QuietNext

(* What the quiet steps write to an object.                                *)
LEMMA SameField ==
  ASSUME Rest, NEW h \in Handle
  PROVE  /\ \A v : Same(obj, [obj EXCEPT ![h].pages = v])
         /\ \A v : Same(obj, [obj EXCEPT ![h].finis = v])
         /\ \A v : Same(obj, [obj EXCEPT ![h].fini = v])
BY DEF Rest, Object, Same

LEMMA OpenCounts ==
  ASSUME IInv, RInv, NEW t \in Thread, OpenMiss(t) \/ CreateFails(t)
  PROVE  RInv'
<1> USE DEF table, mutex, program
<1>1. Running(t) /\ Top(t).pc \in OpenPC /\ Top(t) \in Shaped
  BY TopShape DEF OpenMiss, CreateFails, At, OpenPC, IInv
<1>2. /\ UNCHANGED <<alive, members, held, obj>> /\ Same(obj, obj')
  BY SameAll DEF OpenMiss, CreateFails
<1>3. PICK g \in Shaped :
        Become(t, g) /\ (g.pc = "create" \/ (g.pc = "done" /\ g.h = Null))
  <2>1. DoneFrame(Null) \in Shaped /\ DoneFrame(Null).pc = "done" /\ DoneFrame(Null).h = Null
    BY NewFrames DEF DoneFrame
  <2>2. /\ [Top(t) EXCEPT !.pc = "create"] \in Shaped
        /\ [Top(t) EXCEPT !.pc = "create"].pc = "create"
    BY <1>1 DEF Shaped, Frame, OpenPC, LoadPC, UnlockPC, UnloadPC, WalkPC
  <2> QED BY <2>1, <2>2 DEF OpenMiss, CreateFails
<1>4. MayBecome(Top(t), g) /\ g.pc \notin UnloadPC \cup {"unlocking"}
  BY <1>1, <1>3 DEF MayBecome, OpenPC, UnloadPC
<1>5. \A h \in Handle : ~On(g, h, RefPC) /\ ~On(Top(t), h, RefPC)
  BY <1>1, <1>3, LoaderAssumption DEF On, RefPC, OpenPC, LoadPC
<1> QED BY <1>1, <1>2, <1>3, <1>4, <1>5, QuietLoad

(* A load goes on with the reference it has, or hands it over.             *)
LEMMA LoadCounts ==
  ASSUME IInv, RInv, NEW t \in Thread,
         \/ Parse(t) \/ ParseFails(t) \/ DepsLoaded(t) \/ Map(t) \/ Relocated(t)
         \/ Initialise(t)
  PROVE  RInv'
<1> USE DEF table, mutex, program
<1>1. Running(t) /\ Top(t).pc \in LoadPC
  BY DEF Parse, ParseFails, DepsLoaded, Map, Relocated, Initialise, At, LoadPC
<1>2. Top(t) \in Shaped /\ Top(t).h \in Handle /\ Rest
  BY <1>1, TopShape DEF IInv
<1>3. UNCHANGED <<alive, members, held>>
  BY DEF Parse, ParseFails, DepsLoaded, Map, Relocated, Initialise
<1>4. Same(obj, obj')
  BY <1>2, SameAll, SameField
     DEF Parse, ParseFails, DepsLoaded, Map, Relocated, Initialise
<1>5. PICK g \in Shaped : /\ Become(t, g) /\ g.h = Top(t).h
                          /\ g.pc \in {"deps", "map", "reloc", "init", "unlock", "done"}
  <2>1. CASE Parse(t)
    <3>1. PICK f \in Shaped : f = [Top(t) EXCEPT !.pc = "deps", !.i = 1]
      BY <1>1, <1>2, FirstDep
    <3>2. f.h = Top(t).h /\ f.pc = "deps"
      BY <1>2, <3>1 DEF Shaped, Frame
    <3> QED BY <2>1, <3>1, <3>2 DEF Parse
  <2>2. CASE ParseFails(t)
    BY <1>2, <2>2, NewFrames DEF ParseFails, UnlockFrame
  <2>3. ASSUME NEW pc \in {"map", "reloc", "init"}
        PROVE  /\ [Top(t) EXCEPT !.pc = pc] \in Shaped
               /\ [Top(t) EXCEPT !.pc = pc].pc = pc
               /\ [Top(t) EXCEPT !.pc = pc].h = Top(t).h
    <3>1. [Top(t) EXCEPT !.pc = pc] \in Shaped
      BY <1>1, <1>2, NextLoad DEF LoadPC
    <3> QED BY <1>2, <3>1 DEF Shaped, Frame
  <2>4. CASE DepsLoaded(t) \/ Map(t) \/ Relocated(t)
    BY <2>3, <2>4 DEF DepsLoaded, Map, Relocated
  <2>5. CASE Initialise(t)
    BY <1>2, <2>5, NewFrames DEF Initialise, DoneFrame
  <2> QED BY <2>1, <2>2, <2>4, <2>5
<1>6. MayBecome(Top(t), g) /\ g.pc \notin UnloadPC \cup {"unlocking"}
  BY <1>1, <1>5 DEF MayBecome, LoadPC, UnloadPC, UnlockPC
<1>7. \A h \in Handle : On(g, h, RefPC) <=> On(Top(t), h, RefPC)
  BY <1>1, <1>5 DEF On, RefPC, LoadPC
<1> QED BY <1>1, <1>3, <1>4, <1>5, <1>6, <1>7, QuietLoad

(* A failed ctrdl_mapObject unloads the object it has a reference to.      *)
LEMMA DropCounts ==
  ASSUME IInv, RInv, UNCHANGED <<alive, members, held>>, Same(obj, obj'),
         NEW sk, Settled(sk), NEW t \in Thread, sk[t] # <<>>,
         NEW c \in Shaped, c = sk[t][Len(sk[t])], c.pc \in LoadPC,
         NEW f, f = LoadFailed(c), NEW g, g = UnloadFrame(c.h),
         stack' = Pushed(Pushed(Popped(sk, t), t, f), t, g)
  PROVE  RInv'
<1>1. f \in Shaped /\ f.pc = "drop" /\ f.h = c.h /\ c.h \in Handle
  <2>1. f \in Shaped
    BY NextLoad DEF LoadFailed, LoadPC
  <2>2. f.pc = "drop" /\ f.h = c.h
    BY DEF LoadFailed, Shaped, Frame
  <2> QED BY <2>1, <2>2 DEF Shaped
<1>2. g \in Shaped /\ g.pc = "fini" /\ g.h = c.h /\ g.i = 1
  BY <1>1, NewFrames DEF UnloadFrame
<1>3. MayBecome(c, f) /\ FrameOK(alive, obj, f) /\ f.pc # "unlocking"
  BY <1>1 DEF MayBecome, FrameOK, LoadPC
<1>4. \A b \in Shaped : PairOK(obj, b, f)
  BY <1>1 DEF PairOK
<1>5. Calls(f, g) /\ g.pc \notin RefPC \cup {"unlocking"}
  BY <1>1, <1>2 DEF Calls, UnloadPC, RefPC, LoadPC
<1>6. FrameOK(alive, obj, g)
  <2>1. obj[c.h].released \in Nat
    BY <1>1, ObjectFields DEF IInv
  <2> QED BY <1>2, <2>1 DEF FrameOK
<1>7. \A h \in Handle : On(f, h, RefPC) <=> On(c, h, RefPC)
  BY <1>1 DEF On, RefPC, LoadPC
<1> QED BY <1>1, <1>2, <1>3, <1>4, <1>5, <1>6, <1>7, QuietCall

LEMMA DropOwn ==
  ASSUME IInv, RInv, UNCHANGED <<alive, members, held>>, Same(obj, obj'),
         NEW t \in Thread, Running(t), Top(t).pc \in LoadPC,
         BecomeAndCall(t, LoadFailed(Top(t)), UnloadFrame(Top(t).h))
  PROVE  RInv'
<1>1. Settled(stack) /\ Stacks /\ Top(t) \in Shaped /\ Top(t).h \in Handle
  BY SettledStack, TopShape DEF IInv
<1>2. PICK f \in Shaped : f = LoadFailed(Top(t))
  BY <1>1, NextLoad DEF LoadFailed, LoadPC
<1>3. PICK g \in Shaped : g = UnloadFrame(Top(t).h)
  BY <1>1, NewFrames
<1>4. stack' = Pushed(Pushed(Popped(stack, t), t, f), t, g)
  BY <1>1, <1>2, <1>3, Moves
<1> QED BY <1>1, <1>2, <1>3, <1>4, DropCounts DEF Top, Running

LEMMA MapCounts ==
  ASSUME IInv, RInv, NEW t \in Thread,
         TooManyDeps(t) \/ MapFails(t) \/ RelocFails(t) \/ Resolve(t) \/ OpenDep(t)
  PROVE  RInv'
<1> USE DEF table, mutex, program
<1>1. Running(t) /\ Top(t).pc \in LoadPC
  BY DEF TooManyDeps, MapFails, RelocFails, Resolve, OpenDep, DepsRemain, At, LoadPC
<1>2. Top(t) \in Shaped /\ Top(t).h \in Handle /\ Rest /\ Stacks
  BY <1>1, TopShape DEF IInv
<1>3. UNCHANGED <<alive, members, held>>
  BY DEF TooManyDeps, MapFails, RelocFails, Resolve, OpenDep
<1>4. Same(obj, obj')
  <2>1. CASE MapFails(t)
    <3>1. PICK h \in Handle : h = Top(t).h
      BY <1>2
    <3>2. PICK got : obj' = [obj EXCEPT ![h].pages = got]
      BY <2>1, <3>1 DEF MapFails
    <3> QED BY <1>2, <3>2, SameField
  <2>2. CASE ~MapFails(t)
    BY <2>2, SameAll DEF TooManyDeps, RelocFails, Resolve, OpenDep
  <2> QED BY <2>1, <2>2
<1>5. CASE MapFails(t) \/ RelocFails(t)
  BY <1>1, <1>3, <1>4, <1>5, DropOwn DEF MapFails, RelocFails
<1>6. CASE TooManyDeps(t)
  <2>1. CASE ~Top(t).req.resolver
    BY <1>1, <1>3, <1>4, <1>6, <2>1, DropOwn DEF TooManyDeps
  <2>2. CASE Top(t).req.resolver
    <3>1. PICK g \in Shaped : g = [Top(t) EXCEPT !.pc = "map"]
      BY <1>1, <1>2, NextLoad DEF LoadPC
    <3>2. Become(t, g) /\ g.pc = "map" /\ g.h = Top(t).h
      BY <1>2, <1>6, <2>2, <3>1 DEF TooManyDeps, Shaped, Frame
    <3>3. MayBecome(Top(t), g) /\ g.pc \notin UnloadPC \cup {"unlocking"}
      BY <1>1, <3>2 DEF MayBecome, LoadPC, UnloadPC
    <3>4. \A h \in Handle : On(g, h, RefPC) <=> On(Top(t), h, RefPC)
      BY <1>1, <3>2 DEF On, RefPC, LoadPC
    <3> QED BY <1>1, <1>3, <1>4, <3>2, <3>3, <3>4, QuietLoad
  <2> QED BY <2>1, <2>2
<1>7. CASE Resolve(t)
  <2>1. PICK f \in Shaped : f = [Top(t) EXCEPT !.pc = "fix"]
    BY <1>1, <1>2, NextLoad DEF LoadPC
  <2>2. f.pc = "fix" /\ f.h = Top(t).h
    BY <1>2, <2>1 DEF Shaped, Frame
  <2>3. PICK g \in Shaped : g = WalkFrame("lookup") /\ g.pc = "lookup"
    BY NewFrames DEF WalkPC, WalkFrame
  <2>4. stack' = Pushed(Pushed(Popped(stack, t), t, f), t, g)
    BY <1>1, <1>2, <1>7, <2>1, <2>3, Moves DEF Resolve
  <2>5. MayBecome(Top(t), f) /\ FrameOK(alive, obj, f) /\ f.pc # "unlocking"
    BY <1>1, <2>2 DEF MayBecome, FrameOK, LoadPC
  <2>6. \A c \in Shaped : PairOK(obj, c, f)
    BY <2>2 DEF PairOK
  <2>7. Calls(f, g) /\ FrameOK(alive, obj, g) /\ g.pc \notin RefPC \cup {"unlocking"}
    BY <2>2, <2>3 DEF Calls, FrameOK, RefPC, LoadPC
  <2>8. \A h \in Handle : On(f, h, RefPC) <=> On(Top(t), h, RefPC)
    BY <1>1, <2>2 DEF On, RefPC, LoadPC
  <2>9. Settled(stack)
    BY SettledStack
  <2> QED BY <1>1, <1>3, <1>4, <2>4, <2>5, <2>6, <2>7, <2>8, <2>9, QuietCall
             DEF Top, Running
<1>8. CASE OpenDep(t)
  <2>1. Top(t).pc = "deps" /\ Top(t).i <= Len(Needed(Top(t)))
    BY <1>8 DEF OpenDep, DepsRemain, At
  <2>2. Top(t).req \in Request /\ Top(t).i \in Nat /\ Top(t).i > 0
    BY <1>1, <1>2, <2>1, TopShape
  <2> DEFINE p == Needed(Top(t))[Top(t).i]
             req == [path |-> p, image |-> p, global |-> TRUE,
                     noload |-> FALSE, resolver |-> Top(t).req.resolver]
             g == OpenFrame("find", req)
  <2>3. p \in Path
    <3>1. Needed(Top(t)) \in Seq(Path)
      BY <2>2, LoaderAssumption DEF Needed, Request
    <3> QED BY <2>1, <2>2, <3>1
  <2>4. req \in Request
    BY <2>2, <2>3 DEF Request
  <2>5. Enter(t, g)
    BY <1>8 DEF OpenDep
  <2> HIDE DEF req
  <2>6. g \in Shaped /\ g.pc = "find"
    BY <2>4, NewFrames DEF OpenPC, OpenFrame
  <2> HIDE DEF g
  <2>7. Calls(Top(t), g) /\ g.pc \notin UnloadPC \cup {"unlocking"}
    BY <2>1, <2>6 DEF Calls, OpenPC, UnloadPC
  <2>8. \A h \in Handle : held'[h] + One(g, h, RefPC) = held[h] /\ held'[h] \in Nat
    <3>1. \A h \in Handle : One(g, h, RefPC) = 0
      BY <2>6 DEF One, On, RefPC, LoadPC
    <3> QED BY <1>2, <1>3, <3>1 DEF Rest
  <2> QED BY <1>3, <1>4, <2>5, <2>6, <2>7, <2>8, QuietEnter
<1> QED BY <1>5, <1>6, <1>7, <1>8

(* What two calls above each other may be, and which handles they share.   *)
LEMMA TopPair ==
  ASSUME IInv, RInv, NEW t \in Thread, Len(stack[t]) > 1
  PROVE  /\ Calls(Caller(t), Top(t)) /\ PairOK(obj, Caller(t), Top(t))
         /\ FrameOK(alive, obj, Caller(t)) /\ FrameOK(alive, obj, Top(t))
<1>1. PICK s \in Seq(Shaped) : s = stack[t] /\ Good(alive, obj, s) /\ Len(s) > 1
  BY DEF IInv, Stacks, RInv, RInvOf
<1>2. Len(s) \in 2 .. Len(s) /\ Len(s) \in 1 .. Len(s) /\ Len(s) - 1 \in 1 .. Len(s)
  BY <1>1
<1> QED BY <1>1, <1>2 DEF Good, Caller, Top

LEMMA ReturnCounts ==
  ASSUME IInv, RInv, NEW t \in Thread,
         DepFails(t) \/ DropFailedLoad(t) \/ KeepUnfreed(t)
  PROVE  RInv'
<1> USE DEF table, mutex, program
<1>1. Len(stack[t]) > 1 /\ Running(t) /\ Stacks
  BY CallerFrame DEF DepFails, DropFailedLoad, KeepUnfreed, CalledFrom, IInv
<1>2. /\ UNCHANGED <<alive, members, held>> /\ obj' = obj
      /\ Same(obj, obj')
  BY SameAll DEF DepFails, DropFailedLoad, KeepUnfreed
<1>3. PICK c \in Shaped : c = Caller(t)
  BY <1>1, CallerFrame
<1>4. \A h \in Handle : ~On(Top(t), h, RefPC)
  BY LoaderAssumption DEF DepFails, DropFailedLoad, KeepUnfreed, At, On, RefPC, LoadPC
<1>5. PICK sk : sk = Popped(stack, t)
  OBVIOUS
<1>6. /\ Settled(sk) /\ sk \in [Thread -> Seq(Shaped)]
      /\ sk[t] # <<>> /\ sk[t][Len(sk[t])] = c
  BY <1>1, <1>3, <1>4, <1>5, SettledPop, Returns
<1>7. \A f \in Shaped : ReturnTo(t, f) <=> stack' = Pushed(Popped(sk, t), t, f)
  BY <1>1, <1>5, Returns
<1>8. CASE DepFails(t)
  <2>1. c.pc = "deps" /\ c.h \in Handle /\ c.pc \in LoadPC
    BY <1>3, <1>8 DEF DepFails, CalledFrom, Shaped, LoadPC
  <2>2. CASE c.req.resolver
    <3>1. PICK f \in Shaped : f = [c EXCEPT !.pc = "map"]
      BY <2>1, NextLoad DEF LoadPC
    <3>2. f.pc = "map" /\ f.h = c.h /\ ReturnTo(t, f)
      BY <1>3, <1>8, <2>2, <3>1 DEF DepFails, ReturnTo, Shaped, Frame
    <3>3. MayBecome(c, f) /\ FrameOK(alive, obj, f) /\ f.pc # "unlocking"
      BY <2>1, <3>2 DEF MayBecome, FrameOK, LoadPC
    <3>4. \A b \in Shaped : PairOK(obj, b, f)
      BY <3>2 DEF PairOK
    <3>5. \A h \in Handle : On(f, h, RefPC) <=> On(c, h, RefPC)
      BY <2>1, <3>2 DEF On, RefPC, LoadPC
    <3> QED BY <1>2, <1>6, <1>7, <3>2, <3>3, <3>4, <3>5, QuietBecome
  <2>3. CASE ~c.req.resolver
    <3>1. PICK f \in Shaped : f = LoadFailed(c)
      BY <2>1, NextLoad DEF LoadFailed, LoadPC
    <3>2. PICK g \in Shaped : g = UnloadFrame(c.h)
      BY <2>1, NewFrames
    <3>3. stack' = Pushed(Pushed(Popped(sk, t), t, f), t, g)
      <4>1. stack' = [stack EXCEPT ![t] = Append(Append(UnderCaller(t), f), g)]
        BY <1>3, <1>8, <2>3, <3>1, <3>2 DEF DepFails
      <4>2. Popped(sk, t) = [stack EXCEPT ![t] = UnderCaller(t)]
        BY <1>1, <1>5, Returns
      <4>3. stack \in [Thread -> Seq(Shaped)]
        BY <1>1 DEF Stacks
      <4> QED BY <4>1, <4>2, <4>3 DEF Pushed
    <3> QED BY <1>2, <1>6, <2>1, <3>1, <3>2, <3>3, DropCounts
  <2> QED BY <2>2, <2>3
<1>9. CASE DropFailedLoad(t)
  <2>1. c.pc = "drop" /\ c.h \in Handle
    BY <1>3, <1>9 DEF DropFailedLoad, CalledFrom, Shaped, LoadPC
  <2>2. PICK f \in Shaped : f = UnlockFrame(c.h)
    BY <2>1, NewFrames
  <2>3. f.pc = "unlock" /\ f.h = c.h /\ ReturnTo(t, f)
    BY <1>3, <1>9, <2>2 DEF DropFailedLoad, UnlockFrame
  <2>4. MayBecome(c, f) /\ FrameOK(alive, obj, f) /\ f.pc # "unlocking"
    BY <2>1, <2>3 DEF MayBecome, FrameOK, LoadPC, UnlockPC
  <2>5. \A b \in Shaped : PairOK(obj, b, f)
    BY <2>3 DEF PairOK
  <2>6. \A h \in Handle : On(f, h, RefPC) <=> On(c, h, RefPC)
    BY <2>1, <2>3 DEF On, RefPC, LoadPC
  <2> QED BY <1>2, <1>6, <1>7, <2>3, <2>4, <2>5, <2>6, QuietBecome
<1>10. CASE KeepUnfreed(t)
  <2>1. c.pc = "unlocking"
    BY <1>3, <1>10 DEF KeepUnfreed, CalledFrom
  <2>2. PICK f \in Shaped : f = DoneFrame(Null)
    BY NewFrames
  <2>3. f.pc = "done" /\ f.h = Null /\ ReturnTo(t, f)
    BY <1>10, <2>2 DEF KeepUnfreed, DoneFrame
  <2>4. MayBecome(c, f) /\ FrameOK(alive, obj, f) /\ f.pc # "unlocking"
    BY <2>1, <2>3 DEF MayBecome, FrameOK, UnlockPC
  <2>5. \A b \in Shaped : PairOK(obj, b, f)
    BY <2>3 DEF PairOK
  <2>6. \A h \in Handle : On(f, h, RefPC) <=> On(c, h, RefPC)
    BY <2>1, <2>3, LoaderAssumption DEF On, RefPC, LoadPC
  <2> QED BY <1>2, <1>6, <1>7, <2>3, <2>4, <2>5, <2>6, QuietBecome
<1> QED BY <1>8, <1>9, <1>10

LEMMA TopGood ==
  ASSUME IInv, RInv, NEW t \in Thread, Running(t)
  PROVE  FrameOK(alive, obj, Top(t))
<1>1. PICK s \in Seq(Shaped) : s = stack[t] /\ Good(alive, obj, s) /\ s # <<>>
  BY DEF IInv, Stacks, RInv, RInvOf, Running
<1>2. Len(s) \in 1 .. Len(s)
  BY <1>1
<1> QED BY <1>1, <1>2 DEF Good, Top

LEMMA UnloadCounts ==
  ASSUME IInv, RInv, NEW t \in Thread, ~Dangling(t),
         \/ Finalise(t) \/ FreePages(t) \/ FreePagesFails(t) \/ DepsReleased(t)
  PROVE  RInv'
<1> USE DEF table, mutex, program
<1>1. Running(t) /\ Top(t).pc \in UnloadPC /\ Top(t).pc # "done"
  BY DEF Finalise, FreePages, FreePagesFails, DepsReleased, At, UnloadPC
<1>2. /\ Top(t) \in Shaped /\ Top(t).h \in alive /\ Top(t).h \in Handle
      /\ Top(t).i \in Nat /\ Rest
  BY <1>1, TopShape DEF IInv, Dangling
<1>3. UNCHANGED <<alive, members, held>>
  BY DEF Finalise, FreePages, FreePagesFails, DepsReleased
<1>4. PICK h \in Handle : h = Top(t).h /\ h \in alive
  BY <1>2
<1>5. Same(obj, obj')
  <2>1. CASE Finalise(t)
    <3>1. PICK v : obj' = [obj EXCEPT ![h].finis = v]
      BY <1>4, <2>1 DEF Finalise
    <3> QED BY <1>2, <3>1, SameField
  <2>2. CASE FreePages(t) \/ FreePagesFails(t)
    <3>1. PICK v : obj' = [obj EXCEPT ![h].pages = v]
      BY <1>4, <2>2 DEF FreePages, FreePagesFails
    <3> QED BY <1>2, <3>1, SameField
  <2>3. CASE DepsReleased(t)
    BY <2>3, SameAll DEF DepsReleased
  <2> QED BY <2>1, <2>2, <2>3
<1>6. PICK pc \in {"pages", "release", "unfreed", "unloaded"} :
        /\ Become(t, [Top(t) EXCEPT !.pc = pc])
        /\ pc = "unloaded" => Top(t).pc = "release" /\ Top(t).i > Len(obj[h].deps)
        /\ pc \in {"pages", "release"} => Top(t).pc \in {"fini", "pages"}
  BY <1>4 DEF Finalise, FreePages, FreePagesFails, DepsReleased, At, This
<1>7. PICK f \in Shaped : f = [Top(t) EXCEPT !.pc = pc]
  BY <1>1, <1>2, NextUnload DEF UnloadPC
<1>8. f.pc = pc /\ f.h = h /\ f.i = Top(t).i /\ Become(t, f)
  BY <1>2, <1>4, <1>6, <1>7 DEF Shaped, Frame
<1>9. MayBecome(Top(t), f) /\ f.pc # "unlocking"
  BY <1>1, <1>4, <1>8 DEF MayBecome, UnloadPC
<1>10. Top(t).pc \in {"fini", "pages", "release"} => obj[h].released >= Top(t).i - 1
  BY <1>1, <1>4, TopGood DEF FrameOK
<1>11. FrameOK(alive, obj, f)
  BY <1>6, <1>8, <1>10 DEF FrameOK
<1>12. \A c \in Shaped : Calls(c, f) => PairOK(obj, c, f)
  <2>1. CASE pc # "unloaded"
    BY <1>8, <2>1 DEF PairOK
  <2>2. CASE pc = "unloaded"
    <3>1. obj[h].released \in Nat /\ Len(obj[h].deps) \in Nat
      BY <1>2, ObjectFields
    <3>2. obj[h].released <= Len(obj[h].deps)
      BY <1>4 DEF RInv, RInvOf
    <3>3. obj[h].released = Len(obj[h].deps)
      BY <1>2, <1>6, <1>10, <2>2, <3>1, <3>2
    <3> QED BY <1>8, <3>3 DEF PairOK
  <2> QED BY <2>1, <2>2
<1>13. \A g \in Handle : On(f, g, RefPC) <=> On(Top(t), g, RefPC)
  BY <1>1, <1>8 DEF On, RefPC, LoadPC, UnloadPC
<1> QED BY <1>1, <1>3, <1>5, <1>8, <1>9, <1>11, <1>12, <1>13, QuietNext

LEMMA PopCounts ==
  ASSUME IInv, RInv, NEW t \in Thread,
         UnlockReturns(t) \/ WalkEnds(t) \/ ReturnToProgram(t)
  PROVE  RInv'
<1> USE DEF table, mutex, program
<1>1. Running(t) /\ held \in [Handle -> Nat]
  BY DEF UnlockReturns, WalkEnds, ReturnToProgram, At, IInv, Rest
<1>2. /\ UNCHANGED <<alive, members>> /\ Same(obj, obj')
      /\ stack' = [stack EXCEPT ![t] = Under(t)]
  BY SameAll DEF UnlockReturns, WalkEnds, ReturnToProgram
<1>3. ASSUME NEW h \in Handle
      PROVE  held'[h] = held[h] + One(Top(t), h, RefPC)
  <2>1. CASE UnlockReturns(t)
    <3>1. /\ Top(t).pc = "done" /\ Len(stack[t]) > 1
          /\ Caller(t).pc \in {"release", "lookup"}
      BY <2>1 DEF UnlockReturns, At, CalledFrom
    <3>2. Top(t).h = Null
      BY <3>1, TopPair DEF Calls
    <3>3. One(Top(t), h, RefPC) = 0
      BY <3>2, LoaderAssumption DEF One, On
    <3>4. held' = held /\ held[h] \in Nat
      BY <1>1, <2>1 DEF UnlockReturns
    <3> QED BY <3>3, <3>4
  <2>2. CASE WalkEnds(t)
    <3>1. One(Top(t), h, RefPC) = 0
      BY <2>2 DEF WalkEnds, At, One, On, RefPC, LoadPC
    <3>2. held' = held /\ held[h] \in Nat
      BY <1>1, <2>2 DEF WalkEnds
    <3> QED BY <3>1, <3>2
  <2>3. CASE ReturnToProgram(t)
    <3>1. Top(t).pc = "done"
      BY <2>3 DEF ReturnToProgram, At
    <3>2. One(Top(t), h, RefPC) = IF Top(t).h = h THEN 1 ELSE 0
      BY <3>1 DEF One, On, RefPC
    <3>3. held'[h] = IF Top(t).h = h THEN held[h] + 1 ELSE held[h]
      BY <1>1, <2>3 DEF ReturnToProgram
    <3>4. held[h] \in Nat
      BY <1>1
    <3> QED BY <3>2, <3>3, <3>4
  <2> QED BY <2>1, <2>2, <2>3
<1> QED BY <1>1, <1>2, <1>3, QuietPop

(* Memory that is used after it was freed, and a program that is finished, *)
(* change no count.                                                        *)
LEMMA StillCounts ==
  ASSUME RInv, UNCHANGED <<alive, members, obj, stack, held>>
  PROVE  RInv'
<1>1. RInvOf(alive', obj', stack', held')
  BY DEF RInv
<1> QED BY <1>1 DEF RInv

-----------------------------------------------------------------------------
(* A step that changes the reference count of one object.                  *)
LEMMA RefcGood ==
  ASSUME NEW al, NEW ob, NEW ob2, SameLinks(ob, ob2),
         NEW st \in [Thread -> Seq(Shaped)], AllGood(al, ob, st),
         \A u \in Thread : \A k \in 1 .. Len(st[u]) :
           st[u][k].pc = "unlocking" => ob2[st[u][k].h].refc = ob[st[u][k].h].refc
  PROVE  AllGood(al, ob2, st)
<1> SUFFICES ASSUME NEW t \in Thread
             PROVE  Good(al, ob2, st[t])
  BY DEF AllGood
<1>1. PICK s \in Seq(Shaped) : s = st[t] /\ Good(al, ob, s)
  BY DEF AllGood
<1>2. \A k \in 1 .. Len(s) : FrameOK(al, ob2, s[k])
  <2> SUFFICES ASSUME NEW k \in 1 .. Len(s)
               PROVE  FrameOK(al, ob2, s[k])
    OBVIOUS
  <2>1. PICK f \in Shaped : f = s[k] /\ FrameOK(al, ob, f)
    BY <1>1 DEF Good
  <2>2. f.pc \in UnlockPC \cup UnloadPC => f.h \in Handle
    BY DEF Shaped
  <2>3. f.pc = "unlocking" => ob2[f.h].refc = ob[f.h].refc
    BY <1>1, <2>1
  <2> QED BY <2>1, <2>2, <2>3 DEF FrameOK, SameLinks, UnloadPC
<1>3. \A k \in 2 .. Len(s) : Calls(s[k - 1], s[k]) /\ PairOK(ob2, s[k - 1], s[k])
  <2> SUFFICES ASSUME NEW k \in 2 .. Len(s)
               PROVE  Calls(s[k - 1], s[k]) /\ PairOK(ob2, s[k - 1], s[k])
    OBVIOUS
  <2>1. PICK f \in Shaped : f = s[k] /\ PairOK(ob, s[k - 1], f) /\ Calls(s[k - 1], f)
    BY <1>1 DEF Good
  <2>2. f.pc \in UnloadPC => f.h \in Handle
    BY DEF Shaped
  <2> QED BY <2>1, <2>2 DEF PairOK, SameLinks, UnloadPC
<1> QED BY <1>1, <1>2, <1>3 DEF Good

LEMMA RefcKept ==
  ASSUME IInv, RInv, NEW hh \in Handle, NEW ob2, SameLinks(obj, ob2),
         \A h \in Handle : h # hh => ob2[h].refc = obj[h].refc,
         \/ obj[hh].refc > 0
         \/ \A u \in Thread : \A k \in 1 .. Len(stack[u]) : stack[u][k].pc # "unlocking"
  PROVE  AllGood(alive, ob2, stack)
<1>1. stack \in [Thread -> Seq(Shaped)] /\ AllGood(alive, obj, stack)
  BY DEF IInv, Stacks, RInv, RInvOf, AllGood
<1>2. ASSUME NEW u \in Thread, NEW k \in 1 .. Len(stack[u]),
             stack[u][k].pc = "unlocking"
      PROVE  ob2[stack[u][k].h].refc = obj[stack[u][k].h].refc
  <2>1. PICK f \in Shaped : f = stack[u][k] /\ FrameOK(alive, obj, f)
    BY <1>1 DEF AllGood, Good
  <2>2. f.h \in Handle /\ obj[f.h].refc = 0
    BY <1>2, <2>1 DEF FrameOK, Shaped, UnlockPC
  <2>3. f.h # hh
    <3>1. CASE obj[hh].refc > 0
      <4>1. obj[hh].refc # 0
        BY <3>1
      <4> QED BY <2>2, <4>1
    <3>2. CASE \A v \in Thread : \A j \in 1 .. Len(stack[v]) :
                 stack[v][j].pc # "unlocking"
      BY <1>2, <3>2
    <3> QED BY <3>1, <3>2
  <2> QED BY <2>1, <2>2, <2>3
<1> QED BY <1>1, <1>2, RefcGood

LEMMA CountStep ==
  ASSUME IInv, RInv, UNCHANGED <<alive, members>>,
         NEW hh \in Handle, hh \in alive, NEW ob2, obj' = ob2, SameLinks(obj, ob2),
         \A h \in Handle : h # hh => ob2[h].refc = obj[h].refc, ob2[hh].refc \in Nat,
         NEW st \in [Thread -> Seq(Shaped)], stack' = st, AllGood(alive, ob2, st),
         \A h \in Handle :
           /\ IsFiniteSet(Entries(st, h, RefPC))
           /\ IsFiniteSet(Entries(st, h, {"unlocking"}))
           /\ Cardinality(Entries(st, h, {"unlocking"})) <= 1
           /\ held'[h] \in Nat
           /\ held'[h] + Cardinality(Entries(st, h, RefPC)) + obj[h].refc =
                held[h] + Cardinality(Entries(stack, h, RefPC)) + ob2[h].refc
  PROVE  RInv'
<1>1. PICK hd2 : hd2 = held'
  OBVIOUS
<1>2. PICK al \in SUBSET Handle : al = alive /\ al = alive'
  BY DEF IInv, Rest
<1>3. \A h \in Handle :
        /\ Finite(al, ob2, st, h)
        /\ Exact(al, ob2, st, hd2, h)
        /\ Cardinality(Entries(st, h, {"unlocking"})) <= 1
        /\ h \in al => ob2[h].released <= Len(ob2[h].deps)
  <2> SUFFICES ASSUME NEW h \in Handle
               PROVE  /\ Finite(al, ob2, st, h)
                      /\ Exact(al, ob2, st, hd2, h)
                      /\ Cardinality(Entries(st, h, {"unlocking"})) <= 1
                      /\ h \in al => ob2[h].released <= Len(ob2[h].deps)
    OBVIOUS
  <2>1. DepEntries(al, ob2, h) = DepEntries(al, obj, h)
    BY SameDeps
  <2>2. /\ Finite(al, obj, stack, h) /\ Exact(al, obj, stack, held, h)
        /\ h \in al => obj[h].released <= Len(obj[h].deps)
    BY <1>2 DEF RInv, RInvOf
  <2>3. Finite(al, ob2, st, h)
    BY <2>1, <2>2 DEF Finite
  <2> DEFINE E == Cardinality(Entries(stack, h, RefPC))
             E2 == Cardinality(Entries(st, h, RefPC))
             D == Cardinality(DepEntries(al, obj, h))
  <2>4. hd2[h] + E2 + obj[h].refc = held[h] + E + ob2[h].refc
    BY <1>1
  <2>5. Count(al, obj, h) = held[h] + E + D
    BY <2>2 DEF Exact
  <2>6. /\ E \in Nat /\ E2 \in Nat /\ D \in Nat /\ held[h] \in Nat /\ hd2[h] \in Nat
        /\ obj[h].refc \in Nat /\ ob2[h].refc \in Nat
    <3>1. E \in Nat /\ E2 \in Nat /\ D \in Nat
      BY <2>2, <2>3, FS_CardinalityType DEF Finite
    <3>2. obj[h].refc \in Nat /\ held[h] \in Nat
      BY ObjectFields DEF IInv, Rest
    <3>3. ob2[h].refc \in Nat
      BY <3>2
    <3> QED BY <1>1, <3>1, <3>2, <3>3
  <2> HIDE DEF E, E2, D
  <2>7. PICK r \in Nat, r2 \in Nat, n \in Nat, n2 \in Nat :
          r = obj[h].refc /\ r2 = ob2[h].refc /\ n = held[h] /\ n2 = hd2[h]
    BY <2>6
  <2>8. n2 + E2 + r = n + E + r2
    BY <2>4, <2>7
  <2>9. Count(al, ob2, h) = n2 + E2 + D
    <3>1. CASE h \in al
      <4>1. r = n + E + D
        BY <2>5, <2>7, <3>1 DEF Count
      <4>2. r2 = n2 + E2 + D
        BY <2>6, <2>8, <4>1
      <4> QED BY <2>7, <3>1, <4>2 DEF Count
    <3>2. CASE h \notin al
      <4>1. r2 = r /\ 0 = n + E + D
        BY <1>2, <2>5, <2>7, <3>2 DEF Count
      <4>2. 0 = n2 + E2 + D
        BY <2>6, <2>8, <4>1
      <4> QED BY <3>2, <4>2 DEF Count
    <3> QED BY <3>1, <3>2
  <2>10. Exact(al, ob2, st, hd2, h)
    BY <2>1, <2>7, <2>9 DEF Exact, E2, D
  <2> QED BY <2>2, <2>3, <2>10 DEF SameLinks
<1>4. \A t \in Thread : Good(al, ob2, st[t])
  BY <1>2 DEF AllGood
<1>5. RInvOf(al, ob2, st, hd2)
  BY <1>3, <1>4 DEF RInvOf
<1>6. RInvOf(alive', obj', stack', held')
  BY <1>1, <1>2, <1>5
<1> QED BY <1>6 DEF RInv

(* A thread that may take the mutex, or owns it, and is not closing        *)
(* anything itself finds no last unlock under way.                         *)
LEMMA NoUnload ==
  ASSUME IInv, RInv, NEW t \in Thread, Running(t) => Top(t).pc \notin ClosingPC,
         Mtx!Free(t) \/ At(t, "lookup")
  PROVE  \A u \in Thread : \A k \in 1 .. Len(stack[u]) : stack[u][k].pc # "unlocking"
<1>1. stack \in [Thread -> Seq(Shaped)] /\ MutexBalanced
  BY DEF IInv, Stacks
<1>2. ASSUME NEW u \in Thread, NEW k \in 1 .. Len(stack[u]), stack[u][k].pc \in Owning
      PROVE  owner = u
  <2>1. k \in OwningFrames(u) /\ OwningFrames(u) \subseteq 1 .. Len(stack[u])
    BY <1>1, <1>2 DEF OwningFrames
  <2>2. IsFiniteSet(1 .. Len(stack[u]))
    <3>1. Len(stack[u]) \in Nat
      BY <1>1
    <3> QED BY <3>1, FS_Interval
  <2>3. IsFiniteSet(OwningFrames(u))
    BY <2>1, <2>2, FS_Subset
  <2>4. Cardinality(OwningFrames(u)) # 0
    BY <2>1, <2>3, FS_EmptySet
  <2> QED BY <1>1, <2>4 DEF MutexBalanced
<1>3. Mtx!Free(t)
  <2>1. CASE At(t, "lookup")
    <3>1. PICK s \in Seq(Shaped) : s = stack[t] /\ s # <<>> /\ s[Len(s)].pc = "lookup"
      BY <1>1, <2>1 DEF At, Running, Top
    <3>2. Len(s) \in 1 .. Len(s)
      BY <3>1
    <3>3. owner = t
      BY <1>2, <3>1, <3>2 DEF Owning, WalkPC
    <3> QED BY <3>3 DEF Mtx!Free
  <2> QED BY <2>1
<1> SUFFICES ASSUME NEW u \in Thread, NEW k \in 1 .. Len(stack[u]),
                    stack[u][k].pc = "unlocking"
             PROVE  FALSE
  OBVIOUS
<1>4. owner = u
  BY <1>2 DEF Owning
<1>5. u = t
  BY <1>3, <1>4, LoaderAssumption DEF Mtx!Free
<1>6. PICK s \in Seq(Shaped) : s = stack[t] /\ Good(alive, obj, s)
  BY <1>1 DEF RInv, RInvOf
<1>7. s # <<>> /\ k \in 1 .. Len(s) /\ Len(s) \in 1 .. Len(s) /\ k <= Len(s)
  BY <1>5, <1>6
<1>8. s[Len(s)].pc \in ClosingPC
  BY <1>5, <1>6, <1>7 DEF Good
<1> QED BY <1>6, <1>7, <1>8 DEF Running, Top

(* A handle is locked, and the program or a call gets the reference.       *)
LEMMA LockStep ==
  ASSUME IInv, RInv, UNCHANGED <<alive, members>>, NEW hh \in Handle, hh \in members,
         NEW ob2, obj' = ob2, SameLinks(obj, ob2),
         \A h \in Handle : h # hh => ob2[h].refc = obj[h].refc,
         ob2[hh].refc = obj[hh].refc + 1,
         NEW st \in [Thread -> Seq(Shaped)], stack' = st, AllGood(alive, ob2, st),
         \A h \in Handle :
           /\ IsFiniteSet(Entries(st, h, RefPC))
           /\ IsFiniteSet(Entries(st, h, {"unlocking"}))
           /\ Cardinality(Entries(st, h, {"unlocking"})) <= 1
           /\ held'[h] \in Nat
           /\ held'[h] + Cardinality(Entries(st, h, RefPC)) =
                held[h] + Cardinality(Entries(stack, h, RefPC))
                        + (IF h = hh THEN 1 ELSE 0)
  PROVE  RInv'
<1>1. hh \in alive
  BY DEF RInv
<1>2. obj[hh].refc \in Nat /\ ob2[hh].refc \in Nat
  BY ObjectFields DEF IInv
<1>3. ASSUME NEW h \in Handle
      PROVE  held'[h] + Cardinality(Entries(st, h, RefPC)) + obj[h].refc =
               held[h] + Cardinality(Entries(stack, h, RefPC)) + ob2[h].refc
  <2>1. PICK n \in Nat, n2 \in Nat, r \in Nat :
          n = held[h] /\ n2 = held'[h] /\ r = obj[h].refc
    BY ObjectFields DEF IInv, Rest
  <2>2. PICK e \in Nat, e2 \in Nat : e = Cardinality(Entries(stack, h, RefPC))
                                     /\ e2 = Cardinality(Entries(st, h, RefPC))
    BY FS_CardinalityType DEF RInv, RInvOf, Finite
  <2>3. n2 + e2 = n + e + (IF h = hh THEN 1 ELSE 0)
    BY <2>1, <2>2
  <2>4. ob2[h].refc = r + (IF h = hh THEN 1 ELSE 0)
    BY <2>1
  <2>5. n2 + e2 + r = n + e + (r + (IF h = hh THEN 1 ELSE 0))
    BY <2>3
  <2> QED BY <2>1, <2>2, <2>4, <2>5
<1> QED BY <1>1, <1>2, <1>3, CountStep

LEMMA LockObject ==
  ASSUME Rest, NEW hh \in Handle,
         \/ Locked(hh)
         \/ \E b : obj' = [obj EXCEPT ![hh].refc = @ + 1, ![hh].global = b]
  PROVE  /\ SameLinks(obj, obj')
         /\ \A h \in Handle : h # hh => obj'[h].refc = obj[h].refc
         /\ obj'[hh].refc = obj[hh].refc + 1
<1>1. obj \in [Handle -> Object] /\ obj[hh] \in Object
  BY DEF Rest
<1>2. CASE Locked(hh)
  <2>1. PICK r : r = obj[hh].refc + 1
    OBVIOUS
  <2>2. obj' = [obj EXCEPT ![hh].refc = r]
    BY <1>2, <2>1 DEF Locked
  <2> QED BY <1>1, <2>1, <2>2 DEF Object, SameLinks
<1>3. CASE \E b : obj' = [obj EXCEPT ![hh].refc = @ + 1, ![hh].global = b]
  <2>1. PICK r : r = obj[hh].refc + 1
    OBVIOUS
  <2>2. PICK b : obj' = [obj EXCEPT ![hh].refc = r, ![hh].global = b]
    BY <1>3, <2>1
  <2> QED BY <1>1, <2>1, <2>2 DEF Object, SameLinks
<1> QED BY <1>2, <1>3

LEMMA ByAddressCounts ==
  ASSUME "fini" \notin Callers, IInv, RInv, NEW t \in Thread, CallByAddress(t)
  PROVE  RInv'
<1> USE DEF table, mutex
<1>1. PICK hh \in Handle : /\ hh \in members /\ Locked(hh)
                           /\ held' = [held EXCEPT ![hh] = @ + 1]
  BY DEF CallByAddress, HasAddress
<1>2. UNCHANGED <<alive, members, stack>> /\ Rest /\ held \in [Handle -> Nat]
  BY DEF CallByAddress, IInv, Rest
<1>3. \A u \in Thread : \A k \in 1 .. Len(stack[u]) : stack[u][k].pc # "unlocking"
  <2>1. Running(t) => Top(t).pc \notin ClosingPC
    BY LoaderAssumption
       DEF CallByAddress, MayCall, InProgram, ClosingPC, UnlockPC, UnloadPC
  <2> QED BY <2>1, NoUnload DEF CallByAddress
<1>4. PICK ob2 : ob2 = obj'
  OBVIOUS
<1>5. /\ SameLinks(obj, ob2)
      /\ \A h \in Handle : h # hh => ob2[h].refc = obj[h].refc
      /\ ob2[hh].refc = obj[hh].refc + 1
  BY <1>1, <1>2, <1>4, LockObject
<1>6. AllGood(alive, ob2, stack)
  BY <1>3, <1>5, RefcKept
<1>7. PICK st \in [Thread -> Seq(Shaped)] : st = stack
  BY DEF IInv, Stacks
<1>8. ASSUME NEW h \in Handle
      PROVE  /\ IsFiniteSet(Entries(st, h, RefPC))
             /\ IsFiniteSet(Entries(st, h, {"unlocking"}))
             /\ Cardinality(Entries(st, h, {"unlocking"})) <= 1
             /\ held'[h] \in Nat
             /\ held'[h] + Cardinality(Entries(st, h, RefPC)) =
                  held[h] + Cardinality(Entries(stack, h, RefPC))
                          + (IF h = hh THEN 1 ELSE 0)
  <2>1. PICK n \in Nat, n2 \in Nat : /\ n = held[h] /\ n2 = held'[h]
                                     /\ n2 = n + (IF h = hh THEN 1 ELSE 0)
    BY <1>1, <1>2
  <2>2. PICK e \in Nat : e = Cardinality(Entries(st, h, RefPC))
    BY <1>7, FS_CardinalityType DEF RInv, RInvOf, Finite
  <2>3. n2 + e = n + e + (IF h = hh THEN 1 ELSE 0)
    BY <2>1
  <2>4. /\ IsFiniteSet(Entries(st, h, RefPC))
        /\ IsFiniteSet(Entries(st, h, {"unlocking"}))
        /\ Cardinality(Entries(st, h, {"unlocking"})) <= 1
    BY <1>7 DEF RInv, RInvOf, Finite
  <2> QED BY <1>7, <2>1, <2>2, <2>3, <2>4
<1>9. stack' = st /\ AllGood(alive, ob2, st)
  BY <1>2, <1>6, <1>7
<1> QED BY <1>1, <1>2, <1>4, <1>5, <1>8, <1>9, LockStep

LEMMA InfoCounts ==
  ASSUME "fini" \notin Callers, IInv, RInv, NEW t \in Thread, CallInfo(t)
  PROVE  RInv'
<1> USE DEF table, mutex
<1>1. PICK hh \in Handle :
        /\ held[hh] > 0 \/ HasAddress(hh) \/ (At(t, "enum") /\ hh \in members)
        /\ Locked(hh) /\ Enter(t, UnlockFrame(hh))
  BY DEF CallInfo
<1>2. hh \in members
  BY <1>1, HeldAlive DEF HasAddress, RInv
<1>3. UNCHANGED <<alive, members, held>> /\ Rest /\ Stacks /\ held \in [Handle -> Nat]
  BY DEF CallInfo, IInv, Rest
<1>4. /\ Running(t) => Top(t).pc \notin ClosingPC
      /\ InProgram(t)
  BY LoaderAssumption
     DEF CallInfo, MayCall, InProgram, ClosingPC, UnlockPC, UnloadPC
<1>5. \A u \in Thread : \A k \in 1 .. Len(stack[u]) : stack[u][k].pc # "unlocking"
  BY <1>4, NoUnload DEF CallInfo
<1>6. PICK ob2 : ob2 = obj'
  OBVIOUS
<1>7. /\ SameLinks(obj, ob2)
      /\ \A h \in Handle : h # hh => ob2[h].refc = obj[h].refc
      /\ ob2[hh].refc = obj[hh].refc + 1
  BY <1>1, <1>3, <1>6, LockObject
<1>8. AllGood(alive, ob2, stack) /\ stack \in [Thread -> Seq(Shaped)]
  BY <1>3, <1>5, <1>7, RefcKept DEF Stacks
<1>9. PICK g \in Shaped : g = UnlockFrame(hh) /\ g.pc = "unlock" /\ g.h = hh
  BY NewFrames DEF UnlockFrame
<1> DEFINE st == Pushed(stack, t, g)
<1>10. st \in [Thread -> Seq(Shaped)] /\ stack' = st
  BY <1>1, <1>3, <1>8, <1>9, Moves, PushPopTypes
<1>11. AllGood(alive, ob2, st)
  <2>1. FrameOK(alive, ob2, g) /\ \A c : PairOK(ob2, c, g)
    BY <1>9 DEF FrameOK, PairOK
  <2>2. g.pc \notin UnloadPC
    BY <1>9 DEF UnloadPC
  <2>3. Running(t) => Calls(Top(t), g)
    BY <1>4, <2>2, MayEnter
  <2> QED BY <1>8, <1>10, <2>1, <2>2, <2>3, PushGood DEF Running, Top
<1>12. ASSUME NEW h \in Handle
       PROVE  /\ IsFiniteSet(Entries(st, h, RefPC))
              /\ IsFiniteSet(Entries(st, h, {"unlocking"}))
              /\ Cardinality(Entries(st, h, {"unlocking"})) <= 1
              /\ held'[h] \in Nat
              /\ held'[h] + Cardinality(Entries(st, h, RefPC)) =
                   held[h] + Cardinality(Entries(stack, h, RefPC))
                           + (IF h = hh THEN 1 ELSE 0)
  <2>1. /\ Finite(alive, obj, stack, h)
        /\ Cardinality(Entries(stack, h, {"unlocking"})) <= 1
    BY DEF RInv, RInvOf
  <2>2. One(g, h, {"unlocking"}) = 0 /\ One(g, h, RefPC) = IF h = hh THEN 1 ELSE 0
    BY <1>9 DEF One, On, RefPC
  <2> DEFINE N(s, p) == Cardinality(Entries(s, h, p))
  <2>3. /\ IsFiniteSet(Entries(st, h, RefPC)) /\ N(stack, RefPC) \in Nat
        /\ N(st, RefPC) = N(stack, RefPC) + One(g, h, RefPC)
    BY <1>8, <1>10, <2>1, PushEntries DEF Finite
  <2>4. /\ IsFiniteSet(Entries(st, h, {"unlocking"})) /\ N(stack, {"unlocking"}) \in Nat
        /\ N(st, {"unlocking"}) = N(stack, {"unlocking"}) + One(g, h, {"unlocking"})
    BY <1>8, <1>10, <2>1, PushEntries DEF Finite
  <2>5. N(stack, {"unlocking"}) <= 1
    BY <2>1
  <2> HIDE DEF N, st
  <2>6. N(st, {"unlocking"}) <= 1
    BY <2>2, <2>4, <2>5
  <2>7. PICK n \in Nat : n = held[h] /\ n = held'[h]
    BY <1>3
  <2>8. n + N(st, RefPC) = n + N(stack, RefPC) + (IF h = hh THEN 1 ELSE 0)
    BY <2>2, <2>3
  <2> QED BY <2>3, <2>4, <2>6, <2>7, <2>8 DEF N
<1> HIDE DEF st
<1> QED BY <1>2, <1>3, <1>6, <1>7, <1>10, <1>11, <1>12, LockStep

LEMMA HitCounts ==
  ASSUME IInv, RInv, NEW t \in Thread, OpenHit(t)
  PROVE  RInv'
<1> USE DEF table, mutex, program
<1>1. PICK hh \in Handle :
        /\ hh \in members
        /\ obj' = [obj EXCEPT ![hh].refc = @ + 1, ![hh].global = Top(t).req.global]
        /\ Become(t, DoneFrame(hh))
  BY DEF OpenHit, Found, IInv, Rest
<1>2. UNCHANGED <<alive, members, held>> /\ Rest /\ Stacks /\ held \in [Handle -> Nat]
  BY DEF OpenHit, IInv, Rest
<1>3. /\ Running(t) /\ Top(t).pc = "find" /\ Top(t) \in Shaped
      /\ stack \in [Thread -> Seq(Shaped)]
  BY <1>2, TopShape DEF OpenHit, At, Stacks
<1>4. \A u \in Thread : \A k \in 1 .. Len(stack[u]) : stack[u][k].pc # "unlocking"
  BY <1>3, NoUnload DEF OpenHit, ClosingPC, UnlockPC, UnloadPC
<1>5. PICK ob2 : ob2 = obj'
  OBVIOUS
<1>6. /\ SameLinks(obj, ob2)
      /\ \A h \in Handle : h # hh => ob2[h].refc = obj[h].refc
      /\ ob2[hh].refc = obj[hh].refc + 1
  <2>1. PICK b : b = Top(t).req.global
    OBVIOUS
  <2>2. obj' = [obj EXCEPT ![hh].refc = @ + 1, ![hh].global = b]
    BY <1>1, <2>1
  <2> QED BY <1>2, <1>5, <2>2, LockObject
<1>7. AllGood(alive, ob2, stack)
  BY <1>4, <1>6, RefcKept
<1>8. PICK f \in Shaped : f = DoneFrame(hh) /\ f.pc = "done" /\ f.h = hh
  <2>1. DoneFrame(hh) \in Shaped
    BY NewFrames
  <2> QED BY <2>1 DEF DoneFrame
<1> DEFINE st == Pushed(Popped(stack, t), t, f)
<1>9. st \in [Thread -> Seq(Shaped)] /\ stack' = st
  BY <1>1, <1>2, <1>3, <1>8, Moves, PushPopTypes DEF Running
<1>10. AllGood(alive, ob2, st)
  <2>1. FrameOK(alive, ob2, f) /\ \A c \in Shaped : PairOK(ob2, c, f)
    BY <1>8 DEF FrameOK, PairOK
  <2>2. MayBecome(Top(t), f)
    BY <1>3, <1>8 DEF MayBecome, OpenPC
  <2> QED BY <1>3, <1>7, <2>1, <2>2, BecomeGood DEF Running, Top
<1>11. ASSUME NEW h \in Handle
       PROVE  /\ IsFiniteSet(Entries(st, h, RefPC))
              /\ IsFiniteSet(Entries(st, h, {"unlocking"}))
              /\ Cardinality(Entries(st, h, {"unlocking"})) <= 1
              /\ held'[h] \in Nat
              /\ held'[h] + Cardinality(Entries(st, h, RefPC)) =
                   held[h] + Cardinality(Entries(stack, h, RefPC))
                           + (IF h = hh THEN 1 ELSE 0)
  <2>1. /\ Finite(alive, obj, stack, h)
        /\ Cardinality(Entries(stack, h, {"unlocking"})) <= 1
    BY DEF RInv, RInvOf
  <2>2. One(f, h, {"unlocking"}) = 0 /\ One(f, h, RefPC) = IF h = hh THEN 1 ELSE 0
    BY <1>8 DEF One, On, RefPC
  <2>3. One(Top(t), h, {"unlocking"}) = 0 /\ One(Top(t), h, RefPC) = 0
    BY <1>3 DEF One, On, RefPC, LoadPC
  <2> DEFINE N(s, p) == Cardinality(Entries(s, h, p))
  <2>4. /\ IsFiniteSet(Entries(st, h, RefPC))
        /\ N(stack, RefPC) \in Nat /\ N(st, RefPC) \in Nat
        /\ N(st, RefPC) + One(Top(t), h, RefPC) = N(stack, RefPC) + One(f, h, RefPC)
    BY <1>3, <2>1, BecomeCounts DEF Finite, Running, Top
  <2>5. /\ IsFiniteSet(Entries(st, h, {"unlocking"}))
        /\ N(stack, {"unlocking"}) \in Nat /\ N(st, {"unlocking"}) \in Nat
        /\ N(st, {"unlocking"}) + One(Top(t), h, {"unlocking"}) =
             N(stack, {"unlocking"}) + One(f, h, {"unlocking"})
    BY <1>3, <2>1, BecomeCounts DEF Finite, Running, Top
  <2>6. N(stack, {"unlocking"}) <= 1
    BY <2>1
  <2> HIDE DEF N, st
  <2>7. N(st, {"unlocking"}) <= 1
    BY <2>2, <2>3, <2>5, <2>6
  <2>8. PICK n \in Nat : n = held[h] /\ n = held'[h]
    BY <1>2
  <2>9. n + N(st, RefPC) = n + N(stack, RefPC) + (IF h = hh THEN 1 ELSE 0)
    BY <2>2, <2>3, <2>4
  <2> QED BY <2>4, <2>5, <2>7, <2>8, <2>9 DEF N
<1> HIDE DEF st
<1> QED BY <1>1, <1>2, <1>5, <1>6, <1>9, <1>10, <1>11, LockStep

LEMMA PassCounts ==
  ASSUME IInv, RInv, NEW t \in Thread, PassUnreferred(t)
  PROVE  RInv'
<1> USE DEF table, mutex, program
<1>1. PICK hh \in Handle, n \in Handle \cup {Null} :
        /\ hh \in members /\ Locked(hh)
        /\ BecomeAndCall(t, [Top(t) EXCEPT !.i = Position(hh) + 1, !.h = n],
                            UnlockFrame(hh))
  BY DEF PassUnreferred, IInv, Rest
<1>2. UNCHANGED <<alive, members, held>> /\ Rest /\ Stacks /\ held \in [Handle -> Nat]
  BY DEF PassUnreferred, IInv, Rest
<1>3. /\ Running(t) /\ Top(t).pc = "lookup" /\ Top(t) \in Shaped /\ At(t, "lookup")
      /\ stack \in [Thread -> Seq(Shaped)]
  BY <1>2, TopShape DEF PassUnreferred, At, Stacks
<1>4. \A u \in Thread : \A k \in 1 .. Len(stack[u]) : stack[u][k].pc # "unlocking"
  BY <1>3, NoUnload DEF ClosingPC, UnlockPC, UnloadPC
<1>5. PICK ob2 : ob2 = obj'
  OBVIOUS
<1>6. /\ SameLinks(obj, ob2)
      /\ \A h \in Handle : h # hh => ob2[h].refc = obj[h].refc
      /\ ob2[hh].refc = obj[hh].refc + 1
  BY <1>1, <1>2, <1>5, LockObject
<1>7. AllGood(alive, ob2, stack)
  BY <1>4, <1>6, RefcKept
<1>8. PICK j \in Nat : j = Position(hh) + 1
  <2>1. IsFiniteSet({g \in members : <<g, hh>> \in before})
    BY <1>2, FS_Subset DEF Rest
  <2>2. Position(hh) \in Nat
    BY <2>1, FS_CardinalityType DEF Position
  <2> QED BY <2>2
<1>9. PICK f \in Shaped : f = [Top(t) EXCEPT !.i = j, !.h = n] /\ f.pc = "lookup"
  <2>1. PICK e \in Shaped : e = Top(t) /\ e.pc = "lookup"
    BY <1>3
  <2>2. [e EXCEPT !.i = j, !.h = n] \in Shaped
    BY <2>1, NextPass
  <2>3. [e EXCEPT !.i = j, !.h = n].pc = "lookup"
    BY <2>1 DEF Shaped, Frame
  <2> QED BY <2>1, <2>2, <2>3
<1>10. PICK g \in Shaped : g = UnlockFrame(hh) /\ g.pc = "unlock" /\ g.h = hh
  BY NewFrames DEF UnlockFrame
<1> DEFINE st1 == Pushed(Popped(stack, t), t, f)
           st == Pushed(st1, t, g)
<1>11. /\ st1 \in [Thread -> Seq(Shaped)] /\ st \in [Thread -> Seq(Shaped)]
       /\ stack' = st /\ st1[t] # <<>> /\ st1[t][Len(st1[t])] = f
  <2>1. Popped(stack, t) \in [Thread -> Seq(Shaped)]
    BY <1>3, PushPopTypes DEF Running
  <2>2. PICK u \in Seq(Shaped) : u = Popped(stack, t)[t]
    BY <2>1
  <2>3. st1 \in [Thread -> Seq(Shaped)] /\ st1[t] = Append(u, f)
    BY <2>1, <2>2, PushPopTypes
  <2>4. stack' = st
    BY <1>1, <1>2, <1>3, <1>8, <1>9, <1>10, Moves
  <2> HIDE DEF st1
  <2>5. st \in [Thread -> Seq(Shaped)]
    BY <2>3, PushPopTypes
  <2>6. st1[t] # <<>> /\ st1[t][Len(st1[t])] = f
    BY <2>2, <2>3
  <2> QED BY <2>3, <2>4, <2>5, <2>6
<1>12. AllGood(alive, ob2, st)
  <2>1. FrameOK(alive, ob2, f) /\ \A c \in Shaped : PairOK(ob2, c, f)
    BY <1>9 DEF FrameOK, PairOK
  <2>2. MayBecome(Top(t), f)
    BY <1>3, <1>9 DEF MayBecome
  <2>3. AllGood(alive, ob2, st1)
    BY <1>3, <1>7, <2>1, <2>2, BecomeGood DEF Running, Top
  <2>4. FrameOK(alive, ob2, g) /\ PairOK(ob2, f, g) /\ Calls(f, g)
    BY <1>9, <1>10 DEF FrameOK, PairOK, Calls, UnlockPC
  <2> HIDE DEF st1
  <2> QED BY <1>11, <2>3, <2>4, PushGood
<1>13. ASSUME NEW h \in Handle
       PROVE  /\ IsFiniteSet(Entries(st, h, RefPC))
              /\ IsFiniteSet(Entries(st, h, {"unlocking"}))
              /\ Cardinality(Entries(st, h, {"unlocking"})) <= 1
              /\ held'[h] \in Nat
              /\ held'[h] + Cardinality(Entries(st, h, RefPC)) =
                   held[h] + Cardinality(Entries(stack, h, RefPC))
                           + (IF h = hh THEN 1 ELSE 0)
  <2>1. /\ Finite(alive, obj, stack, h)
        /\ Cardinality(Entries(stack, h, {"unlocking"})) <= 1
    BY DEF RInv, RInvOf
  <2>2. /\ One(f, h, {"unlocking"}) = 0 /\ One(f, h, RefPC) = 0
        /\ One(g, h, {"unlocking"}) = 0 /\ One(g, h, RefPC) = IF h = hh THEN 1 ELSE 0
    BY <1>9, <1>10 DEF One, On, RefPC, LoadPC
  <2>3. One(Top(t), h, {"unlocking"}) = 0 /\ One(Top(t), h, RefPC) = 0
    BY <1>3 DEF One, On, RefPC, LoadPC
  <2> DEFINE N(s, p) == Cardinality(Entries(s, h, p))
  <2>4. /\ IsFiniteSet(Entries(st1, h, RefPC))
        /\ N(stack, RefPC) \in Nat /\ N(st1, RefPC) \in Nat
        /\ N(st1, RefPC) + One(Top(t), h, RefPC) = N(stack, RefPC) + One(f, h, RefPC)
    BY <1>3, <2>1, BecomeCounts DEF Finite, Running, Top
  <2>5. /\ IsFiniteSet(Entries(st1, h, {"unlocking"}))
        /\ N(stack, {"unlocking"}) \in Nat /\ N(st1, {"unlocking"}) \in Nat
        /\ N(st1, {"unlocking"}) + One(Top(t), h, {"unlocking"}) =
             N(stack, {"unlocking"}) + One(f, h, {"unlocking"})
    BY <1>3, <2>1, BecomeCounts DEF Finite, Running, Top
  <2> HIDE DEF st1
  <2>6. /\ IsFiniteSet(Entries(st, h, RefPC))
        /\ N(st, RefPC) = N(st1, RefPC) + One(g, h, RefPC)
    BY <1>11, <2>4, PushEntries
  <2>7. /\ IsFiniteSet(Entries(st, h, {"unlocking"}))
        /\ N(st, {"unlocking"}) = N(st1, {"unlocking"}) + One(g, h, {"unlocking"})
    BY <1>11, <2>5, PushEntries
  <2>8. N(stack, {"unlocking"}) <= 1
    BY <2>1
  <2> HIDE DEF N, st
  <2>9. N(st, {"unlocking"}) <= 1
    BY <2>2, <2>3, <2>5, <2>7, <2>8
  <2>10. PICK m \in Nat : m = held[h] /\ m = held'[h]
    BY <1>2
  <2>11. m + N(st, RefPC) = m + N(stack, RefPC) + (IF h = hh THEN 1 ELSE 0)
    BY <2>2, <2>3, <2>4, <2>6
  <2> QED BY <2>6, <2>7, <2>9, <2>10, <2>11 DEF N
<1> HIDE DEF st
<1> QED BY <1>1, <1>2, <1>5, <1>6, <1>11, <1>12, <1>13, LockStep

(* The reference that is given back is not the last one.                   *)
LEMMA UnlockCounts ==
  ASSUME IInv, RInv, NEW t \in Thread, Unlock(t)
  PROVE  RInv'
<1> USE DEF table, mutex, program
<1>1. /\ Running(t) /\ Top(t).pc = "unlock" /\ Rest /\ Stacks
      /\ UNCHANGED <<alive, members, held>> /\ held \in [Handle -> Nat]
  BY DEF Unlock, At, IInv, Rest
<1>2. Top(t) \in Shaped /\ Top(t).h \in Handle /\ stack \in [Thread -> Seq(Shaped)]
  BY <1>1, TopShape DEF UnlockPC, Stacks
<1>3. PICK hh \in Handle : hh = Top(t).h /\ obj[hh].refc > 1
  BY <1>2 DEF Unlock, This
<1>4. hh \in alive
  <2>1. PICK s \in Seq(Shaped) : s = stack[t] /\ s # <<>>
    BY <1>1, <1>2 DEF Running
  <2>2. Len(s) \in 1 .. Len(s)
    BY <2>1
  <2> QED BY <1>1, <1>2, <1>3, <2>1, <2>2, RefAlive DEF Top, RefPC
<1>5. PICK r \in Nat : r + 1 = obj[hh].refc /\ r > 0
  <2>1. obj[hh].refc \in Nat
    BY <1>1, ObjectFields
  <2> QED BY <1>3, <2>1
<1>6. PICK ob2 : ob2 = obj' /\ ob2 = [obj EXCEPT ![hh].refc = r]
  <2>1. obj[hh].refc - 1 = r
    BY <1>5
  <2>2. obj' = [obj EXCEPT ![hh].refc = obj[hh].refc - 1]
    BY <1>3 DEF Unlock
  <2> QED BY <2>1, <2>2
<1>7. /\ SameLinks(obj, ob2) /\ ob2[hh].refc = r
      /\ \A h \in Handle : h # hh => ob2[h].refc = obj[h].refc
  <2>1. obj \in [Handle -> Object] /\ obj[hh] \in Object
    BY <1>1 DEF Rest
  <2> QED BY <1>6, <2>1 DEF Object, SameLinks
<1>8. AllGood(alive, ob2, stack)
  BY <1>5, <1>7, RefcKept
<1>9. PICK f \in Shaped : f = DoneFrame(Null) /\ f.pc = "done" /\ f.h = Null
  <2>1. DoneFrame(Null) \in Shaped
    BY NewFrames
  <2> QED BY <2>1 DEF DoneFrame
<1> DEFINE st == Pushed(Popped(stack, t), t, f)
<1>10. st \in [Thread -> Seq(Shaped)] /\ stack' = st
  BY <1>1, <1>2, <1>9, Moves, PushPopTypes DEF Running, Unlock
<1>11. AllGood(alive, ob2, st)
  <2>1. FrameOK(alive, ob2, f) /\ \A c \in Shaped : PairOK(ob2, c, f)
    BY <1>9 DEF FrameOK, PairOK
  <2>2. MayBecome(Top(t), f)
    BY <1>1, <1>9 DEF MayBecome, UnlockPC
  <2> QED BY <1>1, <1>2, <1>8, <2>1, <2>2, BecomeGood DEF Running, Top
<1>12. ASSUME NEW h \in Handle
       PROVE  /\ IsFiniteSet(Entries(st, h, RefPC))
              /\ IsFiniteSet(Entries(st, h, {"unlocking"}))
              /\ Cardinality(Entries(st, h, {"unlocking"})) <= 1
              /\ held'[h] \in Nat
              /\ held'[h] + Cardinality(Entries(st, h, RefPC)) + obj[h].refc =
                   held[h] + Cardinality(Entries(stack, h, RefPC)) + ob2[h].refc
  <2>1. /\ Finite(alive, obj, stack, h)
        /\ Cardinality(Entries(stack, h, {"unlocking"})) <= 1
    BY DEF RInv, RInvOf
  <2>2. One(f, h, {"unlocking"}) = 0 /\ One(f, h, RefPC) = 0
    BY <1>9, LoaderAssumption DEF One, On, RefPC
  <2>3. /\ One(Top(t), h, {"unlocking"}) = 0
        /\ One(Top(t), h, RefPC) = IF h = hh THEN 1 ELSE 0
    BY <1>1, <1>3 DEF One, On, RefPC, LoadPC
  <2> DEFINE N(s, p) == Cardinality(Entries(s, h, p))
  <2>4. /\ IsFiniteSet(Entries(st, h, RefPC))
        /\ N(stack, RefPC) \in Nat /\ N(st, RefPC) \in Nat
        /\ N(st, RefPC) + One(Top(t), h, RefPC) = N(stack, RefPC) + One(f, h, RefPC)
    BY <1>1, <1>2, <2>1, BecomeCounts DEF Finite, Running, Top
  <2>5. /\ IsFiniteSet(Entries(st, h, {"unlocking"}))
        /\ N(stack, {"unlocking"}) \in Nat /\ N(st, {"unlocking"}) \in Nat
        /\ N(st, {"unlocking"}) + One(Top(t), h, {"unlocking"}) =
             N(stack, {"unlocking"}) + One(f, h, {"unlocking"})
    BY <1>1, <1>2, <2>1, BecomeCounts DEF Finite, Running, Top
  <2>6. N(stack, {"unlocking"}) <= 1
    BY <2>1
  <2> HIDE DEF N, st
  <2>7. N(st, {"unlocking"}) <= 1
    BY <2>2, <2>3, <2>5, <2>6
  <2>8. PICK m \in Nat : m = held[h] /\ m = held'[h]
    BY <1>1
  <2>9. PICK v \in Nat, v2 \in Nat : /\ v = obj[h].refc /\ v2 = ob2[h].refc
                                     /\ v = v2 + (IF h = hh THEN 1 ELSE 0)
    <3>1. CASE h = hh
      <4>1. r + 1 \in Nat /\ r + 1 = r + (IF h = hh THEN 1 ELSE 0)
        BY <3>1
      <4> QED BY <1>5, <1>7, <3>1, <4>1
    <3>2. CASE h # hh
      <4>1. PICK v \in Nat : v = obj[h].refc
        BY <1>1, ObjectFields
      <4>2. v = v + (IF h = hh THEN 1 ELSE 0)
        BY <3>2
      <4> QED BY <1>7, <3>2, <4>1, <4>2
    <3> QED BY <3>1, <3>2
  <2>10. m + N(st, RefPC) + v = m + N(stack, RefPC) + v2
    BY <2>2, <2>3, <2>4, <2>9
  <2> QED BY <2>4, <2>5, <2>7, <2>8, <2>9, <2>10 DEF N
<1> HIDE DEF st
<1>13. ob2[hh].refc \in Nat
  BY <1>7
<1>14. obj' = ob2 /\ UNCHANGED <<alive, members>>
  BY <1>1, <1>6
<1> QED BY <1>4, <1>7, <1>10, <1>11, <1>12, <1>13, <1>14, CountStep

(* The last reference is given back, and the object is unloaded: no other  *)
(* call is unloading it, because it had a reference until now.             *)
LEMMA LastUnlockCounts ==
  ASSUME IInv, RInv, NEW t \in Thread, LastUnlock(t)
  PROVE  RInv'
<1> USE DEF table, mutex, program
<1>1. /\ Running(t) /\ Top(t).pc = "unlock" /\ Rest /\ Stacks
      /\ UNCHANGED <<alive, members, held>> /\ held \in [Handle -> Nat]
  BY DEF LastUnlock, At, IInv, Rest
<1>2. Top(t) \in Shaped /\ Top(t).h \in Handle /\ stack \in [Thread -> Seq(Shaped)]
  BY <1>1, TopShape DEF UnlockPC, Stacks
<1>3. PICK hh \in Handle : hh = Top(t).h
  BY <1>2
<1>4. hh \in alive /\ obj[hh].refc = 1
  <2>1. PICK s \in Seq(Shaped) : s = stack[t] /\ s # <<>>
    BY <1>1, <1>2 DEF Running
  <2>2. Len(s) \in 1 .. Len(s)
    BY <2>1
  <2>3. hh \in alive /\ obj[hh].refc > 0
    BY <1>1, <1>2, <1>3, <2>1, <2>2, RefAlive DEF Top, RefPC
  <2>4. obj[hh].refc \in Nat /\ obj[hh].refc <= 1
    BY <1>1, <1>3, ObjectFields DEF LastUnlock, This
  <2> QED BY <2>3, <2>4
<1>5. PICK ob2 : ob2 = obj' /\ ob2 = [obj EXCEPT ![hh].refc = 0]
  BY <1>3 DEF LastUnlock
<1>6. /\ SameLinks(obj, ob2) /\ ob2[hh].refc = 0
      /\ \A h \in Handle : h # hh => ob2[h].refc = obj[h].refc
  <2>1. obj \in [Handle -> Object] /\ obj[hh] \in Object
    BY <1>1 DEF Rest
  <2> QED BY <1>5, <2>1 DEF Object, SameLinks
<1>7. AllGood(alive, ob2, stack)
  <2>1. obj[hh].refc > 0
    BY <1>4
  <2> QED BY <1>6, <2>1, RefcKept
<1>8. PICK f \in Shaped : f = [Top(t) EXCEPT !.pc = "unlocking"]
  BY <1>1, <1>2, NextUnlock
<1>9. f.pc = "unlocking" /\ f.h = hh
  BY <1>2, <1>3, <1>8 DEF Shaped, Frame
<1>10. PICK g \in Shaped : g = UnloadFrame(hh) /\ g.pc = "fini" /\ g.h = hh /\ g.i = 1
  <2>1. UnloadFrame(hh) \in Shaped
    BY NewFrames
  <2> QED BY <2>1 DEF UnloadFrame
<1> DEFINE st1 == Pushed(Popped(stack, t), t, f)
           st == Pushed(st1, t, g)
<1>11. /\ st1 \in [Thread -> Seq(Shaped)] /\ st \in [Thread -> Seq(Shaped)]
       /\ stack' = st /\ st1[t] # <<>> /\ st1[t][Len(st1[t])] = f
  <2>1. Popped(stack, t) \in [Thread -> Seq(Shaped)]
    BY <1>1, <1>2, PushPopTypes DEF Running
  <2>2. PICK u \in Seq(Shaped) : u = Popped(stack, t)[t]
    BY <2>1
  <2>3. st1 \in [Thread -> Seq(Shaped)] /\ st1[t] = Append(u, f)
    BY <2>1, <2>2, PushPopTypes
  <2>4. stack' = st
    BY <1>1, <1>2, <1>3, <1>8, <1>10, Moves DEF LastUnlock
  <2> HIDE DEF st1
  <2>5. st \in [Thread -> Seq(Shaped)]
    BY <2>3, PushPopTypes
  <2>6. st1[t] # <<>> /\ st1[t][Len(st1[t])] = f
    BY <2>2, <2>3
  <2> QED BY <2>3, <2>4, <2>5, <2>6
<1>12. AllGood(alive, ob2, st)
  <2>1. FrameOK(alive, ob2, f) /\ \A c \in Shaped : PairOK(ob2, c, f)
    BY <1>4, <1>6, <1>9 DEF FrameOK, PairOK
  <2>2. MayBecome(Top(t), f)
    BY <1>1, <1>9 DEF MayBecome, UnlockPC
  <2>3. AllGood(alive, ob2, st1)
    BY <1>1, <1>2, <1>7, <2>1, <2>2, BecomeGood DEF Running, Top
  <2>4. PairOK(ob2, f, g) /\ Calls(f, g)
    BY <1>9, <1>10 DEF PairOK, Calls, UnloadPC
  <2>5. FrameOK(alive, ob2, g)
    <3>1. obj[hh].released \in Nat
      BY <1>1, ObjectFields
    <3>2. ob2[hh].released >= 1 - 1
      BY <1>6, <3>1 DEF SameLinks
    <3> QED BY <1>10, <3>2 DEF FrameOK
  <2> HIDE DEF st1
  <2> QED BY <1>11, <2>3, <2>4, <2>5, PushGood
<1>13. \A u \in Thread : \A k \in 1 .. Len(stack[u]) : ~On(stack[u][k], hh, {"unlocking"})
  <2> SUFFICES ASSUME NEW u \in Thread, NEW k \in 1 .. Len(stack[u]),
                      On(stack[u][k], hh, {"unlocking"})
               PROVE  FALSE
    OBVIOUS
  <2>1. FrameOK(alive, obj, stack[u][k])
    BY <1>2 DEF RInv, RInvOf, Good
  <2> QED BY <1>4, <2>1 DEF On, FrameOK
<1>14. Entries(stack, hh, {"unlocking"}) = {}
  BY <1>2, <1>13, EntryIs
<1>15. ASSUME NEW h \in Handle
       PROVE  /\ IsFiniteSet(Entries(st, h, RefPC))
              /\ IsFiniteSet(Entries(st, h, {"unlocking"}))
              /\ Cardinality(Entries(st, h, {"unlocking"})) <= 1
              /\ held'[h] \in Nat
              /\ held'[h] + Cardinality(Entries(st, h, RefPC)) + obj[h].refc =
                   held[h] + Cardinality(Entries(stack, h, RefPC)) + ob2[h].refc
  <2>1. /\ Finite(alive, obj, stack, h)
        /\ Cardinality(Entries(stack, h, {"unlocking"})) <= 1
    BY DEF RInv, RInvOf
  <2>2. /\ One(f, h, RefPC) = 0 /\ One(g, h, RefPC) = 0 /\ One(g, h, {"unlocking"}) = 0
        /\ One(f, h, {"unlocking"}) = IF h = hh THEN 1 ELSE 0
    BY <1>9, <1>10 DEF One, On, RefPC, LoadPC
  <2>3. /\ One(Top(t), h, {"unlocking"}) = 0
        /\ One(Top(t), h, RefPC) = IF h = hh THEN 1 ELSE 0
    BY <1>1, <1>3 DEF One, On, RefPC, LoadPC
  <2> DEFINE N(s, p) == Cardinality(Entries(s, h, p))
  <2>4. /\ IsFiniteSet(Entries(st1, h, RefPC))
        /\ N(stack, RefPC) \in Nat /\ N(st1, RefPC) \in Nat
        /\ N(st1, RefPC) + One(Top(t), h, RefPC) = N(stack, RefPC) + One(f, h, RefPC)
    BY <1>1, <1>2, <2>1, BecomeCounts DEF Finite, Running, Top
  <2>5. /\ IsFiniteSet(Entries(st1, h, {"unlocking"}))
        /\ N(stack, {"unlocking"}) \in Nat /\ N(st1, {"unlocking"}) \in Nat
        /\ N(st1, {"unlocking"}) + One(Top(t), h, {"unlocking"}) =
             N(stack, {"unlocking"}) + One(f, h, {"unlocking"})
    BY <1>1, <1>2, <2>1, BecomeCounts DEF Finite, Running, Top
  <2> HIDE DEF st1
  <2>a. st1 \in [Thread -> Seq(Shaped)]
    BY <1>11
  <2>b. IsFiniteSet(Entries(st1, h, RefPC)) /\ IsFiniteSet(Entries(st1, h, {"unlocking"}))
    BY <2>4, <2>5
  <2>6. /\ IsFiniteSet(Entries(st, h, RefPC))
        /\ N(st, RefPC) = N(st1, RefPC) + One(g, h, RefPC)
    BY <2>a, <2>b, PushEntries
  <2>7. /\ IsFiniteSet(Entries(st, h, {"unlocking"}))
        /\ N(st, {"unlocking"}) = N(st1, {"unlocking"}) + One(g, h, {"unlocking"})
    BY <2>a, <2>b, PushEntries
  <2>8. N(stack, {"unlocking"}) <= 1 /\ (h = hh => N(stack, {"unlocking"}) = 0)
    BY <1>14, <2>1, FS_EmptySet
  <2> HIDE DEF N, st
  <2>9. N(st, {"unlocking"}) <= 1
    BY <2>2, <2>3, <2>5, <2>7, <2>8
  <2>10. PICK m \in Nat : m = held[h] /\ m = held'[h]
    BY <1>1
  <2>11. PICK v \in Nat, v2 \in Nat : /\ v = obj[h].refc /\ v2 = ob2[h].refc
                                      /\ v = v2 + (IF h = hh THEN 1 ELSE 0)
    <3>1. CASE h = hh
      <4>1. 1 = 0 + (IF h = hh THEN 1 ELSE 0)
        BY <3>1
      <4> QED BY <1>4, <1>6, <3>1, <4>1
    <3>2. CASE h # hh
      <4>1. PICK v \in Nat : v = obj[h].refc
        BY <1>1, ObjectFields
      <4>2. v = v + (IF h = hh THEN 1 ELSE 0)
        BY <3>2
      <4> QED BY <1>6, <3>2, <4>1, <4>2
    <3> QED BY <3>1, <3>2
  <2>12. m + N(st, RefPC) + v = m + N(stack, RefPC) + v2
    BY <2>2, <2>3, <2>4, <2>6, <2>11
  <2> QED BY <2>6, <2>7, <2>9, <2>10, <2>11, <2>12 DEF N
<1> HIDE DEF st
<1>16. ob2[hh].refc \in Nat
  BY <1>6
<1>17. obj' = ob2 /\ UNCHANGED <<alive, members>>
  BY <1>1, <1>5
<1>18. st \in [Thread -> Seq(Shaped)] /\ stack' = st /\ hh \in alive
  BY <1>4, <1>11
<1> QED BY <1>6, <1>12, <1>15, <1>16, <1>17, <1>18, CountStep

-----------------------------------------------------------------------------
(* A step that changes what an object depends on.                          *)
LEMMA NextRInv ==
  ASSUME NEW al, NEW ob, NEW st, NEW hd, alive' = al, members' = al, obj' = ob,
         stack' = st, held' = hd, RInvOf(al, ob, st, hd)
  PROVE  RInv'
<1>1. RInvOf(alive', obj', stack', held') /\ members' = alive'
  OBVIOUS
<1> QED BY <1>1 DEF RInv

LEMMA OtherGood ==
  ASSUME NEW al, NEW ob, NEW al2, NEW ob2, NEW st \in [Thread -> Seq(Shaped)],
         AllGood(al, ob, st),
         \A u \in Thread : \A k \in 1 .. Len(st[u]) : FrameOK(al2, ob2, st[u][k]),
         \A u \in Thread : \A k \in 2 .. Len(st[u]) :
           PairOK(ob2, st[u][k - 1], st[u][k])
  PROVE  AllGood(al2, ob2, st)
BY DEF AllGood, Good

(* An unload is called by the call that works on the same handle.          *)
LEMMA UnloadCaller ==
  ASSUME NEW al, NEW ob, NEW s \in Seq(Shaped), Good(al, ob, s),
         NEW k \in 1 .. Len(s), s[k].pc \in UnloadPC
  PROVE  /\ k - 1 \in 1 .. Len(s) /\ k \in 2 .. Len(s)
         /\ s[k - 1].pc \in {"drop", "unlocking"} /\ s[k].h = s[k - 1].h
<1>1. k # 1
  BY DEF Good
<1>2. k \in 2 .. Len(s) /\ k - 1 \in 1 .. Len(s)
  BY <1>1
<1>3. Calls(s[k - 1], s[k])
  BY <1>2 DEF Good
<1> QED BY <1>2, <1>3 DEF Calls, UnloadPC, OpenPC, LoadPC, UnlockPC

LEMMA UnloadAlive ==
  ASSUME IInv, RInv, NEW u \in Thread, NEW k \in 1 .. Len(stack[u]),
         stack[u][k].pc \in UnloadPC \cup {"unlocking"}
  PROVE  stack[u][k].h \in alive
<1>1. PICK s \in Seq(Shaped) : s = stack[u] /\ Good(alive, obj, s)
  BY DEF IInv, Stacks, RInv, RInvOf
<1>2. CASE s[k].pc = "unlocking"
  BY <1>1, <1>2 DEF Good, FrameOK
<1>3. CASE s[k].pc \in UnloadPC
  <2>1. PICK j \in 1 .. Len(s) : s[j].pc \in {"drop", "unlocking"} /\ s[j].h = s[k].h
    BY <1>1, <1>3, UnloadCaller
  <2>2. CASE s[j].pc = "unlocking"
    BY <1>1, <2>1, <2>2 DEF Good, FrameOK
  <2>3. CASE s[j].pc = "drop"
    <3>1. s[j].h \in Handle /\ s[j].pc \in RefPC
      BY <2>3 DEF Shaped, LoadPC, RefPC
    <3> QED BY <1>1, <2>1, <3>1, RefAlive
  <2> QED BY <2>1, <2>2, <2>3
<1> QED BY <1>1, <1>2, <1>3

(* The objects that are alive, and all of the memory.                      *)
Memory(al, ob) == al \in SUBSET Handle /\ ob \in [Handle -> Object]

LEMMA DepIs ==
  ASSUME NEW al, NEW ob, Memory(al, ob), NEW h
  PROVE  \A e : e \in DepEntries(al, ob, h) <=>
           \E g \in al : \E k \in 1 .. Len(ob[g].deps) :
             e = <<g, k>> /\ k > ob[g].released /\ ob[g].deps[k] = h
<1>1. \A g \in al : DOMAIN ob[g].deps = 1 .. Len(ob[g].deps)
  BY DEF Object, Memory
<1> QED BY <1>1 DEF DepEntries

(* d becomes the last dependency of hh.                                    *)
Bound(ob, ob2, hh, d) ==
  /\ ob2[hh].deps = Append(ob[hh].deps, d)
  /\ ob2[hh].refc = ob[hh].refc /\ ob2[hh].released = ob[hh].released
  /\ \A g \in Handle : g # hh => ob2[g] = ob[g]

Within(ob, h) == ob[h].released <= Len(ob[h].deps)
More(al, ob, ob2, h, d) ==
  /\ IsFiniteSet(DepEntries(al, ob2, h))
  /\ Cardinality(DepEntries(al, ob, h)) \in Nat
  /\ Cardinality(DepEntries(al, ob2, h)) =
       Cardinality(DepEntries(al, ob, h)) + (IF d = h THEN 1 ELSE 0)

LEMMA DepAppend ==
  ASSUME NEW al \in SUBSET Handle, NEW ob \in [Handle -> Object],
         NEW ob2 \in [Handle -> Object], NEW hh \in al, NEW d,
         Bound(ob, ob2, hh, d), Within(ob, hh),
         NEW h, IsFiniteSet(DepEntries(al, ob, h))
  PROVE  More(al, ob, ob2, h, d)
<1>0. /\ ob2[hh].deps = Append(ob[hh].deps, d)
      /\ ob2[hh].released = ob[hh].released
      /\ ob[hh].released <= Len(ob[hh].deps)
      /\ \A g \in Handle : g # hh => ob2[g] = ob[g]
  BY DEF Bound, Within
<1>m. Memory(al, ob) /\ Memory(al, ob2)
  BY DEF Memory
<1> DEFINE D == DepEntries(al, ob, h)
           D2 == DepEntries(al, ob2, h)
           n == Len(ob[hh].deps) + 1
<1>1. /\ n \in Nat /\ n > ob[hh].released /\ Len(ob2[hh].deps) = n
      /\ ob2[hh].deps[n] = d /\ Len(ob[hh].deps) = n - 1
      /\ \A k \in 1 .. n - 1 : ob2[hh].deps[k] = ob[hh].deps[k]
  <2>1. PICK s \in Seq(Handle \cup {Main}) : s = ob[hh].deps
    BY DEF Object
  <2>2. ob[hh].released \in Nat
    BY DEF Object
  <2> QED BY <1>0, <2>1, <2>2
<1>2. \A e : e \in D <=> \E g \in al : \E k \in 1 .. Len(ob[g].deps) :
               e = <<g, k>> /\ k > ob[g].released /\ ob[g].deps[k] = h
  BY <1>m, DepIs
<1>3. \A e : e \in D2 <=> \E g \in al : \E k \in 1 .. Len(ob2[g].deps) :
               e = <<g, k>> /\ k > ob2[g].released /\ ob2[g].deps[k] = h
  BY <1>m, DepIs
<1> HIDE DEF D, D2, n
<1>4. \A e : e \in D2 <=> e \in D \/ (d = h /\ e = <<hh, n>>)
  <2> TAKE e
  <2>1. ASSUME e \in D2
        PROVE  e \in D \/ (d = h /\ e = <<hh, n>>)
    <3>0. PICK g \in al : \E k \in 1 .. Len(ob2[g].deps) :
               e = <<g, k>> /\ k > ob2[g].released /\ ob2[g].deps[k] = h
      BY <1>3, <2>1
    <3>1. PICK k \in 1 .. Len(ob2[g].deps) :
               e = <<g, k>> /\ k > ob2[g].released /\ ob2[g].deps[k] = h
      BY <3>0
    <3>2. CASE g = hh /\ k = n
      BY <1>1, <3>1, <3>2
    <3>3. CASE g # hh \/ k # n
      <4>1. /\ k \in 1 .. Len(ob[g].deps) /\ ob2[g].deps[k] = ob[g].deps[k]
            /\ ob2[g].released = ob[g].released
        BY <1>0, <1>1, <3>3
      <4> QED BY <1>2, <3>1, <4>1
    <3> QED BY <3>2, <3>3
  <2>2. ASSUME e \in D
        PROVE  e \in D2
    <3>0. PICK g \in al : \E k \in 1 .. Len(ob[g].deps) :
               e = <<g, k>> /\ k > ob[g].released /\ ob[g].deps[k] = h
      BY <1>2, <2>2
    <3>1. PICK k \in 1 .. Len(ob[g].deps) :
               e = <<g, k>> /\ k > ob[g].released /\ ob[g].deps[k] = h
      BY <3>0
    <3>2. /\ k \in 1 .. Len(ob2[g].deps) /\ ob2[g].deps[k] = ob[g].deps[k]
          /\ ob2[g].released = ob[g].released
      <4>1. CASE g = hh
        BY <1>0, <1>1, <4>1
      <4>2. CASE g # hh
        BY <1>0, <4>2
      <4> QED BY <4>1, <4>2
    <3> QED BY <1>3, <3>1, <3>2
  <2>3. ASSUME d = h, e = <<hh, n>>
        PROVE  e \in D2
    <3>1. n \in 1 .. Len(ob2[hh].deps)
      BY <1>1
    <3> QED BY <1>0, <1>1, <1>3, <2>3, <3>1
  <2> QED BY <2>1, <2>2, <2>3
<1>5. <<hh, n>> \notin D
  BY <1>1, <1>2
<1>6. IsFiniteSet(D)
  BY DEF D
<1>7. CASE d = h
  <2>1. D2 = D \cup {<<hh, n>>}
    BY <1>4, <1>7
  <2>2. IsFiniteSet(D2) /\ Cardinality(D2) = Cardinality(D) + 1 /\ Cardinality(D) \in Nat
    BY <1>5, <1>6, <2>1, FS_AddElement, FS_CardinalityType
  <2> QED BY <1>7, <2>2 DEF D, D2, More
<1>8. CASE d # h
  <2>1. D2 = D
    BY <1>4, <1>8
  <2>2. Cardinality(D) \in Nat
    BY <1>6, FS_CardinalityType
  <2> QED BY <1>6, <1>8, <2>1, <2>2 DEF D, D2, More
<1> QED BY <1>7, <1>8

LEMMA BindGood ==
  ASSUME IInv, RInv, NEW hh \in Handle, obj[hh].refc > 0, NEW ob2,
         \A g \in Handle : g # hh => ob2[g] = obj[g],
         ob2[hh].refc = obj[hh].refc, ob2[hh].released = obj[hh].released
  PROVE  AllGood(alive, ob2, stack)
<1>1. stack \in [Thread -> Seq(Shaped)] /\ AllGood(alive, obj, stack)
  BY DEF IInv, Stacks, RInv, RInvOf, AllGood
<1>2. ASSUME NEW u \in Thread, NEW k \in 1 .. Len(stack[u])
      PROVE  FrameOK(alive, ob2, stack[u][k])
  <2>1. PICK f \in Shaped : f = stack[u][k] /\ FrameOK(alive, obj, f)
    BY <1>1 DEF AllGood, Good
  <2>2. f.pc \in UnlockPC \cup UnloadPC => f.h \in Handle
    BY DEF Shaped
  <2>3. f.h \in Handle => /\ ob2[f.h].refc = obj[f.h].refc
                          /\ ob2[f.h].released = obj[f.h].released
    OBVIOUS
  <2> QED BY <2>1, <2>2, <2>3 DEF FrameOK, UnlockPC, UnloadPC
<1>3. ASSUME NEW u \in Thread, NEW k \in 2 .. Len(stack[u])
      PROVE  PairOK(ob2, stack[u][k - 1], stack[u][k])
  <2>1. PICK s \in Seq(Shaped) : s = stack[u] /\ Good(alive, obj, s)
    BY <1>1 DEF AllGood
  <2>2. k - 1 \in 1 .. Len(s) /\ k \in 1 .. Len(s) /\ k \in 2 .. Len(s)
    BY <2>1
  <2>3. PICK c \in Shaped, f \in Shaped : c = s[k - 1] /\ f = s[k]
    BY <2>2
  <2>4. Calls(c, f) /\ PairOK(obj, c, f) /\ FrameOK(alive, obj, c)
    BY <2>1, <2>2, <2>3 DEF Good
  <2> SUFFICES ASSUME c.pc = "unlocking", f.pc = "unloaded"
               PROVE  ob2[f.h].released = Len(ob2[f.h].deps)
    BY <2>1, <2>3 DEF PairOK
  <2>5. f.h = c.h /\ f.h \in Handle /\ obj[f.h].refc = 0
    BY <2>4 DEF Calls, FrameOK, Shaped, UnloadPC, UnlockPC
  <2>6. obj[hh].refc # 0
    OBVIOUS
  <2>7. f.h # hh
    BY <2>5, <2>6
  <2> QED BY <2>4, <2>5, <2>7 DEF PairOK
<1> QED BY <1>1, <1>2, <1>3, OtherGood

LEMMA BoundIs ==
  ASSUME Rest, NEW hh \in Handle, NEW d \in Handle \cup {Main}
  PROVE  LET ob2 == [obj EXCEPT ![hh].deps = Append(@, d)]
         IN ob2 \in [Handle -> Object] /\ Bound(obj, ob2, hh, d)
<1>1. PICK v \in Seq(Handle \cup {Main}) : v = Append(obj[hh].deps, d)
  <2>1. obj[hh].deps \in Seq(Handle \cup {Main})
    BY ObjectFields
  <2>2. Append(obj[hh].deps, d) \in Seq(Handle \cup {Main})
    BY <2>1, AppendProperties
  <2> QED BY <2>2
<1>2. obj \in [Handle -> Object] /\ obj[hh] \in Object
  BY DEF Rest
<1>3. PICK ob2 \in [Handle -> Object] : ob2 = [obj EXCEPT ![hh].deps = v]
  BY SetField
<1>4. /\ ob2[hh] = [obj[hh] EXCEPT !.deps = v]
      /\ \A g \in Handle : g # hh => ob2[g] = obj[g]
  BY <1>2, <1>3
<1>5. Bound(obj, ob2, hh, d)
  BY <1>1, <1>2, <1>4 DEF Bound, Object
<1> QED BY <1>1, <1>3, <1>5

(* A load binds a dependency: d is NULL's reference to the program, or the *)
(* one the running call hands over.                                        *)
HandsOver(st, d) ==
  \A h \in Handle :
    /\ IsFiniteSet(Entries(st, h, RefPC))
    /\ IsFiniteSet(Entries(st, h, {"unlocking"}))
    /\ Cardinality(Entries(st, h, {"unlocking"})) <= 1
    /\ Cardinality(Entries(st, h, RefPC)) + (IF d = h THEN 1 ELSE 0) =
         Cardinality(Entries(stack, h, RefPC))

LEMMA BindStep ==
  ASSUME IInv, RInv, UNCHANGED <<alive, members, held>>,
         NEW hh \in Handle, hh \in alive, obj[hh].refc > 0,
         NEW d \in Handle \cup {Main}, NEW ob2, obj' = ob2,
         ob2 = [obj EXCEPT ![hh].deps = Append(@, d)],
         NEW st \in [Thread -> Seq(Shaped)], stack' = st, AllGood(alive, ob2, st),
         HandsOver(st, d)
  PROVE  RInv'
<1>1. PICK al \in SUBSET Handle : al = alive /\ al = alive' /\ al = members'
  BY DEF IInv, Rest, RInv
<1>2. PICK hd : hd = held /\ hd = held'
  OBVIOUS
<1>3. Rest /\ obj \in [Handle -> Object]
  BY DEF IInv, Rest
<1>4. hh \in al
  BY <1>1
<1>5. PICK v \in [Handle -> Object] :
        v = [obj EXCEPT ![hh].deps = Append(@, d)] /\ Bound(obj, v, hh, d)
  BY <1>3, BoundIs
<1>6. /\ ob2 \in [Handle -> Object] /\ Bound(obj, ob2, hh, d)
      /\ ob2[hh].refc = obj[hh].refc /\ ob2[hh].released = obj[hh].released
      /\ \A g \in Handle : g # hh => ob2[g] = obj[g]
  BY <1>5 DEF Bound
<1>7. obj[hh].released <= Len(obj[hh].deps) /\ Len(ob2[hh].deps) = Len(obj[hh].deps) + 1
  <2>1. obj[hh].deps \in Seq(Handle \cup {Main})
    BY <1>3, ObjectFields
  <2>2. Len(ob2[hh].deps) = Len(obj[hh].deps) + 1
    BY <1>6, <2>1 DEF Bound
  <2> QED BY <2>2 DEF RInv, RInvOf
<1>8. \A h \in Handle :
        IsFiniteSet(DepEntries(al, obj, h)) => More(al, obj, ob2, h, d)
  <2>1. Within(obj, hh)
    BY <1>7 DEF Within
  <2> QED BY <1>3, <1>4, <1>6, <2>1, DepAppend
<1>9. \A h \in Handle :
        /\ Finite(al, ob2, st, h)
        /\ Exact(al, ob2, st, hd, h)
        /\ Cardinality(Entries(st, h, {"unlocking"})) <= 1
        /\ h \in al => ob2[h].released <= Len(ob2[h].deps)
  <2> SUFFICES ASSUME NEW h \in Handle
               PROVE  /\ Finite(al, ob2, st, h)
                      /\ Exact(al, ob2, st, hd, h)
                      /\ Cardinality(Entries(st, h, {"unlocking"})) <= 1
                      /\ h \in al => ob2[h].released <= Len(ob2[h].deps)
    OBVIOUS
  <2>0. /\ IsFiniteSet(Entries(st, h, RefPC))
        /\ IsFiniteSet(Entries(st, h, {"unlocking"}))
        /\ Cardinality(Entries(st, h, {"unlocking"})) <= 1
        /\ Cardinality(Entries(st, h, RefPC)) + (IF d = h THEN 1 ELSE 0) =
             Cardinality(Entries(stack, h, RefPC))
    BY DEF HandsOver
  <2>1. /\ Finite(al, obj, stack, h) /\ Exact(al, obj, stack, hd, h)
        /\ h \in al => obj[h].released <= Len(obj[h].deps)
    BY <1>1, <1>2 DEF RInv, RInvOf
  <2> DEFINE E == Cardinality(Entries(stack, h, RefPC))
             E2 == Cardinality(Entries(st, h, RefPC))
             D == Cardinality(DepEntries(al, obj, h))
             D2 == Cardinality(DepEntries(al, ob2, h))
             x == IF d = h THEN 1 ELSE 0
  <2>2. IsFiniteSet(DepEntries(al, ob2, h)) /\ D \in Nat /\ D2 = D + x
    <3>1. hh \in al /\ IsFiniteSet(DepEntries(al, obj, h))
      BY <1>1, <2>1 DEF Finite
    <3> QED BY <1>8, <3>1 DEF More
  <2>3. Finite(al, ob2, st, h)
    BY <2>0, <2>2 DEF Finite
  <2>4. E2 + x = E /\ E2 \in Nat
    BY <2>0, FS_CardinalityType
  <2>5. Count(al, ob2, h) = Count(al, obj, h)
    BY <1>6 DEF Count
  <2>6. Count(al, obj, h) = hd[h] + E + D
    BY <2>1 DEF Exact
  <2>7. PICK n \in Nat : n = hd[h]
    BY <1>2, <1>3 DEF Rest
  <2>8. x \in {0, 1}
    OBVIOUS
  <2> HIDE DEF E, E2, D, D2, x
  <2>9. n + E + D = n + E2 + D2
    BY <2>2, <2>4, <2>8
  <2>10. Count(al, ob2, h) = hd[h] + E2 + D2
    BY <2>5, <2>6, <2>7, <2>9
  <2>11. Exact(al, ob2, st, hd, h)
    BY <2>10 DEF Exact, E2, D2
  <2>12. h \in al => ob2[h].released <= Len(ob2[h].deps)
    <3>1. CASE h = hh
      <4>1. obj[hh].released \in Nat /\ Len(obj[hh].deps) \in Nat
        BY <1>3, ObjectFields
      <4> QED BY <1>6, <1>7, <3>1, <4>1
    <3>2. CASE h # hh
      BY <1>6, <2>1, <3>2
    <3> QED BY <3>1, <3>2
  <2> QED BY <2>0, <2>3, <2>11, <2>12
<1>10. \A t \in Thread : Good(al, ob2, st[t])
  BY <1>1 DEF AllGood
<1>11. RInvOf(al, ob2, st, hd)
  BY <1>9, <1>10 DEF RInvOf
<1>12. alive' = al /\ members' = al /\ held' = hd
  BY <1>1, <1>2
<1> QED BY <1>11, <1>12, NextRInv

LEMMA BindMainCounts ==
  ASSUME IInv, RInv, NEW t \in Thread, BindMain(t)
  PROVE  RInv'
<1> USE DEF table, mutex, program
<1>1. /\ Running(t) /\ Top(t).pc = "deps" /\ Rest /\ Stacks
      /\ UNCHANGED <<alive, members, held>>
  BY DEF BindMain, DepsRemain, At, IInv
<1>2. Top(t) \in Shaped /\ Top(t).h \in Handle /\ stack \in [Thread -> Seq(Shaped)]
  BY <1>1, TopShape DEF LoadPC, Stacks
<1>3. PICK hh \in Handle, i \in Nat \ {0} : hh = Top(t).h /\ i = Top(t).i + 1
  BY <1>1, <1>2, TopShape
<1>4. hh \in alive /\ obj[hh].refc > 0
  <2>1. PICK s \in Seq(Shaped) : s = stack[t] /\ s # <<>>
    BY <1>1, <1>2 DEF Running
  <2>2. Len(s) \in 1 .. Len(s)
    BY <2>1
  <2> QED BY <1>1, <1>2, <1>3, <2>1, <2>2, RefAlive DEF Top, RefPC, LoadPC
<1>5. PICK ob2 \in [Handle -> Object] :
        ob2 = [obj EXCEPT ![hh].deps = Append(@, Main)] /\ Bound(obj, ob2, hh, Main)
  BY <1>1, BoundIs
<1>6. obj' = ob2
  BY <1>3, <1>5 DEF BindMain
<1>7. AllGood(alive, ob2, stack)
  BY <1>4, <1>5, BindGood DEF Bound
<1>8. PICK f \in Shaped : f = [Top(t) EXCEPT !.i = i]
  BY <1>2, NextDep
<1>9. f.pc = "deps" /\ f.h = hh
  BY <1>1, <1>2, <1>3, <1>8 DEF Shaped, Frame
<1> DEFINE st == Pushed(Popped(stack, t), t, f)
<1>10. st \in [Thread -> Seq(Shaped)] /\ stack' = st
  <2>1. Become(t, f)
    BY <1>3, <1>8 DEF BindMain
  <2> QED BY <1>1, <1>2, <2>1, Moves, PushPopTypes DEF Running
<1>11. AllGood(alive, ob2, st)
  <2>1. FrameOK(alive, ob2, f) /\ \A c \in Shaped : PairOK(ob2, c, f)
    BY <1>9 DEF FrameOK, PairOK
  <2>2. MayBecome(Top(t), f)
    BY <1>1, <1>9 DEF MayBecome, LoadPC
  <2> QED BY <1>1, <1>2, <1>7, <2>1, <2>2, BecomeGood DEF Running, Top
<1>12. ASSUME NEW h \in Handle
       PROVE  /\ IsFiniteSet(Entries(st, h, RefPC))
              /\ IsFiniteSet(Entries(st, h, {"unlocking"}))
              /\ Cardinality(Entries(st, h, {"unlocking"})) <= 1
              /\ Cardinality(Entries(st, h, RefPC)) + (IF Main = h THEN 1 ELSE 0) =
                   Cardinality(Entries(stack, h, RefPC))
  <2>1. /\ Finite(alive, obj, stack, h)
        /\ Cardinality(Entries(stack, h, {"unlocking"})) <= 1
    BY DEF RInv, RInvOf
  <2>2. /\ One(f, h, RefPC) = One(Top(t), h, RefPC) /\ One(f, h, RefPC) \in {0, 1}
        /\ One(f, h, {"unlocking"}) = 0 /\ One(Top(t), h, {"unlocking"}) = 0
    BY <1>1, <1>3, <1>9 DEF One, On, RefPC, LoadPC
  <2>3. (IF Main = h THEN 1 ELSE 0) = 0
    BY LoaderAssumption
  <2> DEFINE N(s, p) == Cardinality(Entries(s, h, p))
  <2>4. /\ IsFiniteSet(Entries(st, h, RefPC))
        /\ N(stack, RefPC) \in Nat /\ N(st, RefPC) \in Nat
        /\ N(st, RefPC) + One(Top(t), h, RefPC) = N(stack, RefPC) + One(f, h, RefPC)
    BY <1>1, <1>2, <2>1, BecomeCounts DEF Finite, Running, Top
  <2>5. /\ IsFiniteSet(Entries(st, h, {"unlocking"}))
        /\ N(stack, {"unlocking"}) \in Nat /\ N(st, {"unlocking"}) \in Nat
        /\ N(st, {"unlocking"}) + One(Top(t), h, {"unlocking"}) =
             N(stack, {"unlocking"}) + One(f, h, {"unlocking"})
    BY <1>1, <1>2, <2>1, BecomeCounts DEF Finite, Running, Top
  <2>6. N(stack, {"unlocking"}) <= 1
    BY <2>1
  <2> HIDE DEF N, st
  <2>7. N(st, {"unlocking"}) <= 1
    BY <2>2, <2>5, <2>6
  <2>8. N(st, RefPC) = N(stack, RefPC)
    BY <2>2, <2>4
  <2>9. N(st, RefPC) + (IF Main = h THEN 1 ELSE 0) = N(stack, RefPC)
    BY <2>3, <2>4, <2>8
  <2> QED BY <2>4, <2>5, <2>7, <2>9 DEF N
<1> HIDE DEF st
<1>13. Main \in Handle \cup {Main}
  OBVIOUS
<1>14. UNCHANGED <<alive, members, held>>
  BY <1>1
<1>15. ob2 = [obj EXCEPT ![hh].deps = Append(@, Main)]
  BY <1>5
<1>16. HandsOver(st, Main)
  BY <1>12 DEF HandsOver
<1> QED BY <1>4, <1>6, <1>10, <1>11, <1>13, <1>14, <1>15, <1>16, BindStep

LEMMA BindDepCounts ==
  ASSUME IInv, RInv, NEW t \in Thread, BindDep(t)
  PROVE  RInv'
<1> USE DEF table, mutex, program
<1>1. /\ Len(stack[t]) > 1 /\ Running(t) /\ Top(t).pc = "done" /\ Caller(t).pc = "deps"
      /\ Top(t).h # Null /\ Rest /\ Stacks /\ UNCHANGED <<alive, members, held>>
  BY CallerFrame DEF BindDep, At, CalledFrom, IInv
<1>2. /\ Caller(t) \in Shaped /\ Caller(t).h \in Handle /\ Caller(t).i \in Nat
      /\ Top(t) \in Shaped /\ stack \in [Thread -> Seq(Shaped)]
  BY <1>1, CallerFrame, TopShape DEF LoadPC, Stacks, Shaped, Frame
<1>3. PICK hh \in Handle, i \in Nat \ {0}, d \in Handle \cup {Main} :
        hh = Caller(t).h /\ i = Caller(t).i + 1 /\ d = Top(t).h
  BY <1>1, <1>2, TopShape
<1>4. hh \in alive /\ obj[hh].refc > 0
  <2>1. PICK s \in Seq(Shaped) : s = stack[t] /\ Len(s) > 1
    BY <1>1, <1>2
  <2>2. Len(s) - 1 \in 1 .. Len(s)
    BY <2>1
  <2> QED BY <1>1, <1>2, <1>3, <2>1, <2>2, RefAlive DEF Caller, RefPC, LoadPC
<1>5. PICK ob2 \in [Handle -> Object] :
        ob2 = [obj EXCEPT ![hh].deps = Append(@, d)] /\ Bound(obj, ob2, hh, d)
  BY <1>1, BoundIs
<1>6. obj' = ob2
  BY <1>3, <1>5 DEF BindDep
<1>7. AllGood(alive, ob2, stack)
  BY <1>4, <1>5, BindGood DEF Bound
<1>8. PICK f \in Shaped : f = [Caller(t) EXCEPT !.i = i]
  BY <1>2, NextDep
<1>9. f.pc = "deps" /\ f.h = hh
  BY <1>1, <1>2, <1>3, <1>8 DEF Shaped, Frame
<1>10. PICK sk : sk = Popped(stack, t)
  OBVIOUS
<1>11. /\ sk \in [Thread -> Seq(Shaped)]
       /\ sk[t] # <<>> /\ sk[t][Len(sk[t])] = Caller(t)
  BY <1>1, <1>10, Returns
<1>12. AllGood(alive, ob2, sk)
  BY <1>1, <1>2, <1>7, <1>10, PopGood DEF Running
<1> DEFINE st == Pushed(Popped(sk, t), t, f)
<1>13. st \in [Thread -> Seq(Shaped)] /\ stack' = st
  <2>1. ReturnTo(t, f)
    BY <1>3, <1>8 DEF BindDep
  <2>2. stack' = st
    BY <1>1, <1>10, <2>1, Returns
  <2> QED BY <1>11, <2>2, PushPopTypes
<1>14. AllGood(alive, ob2, st)
  <2>1. FrameOK(alive, ob2, f) /\ \A c \in Shaped : PairOK(ob2, c, f)
    BY <1>9 DEF FrameOK, PairOK
  <2>2. MayBecome(Caller(t), f)
    BY <1>1, <1>9 DEF MayBecome, LoadPC
  <2> QED BY <1>11, <1>12, <2>1, <2>2, BecomeGood
<1>15. ASSUME NEW h \in Handle
       PROVE  /\ IsFiniteSet(Entries(st, h, RefPC))
              /\ IsFiniteSet(Entries(st, h, {"unlocking"}))
              /\ Cardinality(Entries(st, h, {"unlocking"})) <= 1
              /\ Cardinality(Entries(st, h, RefPC)) + (IF d = h THEN 1 ELSE 0) =
                   Cardinality(Entries(stack, h, RefPC))
  <2>1. /\ Finite(alive, obj, stack, h)
        /\ Cardinality(Entries(stack, h, {"unlocking"})) <= 1
    BY DEF RInv, RInvOf
  <2>2. /\ One(f, h, RefPC) = One(Caller(t), h, RefPC) /\ One(f, h, RefPC) \in {0, 1}
        /\ One(f, h, {"unlocking"}) = 0 /\ One(Caller(t), h, {"unlocking"}) = 0
    BY <1>1, <1>3, <1>9 DEF One, On, RefPC, LoadPC
  <2>3. /\ One(Top(t), h, RefPC) = IF d = h THEN 1 ELSE 0
        /\ One(Top(t), h, {"unlocking"}) = 0
    BY <1>1, <1>3 DEF One, On, RefPC
  <2> DEFINE N(s, p) == Cardinality(Entries(s, h, p))
             x == IF d = h THEN 1 ELSE 0
  <2>4. /\ IsFiniteSet(Entries(sk, h, RefPC)) /\ N(sk, RefPC) \in Nat
        /\ N(stack, RefPC) = N(sk, RefPC) + One(Top(t), h, RefPC)
    BY <1>1, <1>2, <1>10, <2>1, PopEntries DEF Finite, Running, Top
  <2>5. /\ IsFiniteSet(Entries(sk, h, {"unlocking"})) /\ N(sk, {"unlocking"}) \in Nat
        /\ N(stack, {"unlocking"}) = N(sk, {"unlocking"}) + One(Top(t), h, {"unlocking"})
    BY <1>1, <1>2, <1>10, <2>1, PopEntries DEF Finite, Running, Top
  <2>6. IsFiniteSet(Entries(sk, h, RefPC)) /\ IsFiniteSet(Entries(sk, h, {"unlocking"}))
    BY <2>4, <2>5
  <2>7. /\ IsFiniteSet(Entries(st, h, RefPC)) /\ N(st, RefPC) \in Nat
        /\ N(st, RefPC) + One(Caller(t), h, RefPC) = N(sk, RefPC) + One(f, h, RefPC)
    BY <1>11, <2>6, BecomeCounts
  <2>8. /\ IsFiniteSet(Entries(st, h, {"unlocking"})) /\ N(st, {"unlocking"}) \in Nat
        /\ N(st, {"unlocking"}) + One(Caller(t), h, {"unlocking"}) =
             N(sk, {"unlocking"}) + One(f, h, {"unlocking"})
    BY <1>11, <2>6, BecomeCounts
  <2>9. N(stack, {"unlocking"}) <= 1 /\ x \in {0, 1} /\ One(Top(t), h, RefPC) = x
    BY <2>1, <2>3
  <2> HIDE DEF N, st, x
  <2>10. N(st, {"unlocking"}) <= 1
    BY <2>2, <2>3, <2>5, <2>8, <2>9
  <2>11. N(st, RefPC) + x = N(stack, RefPC)
    BY <2>2, <2>4, <2>7, <2>9
  <2> QED BY <2>7, <2>8, <2>10, <2>11 DEF N, x
<1> HIDE DEF st
<1>16. UNCHANGED <<alive, members, held>>
  BY <1>1
<1>17. HandsOver(st, d)
  BY <1>15 DEF HandsOver
<1> QED BY <1>4, <1>5, <1>6, <1>13, <1>14, <1>16, <1>17, BindStep

(* hh gives back the next of its dependencies.                             *)
Given(ob, ob2, hh) ==
  /\ ob2[hh].deps = ob[hh].deps /\ ob2[hh].refc = ob[hh].refc
  /\ ob2[hh].released = ob[hh].released + 1
  /\ \A g \in Handle : g # hh => ob2[g] = ob[g]

(* The dependency d that is due is at i.                                   *)
Due(ob, hh, i, d) ==
  ob[hh].released + 1 = i /\ i \in 1 .. Len(ob[hh].deps) /\ d = ob[hh].deps[i]

LEMMA DepRelease ==
  ASSUME NEW al \in SUBSET Handle, NEW ob \in [Handle -> Object],
         NEW ob2 \in [Handle -> Object], NEW hh \in al, NEW i \in Nat,
         Given(ob, ob2, hh), NEW d, Due(ob, hh, i, d),
         NEW h, IsFiniteSet(DepEntries(al, ob, h))
  PROVE  /\ IsFiniteSet(DepEntries(al, ob2, h))
         /\ More(al, ob2, ob, h, d)
<1>0. /\ ob2[hh].deps = ob[hh].deps /\ ob2[hh].released = i
      /\ i \in 1 .. Len(ob[hh].deps) /\ d = ob[hh].deps[i]
      /\ \A g \in Handle : g # hh => ob2[g] = ob[g]
  BY DEF Given, Due
<1>m. Memory(al, ob) /\ Memory(al, ob2)
  BY DEF Memory
<1> DEFINE D == DepEntries(al, ob, h)
           D2 == DepEntries(al, ob2, h)
<1>1. PICK r \in Nat : r = ob[hh].released /\ r + 1 = i
  BY DEF Object, Due
<1>2. \A e : e \in D <=> \E g \in al : \E k \in 1 .. Len(ob[g].deps) :
               e = <<g, k>> /\ k > ob[g].released /\ ob[g].deps[k] = h
  BY <1>m, DepIs
<1>3. \A e : e \in D2 <=> \E g \in al : \E k \in 1 .. Len(ob2[g].deps) :
               e = <<g, k>> /\ k > ob2[g].released /\ ob2[g].deps[k] = h
  BY <1>m, DepIs
<1>a. IsFiniteSet(D)
  OBVIOUS
<1> HIDE DEF D, D2
<1>4. \A e : e \in D <=> e \in D2 \/ (d = h /\ e = <<hh, i>>)
  <2> TAKE e
  <2>1. ASSUME e \in D
        PROVE  e \in D2 \/ (d = h /\ e = <<hh, i>>)
    <3>0. PICK g \in al : \E k \in 1 .. Len(ob[g].deps) :
               e = <<g, k>> /\ k > ob[g].released /\ ob[g].deps[k] = h
      BY <1>2, <2>1
    <3>1. PICK k \in 1 .. Len(ob[g].deps) :
               e = <<g, k>> /\ k > ob[g].released /\ ob[g].deps[k] = h
      BY <3>0
    <3>2. CASE g = hh /\ k = i
      BY <1>0, <3>1, <3>2
    <3>3. CASE g = hh /\ k # i
      <4>1. k \in Nat /\ k > r
        BY <1>1, <3>1, <3>3
      <4>2. k > i
        BY <1>1, <3>3, <4>1
      <4>3. k \in 1 .. Len(ob2[g].deps) /\ k > ob2[g].released /\ ob2[g].deps[k] = h
        BY <1>0, <3>1, <3>3, <4>2
      <4> QED BY <1>3, <3>1, <4>3
    <3>4. CASE g # hh
      <4>1. ob2[g] = ob[g]
        BY <1>0, <3>4
      <4> QED BY <1>3, <3>1, <4>1
    <3> QED BY <3>2, <3>3, <3>4
  <2>2. ASSUME e \in D2
        PROVE  e \in D
    <3>0. PICK g \in al : \E k \in 1 .. Len(ob2[g].deps) :
               e = <<g, k>> /\ k > ob2[g].released /\ ob2[g].deps[k] = h
      BY <1>3, <2>2
    <3>1. PICK k \in 1 .. Len(ob2[g].deps) :
               e = <<g, k>> /\ k > ob2[g].released /\ ob2[g].deps[k] = h
      BY <3>0
    <3>2. CASE g = hh
      <4>1. k \in Nat /\ k > i
        BY <1>0, <3>1, <3>2
      <4>2. k > r
        BY <1>1, <4>1
      <4>3. k \in 1 .. Len(ob[g].deps) /\ k > ob[g].released /\ ob[g].deps[k] = h
        BY <1>0, <1>1, <3>1, <3>2, <4>2
      <4> QED BY <1>2, <3>1, <4>3
    <3>3. CASE g # hh
      <4>1. ob2[g] = ob[g]
        BY <1>0, <3>3
      <4> QED BY <1>2, <3>1, <4>1
    <3> QED BY <3>2, <3>3
  <2>3. ASSUME d = h, e = <<hh, i>>
        PROVE  e \in D
    <3>1. i > r
      BY <1>1
    <3> QED BY <1>0, <1>1, <1>2, <2>3, <3>1
  <2> QED BY <2>1, <2>2, <2>3
<1>5. <<hh, i>> \notin D2
  <2>1. ~(i > i)
    OBVIOUS
  <2> QED BY <1>0, <1>3, <2>1
<1>6. IsFiniteSet(D2)
  <2>1. D2 \subseteq D
    BY <1>4
  <2> QED BY <1>a, <2>1, FS_Subset
<1>7. CASE d = h
  <2>1. D = D2 \cup {<<hh, i>>}
    BY <1>4, <1>7
  <2>2. Cardinality(D) = Cardinality(D2) + 1 /\ Cardinality(D2) \in Nat
    BY <1>5, <1>6, <2>1, FS_AddElement, FS_CardinalityType
  <2> QED BY <1>6, <1>7, <1>a, <2>2 DEF D, D2, More
<1>8. CASE d # h
  <2>1. D2 = D
    BY <1>4, <1>8
  <2>2. Cardinality(D) \in Nat
    BY <1>a, FS_CardinalityType
  <2> QED BY <1>6, <1>8, <1>a, <2>1, <2>2 DEF D, D2, More
<1> QED BY <1>7, <1>8

LEMMA GivenGood ==
  ASSUME IInv, RInv, NEW hh \in Handle, NEW ob2, Given(obj, ob2, hh),
         obj[hh].released < Len(obj[hh].deps)
  PROVE  AllGood(alive, ob2, stack)
<1>1. stack \in [Thread -> Seq(Shaped)] /\ AllGood(alive, obj, stack)
  BY DEF IInv, Stacks, RInv, RInvOf, AllGood
<1>2. ASSUME NEW u \in Thread, NEW k \in 1 .. Len(stack[u])
      PROVE  FrameOK(alive, ob2, stack[u][k])
  <2>1. PICK f \in Shaped : f = stack[u][k] /\ FrameOK(alive, obj, f)
    BY <1>1 DEF AllGood, Good
  <2>2. (f.pc \in UnlockPC \cup UnloadPC => f.h \in Handle) /\ f.i \in Nat
    BY DEF Shaped, Frame
  <2>3. f.h \in Handle => ob2[f.h].refc = obj[f.h].refc
    BY DEF Given
  <2>4. f.pc \in {"fini", "pages", "release"} => ob2[f.h].released >= f.i - 1
    <3> SUFFICES ASSUME f.pc \in {"fini", "pages", "release"}
                 PROVE  ob2[f.h].released >= f.i - 1
      OBVIOUS
    <3>1. f.h \in Handle /\ obj[f.h].released >= f.i - 1
      BY <2>1, <2>2 DEF FrameOK, UnloadPC
    <3>2. PICK r \in Nat : r = obj[f.h].released
      BY <3>1, ObjectFields DEF IInv
    <3>3. CASE f.h = hh
      <4>1. r + 1 >= f.i - 1
        BY <2>2, <3>1, <3>2
      <4> QED BY <3>2, <3>3, <4>1 DEF Given
    <3>4. CASE f.h # hh
      BY <3>1, <3>4 DEF Given
    <3> QED BY <3>3, <3>4
  <2> QED BY <2>1, <2>2, <2>3, <2>4 DEF FrameOK, UnlockPC
<1>3. ASSUME NEW u \in Thread, NEW k \in 2 .. Len(stack[u])
      PROVE  PairOK(ob2, stack[u][k - 1], stack[u][k])
  <2>1. PICK s \in Seq(Shaped) : s = stack[u] /\ Good(alive, obj, s)
    BY <1>1 DEF AllGood
  <2>2. k - 1 \in 1 .. Len(s) /\ k \in 1 .. Len(s) /\ k \in 2 .. Len(s)
    BY <2>1
  <2>3. PICK c \in Shaped, f \in Shaped : c = s[k - 1] /\ f = s[k]
    BY <2>2
  <2>4. PairOK(obj, c, f)
    BY <2>1, <2>2, <2>3 DEF Good
  <2> SUFFICES ASSUME c.pc = "unlocking", f.pc = "unloaded"
               PROVE  ob2[f.h].released = Len(ob2[f.h].deps)
    BY <2>1, <2>3 DEF PairOK
  <2>5. f.h \in Handle /\ obj[f.h].released = Len(obj[f.h].deps)
    BY <2>4 DEF PairOK, Shaped, UnloadPC
  <2>6. f.h # hh
    <3>1. obj[hh].released \in Nat
      BY ObjectFields DEF IInv
    <3>2. obj[hh].released # Len(obj[hh].deps)
      BY <3>1
    <3> QED BY <2>5, <3>2
  <2> QED BY <2>5, <2>6 DEF Given
<1> QED BY <1>1, <1>2, <1>3, OtherGood

(* The reference a dependency held becomes that of a call, which will give *)
(* it back.                                                                *)
LEMMA GivenStep ==
  ASSUME IInv, RInv, UNCHANGED <<alive, members, held>>,
         NEW hh \in Handle, hh \in alive, NEW d, NEW i \in Nat,
         NEW ob2 \in [Handle -> Object], obj' = ob2, Given(obj, ob2, hh),
         Due(obj, hh, i, d),
         NEW st \in [Thread -> Seq(Shaped)], stack' = st, AllGood(alive, ob2, st),
         \A h \in Handle :
           /\ IsFiniteSet(Entries(st, h, RefPC))
           /\ IsFiniteSet(Entries(st, h, {"unlocking"}))
           /\ Cardinality(Entries(st, h, {"unlocking"})) <= 1
           /\ Cardinality(Entries(st, h, RefPC)) =
                Cardinality(Entries(stack, h, RefPC)) + (IF d = h THEN 1 ELSE 0)
  PROVE  RInv'
<1>1. PICK al \in SUBSET Handle : al = alive /\ al = alive' /\ al = members'
  BY DEF IInv, Rest, RInv
<1>2. PICK hd : hd = held /\ hd = held'
  OBVIOUS
<1>3. Rest /\ obj \in [Handle -> Object]
  BY DEF IInv, Rest
<1>4. hh \in al
  BY <1>1
<1>5. \A h \in Handle :
        IsFiniteSet(DepEntries(al, obj, h)) =>
          /\ IsFiniteSet(DepEntries(al, ob2, h))
          /\ More(al, ob2, obj, h, d)
  BY <1>3, <1>4, DepRelease
<1>6. \A h \in Handle :
        /\ Finite(al, ob2, st, h)
        /\ Exact(al, ob2, st, hd, h)
        /\ Cardinality(Entries(st, h, {"unlocking"})) <= 1
        /\ h \in al => ob2[h].released <= Len(ob2[h].deps)
  <2> SUFFICES ASSUME NEW h \in Handle
               PROVE  /\ Finite(al, ob2, st, h)
                      /\ Exact(al, ob2, st, hd, h)
                      /\ Cardinality(Entries(st, h, {"unlocking"})) <= 1
                      /\ h \in al => ob2[h].released <= Len(ob2[h].deps)
    OBVIOUS
  <2>1. /\ Finite(al, obj, stack, h) /\ Exact(al, obj, stack, hd, h)
        /\ h \in al => obj[h].released <= Len(obj[h].deps)
    BY <1>1, <1>2 DEF RInv, RInvOf
  <2> DEFINE E == Cardinality(Entries(stack, h, RefPC))
             E2 == Cardinality(Entries(st, h, RefPC))
             D == Cardinality(DepEntries(al, obj, h))
             D2 == Cardinality(DepEntries(al, ob2, h))
             x == IF d = h THEN 1 ELSE 0
  <2>2. IsFiniteSet(DepEntries(al, ob2, h)) /\ D2 \in Nat /\ D = D2 + x
    <3>1. IsFiniteSet(DepEntries(al, obj, h))
      BY <2>1 DEF Finite
    <3> QED BY <1>5, <3>1 DEF More
  <2>3. Finite(al, ob2, st, h)
    BY <2>2 DEF Finite
  <2>4. E2 = E + x /\ E \in Nat
    BY <2>1, FS_CardinalityType DEF Finite
  <2>5. Count(al, ob2, h) = Count(al, obj, h)
    BY DEF Count, Given
  <2>6. Count(al, obj, h) = hd[h] + E + D
    BY <2>1 DEF Exact
  <2>7. PICK n \in Nat : n = hd[h]
    BY <1>2, <1>3 DEF Rest
  <2>8. x \in {0, 1}
    OBVIOUS
  <2> HIDE DEF E, E2, D, D2, x
  <2>9. n + E + D = n + E2 + D2
    BY <2>2, <2>4, <2>8
  <2>10. Count(al, ob2, h) = hd[h] + E2 + D2
    BY <2>5, <2>6, <2>7, <2>9
  <2>11. Exact(al, ob2, st, hd, h)
    BY <2>10 DEF Exact, E2, D2
  <2>12. h \in al => ob2[h].released <= Len(ob2[h].deps)
    <3>1. CASE h = hh
      <4>1. i \in 1 .. Len(obj[hh].deps) /\ ob2[hh].released = i
            /\ ob2[hh].deps = obj[hh].deps
        BY DEF Given, Due
      <4> QED BY <3>1, <4>1
    <3>2. CASE h # hh
      BY <2>1, <3>2 DEF Given
    <3> QED BY <3>1, <3>2
  <2> QED BY <2>3, <2>11, <2>12
<1>7. \A t \in Thread : Good(al, ob2, st[t])
  BY <1>1 DEF AllGood
<1>8. RInvOf(al, ob2, st, hd)
  BY <1>6, <1>7 DEF RInvOf
<1>9. alive' = al /\ members' = al /\ held' = hd
  BY <1>1, <1>2
<1> QED BY <1>8, <1>9, NextRInv

LEMMA ReleaseCounts ==
  ASSUME IInv, RInv, NEW t \in Thread, ReleaseDep(t), ~Dangling(t),
         Top(t).i > This(t).released
  PROVE  RInv'
<1> USE DEF table, mutex, program
<1>1. /\ Running(t) /\ Top(t).pc = "release" /\ Rest /\ Stacks
      /\ UNCHANGED <<alive, members, held>>
  BY DEF ReleaseDep, At, IInv
<1>2. /\ Top(t) \in Shaped /\ Top(t).h \in Handle /\ Top(t).i \in Nat /\ Top(t).i > 0
      /\ stack \in [Thread -> Seq(Shaped)]
  BY <1>1, TopShape DEF UnloadPC, Stacks
<1>3. PICK hh \in Handle, i \in Nat : hh = Top(t).h /\ i = Top(t).i /\ i > 0
  BY <1>2
<1>4. hh \in alive
  BY <1>1, <1>3 DEF Dangling
<1>5. PICK r \in Nat : r = obj[hh].released
  BY <1>1, ObjectFields
<1>6. r + 1 = i
  <2>1. r >= i - 1
    BY <1>1, <1>3, <1>5, TopGood DEF FrameOK
  <2>2. i > r
    BY <1>3, <1>5 DEF This
  <2> QED BY <2>1, <2>2
<1>7. PICK s \in Seq(Handle \cup {Main}) : s = obj[hh].deps
  BY <1>1, ObjectFields
<1>8. i \in 1 .. Len(s)
  <2>1. i <= Len(s)
    BY <1>3, <1>7 DEF ReleaseDep, This
  <2> QED BY <1>3, <1>7, <2>1
<1>9. PICK d \in Handle \cup {Main} : d = s[i]
  BY <1>7, <1>8
<1>10. PICK ob2 \in [Handle -> Object] : ob2 = [obj EXCEPT ![hh].released = i]
  BY <1>1, SetField
<1>11. obj' = ob2 /\ Given(obj, ob2, hh)
  <2>1. r < i
    BY <1>6
  <2>2. obj' = [obj EXCEPT ![hh].released = IF @ < i THEN i ELSE @]
    BY <1>3 DEF ReleaseDep
  <2>3. obj' = ob2
    BY <1>5, <1>10, <2>1, <2>2
  <2>4. obj \in [Handle -> Object] /\ obj[hh] \in Object
    BY <1>1 DEF Rest
  <2> QED BY <1>5, <1>6, <1>10, <2>3, <2>4 DEF Object, Given
<1>12. AllGood(alive, ob2, stack)
  <2>1. obj[hh].released < Len(obj[hh].deps)
    BY <1>5, <1>6, <1>7, <1>8
  <2> QED BY <1>11, <2>1, GivenGood
<1>13. PICK f \in Shaped : f = [Top(t) EXCEPT !.i = i + 1]
  <2>1. i + 1 \in Nat \ {0}
    OBVIOUS
  <2> QED BY <1>2, <2>1, NextDep
<1>14. f.pc = "release" /\ f.h = hh /\ f.i = i + 1
  BY <1>1, <1>2, <1>3, <1>13 DEF Shaped, Frame
<1> DEFINE st1 == Pushed(Popped(stack, t), t, f)
<1>15. st1 \in [Thread -> Seq(Shaped)] /\ st1[t] # <<>> /\ st1[t][Len(st1[t])] = f
  <2>1. Popped(stack, t) \in [Thread -> Seq(Shaped)]
    BY <1>1, <1>2, PushPopTypes DEF Running
  <2>2. PICK u \in Seq(Shaped) : u = Popped(stack, t)[t]
    BY <2>1
  <2>3. st1 \in [Thread -> Seq(Shaped)] /\ st1[t] = Append(u, f)
    BY <2>1, <2>2, PushPopTypes
  <2>4. PICK w : w = Append(u, f)
    OBVIOUS
  <2>5. Len(w) = Len(u) + 1 /\ w[Len(u) + 1] = f /\ Len(u) \in Nat
    BY <2>4
  <2>6. w # <<>>
    BY <2>5
  <2> HIDE DEF st1
  <2>7. st1[t] = w
    BY <2>3, <2>4
  <2> QED BY <2>3, <2>5, <2>6, <2>7
<1>16. AllGood(alive, ob2, st1)
  <2>1. FrameOK(alive, ob2, f) /\ \A c \in Shaped : PairOK(ob2, c, f)
    <3>1. ob2[hh].released = i
      BY <1>5, <1>6, <1>11 DEF Given
    <3>2. i >= (i + 1) - 1
      OBVIOUS
    <3> QED BY <1>14, <3>1, <3>2 DEF FrameOK, PairOK
  <2>2. MayBecome(Top(t), f)
    BY <1>1, <1>3, <1>14 DEF MayBecome, UnloadPC
  <2> QED BY <1>1, <1>2, <1>12, <2>1, <2>2, BecomeGood DEF Running, Top
<1>17. ASSUME NEW h \in Handle
       PROVE  /\ IsFiniteSet(Entries(st1, h, RefPC))
              /\ IsFiniteSet(Entries(st1, h, {"unlocking"}))
              /\ Cardinality(Entries(stack, h, RefPC)) \in Nat
              /\ Cardinality(Entries(st1, h, {"unlocking"})) <= 1
              /\ Cardinality(Entries(st1, h, RefPC)) =
                   Cardinality(Entries(stack, h, RefPC))
  <2>1. /\ Finite(alive, obj, stack, h)
        /\ Cardinality(Entries(stack, h, {"unlocking"})) <= 1
    BY DEF RInv, RInvOf
  <2>2. /\ One(f, h, RefPC) = 0 /\ One(Top(t), h, RefPC) = 0
        /\ One(f, h, {"unlocking"}) = 0 /\ One(Top(t), h, {"unlocking"}) = 0
    BY <1>1, <1>14 DEF One, On, RefPC, LoadPC
  <2> DEFINE N(z, p) == Cardinality(Entries(z, h, p))
  <2>3. /\ IsFiniteSet(Entries(st1, h, RefPC))
        /\ N(stack, RefPC) \in Nat /\ N(st1, RefPC) \in Nat
        /\ N(st1, RefPC) + One(Top(t), h, RefPC) = N(stack, RefPC) + One(f, h, RefPC)
    BY <1>1, <1>2, <2>1, BecomeCounts DEF Finite, Running, Top
  <2>4. /\ IsFiniteSet(Entries(st1, h, {"unlocking"}))
        /\ N(stack, {"unlocking"}) \in Nat /\ N(st1, {"unlocking"}) \in Nat
        /\ N(st1, {"unlocking"}) + One(Top(t), h, {"unlocking"}) =
             N(stack, {"unlocking"}) + One(f, h, {"unlocking"})
    BY <1>1, <1>2, <2>1, BecomeCounts DEF Finite, Running, Top
  <2>5. N(stack, {"unlocking"}) <= 1
    BY <2>1
  <2> HIDE DEF N, st1
  <2>6. N(st1, {"unlocking"}) <= 1
    BY <2>2, <2>4, <2>5
  <2>7. N(st1, RefPC) = N(stack, RefPC)
    BY <2>2, <2>3
  <2> QED BY <2>3, <2>4, <2>6, <2>7 DEF N
<1>18. Due(obj, hh, i, d) /\ d = obj[hh].deps[i]
  BY <1>5, <1>6, <1>7, <1>8, <1>9 DEF Due
<1>19. CASE d = Main
  <2>1. stack' = st1
    <3>1. Become(t, f)
      BY <1>3, <1>13, <1>18, <1>19 DEF ReleaseDep, This
    <3> QED BY <1>1, <3>1, Moves
  <2>2. \A h \in Handle : (IF d = h THEN 1 ELSE 0) = 0
    BY <1>19, LoaderAssumption
  <2> HIDE DEF st1
  <2>3. \A h \in Handle : Cardinality(Entries(st1, h, RefPC)) =
          Cardinality(Entries(stack, h, RefPC)) + (IF d = h THEN 1 ELSE 0)
    <3> SUFFICES ASSUME NEW h \in Handle
                 PROVE  Cardinality(Entries(st1, h, RefPC)) =
                          Cardinality(Entries(stack, h, RefPC)) + (IF d = h THEN 1 ELSE 0)
      OBVIOUS
    <3>1. PICK n \in Nat : n = Cardinality(Entries(stack, h, RefPC))
                           /\ n = Cardinality(Entries(st1, h, RefPC))
      BY <1>17
    <3>2. n = n + 0
      OBVIOUS
    <3> QED BY <2>2, <3>1, <3>2
  <2> QED BY <1>1, <1>4, <1>11, <1>15, <1>16, <1>17, <1>18, <2>1, <2>3, GivenStep
<1>20. CASE d # Main
  <2>1. PICK g \in Shaped : g = UnlockFrame(d) /\ g.pc = "unlock" /\ g.h = d
    BY <1>9, <1>20, NewFrames DEF UnlockFrame
  <2> DEFINE st == Pushed(st1, t, g)
  <2>2. stack' = st
    <3>1. BecomeAndCall(t, f, g)
      BY <1>3, <1>13, <1>18, <1>20, <2>1 DEF ReleaseDep, This
    <3> QED BY <1>1, <3>1, Moves
  <2> HIDE DEF st1
  <2>3. st \in [Thread -> Seq(Shaped)]
    BY <1>15, PushPopTypes
  <2>4. AllGood(alive, ob2, st)
    <3>1. FrameOK(alive, ob2, g) /\ PairOK(ob2, f, g) /\ Calls(f, g)
      BY <1>14, <2>1 DEF FrameOK, PairOK, Calls, UnlockPC
    <3>2. g.pc \notin UnloadPC
      BY <2>1 DEF UnloadPC
    <3> QED BY <1>15, <1>16, <3>1, <3>2, PushGood
  <2>5. ASSUME NEW h \in Handle
        PROVE  /\ IsFiniteSet(Entries(st, h, RefPC))
               /\ IsFiniteSet(Entries(st, h, {"unlocking"}))
               /\ Cardinality(Entries(st, h, {"unlocking"})) <= 1
               /\ Cardinality(Entries(st, h, RefPC)) =
                    Cardinality(Entries(stack, h, RefPC)) + (IF d = h THEN 1 ELSE 0)
    <3>1. One(g, h, RefPC) = (IF d = h THEN 1 ELSE 0) /\ One(g, h, {"unlocking"}) = 0
      BY <2>1 DEF One, On, RefPC
    <3>2. /\ IsFiniteSet(Entries(st1, h, RefPC))
          /\ IsFiniteSet(Entries(st1, h, {"unlocking"}))
      BY <1>17
    <3> DEFINE N(z, p) == Cardinality(Entries(z, h, p))
    <3>3. /\ IsFiniteSet(Entries(st, h, RefPC))
          /\ N(st, RefPC) = N(st1, RefPC) + One(g, h, RefPC)
      BY <1>15, <3>2, PushEntries
    <3>4. /\ IsFiniteSet(Entries(st, h, {"unlocking"})) /\ N(st1, {"unlocking"}) \in Nat
          /\ N(st, {"unlocking"}) = N(st1, {"unlocking"}) + One(g, h, {"unlocking"})
      BY <1>15, <3>2, PushEntries
    <3>5. N(st1, {"unlocking"}) <= 1 /\ N(st1, RefPC) = N(stack, RefPC)
      BY <1>17
    <3> HIDE DEF N, st
    <3>6. N(st, {"unlocking"}) <= 1
      BY <3>1, <3>4, <3>5
    <3>7. N(st, RefPC) = N(stack, RefPC) + (IF d = h THEN 1 ELSE 0)
      BY <3>1, <3>3, <3>5
    <3> QED BY <3>3, <3>4, <3>6, <3>7 DEF N
  <2> HIDE DEF st
  <2> QED BY <1>1, <1>4, <1>11, <1>18, <2>2, <2>3, <2>4, <2>5, GivenStep
<1> QED BY <1>19, <1>20

-----------------------------------------------------------------------------
(* A step that allocates or frees hh, which no object depends on then.     *)
GivenAll(ob, h) == ob[h].released >= Len(ob[h].deps)

(* The rest of the memory stays as it is.                                  *)
Elsewhere(al, ob, al2, ob2, hh) ==
  \A g \in Handle : g # hh => (g \in al <=> g \in al2) /\ ob2[g] = ob[g]

LEMMA DepElsewhere ==
  ASSUME NEW al \in SUBSET Handle, NEW al2 \in SUBSET Handle,
         NEW ob \in [Handle -> Object], NEW ob2 \in [Handle -> Object],
         NEW hh, Elsewhere(al, ob, al2, ob2, hh),
         hh \in al => GivenAll(ob, hh), hh \in al2 => GivenAll(ob2, hh), NEW h
  PROVE  DepEntries(al2, ob2, h) = DepEntries(al, ob, h)
<1>m. Memory(al, ob) /\ Memory(al2, ob2)
  BY DEF Memory
<1> DEFINE D == DepEntries(al, ob, h)
           D2 == DepEntries(al2, ob2, h)
<1>1. \A e : e \in D <=> \E g \in al : \E k \in 1 .. Len(ob[g].deps) :
               e = <<g, k>> /\ k > ob[g].released /\ ob[g].deps[k] = h
  BY <1>m, DepIs
<1>2. \A e : e \in D2 <=> \E g \in al2 : \E k \in 1 .. Len(ob2[g].deps) :
               e = <<g, k>> /\ k > ob2[g].released /\ ob2[g].deps[k] = h
  BY <1>m, DepIs
<1> HIDE DEF D, D2
<1>3. \A g \in al : g = hh => \A k \in 1 .. Len(ob[g].deps) : ~(k > ob[g].released)
  <2> SUFFICES ASSUME hh \in al, NEW k \in 1 .. Len(ob[hh].deps)
               PROVE  ~(k > ob[hh].released)
    OBVIOUS
  <2>1. ob[hh].released \in Nat /\ Len(ob[hh].deps) \in Nat
    BY DEF Object
  <2>2. ob[hh].released >= Len(ob[hh].deps)
    BY DEF GivenAll
  <2> QED BY <2>1, <2>2
<1>4. \A g \in al2 : g = hh => \A k \in 1 .. Len(ob2[g].deps) : ~(k > ob2[g].released)
  <2> SUFFICES ASSUME hh \in al2, NEW k \in 1 .. Len(ob2[hh].deps)
               PROVE  ~(k > ob2[hh].released)
    OBVIOUS
  <2>1. ob2[hh].released \in Nat /\ Len(ob2[hh].deps) \in Nat
    BY DEF Object
  <2>2. ob2[hh].released >= Len(ob2[hh].deps)
    BY DEF GivenAll
  <2> QED BY <2>1, <2>2
<1>5. ASSUME NEW e, e \in D
      PROVE  e \in D2
  <2>1. PICK g \in al : \E k \in 1 .. Len(ob[g].deps) :
               e = <<g, k>> /\ k > ob[g].released /\ ob[g].deps[k] = h
    BY <1>1, <1>5
  <2>2. g # hh
    BY <1>3, <2>1
  <2>3. g \in al2 /\ ob2[g] = ob[g]
    BY <2>2 DEF Elsewhere
  <2> QED BY <1>2, <2>1, <2>3
<1>6. ASSUME NEW e, e \in D2
      PROVE  e \in D
  <2>1. PICK g \in al2 : \E k \in 1 .. Len(ob2[g].deps) :
               e = <<g, k>> /\ k > ob2[g].released /\ ob2[g].deps[k] = h
    BY <1>2, <1>6
  <2>2. g # hh
    BY <1>4, <2>1
  <2>3. g \in al /\ ob2[g] = ob[g]
    BY <2>2 DEF Elsewhere
  <2> QED BY <1>1, <2>1, <2>3
<1> QED BY <1>5, <1>6 DEF D, D2

LEMMA GoodElsewhere ==
  ASSUME NEW al, NEW al2, NEW ob, NEW ob2, NEW hh,
         Elsewhere(al, ob, al2, ob2, hh),
         NEW st \in [Thread -> Seq(Shaped)], AllGood(al, ob, st),
         Entries(st, hh, RefPC) = {}, Entries(st, hh, {"unlocking"}) = {}
  PROVE  AllGood(al2, ob2, st)
<1>1. ASSUME NEW u \in Thread, NEW k \in 1 .. Len(st[u]),
             st[u][k].pc \in UnloadPC \cup {"unlocking"}
      PROVE  st[u][k].h # hh
  <2>1. \A j \in 1 .. Len(st[u]) : ~On(st[u][j], hh, RefPC)
                                   /\ ~On(st[u][j], hh, {"unlocking"})
    BY EntryIs
  <2>2. CASE st[u][k].pc = "unlocking"
    BY <2>1, <2>2 DEF On
  <2>3. CASE st[u][k].pc \in UnloadPC
    <3>1. PICK s \in Seq(Shaped) : s = st[u] /\ Good(al, ob, s)
      BY DEF AllGood
    <3>2. PICK j \in 1 .. Len(s) : s[j].pc \in {"drop", "unlocking"} /\ s[k].h = s[j].h
      BY <2>3, <3>1, UnloadCaller
    <3> QED BY <2>1, <3>1, <3>2 DEF On, RefPC, LoadPC
  <2> QED BY <1>1, <2>2, <2>3
<1>2. ASSUME NEW u \in Thread, NEW k \in 1 .. Len(st[u])
      PROVE  FrameOK(al2, ob2, st[u][k])
  <2>1. PICK f \in Shaped : f = st[u][k] /\ FrameOK(al, ob, f)
    BY DEF AllGood, Good
  <2>2. f.pc \in UnloadPC \cup {"unlocking"} => f.h # hh /\ f.h \in Handle
    BY <1>1, <2>1 DEF Shaped, UnlockPC
  <2>3. f.pc \in UnloadPC \cup {"unlocking"} =>
          (f.h \in al <=> f.h \in al2) /\ ob2[f.h] = ob[f.h]
    BY <2>2 DEF Elsewhere
  <2> QED BY <2>1, <2>3 DEF FrameOK, UnloadPC
<1>3. ASSUME NEW u \in Thread, NEW k \in 2 .. Len(st[u])
      PROVE  PairOK(ob2, st[u][k - 1], st[u][k])
  <2>1. PICK s \in Seq(Shaped) : s = st[u] /\ Good(al, ob, s)
    BY DEF AllGood
  <2>2. k - 1 \in 1 .. Len(s) /\ k \in 1 .. Len(s) /\ k \in 2 .. Len(s)
    BY <2>1
  <2>3. PICK c \in Shaped, f \in Shaped : c = s[k - 1] /\ f = s[k]
    BY <2>2
  <2>4. PairOK(ob, c, f)
    BY <2>1, <2>2, <2>3 DEF Good
  <2>5. f.pc = "unloaded" => f.h # hh /\ f.h \in Handle
    BY <1>1, <2>1, <2>2, <2>3 DEF Shaped, UnloadPC
  <2>6. PairOK(ob2, c, f)
    BY <2>4, <2>5 DEF PairOK, Elsewhere
  <2> QED BY <2>1, <2>3, <2>6
<1> QED BY <1>2, <1>3, OtherGood

LEMMA AllocStep ==
  ASSUME IInv, RInv, NEW hh \in Handle, NEW al2 \in SUBSET Handle,
         NEW ob2 \in [Handle -> Object], Elsewhere(alive, obj, al2, ob2, hh),
         alive' = al2, members' = al2, obj' = ob2, held' = held,
         hh \in alive => GivenAll(obj, hh), hh \in al2 => GivenAll(ob2, hh),
         ob2[hh].released <= Len(ob2[hh].deps),
         NEW n \in Nat, Count(al2, ob2, hh) = n, Count(alive, obj, hh) = 0,
         NEW st \in [Thread -> Seq(Shaped)], stack' = st, AllGood(al2, ob2, st),
         \A h \in Handle :
           /\ IsFiniteSet(Entries(st, h, RefPC))
           /\ IsFiniteSet(Entries(st, h, {"unlocking"}))
           /\ Cardinality(Entries(st, h, {"unlocking"})) <= 1
           /\ Cardinality(Entries(st, h, RefPC)) =
                Cardinality(Entries(stack, h, RefPC)) + (IF h = hh THEN n ELSE 0)
  PROVE  RInv'
<1>1. PICK al \in SUBSET Handle : al = alive
  BY DEF IInv, Rest
<1>2. PICK hd : hd = held /\ hd = held'
  OBVIOUS
<1>3. Rest /\ obj \in [Handle -> Object] /\ Elsewhere(al, obj, al2, ob2, hh)
  BY <1>1 DEF IInv, Rest
<1>4. \A h \in Handle : DepEntries(al2, ob2, h) = DepEntries(al, obj, h)
  <2>1. hh \in al => GivenAll(obj, hh)
    BY <1>1
  <2> QED BY <1>3, <2>1, DepElsewhere
<1>5. \A h \in Handle :
        /\ Finite(al2, ob2, st, h)
        /\ Exact(al2, ob2, st, hd, h)
        /\ Cardinality(Entries(st, h, {"unlocking"})) <= 1
        /\ h \in al2 => ob2[h].released <= Len(ob2[h].deps)
  <2> SUFFICES ASSUME NEW h \in Handle
               PROVE  /\ Finite(al2, ob2, st, h)
                      /\ Exact(al2, ob2, st, hd, h)
                      /\ Cardinality(Entries(st, h, {"unlocking"})) <= 1
                      /\ h \in al2 => ob2[h].released <= Len(ob2[h].deps)
    OBVIOUS
  <2>1. /\ Finite(al, obj, stack, h) /\ Exact(al, obj, stack, hd, h)
        /\ h \in al => obj[h].released <= Len(obj[h].deps)
    BY <1>1, <1>2 DEF RInv, RInvOf
  <2>2. Finite(al2, ob2, st, h)
    BY <1>4, <2>1 DEF Finite
  <2> DEFINE E == Cardinality(Entries(stack, h, RefPC))
             E2 == Cardinality(Entries(st, h, RefPC))
             D == Cardinality(DepEntries(al, obj, h))
  <2>3. E \in Nat /\ D \in Nat /\ E2 = E + (IF h = hh THEN n ELSE 0)
    BY <2>1, FS_CardinalityType DEF Finite
  <2>4. PICK m \in Nat : m = hd[h]
    BY <1>2, <1>3 DEF Rest
  <2>5. Count(al, obj, h) = m + E + D
    BY <2>1, <2>4 DEF Exact
  <2> HIDE DEF E, E2, D
  <2>6. Count(al2, ob2, h) = m + E2 + D
    <3>1. CASE h = hh
      <4>1. 0 = m + E + D /\ E2 = E + n
        BY <1>1, <2>3, <2>5, <3>1
      <4>2. n = m + E2 + D
        BY <2>3, <4>1
      <4> QED BY <3>1, <4>2
    <3>2. CASE h # hh
      <4>1. Count(al2, ob2, h) = Count(al, obj, h)
        BY <1>3, <3>2 DEF Count, Elsewhere
      <4>2. E2 = E
        BY <2>3, <3>2
      <4> QED BY <2>5, <4>1, <4>2
    <3> QED BY <3>1, <3>2
  <2>7. Exact(al2, ob2, st, hd, h)
    BY <1>4, <2>4, <2>6 DEF Exact, E2, D
  <2>8. h \in al2 => ob2[h].released <= Len(ob2[h].deps)
    <3>1. CASE h # hh
      <4>1. ob2[h] = obj[h] /\ (h \in al <=> h \in al2)
        BY <1>3, <3>1 DEF Elsewhere
      <4> QED BY <2>1, <4>1
    <3> QED BY <3>1
  <2> QED BY <2>2, <2>7, <2>8
<1>6. \A t \in Thread : Good(al2, ob2, st[t])
  BY DEF AllGood
<1>7. RInvOf(al2, ob2, st, hd)
  BY <1>5, <1>6 DEF RInvOf
<1> QED BY <1>2, <1>7, NextRInv

(* Nobody refers to a structure without a count, allocated or not.         *)
LEMMA Unused ==
  ASSUME IInv, RInv, NEW hh \in Handle, Count(alive, obj, hh) = 0
  PROVE  Entries(stack, hh, RefPC) = {}
<1> DEFINE E == Cardinality(Entries(stack, hh, RefPC))
           D == Cardinality(DepEntries(alive, obj, hh))
<1>1. Finite(alive, obj, stack, hh) /\ Exact(alive, obj, stack, held, hh)
  BY DEF RInv, RInvOf
<1>2. E \in Nat /\ D \in Nat
  BY <1>1, FS_CardinalityType DEF Finite
<1>3. PICK n \in Nat : n = held[hh]
  BY DEF IInv, Rest
<1>4. 0 = n + E + D
  BY <1>1, <1>3 DEF Exact
<1> HIDE DEF E, D
<1>5. E = 0
  BY <1>2, <1>4
<1> QED BY <1>1, <1>5, FS_EmptySet DEF E, Finite

LEMMA CreateCounts ==
  ASSUME IInv, RInv, NEW t \in Thread, Create(t)
  PROVE  RInv'
<1> USE DEF table, mutex, program
<1>1. /\ Running(t) /\ Top(t).pc = "create" /\ Rest /\ Stacks /\ held' = held
  BY DEF Create, At, IInv
<1>2. /\ Top(t) \in Shaped /\ Top(t).req \in Request
      /\ stack \in [Thread -> Seq(Shaped)]
  BY <1>1, TopShape DEF OpenPC, Stacks
<1>3. PICK hh \in Handle :
        /\ hh \notin alive /\ members' = members \cup {hh}
        /\ alive' = alive \cup {hh}
        /\ obj' = [obj EXCEPT ![hh] = FreshObject(Top(t).req)]
        /\ Become(t, [Top(t) EXCEPT !.pc = "parse", !.h = hh])
  BY DEF Create, Table!Insert
<1>4. PICK o \in Object : /\ o = FreshObject(Top(t).req)
                          /\ o.refc = 1 /\ o.deps = <<>> /\ o.released = 0
  <2>1. PICK req \in Request : req = Top(t).req
    BY <1>2
  <2>2. <<>> \in Seq(Handle \cup {Main})
    OBVIOUS
  <2>3. FreshObject(req) \in Object
    BY <2>1, <2>2 DEF FreshObject, Object, Request
  <2>4. /\ FreshObject(req).refc = 1 /\ FreshObject(req).deps = <<>>
        /\ FreshObject(req).released = 0
    BY DEF FreshObject
  <2> QED BY <2>1, <2>3, <2>4
<1>5. PICK ob2 \in [Handle -> Object] : ob2 = [obj EXCEPT ![hh] = o] /\ ob2 = obj'
  BY <1>1, <1>3, <1>4, ObjectKept
<1>6. ob2[hh] = o /\ \A g \in Handle : g # hh => ob2[g] = obj[g]
  BY <1>1, <1>5 DEF Rest
<1>7. PICK al2 \in SUBSET Handle : al2 = alive \cup {hh}
  BY <1>1 DEF Rest
<1>8. alive' = al2 /\ members' = al2
  BY <1>3, <1>7 DEF RInv
<1>9. Elsewhere(alive, obj, al2, ob2, hh)
  BY <1>6, <1>7 DEF Elsewhere
<1>10. /\ GivenAll(ob2, hh) /\ ob2[hh].released <= Len(ob2[hh].deps)
       /\ Count(al2, ob2, hh) = 1 /\ Count(alive, obj, hh) = 0
  <2>1. Len(o.deps) = 0
    BY <1>4
  <2>2. hh \in al2
    BY <1>7
  <2> QED BY <1>3, <1>4, <1>6, <2>1, <2>2 DEF GivenAll, Count
<1>11. Entries(stack, hh, RefPC) = {}
  BY <1>10, Unused
<1>12. Entries(stack, hh, {"unlocking"}) = {}
  <2>1. \A u \in Thread : \A k \in 1 .. Len(stack[u]) :
          ~On(stack[u][k], hh, {"unlocking"})
    <3> SUFFICES ASSUME NEW u \in Thread, NEW k \in 1 .. Len(stack[u]),
                        On(stack[u][k], hh, {"unlocking"})
                 PROVE  FALSE
      OBVIOUS
    <3>1. FrameOK(alive, obj, stack[u][k])
      BY <1>2 DEF RInv, RInvOf, Good
    <3> QED BY <1>3, <3>1 DEF On, FrameOK
  <2> QED BY <1>2, <2>1, EntryIs
<1>13. AllGood(alive, obj, stack)
  BY DEF RInv, RInvOf, AllGood
<1>14. AllGood(al2, ob2, stack)
  BY <1>2, <1>9, <1>11, <1>12, <1>13, GoodElsewhere
<1>15. PICK f \in Shaped : f = [Top(t) EXCEPT !.pc = "parse", !.h = hh]
  BY <1>1, <1>2, NextOpen DEF OpenPC
<1>16. f.pc = "parse" /\ f.h = hh
  BY <1>2, <1>15 DEF Shaped, Frame
<1> DEFINE st == Pushed(Popped(stack, t), t, f)
<1>17. st \in [Thread -> Seq(Shaped)] /\ stack' = st
  BY <1>1, <1>2, <1>3, <1>15, Moves, PushPopTypes DEF Running
<1>18. AllGood(al2, ob2, st)
  <2>1. FrameOK(al2, ob2, f) /\ \A c \in Shaped : PairOK(ob2, c, f)
    BY <1>16 DEF FrameOK, PairOK
  <2>2. MayBecome(Top(t), f)
    BY <1>1, <1>16 DEF MayBecome, OpenPC, LoadPC
  <2> QED BY <1>1, <1>2, <1>14, <2>1, <2>2, BecomeGood DEF Running, Top
<1>19. ASSUME NEW h \in Handle
       PROVE  /\ IsFiniteSet(Entries(st, h, RefPC))
              /\ IsFiniteSet(Entries(st, h, {"unlocking"}))
              /\ Cardinality(Entries(st, h, {"unlocking"})) <= 1
              /\ Cardinality(Entries(st, h, RefPC)) =
                   Cardinality(Entries(stack, h, RefPC)) + (IF h = hh THEN 1 ELSE 0)
  <2>1. /\ Finite(alive, obj, stack, h)
        /\ Cardinality(Entries(stack, h, {"unlocking"})) <= 1
    BY DEF RInv, RInvOf
  <2>2. One(f, h, {"unlocking"}) = 0 /\ One(f, h, RefPC) = IF h = hh THEN 1 ELSE 0
    BY <1>16 DEF One, On, RefPC, LoadPC
  <2>3. One(Top(t), h, {"unlocking"}) = 0 /\ One(Top(t), h, RefPC) = 0
    BY <1>1 DEF One, On, RefPC, LoadPC
  <2> DEFINE N(s, p) == Cardinality(Entries(s, h, p))
  <2>4. /\ IsFiniteSet(Entries(st, h, RefPC))
        /\ N(stack, RefPC) \in Nat /\ N(st, RefPC) \in Nat
        /\ N(st, RefPC) + One(Top(t), h, RefPC) = N(stack, RefPC) + One(f, h, RefPC)
    BY <1>1, <1>2, <2>1, BecomeCounts DEF Finite, Running, Top
  <2>5. /\ IsFiniteSet(Entries(st, h, {"unlocking"}))
        /\ N(stack, {"unlocking"}) \in Nat /\ N(st, {"unlocking"}) \in Nat
        /\ N(st, {"unlocking"}) + One(Top(t), h, {"unlocking"}) =
             N(stack, {"unlocking"}) + One(f, h, {"unlocking"})
    BY <1>1, <1>2, <2>1, BecomeCounts DEF Finite, Running, Top
  <2>6. N(stack, {"unlocking"}) <= 1
    BY <2>1
  <2> HIDE DEF N, st
  <2>7. N(st, {"unlocking"}) <= 1
    BY <2>2, <2>3, <2>5, <2>6
  <2>8. N(st, RefPC) = N(stack, RefPC) + (IF h = hh THEN 1 ELSE 0)
    BY <2>2, <2>3, <2>4
  <2> QED BY <2>4, <2>5, <2>7, <2>8 DEF N
<1> HIDE DEF st
<1>20. obj' = ob2 /\ held' = held
  BY <1>1, <1>5
<1>21. (hh \in alive => GivenAll(obj, hh)) /\ (hh \in al2 => GivenAll(ob2, hh))
  BY <1>3, <1>10
<1>22. PICK n \in Nat : n = 1
  OBVIOUS
<1>23. /\ ob2[hh].released <= Len(ob2[hh].deps)
       /\ Count(al2, ob2, hh) = n /\ Count(alive, obj, hh) = 0
  BY <1>10, <1>22
<1>24. \A h \in Handle :
         /\ IsFiniteSet(Entries(st, h, RefPC))
         /\ IsFiniteSet(Entries(st, h, {"unlocking"}))
         /\ Cardinality(Entries(st, h, {"unlocking"})) <= 1
         /\ Cardinality(Entries(st, h, RefPC)) =
              Cardinality(Entries(stack, h, RefPC)) + (IF h = hh THEN n ELSE 0)
  BY <1>19, <1>22
<1> QED BY <1>8, <1>9, <1>17, <1>18, <1>20, <1>21, <1>23, <1>24, AllocStep

(* Nobody refers to an object that is freed, and its dependencies have all *)
(* been given back.                                                        *)
LEMMA ReclaimCounts ==
  ASSUME IInv, RInv, NEW t \in Thread, Reclaim(t)
  PROVE  RInv'
<1> USE DEF table, mutex, program
<1>1. /\ Len(stack[t]) > 1 /\ Running(t) /\ Top(t).pc = "unloaded"
      /\ Caller(t).pc = "unlocking" /\ Rest /\ Stacks /\ held' = held
  BY CallerFrame DEF Reclaim, At, CalledFrom, IInv
<1>2. /\ Caller(t) \in Shaped /\ Caller(t).h \in Handle
      /\ Top(t) \in Shaped /\ stack \in [Thread -> Seq(Shaped)]
  BY <1>1, CallerFrame, TopShape DEF UnlockPC, Stacks, Shaped
<1>3. PICK hh \in Handle : hh = Caller(t).h
  BY <1>2
<1>4. /\ Top(t).h = hh /\ hh \in alive /\ obj[hh].refc = 0
      /\ obj[hh].released = Len(obj[hh].deps)
  BY <1>1, <1>3, TopPair DEF Calls, PairOK, FrameOK, UnloadPC, UnlockPC
<1>5. /\ members' = members \ {hh} /\ alive' = alive \ {hh}
      /\ obj' = [obj EXCEPT ![hh] = Unallocated]
      /\ ReturnTo(t, DoneFrame(Null))
  BY <1>4 DEF Reclaim, Table!Remove
<1>6. PICK o \in Object : o = Unallocated /\ o.deps = <<>> /\ o.released = 0
  <2>1. PICK q \in Path : q = CHOOSE p \in Path : TRUE
    BY LoaderAssumption
  <2>2. <<>> \in Seq(Handle \cup {Main})
    OBVIOUS
  <2>3. Unallocated \in Object
    BY <2>1, <2>2 DEF Unallocated, FreshObject, Object
  <2>4. Unallocated.deps = <<>> /\ Unallocated.released = 0
    BY DEF Unallocated, FreshObject
  <2> QED BY <2>3, <2>4
<1>7. PICK ob2 \in [Handle -> Object] : ob2 = [obj EXCEPT ![hh] = o] /\ ob2 = obj'
  BY <1>1, <1>5, <1>6, ObjectKept
<1>8. ob2[hh] = o /\ \A g \in Handle : g # hh => ob2[g] = obj[g]
  BY <1>1, <1>7 DEF Rest
<1>9. PICK al2 \in SUBSET Handle : al2 = alive \ {hh}
  BY <1>1 DEF Rest
<1>10. alive' = al2 /\ members' = al2
  BY <1>5, <1>9 DEF RInv
<1>11. Elsewhere(alive, obj, al2, ob2, hh)
  BY <1>8, <1>9 DEF Elsewhere
<1>12. /\ GivenAll(obj, hh) /\ GivenAll(ob2, hh) /\ ob2[hh].released <= Len(ob2[hh].deps)
       /\ Count(al2, ob2, hh) = 0 /\ Count(alive, obj, hh) = 0
  <2>1. Len(o.deps) = 0 /\ obj[hh].released \in Nat
    BY <1>1, <1>6, ObjectFields
  <2>2. hh \notin al2
    BY <1>9
  <2> QED BY <1>4, <1>6, <1>8, <2>1, <2>2 DEF GivenAll, Count
<1>13. PICK sk : sk = Popped(stack, t)
  OBVIOUS
<1>14. /\ sk \in [Thread -> Seq(Shaped)]
       /\ sk[t] # <<>> /\ sk[t][Len(sk[t])] = Caller(t)
  BY <1>1, <1>13, Returns
<1>15. AllGood(alive, obj, sk)
  BY <1>1, <1>2, <1>13, PopGood DEF Running, RInv, RInvOf, AllGood
<1>16. PICK f \in Shaped : f = DoneFrame(Null) /\ f.pc = "done" /\ f.h = Null
  <2>1. DoneFrame(Null) \in Shaped
    BY NewFrames
  <2> QED BY <2>1 DEF DoneFrame
<1> DEFINE st == Pushed(Popped(sk, t), t, f)
<1>17. st \in [Thread -> Seq(Shaped)] /\ stack' = st
  <2>1. stack' = st
    BY <1>1, <1>5, <1>13, <1>16, Returns
  <2> QED BY <1>14, <2>1, PushPopTypes
<1>18. AllGood(alive, obj, st)
  <2>1. FrameOK(alive, obj, f) /\ \A c \in Shaped : PairOK(obj, c, f)
    BY <1>16 DEF FrameOK, PairOK
  <2>2. MayBecome(Caller(t), f)
    BY <1>1, <1>16 DEF MayBecome, UnlockPC
  <2> QED BY <1>14, <1>15, <2>1, <2>2, BecomeGood
<1>19. ASSUME NEW h \in Handle
       PROVE  /\ IsFiniteSet(Entries(st, h, RefPC))
              /\ IsFiniteSet(Entries(st, h, {"unlocking"}))
              /\ Cardinality(Entries(st, h, {"unlocking"})) \in Nat
              /\ Cardinality(Entries(st, h, {"unlocking"}))
                   + (IF h = hh THEN 1 ELSE 0) <= 1
              /\ Cardinality(Entries(stack, h, RefPC)) \in Nat
              /\ Cardinality(Entries(st, h, RefPC)) =
                   Cardinality(Entries(stack, h, RefPC))
  <2>1. /\ Finite(alive, obj, stack, h)
        /\ Cardinality(Entries(stack, h, {"unlocking"})) <= 1
    BY DEF RInv, RInvOf
  <2>2. /\ One(f, h, RefPC) = 0 /\ One(f, h, {"unlocking"}) = 0
        /\ One(Caller(t), h, RefPC) = 0
        /\ One(Caller(t), h, {"unlocking"}) = IF h = hh THEN 1 ELSE 0
        /\ One(Top(t), h, RefPC) = 0 /\ One(Top(t), h, {"unlocking"}) = 0
    BY <1>1, <1>3, <1>16, LoaderAssumption DEF One, On, RefPC, LoadPC
  <2> DEFINE N(s, p) == Cardinality(Entries(s, h, p))
             x == IF h = hh THEN 1 ELSE 0
  <2>3. /\ IsFiniteSet(Entries(sk, h, RefPC)) /\ N(sk, RefPC) \in Nat
        /\ N(stack, RefPC) = N(sk, RefPC) + One(Top(t), h, RefPC)
    BY <1>1, <1>2, <1>13, <2>1, PopEntries DEF Finite, Running, Top
  <2>4. /\ IsFiniteSet(Entries(sk, h, {"unlocking"})) /\ N(sk, {"unlocking"}) \in Nat
        /\ N(stack, {"unlocking"}) = N(sk, {"unlocking"}) + One(Top(t), h, {"unlocking"})
    BY <1>1, <1>2, <1>13, <2>1, PopEntries DEF Finite, Running, Top
  <2>5. IsFiniteSet(Entries(sk, h, RefPC)) /\ IsFiniteSet(Entries(sk, h, {"unlocking"}))
    BY <2>3, <2>4
  <2>6. /\ IsFiniteSet(Entries(st, h, RefPC)) /\ N(st, RefPC) \in Nat
        /\ N(st, RefPC) + One(Caller(t), h, RefPC) = N(sk, RefPC) + One(f, h, RefPC)
    BY <1>14, <2>5, BecomeCounts
  <2>7. /\ IsFiniteSet(Entries(st, h, {"unlocking"})) /\ N(st, {"unlocking"}) \in Nat
        /\ N(st, {"unlocking"}) + One(Caller(t), h, {"unlocking"}) =
             N(sk, {"unlocking"}) + One(f, h, {"unlocking"})
    BY <1>14, <2>5, BecomeCounts
  <2>8. /\ N(stack, {"unlocking"}) <= 1 /\ x \in {0, 1}
        /\ One(Caller(t), h, {"unlocking"}) = x
    BY <2>1, <2>2
  <2> HIDE DEF N, st, x
  <2>9. N(st, {"unlocking"}) + x <= 1
    BY <2>2, <2>4, <2>7, <2>8
  <2>10. N(st, RefPC) = N(stack, RefPC) /\ N(stack, RefPC) \in Nat
    BY <2>2, <2>3, <2>6
  <2> QED BY <2>6, <2>7, <2>9, <2>10 DEF N, x
<1> HIDE DEF st
<1>20. Entries(st, hh, RefPC) = {}
  <2>1. Entries(stack, hh, RefPC) = {}
    BY <1>12, Unused
  <2>2. Cardinality(Entries(st, hh, RefPC)) = 0
    <3>1. Cardinality(Entries(stack, hh, RefPC)) = 0
      BY <2>1, FS_EmptySet
    <3> QED BY <1>19, <3>1
  <2>3. IsFiniteSet(Entries(st, hh, RefPC))
    BY <1>19
  <2> QED BY <2>2, <2>3, FS_EmptySet
<1>21. Entries(st, hh, {"unlocking"}) = {}
  <2>1. PICK n \in Nat : n = Cardinality(Entries(st, hh, {"unlocking"})) /\ n + 1 <= 1
    BY <1>19
  <2>2. n = 0
    BY <2>1
  <2> QED BY <1>19, <2>1, <2>2, FS_EmptySet
<1>22. AllGood(al2, ob2, st)
  BY <1>11, <1>17, <1>18, <1>20, <1>21, GoodElsewhere
<1>23. \A h \in Handle :
         /\ IsFiniteSet(Entries(st, h, RefPC))
         /\ IsFiniteSet(Entries(st, h, {"unlocking"}))
         /\ Cardinality(Entries(st, h, {"unlocking"})) <= 1
         /\ Cardinality(Entries(st, h, RefPC)) =
              Cardinality(Entries(stack, h, RefPC)) + (IF h = hh THEN 0 ELSE 0)
  <2> SUFFICES ASSUME NEW h \in Handle
               PROVE  /\ Cardinality(Entries(st, h, {"unlocking"})) <= 1
                      /\ Cardinality(Entries(st, h, RefPC)) =
                           Cardinality(Entries(stack, h, RefPC))
                             + (IF h = hh THEN 0 ELSE 0)
    BY <1>19
  <2>1. PICK n \in Nat, m \in Nat :
          /\ n = Cardinality(Entries(st, h, {"unlocking"}))
          /\ n + (IF h = hh THEN 1 ELSE 0) <= 1
          /\ m = Cardinality(Entries(st, h, RefPC))
          /\ m = Cardinality(Entries(stack, h, RefPC))
    BY <1>19
  <2>2. n <= 1 /\ m = m + (IF h = hh THEN 0 ELSE 0)
    BY <2>1
  <2> QED BY <2>1, <2>2
<1>24. obj' = ob2 /\ 0 \in Nat
  BY <1>7
<1> QED BY <1>1, <1>10, <1>11, <1>12, <1>17, <1>22, <1>23, <1>24, AllocStep

-----------------------------------------------------------------------------
(* Every step of the loader and of the program keeps the counts.           *)
LEMMA InitRInv == Init => RInv
<1> SUFFICES ASSUME Init
             PROVE  RInv
  OBVIOUS
<1>1. /\ members = {} /\ alive = {} /\ stack = [t \in Thread |-> <<>>]
      /\ held = [h \in Handle |-> 0]
  BY DEF Init, Table!Init
<1>2. stack \in [Thread -> Seq(Shaped)] /\ \A t \in Thread : Len(stack[t]) = 0
  BY <1>1
<1>3. \A h, pcs : Entries(stack, h, pcs) = {}
  BY <1>2, EntryIs
<1>4. \A h : DepEntries(alive, obj, h) = {}
  BY <1>1 DEF DepEntries
<1>5. \A h \in Handle :
        /\ Finite(alive, obj, stack, h)
        /\ Exact(alive, obj, stack, held, h)
        /\ Cardinality(Entries(stack, h, {"unlocking"})) <= 1
        /\ h \in alive => obj[h].released <= Len(obj[h].deps)
  <2> SUFFICES ASSUME NEW h \in Handle
               PROVE  /\ Finite(alive, obj, stack, h)
                      /\ Exact(alive, obj, stack, held, h)
                      /\ Cardinality(Entries(stack, h, {"unlocking"})) <= 1
                      /\ h \in alive => obj[h].released <= Len(obj[h].deps)
    OBVIOUS
  <2>1. Finite(alive, obj, stack, h)
    BY <1>3, <1>4, FS_EmptySet DEF Finite
  <2>2. /\ Cardinality(Entries(stack, h, RefPC)) = 0
        /\ Cardinality(Entries(stack, h, {"unlocking"})) = 0
        /\ Cardinality(DepEntries(alive, obj, h)) = 0
    BY <1>3, <1>4, FS_EmptySet
  <2>3. Count(alive, obj, h) = 0 /\ held[h] = 0 /\ h \notin alive
    BY <1>1 DEF Count
  <2>4. Exact(alive, obj, stack, held, h)
    BY <2>2, <2>3 DEF Exact
  <2> QED BY <2>1, <2>2, <2>3, <2>4
<1>6. \A t \in Thread : Good(alive, obj, stack[t])
  BY <1>1, <1>2 DEF Good
<1> QED BY <1>1, <1>5, <1>6 DEF RInv, RInvOf

LEMMA LoadRInv ==
  ASSUME IInv, RInv, NEW t \in Thread, ~Dangling(t), Load(t)
  PROVE  RInv'
<1>1. CASE OpenHit(t)
  BY <1>1, HitCounts
<1>2. CASE OpenMiss(t) \/ CreateFails(t)
  BY <1>2, OpenCounts
<1>3. CASE Create(t)
  BY <1>3, CreateCounts
<1>4. CASE CreateFilledAfterFree(t)
  BY <1>4, StillCounts DEF CreateFilledAfterFree, table, program
<1>5. CASE \/ Parse(t) \/ ParseFails(t) \/ DepsLoaded(t) \/ Map(t)
           \/ Relocated(t) \/ Initialise(t)
  BY <1>5, LoadCounts
<1>6. CASE TooManyDeps(t) \/ MapFails(t) \/ RelocFails(t) \/ Resolve(t) \/ OpenDep(t)
  BY <1>6, MapCounts
<1>7. CASE BindMain(t)
  BY <1>7, BindMainCounts
<1>8. CASE BindDep(t)
  BY <1>8, BindDepCounts
<1>9. CASE DepFails(t) \/ DropFailedLoad(t)
  BY <1>9, ReturnCounts
<1> QED BY <1>1, <1>2, <1>3, <1>4, <1>5, <1>6, <1>7, <1>8, <1>9 DEF Load

LEMMA UnloadRInv ==
  ASSUME IInv, RInv, NEW t \in Thread, ~Dangling(t), NotYetGiven, Unload(t)
  PROVE  RInv'
<1>1. CASE Unlock(t)
  BY <1>1, UnlockCounts
<1>2. CASE LastUnlock(t)
  BY <1>2, LastUnlockCounts
<1>3. CASE Reclaim(t)
  BY <1>3, ReclaimCounts
<1>4. CASE KeepUnfreed(t)
  BY <1>4, ReturnCounts
<1>5. CASE Finalise(t) \/ FreePages(t) \/ FreePagesFails(t) \/ DepsReleased(t)
  BY <1>5, UnloadCounts
<1>6. CASE ReleaseDep(t)
  BY <1>6, ReleaseCounts DEF NotYetGiven
<1>7. CASE UnlockReturns(t) \/ WalkEnds(t)
  BY <1>7, PopCounts
<1>8. CASE PassUnreferred(t)
  BY <1>8, PassCounts
<1> QED BY <1>1, <1>2, <1>3, <1>4, <1>5, <1>6, <1>7, <1>8 DEF Unload

LEMMA StepRInv ==
  ASSUME "fini" \notin Callers
  PROVE  IInv /\ RInv /\ [Next]_vars /\ [NotYetGiven]_vars => RInv'
<1> SUFFICES ASSUME IInv, RInv, [Next]_vars, [NotYetGiven]_vars
             PROVE  RInv'
  OBVIOUS
<1>1. CASE UNCHANGED vars
  BY <1>1, StillCounts DEF vars
<1>2. CASE ~UNCHANGED vars
  <2>1. NotYetGiven /\ Next /\ ~Finished
    BY <1>2 DEF Finished
  <2>2. PICK t \in Thread : Call(t) \/ Step(t)
    BY <2>1 DEF Next
  <2>3. CASE Call(t)
    <3>1. CASE CallOpen(t) \/ CallOpenFile(t) \/ CallClose(t) \/ CallWalk(t)
      BY <3>1, CallCounts
    <3>2. CASE CallByAddress(t)
      BY <3>2, ByAddressCounts
    <3>3. CASE CallInfo(t)
      BY <3>3, InfoCounts
    <3> QED BY <2>3, <3>1, <3>2, <3>3 DEF Call
  <2>4. CASE Step(t)
    <3>1. CASE UseAfterFree(t)
      BY <3>1, StillCounts DEF UseAfterFree, table, program
    <3>2. CASE ~Dangling(t) /\ Load(t)
      BY <3>2, LoadRInv
    <3>3. CASE ~Dangling(t) /\ Unload(t)
      BY <2>1, <3>3, UnloadRInv
    <3>4. CASE ReturnToProgram(t)
      BY <3>4, PopCounts
    <3> QED BY <2>4, <3>1, <3>2, <3>3, <3>4 DEF Step
  <2> QED BY <2>2, <2>3, <2>4
<1> QED BY <1>1, <1>2

LEMMA ReferencesAre ==
  ASSUME NEW h
  PROVE  References(h) = held[h] + Cardinality(Entries(stack, h, RefPC))
                                 + Cardinality(DepEntries(alive, obj, h))
BY DEF References, FrameRefers, Entries, On, RefPC, DepEntries

(* No reference to a handle is left when its structure is freed.           *)
NoneLeft == \A h \in Handle \ alive : References(h) = 0

LEMMA RInvCounts == IInv /\ RInv => RefcountExact /\ NoneLeft
<1> SUFFICES ASSUME IInv, RInv
             PROVE  RefcountExact /\ NoneLeft
  OBVIOUS
<1>1. \A h \in Handle : Count(alive, obj, h) = References(h)
  BY ReferencesAre DEF RInv, RInvOf, Exact
<1>2. alive \subseteq Handle
  BY DEF IInv, Rest
<1> QED BY <1>1, <1>2 DEF RefcountExact, NoneLeft, Count

LEMMA SpecRInv ==
  ASSUME "fini" \notin Callers
  PROVE  Spec /\ GivesBackOnce => [](IInv /\ RInv)
<1>1. Init => IInv /\ RInv
  BY InitIInv, InitRInv
<1>2. IInv /\ RInv /\ [Next]_vars /\ [NotYetGiven]_vars => (IInv /\ RInv)'
  BY StepIInv, StepRInv
<1> QED BY <1>1, <1>2, PTL DEF Spec, GivesBackOnce

(* The reference count of every allocated handle is the number of          *)
(* references there are: those of the program, of the calls that work on   *)
(* one and of the dependencies not given back.  ctrdl_lockHandle and       *)
(* ctrdl_unlockHandle balance in every path of dlopen, dlclose, dlsym and  *)
(* the loading and unloading of dependencies.                              *)
THEOREM RefcountsExact ==
  ASSUME "fini" \notin Callers
  PROVE  Spec /\ GivesBackOnce => []RefcountExact
<1>1. IInv /\ RInv => RefcountExact
  BY RInvCounts
<1> QED BY <1>1, SpecRInv, PTL

(* A handle is freed only when neither the program nor a call nor an open  *)
(* object refers to it any more.                                           *)
THEOREM FreedUnreferred ==
  ASSUME "fini" \notin Callers
  PROVE  Spec /\ GivesBackOnce => []NoneLeft
<1>1. IInv /\ RInv => NoneLeft
  BY RInvCounts
<1> QED BY <1>1, SpecRInv, PTL
=============================================================================
