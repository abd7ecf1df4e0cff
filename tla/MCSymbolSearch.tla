--------------------------- MODULE MCSymbolSearch ---------------------------
(***************************************************************************)
(* Small instances of SymbolSearch: object a is asked, or is relocated; b  *)
(* and c are what it may need.  The symbol asked for is x, or where an     *)
(* object has several relocations, x and y.                                *)
(***************************************************************************)
EXTENDS SymbolSearch, TLC

CONSTANTS a, b, c, x, y

Symbol(n, weak, value, size) ==
  [name |-> n, weak |-> weak, value |-> value, size |-> size]
Strong(n) == Symbol(n, FALSE, 0, 0)
Weak(n) == Symbol(n, TRUE, 0, 0)

(* c has two versions of x.                                                *)
Chains ==
  {(a :> p @@ b :> q @@ c :> r) :
     p \in {<<>>, <<Strong(x)>>, <<Weak(x)>>, <<Strong(y), Weak(x)>>},
     q \in {<<>>, <<Strong(y)>>, <<Strong(y), Strong(x)>>},
     r \in {<<>>, <<Weak(x), Strong(x)>>}}

NeedsOfA == {<<>>, <<b>>, <<c>>, <<b, c>>, <<c, b>>, <<Main, b>>, <<b, Main>>}
NeedsOfB == {<<>>, <<c>>, <<Main>>}
Dependencies == {(a :> p @@ b :> q @@ c :> <<>>) : p \in NeedsOfA, q \in NeedsOfB}

Orders == {<<a, b, c>>, <<c, b, a>>}

Nowhere == [h \in {a, b, c} |-> 0]

WorldsOf(chains, loading, resolver, program) ==
  [order : Orders, global : SUBSET {a, b, c}, loading : loading,
   deps : Dependencies, chain : chains, resolver : resolver, program : program,
   base : {Nowhere}, size : {Nowhere}]

Asks(kind, table, addr) ==
  [kind |-> kind, h |-> a, name |-> x, table |-> table, addr |-> addr]

(* The last entry of the chain of a, which is x, is what is relocated; its *)
(* tables are not with the handle yet.                                     *)
SymbolReloc(k) == [type |-> "symbol", index |-> k, addend |-> FALSE]
OneRelocation(n, worlds) ==
  {[world |-> w, query |-> Asks("reloc", <<SymbolReloc(n)>>, 0)] : w \in worlds}

ChainsOf(n) == {ch \in Chains : Len(ch[a]) = n /\ ch[a][n].name = x}
Unresolvable(n) ==
  {w \in WorldsOf(ChainsOf(n), {{a}, {a, b}}, {{}}, {{}}) :
     w.order = <<c, b, a>> => w.loading = {a} /\ w.global # {}}
Resolvable(n) ==
  {w \in WorldsOf(ChainsOf(n), {{a}}, {{}, {x}}, {{}, {x}}) :
     w.deps[a] = <<b, c>> /\ w.deps[b] = <<>> /\ w.global \in {{}, {b}}}

(* Tables of several relocations, of an object that has x, weak, and y.    *)
Relocs ==
  {[type |-> "relative", index |-> 0, addend |-> TRUE],
   [type |-> "relative", index |-> 1, addend |-> FALSE],
   [type |-> "symbol", index |-> 0, addend |-> FALSE],
   [type |-> "symbol", index |-> 1, addend |-> TRUE], SymbolReloc(2),
   [type |-> "other", index |-> 2, addend |-> FALSE]}
Tables == UNION {[1 .. n -> Relocs] : n \in {0, 2, 3}}

Several ==
  {[world |-> w, query |-> Asks("reloc", t, 0)] :
     w \in {v \in WorldsOf({a :> <<Weak(x), Strong(y)>> @@ b :> q @@ c :> <<>> :
                              q \in {<<>>, <<Strong(x)>>}},
                           {{a}}, {{}}, {{}, {y}}) :
             v.global = {} /\ v.order = <<a, b, c>> /\ v.deps[b] = <<>>
             /\ v.deps[a] \in {<<>>, <<b>>}},
     t \in Tables}

(* Nothing is looked for in dependencies.                                  *)
OfProgram ==
  {[world |-> w, query |-> Asks("main", <<>>, 0)] :
     w \in {v \in WorldsOf(Chains, {{}, {b}}, {{}}, {{}, {x}}) :
             v.deps[a] = <<>> /\ v.deps[b] = <<>>}}

OfHandle ==
  {[world |-> w, query |-> Asks("handle", <<>>, 0)] :
     w \in {v \in WorldsOf(Chains, {{}}, {{}}, {{}}) :
              v.global = {} /\ v.order = <<a, b, c>>}}

(* Objects of two units: a and b one behind the other, c apart from them   *)
(* or still being loaded, where its pages begin at 0.                      *)
Entries == {Symbol(x, FALSE, 0, 1), Symbol(x, FALSE, 1, 1), Symbol(y, FALSE, 1, 0),
            Symbol(y, TRUE, 0, 2)}
Tables2 == UNION {[1 .. n -> Entries] : n \in 0 .. 2}

OfAddress ==
  {[world |-> [order |-> o, global |-> {}, loading |-> l,
               deps |-> [h \in {a, b, c} |-> <<>>],
               chain |-> (a :> ta @@ b :> tb @@ c :> <<>>),
               resolver |-> {}, program |-> {},
               base |-> (a :> 3 @@ b :> 5 @@ c :> (IF l = {} THEN 8 ELSE 0)),
               size |-> (a :> 2 @@ b :> 2 @@ c :> 2)],
     query |-> Asks(kind, <<>>, addr)] :
     o \in {<<a, b, c>>, <<c, b, a>>}, l \in {{}, {c}}, ta \in Tables2,
     tb \in {<<>>, <<Symbol(x, FALSE, 0, 1)>>}, kind \in ByAddress,
     addr \in 0 .. 10}

AllSearches ==
  UNION {OneRelocation(n, Unresolvable(n) \cup Resolvable(n)) : n \in 1 .. 2}
  \cup Several \cup OfProgram \cup OfHandle \cup OfAddress
=============================================================================
