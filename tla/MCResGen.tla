------------------------------ MODULE MCResGen ------------------------------
(***************************************************************************)
(* Small instances of ResGen.  Names: a, b, c, d are needed by some input, *)
(* q never is; t and u are other names.  Patterns: one matches a, one all, *)
(* and one, partially, c.                                                  *)
(***************************************************************************)
EXTENDS ResGen, TLC

CONSTANTS a, b, c, d, q, t, u, onlyA, all, likeC

(* a, b and q hash to one bucket of two, c and d to the other one.         *)
Lengths == a :> 1 @@ b :> 1 @@ c :> 2 @@ d :> 1 @@ q :> 3
Hashes == a :> 4 @@ b :> 2 @@ c :> 1 @@ d :> 3 @@ q :> 0

BucketCounts == [n \in 0 .. Cardinality(Symbol) |-> BucketsFor(n)]

Keys == <<all, likeC, onlyA>>
FullMatches == {<<onlyA, a>>} \cup {<<all, s>> : s \in Symbol}
PartialMatches == {<<likeC, c>>}

List(lines) == [kind |-> "list", lines |-> lines]
Binary(found, imports) == [kind |-> "binary", table |-> found, syms |-> imports]
Import3(n, w, x) == [name |-> n, weak |-> w, undef |-> x]

Long == List(<<a, b, Blank, b>>)
Short == List(<<c>>)
Bad == List(<<a, Garbled>>)
Full ==
  Binary("found", <<Import3(q, FALSE, FALSE), Import3(a, TRUE, TRUE),
                    Import3(c, TRUE, TRUE), Import3(d, FALSE, TRUE),
                    Import3(d, TRUE, TRUE)>>)
Stripped == Binary("none", <<>>)
Torn == Binary("broken", <<>>)
Cut == Binary("cut", <<Import3(a, FALSE, TRUE)>>)
Nameless == Binary("unnamed", <<Import3(a, FALSE, TRUE)>>)

R(n, w, x, p) == [name |-> n, weak |-> w, exclude |-> x, partial |-> p, valid |-> TRUE]
Keep == R(Unnamed, FALSE, FALSE, FALSE)
File(r) == [object |-> TRUE, rules |-> r]

Rename == File(onlyA :> R(t, FALSE, FALSE, FALSE) @@ likeC :> R(u, TRUE, FALSE, TRUE))
Exclude == File(all :> R(Unnamed, FALSE, TRUE, FALSE))
Weaken == File(onlyA :> R(u, TRUE, FALSE, FALSE) @@ all :> R(Unnamed, TRUE, FALSE, FALSE))
Literal == File(likeC :> R(t, FALSE, TRUE, FALSE))
Invalid == File(onlyA :> [Keep EXCEPT !.valid = FALSE])
NoObject == [object |-> FALSE, rules |-> Empty]

InputSets ==
  {{Long, Cut}, {Full}, {Long, Full}, {Long, Short, Full}, {Stripped}, {Bad, Full},
   {Short, Torn}, {Nameless}, {Short, [kind |-> "missing"]}}
RuleSets ==
  {{}, {Rename}, {Exclude}, {Weaken}, {Rename, Exclude}, {Rename, Weaken},
   {Rename, Literal}, {Rename, Invalid}, {Literal, NoObject}}

CommandLines == [inputs : InputSets, rules : RuleSets]
=============================================================================
