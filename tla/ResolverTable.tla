---------------------------- MODULE ResolverTable ----------------------------
(***************************************************************************)
(* The table of symbols that ResGen writes for a program, and the resolver *)
(* that searches it: SymTable.cpp puts the names one behind the other and  *)
(* their offsets into buckets, ResGenerator.cpp writes where each bucket   *)
(* begins and then the entries of all buckets, each bucket with an end     *)
(* mark, and RESOLVER_CODE walks over the entries of one bucket.           *)
(*                                                                         *)
(* Positions are counted in entries of two words.  The hash of the         *)
(* generator and that of the generated code (fnv) are the same function of *)
(* the name, about which nothing else is used.  Names are written as they  *)
(* are in the string table.                                                *)
(***************************************************************************)
EXTENDS FiniteSets, Integers, Sequences

CONSTANTS
  Symbol,       \* names of symbols
  Target,       \* names a symbol may be mapped to
  Defined,      \* those among them the program defines
  NoAddress,    \* the word 0
  Length,       \* Length[s]: number of characters of s
  Hash,         \* Hash[s]: the value of fnv for s
  BucketCount   \* BucketCount[n]: how many buckets n symbols get

ASSUME TableAssumption ==
  /\ IsFiniteSet(Symbol)
  /\ Length \in [Symbol -> Nat]
  /\ Hash \in [Symbol -> Nat]
  /\ BucketCount \in [0 .. Cardinality(Symbol) -> Nat]
  /\ \A n \in 1 .. Cardinality(Symbol) : BucketCount[n] > 0

VARIABLES
  pc,        \* what the generator, then the resolver, does
  symMap,    \* symMap[s]: the entry s is mapped to
  order,     \* the order in which an unordered_map is walked
  i,         \* index of the loop over order, or over the buckets
  k,         \* index of the loop over one bucket
  offset,    \* offset[s]: where s is in the string table
  end,       \* size of the string table
  buckets,   \* buckets[b]: offsets of the symbols of bucket b
  starts,    \* the words behind "buckets:"
  position,  \* where the next bucket starts
  entries,   \* the words behind "entries:"
  weak,      \* names that are declared weak
  asked,     \* the symbol the resolver is asked for
  ptr,       \* the entry it looks at
  answer     \* the address it returns

map == <<symMap, order>>
strings == <<offset, end>>
output == <<starts, position, entries, weak>>
search == <<asked, ptr, answer>>
tableVars == <<pc, map, i, k, strings, buckets, output, search>>

(* SymEntry, and SymMap: from some symbols to what they are mapped to.     *)
Mapped == [name : Target, weak : BOOLEAN]
SymMap == UNION {[S -> Mapped] : S \in SUBSET Symbol}

(* A map is walked in an order that depends on its implementation.         *)
Orders(S) ==
  {o \in [1 .. Cardinality(S) -> S] :
     \A s \in S : \E n \in 1 .. Cardinality(S) : o[n] = s}

EndMark == -1  \* 0xFFFFFFFF: the string table is smaller than that
End == [off |-> EndMark, name |-> NoAddress]

Empty == [x \in {} |-> x]

TableInit ==
  /\ pc = "idle"
  /\ symMap = Empty /\ order = Empty
  /\ i = 1 /\ k = 1
  /\ offset = Empty /\ end = 0
  /\ buckets = Empty
  /\ starts = <<>> /\ position = 0 /\ entries = <<>> /\ weak = {}
  /\ asked = NoAddress /\ ptr = 0 /\ answer = NoAddress

-----------------------------------------------------------------------------
(* The constructor of SymTable, for any map.                               *)
Generate ==
  /\ pc = "idle"
  /\ symMap' \in SymMap
  /\ order' \in Orders(DOMAIN symMap')
  /\ pc' = "strings"
  /\ UNCHANGED <<i, k, strings, buckets, output, search>>

(* SymTable::insertSymbol: the name and a zero.                            *)
InsertSymbol ==
  /\ pc = "strings" /\ i <= Len(order)
  /\ offset' = [s \in DOMAIN offset \cup {order[i]} |->
                  IF s = order[i] THEN end ELSE offset[s]]
  /\ end' = end + Length[order[i]] + 1
  /\ i' = i + 1
  /\ UNCHANGED <<pc, map, k, buckets, output, search>>

(* SymTable::genHashTable.                                                 *)
Size == BucketCount[Cardinality(DOMAIN symMap)]
Bucket(s) == Hash[s] % Size

MakeBuckets ==
  /\ pc = "strings" /\ i > Len(order)
  /\ buckets' = [b \in 0 .. Size - 1 |-> <<>>]
  /\ pc' = "hash" /\ i' = 1
  /\ UNCHANGED <<map, k, strings, output, search>>

FillBucket ==
  /\ pc = "hash" /\ i <= Len(order)
  /\ LET s == order[i]
     IN buckets' = [buckets EXCEPT ![Bucket(s)] = Append(@, offset[s])]
  /\ i' = i + 1
  /\ UNCHANGED <<pc, map, k, strings, output, search>>

BucketsFilled ==
  /\ pc = "hash" /\ i > Len(order)
  /\ pc' = "starts" /\ i' = 0
  /\ UNCHANGED <<map, k, strings, buckets, output, search>>

-----------------------------------------------------------------------------
(* ResGenerator::writeToFile.                                              *)
(* Mutant: the end mark of a bucket is not counted.                        *)
WriteStartShort ==
  /\ pc = "starts" /\ i < Size
  /\ starts' = Append(starts, position)
  /\ position' = position + Len(buckets[i])
  /\ i' = i + 1
  /\ UNCHANGED <<pc, map, k, strings, buckets, entries, weak, search>>

WriteStart ==
  /\ pc = "starts" /\ i < Size
  /\ starts' = Append(starts, position)
  /\ position' = position + Len(buckets[i]) + 1
  /\ i' = i + 1
  /\ UNCHANGED <<pc, map, k, strings, buckets, entries, weak, search>>

StartsWritten ==
  /\ pc = "starts" /\ i >= Size
  /\ pc' = "entries" /\ i' = 0
  /\ UNCHANGED <<map, k, strings, buckets, output, search>>

(* The string at an offset: that of strcmp, and the key of m_Mapped.       *)
StringAt(off) == CHOOSE s \in DOMAIN offset : offset[s] = off

(* Mutant: a weak entry is not declared.                                   *)
WriteEntryStrong ==
  /\ pc = "entries" /\ i < Size /\ k <= Len(buckets[i])
  /\ LET off == buckets[i][k]
         mapped == symMap[StringAt(off)]
     IN entries' = Append(entries, [off |-> off, name |-> mapped.name])
  /\ k' = k + 1
  /\ UNCHANGED <<pc, map, i, strings, buckets, starts, position, weak, search>>

WriteEntry ==
  /\ pc = "entries" /\ i < Size /\ k <= Len(buckets[i])
  /\ LET off == buckets[i][k]
         mapped == symMap[StringAt(off)]
     IN /\ entries' = Append(entries, [off |-> off, name |-> mapped.name])
        /\ weak' = IF mapped.weak THEN weak \cup {mapped.name} ELSE weak
  /\ k' = k + 1
  /\ UNCHANGED <<pc, map, i, strings, buckets, starts, position, search>>

WriteEnd ==
  /\ pc = "entries" /\ i < Size /\ k > Len(buckets[i])
  /\ entries' = Append(entries, End)
  /\ i' = i + 1 /\ k' = 1
  /\ UNCHANGED <<pc, map, strings, buckets, starts, position, weak, search>>

(* The file is assembled and linked: every name is defined or weak.        *)
Names == {symMap[s].name : s \in DOMAIN symMap}

Link ==
  /\ pc = "entries" /\ i >= Size
  /\ pc' = IF Names \subseteq Defined \cup weak THEN "linked" ELSE "unlinked"
  /\ UNCHANGED <<map, i, k, strings, buckets, output, search>>

-----------------------------------------------------------------------------
(* The resolver.                                                           *)
Ready == pc \in {"linked", "answered"}

Ask(s) ==
  /\ Ready /\ Size > 0
  /\ asked' = s
  /\ ptr' = starts[Bucket(s) + 1]
  /\ pc' = "probe"
  /\ UNCHANGED <<map, i, k, strings, buckets, output, answer>>

(* Without symbols there are no buckets: the hash is divided by zero.      *)
AskNothing(s) ==
  /\ Ready /\ Size = 0
  /\ asked' = s
  /\ pc' = "crashed"
  /\ UNCHANGED <<map, i, k, strings, buckets, output, ptr, answer>>

(* A weak name that the program does not define has address 0.             *)
AddressOf(name) == IF name \in Defined THEN name ELSE NoAddress

Here == entries[ptr + 1]

(* Mutant: the end mark is taken for an entry.                             *)
ProbePastEnd ==
  /\ pc = "probe"
  /\ ptr < Len(entries)
  /\ Here.off = EndMark \/ StringAt(Here.off) # asked
  /\ ptr' = ptr + 1
  /\ UNCHANGED <<pc, map, i, k, strings, buckets, output, asked, answer>>

(* Mutant: the search does not move on.                                    *)
ProbeStays ==
  /\ pc = "probe"
  /\ ptr < Len(entries)
  /\ Here.off # EndMark
  /\ StringAt(Here.off) # asked
  /\ UNCHANGED tableVars

Probe ==
  /\ pc = "probe"
  /\ ptr < Len(entries)
  /\ Here.off # EndMark
  /\ StringAt(Here.off) # asked
  /\ ptr' = ptr + 1
  /\ UNCHANGED <<pc, map, i, k, strings, buckets, output, asked, answer>>

(* At an entry with the name or at the end mark, whose second word is 0.   *)
Answer ==
  /\ pc = "probe"
  /\ ptr < Len(entries)
  /\ \/ Here.off = EndMark
     \/ Here.off # EndMark /\ StringAt(Here.off) = asked
  /\ answer' = AddressOf(Here.name)
  /\ pc' = "answered"
  /\ UNCHANGED <<map, i, k, strings, buckets, output, asked, ptr>>

Write ==
  \/ InsertSymbol \/ MakeBuckets \/ FillBucket \/ BucketsFilled
  \/ WriteStart \/ StartsWritten \/ WriteEntry \/ WriteEnd \/ Link

Question == \E s \in Symbol : Ask(s) \/ AskNothing(s)

Search == Probe \/ Answer

TableNext == Generate \/ Write \/ Question \/ Search

TableSpec == TableInit /\ [][TableNext]_tableVars

-----------------------------------------------------------------------------
Stages ==
  {"idle", "strings", "hash", "starts", "entries", "linked", "unlinked",
   "probe", "answered", "crashed"}

(* Types of the variables: the members of SymTable, what is written of     *)
(* them, and the registers of the resolver.                                *)
TableTypeOK ==
  /\ pc \in Stages
  /\ symMap \in SymMap
  /\ order \in Orders(DOMAIN symMap)
  /\ i \in Nat /\ k \in Nat \ {0}
  /\ DOMAIN offset \subseteq DOMAIN symMap
  /\ offset \in [DOMAIN offset -> Nat]
  /\ end \in Nat
  /\ buckets \in [DOMAIN buckets -> Seq(Nat)]
  /\ starts \in Seq(Nat) /\ position \in Nat
  /\ entries \in Seq([off : Nat \cup {EndMark}, name : Target \cup {NoAddress}])
  /\ weak \subseteq Target
  /\ asked \in Symbol \cup {NoAddress}
  /\ ptr \in Nat
  /\ answer \in Defined \cup {NoAddress}

(* What a question should be answered with.                                *)
Expected(s) ==
  IF s \in DOMAIN symMap THEN AddressOf(symMap[s].name) ELSE NoAddress

(* The resolver returns the address each symbol of the map is mapped to,   *)
(* and 0 for every other name, however the symbols are distributed over    *)
(* the buckets and in whatever order they were inserted (RESOLVER_CODE     *)
(* against the SymMap of Main.cpp).                                        *)
ResolverFaithful == pc = "answered" => answer = Expected(asked)

(* A search stays between the start of the bucket of its symbol and the    *)
(* end mark of that bucket, and divides by the number of buckets only if   *)
(* there are any, which is so if there are symbols.                        *)
SearchInBucket ==
  /\ pc = "probe" =>
       LET first == starts[Bucket(asked) + 1]
       IN ptr \in first .. first + Len(buckets[Bucket(asked)])
  /\ pc = "crashed" => DOMAIN symMap = {}
=============================================================================
