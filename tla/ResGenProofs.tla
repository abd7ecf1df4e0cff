---------------------------- MODULE ResGenProofs ----------------------------
(***************************************************************************)
(* Proofs about ResolverTable, for any symbols, any hash and any number of *)
(* buckets: the resolver answers every question as the map says, and never *)
(* leaves the bucket of the symbol.  ResGen as a whole implements the      *)
(* table, so that the same holds of the program it generates for; and the  *)
(* map is what the rules say, in whatever order files are read, and the    *)
(* program links as the rules promise.                                     *)
(***************************************************************************)
EXTENDS ResGen, FiniteSetTheorems, TLAPS

Hashed == pc \notin {"idle", "strings"}
Filled == Hashed /\ pc # "hash"
Placed == Filled /\ pc # "starts"
Written == pc \in {"linked", "unlinked", "probe", "answered", "crashed"}

(* Strings do not overlap, and all symbols get one.                        *)
StringsInv ==
  /\ pc = "idle" => i = 1 /\ DOMAIN symMap = {}
  /\ pc \in {"idle", "strings"} => i > 0
  /\ \A s, x \in DOMAIN offset : offset[s] = offset[x] => s = x
  /\ \A s \in DOMAIN offset : offset[s] < end
  /\ pc = "strings" =>
       \A n \in 1 .. Len(order) : n < i => order[n] \in DOMAIN offset
  /\ Hashed => \A s \in DOMAIN symMap : s \in DOMAIN offset

(* A bucket holds offsets of symbols with its hash, and in the end of all. *)
Held(s) == \E n \in 1 .. Len(buckets[Bucket(s)]) : buckets[Bucket(s)][n] = offset[s]

BucketsInv ==
  Hashed =>
    /\ buckets \in [0 .. Size - 1 -> Seq(Nat)]
    /\ \A b \in 0 .. Size - 1 : \A n \in 1 .. Len(buckets[b]) :
         \E s \in DOMAIN symMap : offset[s] = buckets[b][n]
    /\ pc = "hash" =>
         i > 0 /\ \A n \in 1 .. Len(order) : n < i => Held(order[n])
    /\ Filled => \A s \in DOMAIN symMap : Held(s)

(* Buckets lie one behind the other, each with room for its end mark.      *)
StartsInv ==
  /\ pc \in {"idle", "strings", "hash"} => starts = <<>> /\ position = 0
  /\ pc = "starts" => i <= Size /\ Len(starts) = i
  /\ Placed => Len(starts) = Size
  /\ Len(starts) = 0 => position = 0
  /\ Len(starts) > 0 => starts[1] = 0
  /\ Filled =>
       /\ \A n \in 1 .. Len(starts) :
            IF n = Len(starts)
            THEN position = starts[n] + Len(buckets[n - 1]) + 1
            ELSE starts[n + 1] = starts[n] + Len(buckets[n - 1]) + 1
       /\ \A n, m \in 1 .. Len(starts) :
            n < m => starts[n] + Len(buckets[n - 1]) + 1 <= starts[m]
       /\ \A n \in 1 .. Len(starts) : starts[n] + Len(buckets[n - 1]) + 1 <= position

(* The nth entry of bucket b is that of the symbol whose offset it holds.  *)
EntryAt(b, n) ==
  \A s \in DOMAIN symMap :
    offset[s] = buckets[b][n] =>
      entries[starts[b + 1] + n] = [off |-> offset[s], name |-> symMap[s].name]

EntriesInv ==
  /\ ~Placed => entries = <<>> /\ k = 1
  /\ Placed =>
       /\ i <= Size
       /\ i < Size => /\ k <= Len(buckets[i]) + 1
                      /\ Len(entries) = starts[i + 1] + k - 1
                      /\ \A n \in 1 .. k - 1 : EntryAt(i, n)
       /\ i = Size => Len(entries) = position
       /\ \A b \in 0 .. Size - 1 :
            b < i => /\ \A n \in 1 .. Len(buckets[b]) : EntryAt(b, n)
                     /\ entries[starts[b + 1] + Len(buckets[b]) + 1] = End
  /\ Written => i = Size

(* No entry that the search passed is that of the symbol.                  *)
SearchInv ==
  /\ pc = "probe" =>
       /\ asked \in Symbol
       /\ Size > 0
       /\ ptr >= starts[Bucket(asked) + 1]
       /\ ptr <= starts[Bucket(asked) + 1] + Len(buckets[Bucket(asked)])
       /\ asked \in DOMAIN symMap =>
            \A n \in 1 .. Len(buckets[Bucket(asked)]) :
              n <= ptr - starts[Bucket(asked) + 1] =>
                buckets[Bucket(asked)][n] # offset[asked]
  /\ pc = "answered" => answer = Expected(asked)
  /\ pc = "crashed" => Size = 0

TableInv ==
  /\ TableTypeOK /\ StringsInv /\ BucketsInv
  /\ StartsInv /\ EntriesInv /\ SearchInv

-----------------------------------------------------------------------------
(* What the types say of the map: it is finite, its order lists it, and    *)
(* there are buckets if there are symbols.                                 *)
LEMMA MapFacts ==
  ASSUME TableTypeOK
  PROVE  /\ DOMAIN symMap \subseteq Symbol
         /\ symMap \in [DOMAIN symMap -> Mapped]
         /\ Len(order) \in Nat
         /\ \A n \in 1 .. Len(order) : order[n] \in DOMAIN symMap
         /\ \A s \in DOMAIN symMap : \E n \in 1 .. Len(order) : order[n] = s
         /\ Size \in Nat
         /\ DOMAIN symMap # {} => Size > 0
         /\ Size > 0 => \A s \in Symbol : Bucket(s) \in 0 .. Size - 1
<1> DEFINE S == DOMAIN symMap
<1>1. S \subseteq Symbol /\ symMap \in [S -> Mapped]
  BY DEF TableTypeOK, SymMap
<1>2. IsFiniteSet(S) /\ Cardinality(S) \in Nat /\ Cardinality(Symbol) \in Nat
      /\ Cardinality(S) <= Cardinality(Symbol)
  BY <1>1, TableAssumption, FS_Subset, FS_CardinalityType
<1>3. order \in [1 .. Cardinality(S) -> S]
      /\ \A s \in S : \E n \in 1 .. Cardinality(S) : order[n] = s
  BY DEF TableTypeOK, Orders
<1>4. Len(order) = Cardinality(S)
  BY <1>2, <1>3
<1>5. Size \in Nat
  BY <1>2, TableAssumption DEF Size
<1>6. S # {} => Size > 0
  BY <1>2, TableAssumption, FS_EmptySet DEF Size
<1>7. Size > 0 => \A s \in Symbol : Bucket(s) \in 0 .. Size - 1
  BY <1>5, TableAssumption DEF Bucket
<1> HIDE DEF S
<1> QED BY <1>1, <1>2, <1>3, <1>4, <1>5, <1>6, <1>7 DEF S

(* A string is found by its offset.                                        *)
LEMMA StringFound ==
  ASSUME StringsInv, NEW s \in DOMAIN offset
  PROVE  StringAt(offset[s]) = s
BY DEF StringAt, StringsInv

(* The entry that a search looks at is the end mark of its bucket or one   *)
(* of its symbols.                                                         *)
LEMMA EntryHere ==
  ASSUME TableInv, pc = "probe"
  PROVE  LET b == Bucket(asked)
             n == ptr - starts[b + 1] + 1
         IN /\ n \in 1 .. Len(buckets[b]) + 1
            /\ n = Len(buckets[b]) + 1 => Here = End
            /\ n <= Len(buckets[b]) =>
                 \E s \in DOMAIN symMap :
                   /\ offset[s] = buckets[b][n] /\ offset[s] \in Nat
                   /\ StringAt(offset[s]) = s
                   /\ Here = [off |-> offset[s], name |-> symMap[s].name]
<1> DEFINE b == Bucket(asked)
           n == ptr - starts[b + 1] + 1
<1>1. b \in 0 .. Size - 1 /\ Size \in Nat
  BY MapFacts DEF TableInv, SearchInv
<1>2. buckets[b] \in Seq(Nat) /\ Len(buckets[b]) \in Nat
  BY <1>1 DEF TableInv, BucketsInv, Hashed
<1>3. Len(starts) = Size /\ starts \in Seq(Nat)
  BY DEF TableInv, StartsInv, Placed, Filled, Hashed, TableTypeOK
<1>4. starts[b + 1] \in Nat /\ ptr \in Nat
  BY <1>1, <1>3 DEF TableInv, TableTypeOK
<1>5. n \in 1 .. Len(buckets[b]) + 1 /\ ptr + 1 = starts[b + 1] + n
  BY <1>2, <1>4 DEF TableInv, SearchInv
<1>6. i = Size /\ b < i
  BY <1>1 DEF TableInv, EntriesInv, Written
<1>7. n = Len(buckets[b]) + 1 => Here = End
  <2> SUFFICES ASSUME n = Len(buckets[b]) + 1 PROVE Here = End
    OBVIOUS
  <2>1. entries[starts[b + 1] + Len(buckets[b]) + 1] = End
    BY <1>1, <1>6 DEF TableInv, EntriesInv, Placed, Filled, Hashed
  <2>2. ptr + 1 = starts[b + 1] + Len(buckets[b]) + 1
    BY <1>2, <1>4, <1>5
  <2> QED BY <2>1, <2>2 DEF Here
<1>8. ASSUME n <= Len(buckets[b])
      PROVE  \E s \in DOMAIN symMap :
               /\ offset[s] = buckets[b][n] /\ offset[s] \in Nat
               /\ StringAt(offset[s]) = s
               /\ Here = [off |-> offset[s], name |-> symMap[s].name]
  <2>1. n \in 1 .. Len(buckets[b])
    BY <1>2, <1>5, <1>8
  <2>2. EntryAt(b, n)
    BY <1>1, <1>6, <2>1 DEF TableInv, EntriesInv, Placed, Filled, Hashed
  <2>3. PICK s \in DOMAIN symMap : offset[s] = buckets[b][n]
    BY <1>1, <2>1 DEF TableInv, BucketsInv, Hashed
  <2>4. s \in DOMAIN offset /\ offset[s] \in Nat
    BY DEF TableInv, StringsInv, Hashed, TableTypeOK
  <2>5. StringAt(offset[s]) = s
    BY <2>4, StringFound DEF TableInv
  <2>6. Here = [off |-> offset[s], name |-> symMap[s].name]
    BY <1>5, <2>2, <2>3 DEF EntryAt, Here
  <2> QED BY <2>3, <2>4, <2>5, <2>6
<1> QED BY <1>5, <1>7, <1>8

-----------------------------------------------------------------------------
LEMMA InitInv == TableInit => TableInv
<1> SUFFICES ASSUME TableInit PROVE TableInv
  OBVIOUS
<1>1. Empty = [x \in {} |-> x] /\ DOMAIN Empty = {}
  BY DEF Empty
<1>2. symMap \in SymMap
  <2>1. symMap \in [{} -> Mapped]
    BY DEF TableInit, Empty
  <2> QED BY <2>1 DEF SymMap
<1>3. order \in Orders(DOMAIN symMap)
  <2>1. DOMAIN symMap = {} /\ order = Empty
    BY <1>1 DEF TableInit
  <2>2. Cardinality(DOMAIN symMap) = 0 /\ 1 .. 0 = {}
    BY <2>1, FS_EmptySet
  <2>3. order \in [{} -> DOMAIN symMap]
    BY <2>1 DEF Empty
  <2>4. order \in [1 .. Cardinality(DOMAIN symMap) -> DOMAIN symMap]
    BY <2>2, <2>3
  <2> QED BY <2>1, <2>4 DEF Orders
<1>4. TableTypeOK
  BY <1>1, <1>2, <1>3 DEF TableInit, TableTypeOK, Stages, Empty
<1>5. StringsInv /\ BucketsInv /\ StartsInv /\ EntriesInv /\ SearchInv
  BY <1>1
  DEF TableInit, StringsInv, BucketsInv, StartsInv, EntriesInv, SearchInv,
      Hashed, Filled, Placed, Written
<1> QED BY <1>4, <1>5 DEF TableInv

(* What every step but the first leaves alone, and what follows from it.   *)
LEMMA SameMap ==
  ASSUME UNCHANGED map
  PROVE  /\ symMap' = symMap /\ order' = order
         /\ Size' = Size
         /\ \A s : Bucket(s)' = Bucket(s)
BY DEF map, Size, Bucket

LEMMA GenerateKeeps == TableInv /\ Generate => TableInv'
<1> SUFFICES ASSUME TableInv, Generate PROVE TableInv'
  OBVIOUS
<1> USE DEF strings, output, search
<1>1. pc = "idle" /\ pc' = "strings" /\ i' = i /\ i = 1
      /\ offset' = offset /\ DOMAIN offset = {} /\ end' = end
  BY DEF Generate, TableInv, StringsInv, TableTypeOK
<1>2. TableTypeOK'
  BY <1>1 DEF Generate, TableInv, TableTypeOK, Stages
<1>3. StringsInv'
  BY <1>1 DEF StringsInv, Hashed
<1>4. BucketsInv' /\ StartsInv' /\ EntriesInv' /\ SearchInv'
  BY <1>1
  DEF Generate, TableInv, BucketsInv, StartsInv, EntriesInv, SearchInv,
      Hashed, Filled, Placed, Written
<1> QED BY <1>2, <1>3, <1>4 DEF TableInv

LEMMA InsertSymbolKeeps == TableInv /\ InsertSymbol => TableInv'
<1> SUFFICES ASSUME TableInv, InsertSymbol PROVE TableInv'
  OBVIOUS
<1> USE DEF strings, output, search
<1>1. /\ pc = "strings" /\ pc' = "strings"
      /\ symMap' = symMap /\ order' = order
      /\ i \in Nat /\ i > 0 /\ i <= Len(order) /\ i' = i + 1
      /\ end \in Nat /\ end' = end + Length[order[i]] + 1
  BY DEF InsertSymbol, map, TableInv, TableTypeOK, StringsInv
<1>2. order[i] \in DOMAIN symMap /\ DOMAIN symMap \subseteq Symbol
      /\ Len(order) \in Nat
  BY <1>1, MapFacts DEF TableInv
<1>3. Length[order[i]] \in Nat
  BY <1>2, TableAssumption
<1>4. /\ DOMAIN offset' = DOMAIN offset \cup {order[i]}
      /\ \A s \in DOMAIN offset' :
           offset'[s] = IF s = order[i] THEN end ELSE offset[s]
      /\ offset' = [s \in DOMAIN offset' |-> offset'[s]]
  BY DEF InsertSymbol
<1>5. /\ DOMAIN offset \subseteq DOMAIN symMap
      /\ \A s \in DOMAIN offset : offset[s] \in Nat /\ offset[s] < end
      /\ \A s, x \in DOMAIN offset : offset[s] = offset[x] => s = x
      /\ \A n \in 1 .. Len(order) : n < i => order[n] \in DOMAIN offset
  BY <1>1 DEF TableInv, TableTypeOK, StringsInv
<1>6. TableTypeOK'
  <2>1. DOMAIN offset' \subseteq DOMAIN symMap' /\ offset' \in [DOMAIN offset' -> Nat]
    BY <1>1, <1>2, <1>4, <1>5
  <2>2. i' \in Nat /\ end' \in Nat
    BY <1>1, <1>3
  <2> QED BY <1>1, <2>1, <2>2 DEF InsertSymbol, TableInv, TableTypeOK
<1>7. StringsInv'
  <2>1. \A s, x \in DOMAIN offset' : offset'[s] = offset'[x] => s = x
    BY <1>1, <1>4, <1>5
  <2>2. \A s \in DOMAIN offset' : offset'[s] < end'
    BY <1>1, <1>3, <1>4, <1>5
  <2>3. \A n \in 1 .. Len(order') : n < i' => order'[n] \in DOMAIN offset'
    BY <1>1, <1>2, <1>4, <1>5
  <2>4. i' > 0
    BY <1>1
  <2> QED BY <1>1, <2>1, <2>2, <2>3, <2>4 DEF StringsInv, Hashed
<1>8. BucketsInv' /\ StartsInv' /\ EntriesInv' /\ SearchInv'
  BY <1>1
  DEF InsertSymbol, TableInv, BucketsInv, StartsInv, EntriesInv, SearchInv,
      Hashed, Filled, Placed, Written
<1> QED BY <1>6, <1>7, <1>8 DEF TableInv

LEMMA MakeBucketsKeeps == TableInv /\ MakeBuckets => TableInv'
<1> SUFFICES ASSUME TableInv, MakeBuckets PROVE TableInv'
  OBVIOUS
<1> USE DEF strings, output, search
<1>1. /\ pc = "strings" /\ pc' = "hash" /\ i' = 1 /\ i > Len(order)
      /\ symMap' = symMap /\ order' = order /\ Size' = Size
      /\ offset' = offset /\ end' = end
      /\ buckets' = [b \in 0 .. Size - 1 |-> <<>>]
  BY SameMap DEF MakeBuckets, map
<1>2. TableTypeOK'
  <2>1. buckets' \in [DOMAIN buckets' -> Seq(Nat)]
    BY <1>1
  <2> QED BY <1>1, <2>1 DEF MakeBuckets, TableInv, TableTypeOK, Stages
<1>3. StringsInv'
  <2>1. i \in Nat /\ Len(order) \in Nat
        /\ \A s \in DOMAIN symMap : \E n \in 1 .. Len(order) : order[n] = s
        /\ DOMAIN offset \subseteq DOMAIN symMap
    BY MapFacts DEF TableInv, TableTypeOK
  <2>2. \A n \in 1 .. Len(order) : order[n] \in DOMAIN offset
    <3> SUFFICES ASSUME NEW n \in 1 .. Len(order) PROVE order[n] \in DOMAIN offset
      OBVIOUS
    <3>1. n < i
      BY <1>1, <2>1
    <3> QED BY <1>1, <3>1 DEF TableInv, StringsInv
  <2>3. \A s \in DOMAIN symMap : s \in DOMAIN offset
    BY <2>1, <2>2
  <2> QED BY <1>1, <2>3 DEF TableInv, StringsInv, Hashed
<1>4. BucketsInv'
  BY <1>1 DEF BucketsInv, Hashed, Filled
<1>5. StartsInv' /\ EntriesInv' /\ SearchInv'
  BY <1>1
  DEF MakeBuckets, TableInv, StartsInv, EntriesInv, SearchInv,
      Hashed, Filled, Placed, Written
<1> QED BY <1>2, <1>3, <1>4, <1>5 DEF TableInv

LEMMA FillBucketKeeps == TableInv /\ FillBucket => TableInv'
<1> SUFFICES ASSUME TableInv, FillBucket PROVE TableInv'
  OBVIOUS
<1> USE DEF strings, output, search
<1> DEFINE s == order[i]
           b == Bucket(s)
<1>1. /\ pc = "hash" /\ pc' = "hash" /\ i' = i + 1 /\ i \in Nat /\ i > 0
      /\ i <= Len(order) /\ Len(order) \in Nat
      /\ symMap' = symMap /\ order' = order /\ Size' = Size
      /\ offset' = offset /\ end' = end
      /\ \A x : Bucket(x)' = Bucket(x)
  BY SameMap, MapFacts
  DEF FillBucket, map, TableInv, TableTypeOK, BucketsInv, Hashed
<1>2. s \in DOMAIN symMap /\ s \in Symbol /\ Size \in Nat /\ b \in 0 .. Size - 1
  <2>1. s \in DOMAIN symMap /\ s \in Symbol
    BY <1>1, MapFacts DEF TableInv
  <2>2. Size \in Nat /\ Size > 0
    BY <2>1, MapFacts DEF TableInv
  <2> QED BY <2>1, <2>2, MapFacts DEF TableInv
<1>3. s \in DOMAIN offset /\ offset[s] \in Nat
  BY <1>1, <1>2 DEF TableInv, StringsInv, Hashed, TableTypeOK
<1>4. /\ buckets \in [0 .. Size - 1 -> Seq(Nat)]
      /\ \A c \in 0 .. Size - 1 : \A n \in 1 .. Len(buckets[c]) :
           \E x \in DOMAIN symMap : offset[x] = buckets[c][n]
      /\ \A n \in 1 .. Len(order) : n < i => Held(order[n])
  BY <1>1 DEF TableInv, BucketsInv, Hashed
<1>5. /\ buckets' \in [0 .. Size - 1 -> Seq(Nat)]
      /\ \A c \in 0 .. Size - 1 :
           buckets'[c] = IF c = b THEN Append(buckets[b], offset[s]) ELSE buckets[c]
  <2>1. buckets' = [buckets EXCEPT ![b] = Append(buckets[b], offset[s])]
    BY DEF FillBucket
  <2>2. buckets[b] \in Seq(Nat) /\ Append(buckets[b], offset[s]) \in Seq(Nat)
    BY <1>2, <1>3, <1>4
  <2> HIDE DEF b, s
  <2> QED BY <1>2, <1>4, <2>1, <2>2
<1>6. \A c \in 0 .. Size - 1 :
        /\ Len(buckets[c]) \in Nat /\ Len(buckets'[c]) \in Nat
        /\ Len(buckets'[c]) >= Len(buckets[c])
        /\ \A n \in 1 .. Len(buckets[c]) : buckets'[c][n] = buckets[c][n]
  <2> SUFFICES ASSUME NEW c \in 0 .. Size - 1
               PROVE  /\ Len(buckets[c]) \in Nat /\ Len(buckets'[c]) \in Nat
                      /\ Len(buckets'[c]) >= Len(buckets[c])
                      /\ \A n \in 1 .. Len(buckets[c]) : buckets'[c][n] = buckets[c][n]
    OBVIOUS
  <2>1. buckets[c] \in Seq(Nat)
    BY <1>4
  <2> HIDE DEF b, s
  <2>2. CASE c = b
    <3>1. PICK u \in Seq(Nat), x \in Nat : u = buckets[c] /\ x = offset[s]
      BY <1>3, <2>1
    <3>2. buckets'[c] = Append(u, x)
      BY <1>5, <2>2, <3>1
    <3>3. /\ Len(Append(u, x)) = Len(u) + 1
          /\ \A n \in 1 .. Len(u) : Append(u, x)[n] = u[n]
      OBVIOUS
    <3> QED BY <3>1, <3>2, <3>3
  <2>3. CASE c # b
    BY <1>5, <2>1, <2>3
  <2> QED BY <2>2, <2>3
<1>7. Len(buckets'[b]) = Len(buckets[b]) + 1
      /\ buckets'[b][Len(buckets[b]) + 1] = offset[s]
  BY <1>2, <1>3, <1>4, <1>5
<1>8. TableTypeOK'
  <2>1. buckets' \in [DOMAIN buckets' -> Seq(Nat)]
    BY <1>5
  <2> QED BY <1>1, <2>1 DEF FillBucket, map, TableInv, TableTypeOK, Stages
<1>9. StringsInv'
  BY <1>1 DEF TableInv, StringsInv, Hashed
<1>10. BucketsInv'
  <2>1. \A c \in 0 .. Size - 1 : \A n \in 1 .. Len(buckets'[c]) :
          \E x \in DOMAIN symMap : offset[x] = buckets'[c][n]
    <3> SUFFICES ASSUME NEW c \in 0 .. Size - 1, NEW n \in 1 .. Len(buckets'[c])
                 PROVE  \E x \in DOMAIN symMap : offset[x] = buckets'[c][n]
      OBVIOUS
    <3> HIDE DEF b, s
    <3>1. CASE n \in 1 .. Len(buckets[c])
      BY <1>4, <1>6, <3>1
    <3>2. CASE n \notin 1 .. Len(buckets[c])
      <4>1. c = b
        BY <1>5, <3>2
      <4>2. n = Len(buckets[b]) + 1
        BY <1>2, <1>6, <1>7, <3>2, <4>1
      <4> QED BY <1>2, <1>7, <4>1, <4>2
    <3> QED BY <3>1, <3>2
  <2>2. \A n \in 1 .. Len(order) : n < i' => Held(order[n])'
    <3> SUFFICES ASSUME NEW n \in 1 .. Len(order), n < i + 1
                 PROVE  \E m \in 1 .. Len(buckets'[Bucket(order[n])]) :
                          buckets'[Bucket(order[n])][m] = offset[order[n]]
      BY <1>1 DEF Held
    <3>1. CASE n = i
      <4>1. Len(buckets[b]) + 1 \in 1 .. Len(buckets'[b])
        BY <1>2, <1>6, <1>7
      <4> QED BY <1>7, <3>1, <4>1
    <3>2. CASE n < i
      <4>1. PICK m \in 1 .. Len(buckets[Bucket(order[n])]) :
              buckets[Bucket(order[n])][m] = offset[order[n]]
        BY <1>4, <3>2 DEF Held
      <4>2. order[n] \in DOMAIN symMap /\ order[n] \in Symbol
        BY MapFacts DEF TableInv
      <4>3. Bucket(order[n]) \in 0 .. Size - 1
        BY <4>2, MapFacts DEF TableInv
      <4> HIDE DEF b, s
      <4>4. m \in 1 .. Len(buckets'[Bucket(order[n])])
            /\ buckets'[Bucket(order[n])][m] = buckets[Bucket(order[n])][m]
        BY <1>6, <4>1, <4>3
      <4> QED BY <4>1, <4>4
    <3> QED BY <1>1, <3>1, <3>2
  <2>3. i' > 0
    BY <1>1
  <2> QED BY <1>1, <1>5, <2>1, <2>2, <2>3 DEF BucketsInv, Hashed, Filled
<1>11. StartsInv' /\ EntriesInv' /\ SearchInv'
  BY <1>1
  DEF FillBucket, TableInv, StartsInv, EntriesInv, SearchInv,
      Hashed, Filled, Placed, Written
<1> QED BY <1>8, <1>9, <1>10, <1>11 DEF TableInv

LEMMA BucketsFilledKeeps == TableInv /\ BucketsFilled => TableInv'
<1> SUFFICES ASSUME TableInv, BucketsFilled PROVE TableInv'
  OBVIOUS
<1> USE DEF strings, output, search
<1>1. /\ pc = "hash" /\ pc' = "starts" /\ i' = 0 /\ i \in Nat
      /\ i > Len(order)
      /\ symMap' = symMap /\ order' = order /\ Size' = Size
      /\ offset' = offset /\ end' = end /\ buckets' = buckets
      /\ \A x : Bucket(x)' = Bucket(x)
  BY SameMap DEF BucketsFilled, map, TableInv, TableTypeOK
<1>2. TableTypeOK'
  BY <1>1 DEF BucketsFilled, TableInv, TableTypeOK, Stages
<1>3. StringsInv'
  BY <1>1 DEF TableInv, StringsInv, Hashed
<1>4. BucketsInv'
  <2>1. \A s \in DOMAIN symMap : Held(s)
    <3> SUFFICES ASSUME NEW s \in DOMAIN symMap PROVE Held(s)
      OBVIOUS
    <3>1. PICK n \in 1 .. Len(order) : order[n] = s
      BY MapFacts DEF TableInv
    <3>2. n < i
      BY <1>1, MapFacts DEF TableInv
    <3> QED BY <1>1, <3>1, <3>2 DEF TableInv, BucketsInv, Hashed
  <2>2. \A s \in DOMAIN symMap : Held(s)'
    BY <1>1, <2>1 DEF Held
  <2> QED BY <1>1, <2>2 DEF TableInv, BucketsInv, Hashed, Filled
<1>5. StartsInv'
  <2>1. Len(<<>>) = 0 /\ starts' = <<>> /\ position' = 0
    BY <1>1 DEF BucketsFilled, TableInv, StartsInv
  <2>2. Size \in Nat
    BY MapFacts DEF TableInv
  <2> QED BY <1>1, <2>1, <2>2 DEF StartsInv, Hashed, Filled, Placed
<1>6. EntriesInv' /\ SearchInv'
  BY <1>1
  DEF BucketsFilled, TableInv, EntriesInv, SearchInv,
      Hashed, Filled, Placed, Written
<1> QED BY <1>2, <1>3, <1>4, <1>5, <1>6 DEF TableInv

-----------------------------------------------------------------------------
(* The table does not change while it is written and searched ...          *)
LEMMA SameTable ==
  ASSUME TableInv, Filled, Filled', UNCHANGED <<map, strings, buckets>>
  PROVE  /\ StringsInv' /\ BucketsInv'
         /\ symMap' = symMap /\ order' = order /\ Size' = Size
         /\ offset' = offset /\ end' = end /\ buckets' = buckets
         /\ \A x : Bucket(x)' = Bucket(x)
<1>1. /\ symMap' = symMap /\ order' = order /\ Size' = Size
      /\ offset' = offset /\ end' = end /\ buckets' = buckets
      /\ \A x : Bucket(x)' = Bucket(x)
  BY SameMap DEF strings
<1>2. StringsInv'
  BY <1>1 DEF TableInv, StringsInv, Filled, Hashed
<1>3. BucketsInv'
  <2>1. \A s \in DOMAIN symMap : Held(s)'
    BY <1>1 DEF TableInv, BucketsInv, Held, Filled, Hashed
  <2> QED BY <1>1, <2>1 DEF TableInv, BucketsInv, Filled, Hashed
<1> QED BY <1>1, <1>2, <1>3

(* ... nor does what is written, once all of it is.                        *)
LEMMA SameOutput ==
  ASSUME TableInv, Written, Written', UNCHANGED <<map, strings, buckets, i, k, output>>
  PROVE  /\ StringsInv' /\ BucketsInv' /\ StartsInv' /\ EntriesInv'
         /\ symMap' = symMap /\ Size' = Size /\ offset' = offset
         /\ buckets' = buckets /\ starts' = starts
         /\ \A x : Bucket(x)' = Bucket(x)
<1>1. Placed /\ Placed' /\ Filled /\ Filled' /\ Hashed /\ Hashed'
  BY DEF Written, Placed, Filled, Hashed
<1>2. /\ StringsInv' /\ BucketsInv'
      /\ symMap' = symMap /\ order' = order /\ Size' = Size
      /\ offset' = offset /\ end' = end /\ buckets' = buckets
      /\ \A x : Bucket(x)' = Bucket(x)
  BY <1>1, SameTable
<1>3. /\ i' = i /\ k' = k /\ starts' = starts /\ position' = position
      /\ entries' = entries
  BY DEF output
<1>4. StartsInv'
  BY <1>1, <1>2, <1>3 DEF TableInv, StartsInv, Placed, Filled, Hashed
<1>5. EntriesInv'
  BY <1>1, <1>2, <1>3 DEF TableInv, EntriesInv, EntryAt
<1> QED BY <1>2, <1>3, <1>4, <1>5

LEMMA WriteStartKeeps == TableInv /\ WriteStart => TableInv'
<1> SUFFICES ASSUME TableInv, WriteStart PROVE TableInv'
  OBVIOUS
<1>1. /\ pc = "starts" /\ pc' = "starts" /\ i \in Nat /\ i < Size /\ i' = i + 1
      /\ Size \in Nat /\ position \in Nat /\ starts \in Seq(Nat)
      /\ starts' = Append(starts, position)
      /\ position' = position + Len(buckets[i]) + 1
      /\ entries' = entries /\ k' = k
  BY MapFacts DEF WriteStart, TableInv, TableTypeOK
<1>2. /\ StringsInv' /\ BucketsInv'
      /\ symMap' = symMap /\ order' = order /\ Size' = Size
      /\ offset' = offset /\ end' = end /\ buckets' = buckets
  BY <1>1, SameTable DEF WriteStart, Filled, Hashed
<1>3. \A c \in 0 .. Size - 1 : Len(buckets[c]) \in Nat
  BY <1>1 DEF TableInv, BucketsInv, Hashed
<1>4. Len(buckets[i]) \in Nat
  BY <1>1, <1>3
<1>5. TableTypeOK'
  <2>1. position' \in Nat /\ starts' \in Seq(Nat) /\ i' \in Nat
    BY <1>1, <1>4
  <2> QED BY <1>1, <1>2, <2>1 DEF WriteStart, search, TableInv, TableTypeOK, Stages
<1>6. /\ Len(starts) = i
      /\ Len(starts) = 0 => position = 0
      /\ Len(starts) > 0 => starts[1] = 0
      /\ \A n \in 1 .. Len(starts) :
           IF n = Len(starts)
           THEN position = starts[n] + Len(buckets[n - 1]) + 1
           ELSE starts[n + 1] = starts[n] + Len(buckets[n - 1]) + 1
      /\ \A n, m \in 1 .. Len(starts) :
           n < m => starts[n] + Len(buckets[n - 1]) + 1 <= starts[m]
      /\ \A n \in 1 .. Len(starts) : starts[n] + Len(buckets[n - 1]) + 1 <= position
  BY <1>1 DEF TableInv, StartsInv, Filled, Hashed
<1>7. /\ Len(starts') = i + 1
      /\ starts'[i + 1] = position
      /\ \A n \in 1 .. i : starts'[n] = starts[n]
  BY <1>1, <1>6
<1>8. \A n \in 1 .. i : Len(buckets[n - 1]) \in Nat /\ starts[n] \in Nat
  BY <1>1, <1>3, <1>6
<1>9. i \in Nat /\ i' = i + 1
  BY <1>1
<1>10. StartsInv'
  <2>1. Len(starts') > 0 /\ starts'[1] = 0
    BY <1>1, <1>6, <1>7
  <2>2. \A n \in 1 .. i + 1 :
          IF n = i + 1
          THEN position' = starts'[n] + Len(buckets[n - 1]) + 1
          ELSE starts'[n + 1] = starts'[n] + Len(buckets[n - 1]) + 1
    <3> SUFFICES ASSUME NEW n \in 1 .. i + 1
                 PROVE  IF n = i + 1
                        THEN position' = starts'[n] + Len(buckets[n - 1]) + 1
                        ELSE starts'[n + 1] = starts'[n] + Len(buckets[n - 1]) + 1
      OBVIOUS
    <3>1. CASE n = i + 1
      BY <1>1, <1>4, <1>7, <3>1
    <3>2. CASE n = i
      BY <1>1, <1>6, <1>7, <3>2
    <3>3. CASE n < i
      BY <1>1, <1>6, <1>7, <3>3
    <3> QED BY <1>9, <3>1, <3>2, <3>3
  <2>3. \A n, m \in 1 .. i + 1 :
          n < m => starts'[n] + Len(buckets[n - 1]) + 1 <= starts'[m]
    <3> SUFFICES ASSUME NEW n \in 1 .. i + 1, NEW m \in 1 .. i + 1, n < m
                 PROVE  starts'[n] + Len(buckets[n - 1]) + 1 <= starts'[m]
      OBVIOUS
    <3>1. CASE m = i + 1
      BY <1>1, <1>6, <1>7, <3>1
    <3>2. CASE m < i + 1
      <4>1. n \in 1 .. i /\ m \in 1 .. i
        BY <1>9, <3>2
      <4> QED BY <1>6, <1>7, <4>1
    <3> QED BY <1>9, <3>1, <3>2
  <2>4. \A n \in 1 .. i + 1 : starts'[n] + Len(buckets[n - 1]) + 1 <= position'
    <3> SUFFICES ASSUME NEW n \in 1 .. i + 1
                 PROVE  starts'[n] + Len(buckets[n - 1]) + 1 <= position'
      OBVIOUS
    <3>1. CASE n = i + 1
      BY <1>1, <1>4, <1>7, <3>1
    <3>2. CASE n < i + 1
      <4>0. n \in 1 .. i
        BY <1>9, <3>2
      <4>1. starts[n] + Len(buckets[n - 1]) + 1 <= position /\ starts'[n] = starts[n]
        BY <1>6, <1>7, <4>0
      <4>2. Len(buckets[n - 1]) \in Nat /\ starts[n] \in Nat
        BY <1>8, <4>0
      <4>3. position \in Nat /\ position' = position + Len(buckets[i]) + 1
        BY <1>1
      <4> DEFINE x == starts[n] + Len(buckets[n - 1]) + 1
                 z == Len(buckets[i])
      <4>4. x \in Nat /\ x <= position /\ z \in Nat
        BY <1>4, <4>1, <4>2
      <4> HIDE DEF x, z
      <4>5. x <= position + z + 1
        BY <4>3, <4>4
      <4> QED BY <4>1, <4>3, <4>5 DEF x, z
    <3> QED BY <1>9, <3>1, <3>2
  <2>5. i + 1 <= Size' /\ Size' = Size
    BY <1>1, <1>2
  <2>6. pc' = "starts" /\ Len(starts') = i' /\ Len(starts') = i + 1 /\ i + 1 # 0
    BY <1>1, <1>7
  <2>7. buckets' = buckets
    BY <1>2
  <2> QED BY <1>9, <2>1, <2>2, <2>3, <2>4, <2>5, <2>6, <2>7
      DEF StartsInv, Hashed, Filled, Placed
<1>11. EntriesInv' /\ SearchInv'
  BY <1>1
  DEF TableInv, EntriesInv, SearchInv, Hashed, Filled, Placed, Written
<1> QED BY <1>2, <1>5, <1>10, <1>11 DEF TableInv

LEMMA StartsWrittenKeeps == TableInv /\ StartsWritten => TableInv'
<1> SUFFICES ASSUME TableInv, StartsWritten PROVE TableInv'
  OBVIOUS
<1>1. /\ pc = "starts" /\ pc' = "entries" /\ i \in Nat /\ i >= Size /\ i' = 0
      /\ Size \in Nat /\ k' = k
      /\ starts' = starts /\ position' = position /\ entries' = entries
  BY MapFacts DEF StartsWritten, output, TableInv, TableTypeOK
<1>2. /\ StringsInv' /\ BucketsInv'
      /\ symMap' = symMap /\ order' = order /\ Size' = Size
      /\ offset' = offset /\ end' = end /\ buckets' = buckets
  BY <1>1, SameTable DEF StartsWritten, Filled, Hashed
<1>3. TableTypeOK'
  BY <1>1, <1>2 DEF StartsWritten, output, search, TableInv, TableTypeOK, Stages
<1>4. StartsInv'
  BY <1>1, <1>2 DEF TableInv, StartsInv, Hashed, Filled, Placed
<1>5. EntriesInv'
  <2>1. entries = <<>> /\ k = 1 /\ Len(<<>>) = 0
    BY <1>1 DEF TableInv, EntriesInv, Placed, Filled, Hashed
  <2>2. Len(starts) = Size
    BY <1>1 DEF TableInv, StartsInv
  <2>3. Size > 0 => starts[1] = 0 /\ Len(buckets[0]) \in Nat
    BY <1>1, <2>2 DEF TableInv, StartsInv, BucketsInv, Hashed
  <2>4. Size = 0 => position = 0
    BY <2>2 DEF TableInv, StartsInv
  <2> QED BY <1>1, <1>2, <2>1, <2>2, <2>3, <2>4
      DEF EntriesInv, Hashed, Filled, Placed, Written
<1>6. SearchInv'
  BY <1>1 DEF SearchInv
<1> QED BY <1>2, <1>3, <1>4, <1>5, <1>6 DEF TableInv

(* One entry more goes behind those of the finished buckets and those of   *)
(* this bucket, which stay what they are.                                  *)
LEMMA EntryAppended ==
  ASSUME TableInv, pc = "entries", i < Size, NEW e, entries' = Append(entries, e)
  PROVE  /\ i \in Nat /\ k \in Nat /\ Size \in Nat /\ Len(starts) = Size
         /\ starts[i + 1] \in Nat
         /\ \A b \in 0 .. Size - 1 : Len(buckets[b]) \in Nat /\ starts[b + 1] \in Nat
         /\ Len(entries') = starts[i + 1] + k
         /\ entries'[starts[i + 1] + k] = e
         /\ \A n \in 1 .. k - 1 :
              entries'[starts[i + 1] + n] = entries[starts[i + 1] + n]
         /\ \A b \in 0 .. Size - 1 : \A n \in 1 .. Len(buckets[b]) + 1 :
              b < i => entries'[starts[b + 1] + n] = entries[starts[b + 1] + n]
<1>1. i \in Nat /\ k \in Nat \ {0} /\ Size \in Nat
  BY MapFacts DEF TableInv, TableTypeOK
<1>2. Len(starts) = Size /\ starts \in Seq(Nat)
  BY DEF TableInv, StartsInv, Placed, Filled, Hashed, TableTypeOK
<1>3. \A b \in 0 .. Size - 1 : Len(buckets[b]) \in Nat /\ starts[b + 1] \in Nat
  BY <1>1, <1>2 DEF TableInv, BucketsInv, Hashed
<1>4. starts[i + 1] \in Nat
  <2>1. i \in 0 .. Size - 1
    BY <1>1
  <2> QED BY <1>3, <2>1
<1>5. Len(entries) = starts[i + 1] + k - 1
  BY DEF TableInv, EntriesInv, Placed, Filled, Hashed
<1>6. entries \in Seq([off : Nat \cup {EndMark}, name : Target \cup {NoAddress}])
  BY DEF TableInv, TableTypeOK
<1>7. /\ Len(entries') = Len(entries) + 1
      /\ entries'[Len(entries) + 1] = e
      /\ \A n \in 1 .. Len(entries) : entries'[n] = entries[n]
  BY <1>6
<1>8. \A n \in 1 .. k - 1 : entries'[starts[i + 1] + n] = entries[starts[i + 1] + n]
  <2> SUFFICES ASSUME NEW n \in 1 .. k - 1
               PROVE  entries'[starts[i + 1] + n] = entries[starts[i + 1] + n]
    OBVIOUS
  <2>1. starts[i + 1] + n \in 1 .. Len(entries)
    BY <1>1, <1>4, <1>5
  <2> QED BY <1>7, <2>1
<1>9. \A b \in 0 .. Size - 1 : \A n \in 1 .. Len(buckets[b]) + 1 :
        b < i => entries'[starts[b + 1] + n] = entries[starts[b + 1] + n]
  <2> SUFFICES ASSUME NEW b \in 0 .. Size - 1, NEW n \in 1 .. Len(buckets[b]) + 1, b < i
               PROVE  entries'[starts[b + 1] + n] = entries[starts[b + 1] + n]
    OBVIOUS
  <2>1. b + 1 \in 1 .. Len(starts) /\ i + 1 \in 1 .. Len(starts) /\ b + 1 < i + 1
        /\ (b + 1) - 1 = b
    BY <1>1, <1>2
  <2>2. starts[b + 1] + Len(buckets[(b + 1) - 1]) + 1 <= starts[i + 1]
    BY <2>1 DEF TableInv, StartsInv, Filled, Hashed
  <2>3. starts[b + 1] + n \in 1 .. Len(entries)
    <3>1. starts[b + 1] \in Nat /\ Len(buckets[b]) \in Nat
      BY <1>3
    <3>2. starts[b + 1] + Len(buckets[b]) + 1 <= starts[i + 1]
      BY <2>1, <2>2
    <3>3. Len(entries) \in Nat /\ starts[i + 1] <= Len(entries)
      BY <1>1, <1>4, <1>5
    <3>4. n <= Len(buckets[b]) + 1 /\ n >= 1 /\ n \in Nat
      BY <3>1
    <3> DEFINE x == starts[b + 1]
               y == Len(buckets[b])
               z == starts[i + 1]
               w == Len(entries)
    <3>5. x \in Nat /\ y \in Nat /\ z \in Nat /\ w \in Nat
      BY <1>4, <3>1, <3>3
    <3>6. x + y + 1 <= z /\ z <= w /\ n <= y + 1
      BY <3>2, <3>3, <3>4
    <3> HIDE DEF x, y, z, w
    <3>7. x + n \in 1 .. w
      BY <3>4, <3>5, <3>6
    <3> QED BY <3>7 DEF x, w
  <2> QED BY <1>7, <2>3
<1>10. Len(entries') = starts[i + 1] + k /\ Len(entries) + 1 = starts[i + 1] + k
  BY <1>1, <1>4, <1>5, <1>7
<1> QED BY <1>1, <1>2, <1>3, <1>4, <1>7, <1>8, <1>9, <1>10

LEMMA WriteEntryKeeps == TableInv /\ WriteEntry => TableInv'
<1> SUFFICES ASSUME TableInv, WriteEntry PROVE TableInv'
  OBVIOUS
<1> DEFINE off == buckets[i][k]
           mapped == symMap[StringAt(off)]
           e == [off |-> off, name |-> mapped.name]
<1>1. /\ pc = "entries" /\ pc' = "entries" /\ i < Size /\ i' = i
      /\ k <= Len(buckets[i]) /\ k' = k + 1
      /\ starts' = starts /\ position' = position
      /\ entries' = Append(entries, e)
      /\ weak' = IF mapped.weak THEN weak \cup {mapped.name} ELSE weak
  BY DEF WriteEntry, TableInv, TableTypeOK
<1>2. /\ StringsInv' /\ BucketsInv'
      /\ symMap' = symMap /\ order' = order /\ Size' = Size
      /\ offset' = offset /\ end' = end /\ buckets' = buckets
  BY <1>1, SameTable DEF WriteEntry, Filled, Hashed
<1> HIDE DEF e
<1>3. /\ i \in Nat /\ k \in Nat /\ Size \in Nat /\ Len(starts) = Size
      /\ starts[i + 1] \in Nat
      /\ \A b \in 0 .. Size - 1 : Len(buckets[b]) \in Nat /\ starts[b + 1] \in Nat
      /\ Len(entries') = starts[i + 1] + k
      /\ entries'[starts[i + 1] + k] = e
      /\ \A n \in 1 .. k - 1 :
           entries'[starts[i + 1] + n] = entries[starts[i + 1] + n]
      /\ \A b \in 0 .. Size - 1 : \A n \in 1 .. Len(buckets[b]) + 1 :
           b < i => entries'[starts[b + 1] + n] = entries[starts[b + 1] + n]
  BY <1>1, EntryAppended
<1>4. i \in 0 .. Size - 1 /\ k \in 1 .. Len(buckets[i])
  <2>1. k # 0
    BY DEF TableInv, TableTypeOK
  <2>2. i \in 0 .. Size - 1
    BY <1>1, <1>3
  <2>3. Len(buckets[i]) \in Nat
    BY <1>3, <2>2
  <2> QED BY <1>1, <1>3, <2>1, <2>2, <2>3
<1>5. PICK s \in DOMAIN symMap : offset[s] = off
  BY <1>1, <1>4 DEF TableInv, BucketsInv, Hashed
<1>6. s \in DOMAIN offset /\ offset[s] \in Nat
  BY <1>1 DEF TableInv, StringsInv, Hashed, TableTypeOK
<1>7. e = [off |-> offset[s], name |-> symMap[s].name] /\ mapped = symMap[s]
  BY <1>5, <1>6, StringFound DEF TableInv, e
<1>8. symMap[s] \in Mapped
  BY MapFacts DEF TableInv
<1>9. TableTypeOK'
  <2>1. e \in [off : Nat \cup {EndMark}, name : Target \cup {NoAddress}]
    BY <1>6, <1>7, <1>8 DEF Mapped
  <2>2. entries' \in Seq([off : Nat \cup {EndMark}, name : Target \cup {NoAddress}])
    BY <1>1, <2>1 DEF TableInv, TableTypeOK
  <2>3. weak' \subseteq Target
    BY <1>1, <1>7, <1>8 DEF Mapped, TableInv, TableTypeOK
  <2>4. k' \in Nat \ {0}
    BY <1>1, <1>3
  <2> QED BY <1>1, <1>2, <2>2, <2>3, <2>4
      DEF WriteEntry, search, TableInv, TableTypeOK, Stages
<1>10. StartsInv'
  BY <1>1, <1>2 DEF TableInv, StartsInv, Hashed, Filled, Placed
<1>11. EntriesInv'
  <2>1. \A n \in 1 .. k : EntryAt(i, n)'
    <3> SUFFICES ASSUME NEW n \in 1 .. k, NEW x \in DOMAIN symMap,
                        offset[x] = buckets[i][n]
                 PROVE  entries'[starts[i + 1] + n]
                          = [off |-> offset[x], name |-> symMap[x].name]
      BY <1>1, <1>2 DEF EntryAt
    <3>1. CASE n = k
      <4>1. x \in DOMAIN offset
        BY <1>1 DEF TableInv, StringsInv, Hashed
      <4>2. x = s
        BY <1>5, <1>6, <3>1, <4>1 DEF TableInv, StringsInv
      <4> QED BY <1>3, <1>7, <3>1, <4>2
    <3>2. CASE n # k
      <4>1. n \in 1 .. k - 1
        BY <1>3, <3>2
      <4>2. EntryAt(i, n)
        BY <1>1, <4>1 DEF TableInv, EntriesInv, Placed, Filled, Hashed
      <4> QED BY <1>3, <4>1, <4>2 DEF EntryAt
    <3> QED BY <3>1, <3>2
  <2>2. \A b \in 0 .. Size - 1 :
          b < i => /\ \A n \in 1 .. Len(buckets[b]) : EntryAt(b, n)'
                   /\ entries'[starts[b + 1] + Len(buckets[b]) + 1] = End
    <3> SUFFICES ASSUME NEW b \in 0 .. Size - 1, b < i
                 PROVE  /\ \A n \in 1 .. Len(buckets[b]) : EntryAt(b, n)'
                        /\ entries'[starts[b + 1] + Len(buckets[b]) + 1] = End
      OBVIOUS
    <3>1. /\ \A n \in 1 .. Len(buckets[b]) : EntryAt(b, n)
          /\ entries[starts[b + 1] + Len(buckets[b]) + 1] = End
      BY <1>1 DEF TableInv, EntriesInv, Placed, Filled, Hashed
    <3>2. \A n \in 1 .. Len(buckets[b]) + 1 :
            entries'[starts[b + 1] + n] = entries[starts[b + 1] + n]
      BY <1>3
    <3>3. Len(buckets[b]) \in Nat /\ starts[b + 1] \in Nat
      BY <1>3
    <3>4. entries'[starts[b + 1] + Len(buckets[b]) + 1] = End
      <4>1. Len(buckets[b]) + 1 \in 1 .. Len(buckets[b]) + 1
            /\ starts[b + 1] + (Len(buckets[b]) + 1) = starts[b + 1] + Len(buckets[b]) + 1
        BY <3>3
      <4> QED BY <3>1, <3>2, <4>1
    <3>5. ASSUME NEW n \in 1 .. Len(buckets[b]) PROVE EntryAt(b, n)'
      <4>1. n \in 1 .. Len(buckets[b]) + 1 /\ EntryAt(b, n)
        BY <3>1, <3>3
      <4> QED BY <1>1, <1>2, <3>2, <4>1 DEF EntryAt
    <3> QED BY <3>4, <3>5
  <2>3. i' < Size' /\ k' <= Len(buckets'[i']) + 1
        /\ Len(entries') = starts'[i' + 1] + k' - 1
    <3>1. Len(buckets[i]) \in Nat
      BY <1>3, <1>4
    <3>2. /\ k + 1 <= Len(buckets[i]) + 1 /\ (k + 1) - 1 = k
          /\ starts[i + 1] + k = starts[i + 1] + (k + 1) - 1
      <4> DEFINE x == starts[i + 1]
                 y == Len(buckets[i])
      <4>1. k \in Nat /\ k <= y /\ x \in Nat /\ y \in Nat
        BY <1>1, <1>3, <3>1
      <4> HIDE DEF x, y
      <4>2. k + 1 <= y + 1 /\ (k + 1) - 1 = k /\ x + k = x + (k + 1) - 1
        BY <4>1
      <4> QED BY <4>2 DEF x, y
    <3> QED BY <1>1, <1>2, <1>3, <3>2
  <2>4. i' # Size' /\ i' <= Size' /\ k' - 1 = k
    BY <1>1, <1>2, <1>3
  <2>5. i' = i /\ buckets' = buckets /\ starts' = starts /\ Size' = Size
        /\ pc' = "entries"
    BY <1>1, <1>2
  <2> QED BY <2>1, <2>2, <2>3, <2>4, <2>5
      DEF EntriesInv, Hashed, Filled, Placed, Written
<1>12. SearchInv'
  BY <1>1 DEF SearchInv
<1> QED BY <1>2, <1>9, <1>10, <1>11, <1>12 DEF TableInv

LEMMA WriteEndKeeps == TableInv /\ WriteEnd => TableInv'
<1> SUFFICES ASSUME TableInv, WriteEnd PROVE TableInv'
  OBVIOUS
<1>1. /\ pc = "entries" /\ pc' = "entries" /\ i < Size /\ i' = i + 1
      /\ k > Len(buckets[i]) /\ k' = 1
      /\ starts' = starts /\ position' = position
      /\ entries' = Append(entries, End)
  BY DEF WriteEnd, TableInv, TableTypeOK
<1>2. /\ StringsInv' /\ BucketsInv'
      /\ symMap' = symMap /\ order' = order /\ Size' = Size
      /\ offset' = offset /\ end' = end /\ buckets' = buckets
  BY <1>1, SameTable DEF WriteEnd, Filled, Hashed
<1>3. /\ i \in Nat /\ k \in Nat /\ Size \in Nat /\ Len(starts) = Size
      /\ starts[i + 1] \in Nat
      /\ \A b \in 0 .. Size - 1 : Len(buckets[b]) \in Nat /\ starts[b + 1] \in Nat
      /\ Len(entries') = starts[i + 1] + k
      /\ entries'[starts[i + 1] + k] = End
      /\ \A n \in 1 .. k - 1 :
           entries'[starts[i + 1] + n] = entries[starts[i + 1] + n]
      /\ \A b \in 0 .. Size - 1 : \A n \in 1 .. Len(buckets[b]) + 1 :
           b < i => entries'[starts[b + 1] + n] = entries[starts[b + 1] + n]
  BY <1>1, EntryAppended
<1>4. i \in 0 .. Size - 1 /\ Len(buckets[i]) \in Nat
  <2>1. i \in 0 .. Size - 1
    BY <1>1, <1>3
  <2> QED BY <1>3, <2>1
<1>5. k = Len(buckets[i]) + 1
  <2>1. k <= Len(buckets[i]) + 1
    BY <1>1 DEF TableInv, EntriesInv, Placed, Filled, Hashed
  <2>2. k \in Nat /\ Len(buckets[i]) \in Nat /\ k > Len(buckets[i])
    BY <1>1, <1>3, <1>4
  <2> QED BY <2>1, <2>2
<1>6. TableTypeOK'
  <2>1. End \in [off : Nat \cup {EndMark}, name : Target \cup {NoAddress}]
    BY DEF End, EndMark
  <2>2. entries' \in Seq([off : Nat \cup {EndMark}, name : Target \cup {NoAddress}])
    BY <1>1, <2>1 DEF TableInv, TableTypeOK
  <2>3. i' \in Nat /\ k' \in Nat \ {0}
    BY <1>1, <1>3
  <2> QED BY <1>1, <1>2, <2>2, <2>3
      DEF WriteEnd, search, TableInv, TableTypeOK, Stages
<1>7. StartsInv'
  BY <1>1, <1>2 DEF TableInv, StartsInv, Hashed, Filled, Placed
<1>8. EntriesInv'
  <2>1. \A b \in 0 .. Size - 1 :
          b < i + 1 => /\ \A n \in 1 .. Len(buckets[b]) : EntryAt(b, n)'
                       /\ entries'[starts[b + 1] + Len(buckets[b]) + 1] = End
    <3> SUFFICES ASSUME NEW b \in 0 .. Size - 1, b < i + 1
                 PROVE  /\ \A n \in 1 .. Len(buckets[b]) : EntryAt(b, n)'
                        /\ entries'[starts[b + 1] + Len(buckets[b]) + 1] = End
      OBVIOUS
    <3>1. Len(buckets[b]) \in Nat /\ starts[b + 1] \in Nat
      BY <1>3
    <3>2. \A n \in 1 .. Len(buckets[b]) :
            EntryAt(b, n) /\ entries'[starts[b + 1] + n] = entries[starts[b + 1] + n]
      <4> SUFFICES ASSUME NEW n \in 1 .. Len(buckets[b])
                   PROVE  /\ EntryAt(b, n)
                          /\ entries'[starts[b + 1] + n] = entries[starts[b + 1] + n]
        OBVIOUS
      <4>1. CASE b < i
        <5>1. n \in 1 .. Len(buckets[b]) + 1
          BY <3>1
        <5>2. EntryAt(b, n)
          BY <1>1, <4>1 DEF TableInv, EntriesInv, Placed, Filled, Hashed
        <5>3. entries'[starts[b + 1] + n] = entries[starts[b + 1] + n]
          BY <1>3, <4>1, <5>1
        <5> QED BY <5>2, <5>3
      <4>2. CASE b = i
        <5>1. n \in 1 .. k - 1
          BY <1>5, <3>1, <4>2
        <5>2. EntryAt(i, n)
          BY <1>1, <5>1 DEF TableInv, EntriesInv, Placed, Filled, Hashed
        <5>3. entries'[starts[i + 1] + n] = entries[starts[i + 1] + n]
          BY <1>3, <5>1
        <5> QED BY <4>2, <5>2, <5>3
      <4> QED BY <1>3, <4>1, <4>2
    <3>3. \A n \in 1 .. Len(buckets[b]) : EntryAt(b, n)'
      BY <1>1, <1>2, <3>2 DEF EntryAt
    <3>4. starts[b + 1] + (Len(buckets[b]) + 1) = starts[b + 1] + Len(buckets[b]) + 1
          /\ Len(buckets[b]) + 1 \in 1 .. Len(buckets[b]) + 1
      BY <3>1
    <3>5. CASE b < i
      <4>1. entries[starts[b + 1] + Len(buckets[b]) + 1] = End
        BY <1>1, <3>5 DEF TableInv, EntriesInv, Placed, Filled, Hashed
      <4> QED BY <1>3, <3>3, <3>4, <3>5, <4>1
    <3>6. CASE b = i
      BY <1>3, <1>5, <3>3, <3>4, <3>6
    <3> QED BY <1>3, <3>5, <3>6
  <2>2. i + 1 \in 1 .. Len(starts) /\ (i + 1) - 1 = i
    BY <1>1, <1>3
  <2>3. i + 1 < Size => Len(entries') = starts[(i + 1) + 1]
    <3>1. i + 1 < Size => starts[(i + 1) + 1] = starts[i + 1] + Len(buckets[(i + 1) - 1]) + 1
      BY <1>1, <1>3, <2>2 DEF TableInv, StartsInv, Filled, Hashed
    <3> QED BY <1>3, <1>4, <1>5, <2>2, <3>1
  <2>4. i + 1 = Size => Len(entries') = position
    <3>1. i + 1 = Size => position = starts[i + 1] + Len(buckets[(i + 1) - 1]) + 1
      BY <1>1, <1>3, <2>2 DEF TableInv, StartsInv, Filled, Hashed
    <3> QED BY <1>3, <1>4, <1>5, <2>2, <3>1
  <2>5. i + 1 < Size => /\ 1 <= Len(buckets[i + 1]) + 1
                        /\ Len(entries') = starts[(i + 1) + 1] + 1 - 1
    <3> SUFFICES ASSUME i + 1 < Size
                 PROVE  /\ 1 <= Len(buckets[i + 1]) + 1
                        /\ Len(entries') = starts[(i + 1) + 1] + 1 - 1
      OBVIOUS
    <3>1. i + 1 \in 0 .. Size - 1
      BY <1>3
    <3>2. Len(buckets[i + 1]) \in Nat /\ starts[(i + 1) + 1] \in Nat
      BY <1>3, <3>1
    <3> QED BY <2>3, <3>2
  <2>6. i' = i + 1 /\ k' = 1 /\ i + 1 <= Size
        /\ buckets' = buckets /\ starts' = starts /\ Size' = Size
        /\ position' = position /\ pc' = "entries"
    BY <1>1, <1>2, <1>3
  <2> QED BY <2>1, <2>4, <2>5, <2>6
      DEF EntriesInv, Hashed, Filled, Placed, Written
<1>9. SearchInv'
  BY <1>1 DEF SearchInv
<1> QED BY <1>2, <1>6, <1>7, <1>8, <1>9 DEF TableInv

LEMMA LinkKeeps == TableInv /\ Link => TableInv'
<1> SUFFICES ASSUME TableInv, Link PROVE TableInv'
  OBVIOUS
<1>1. /\ pc = "entries" /\ pc' \in {"linked", "unlinked"}
      /\ i \in Nat /\ Size \in Nat /\ i >= Size /\ i' = i /\ k' = k
      /\ starts' = starts /\ position' = position /\ entries' = entries
  BY MapFacts DEF Link, output, TableInv, TableTypeOK
<1>2. /\ StringsInv' /\ BucketsInv'
      /\ symMap' = symMap /\ order' = order /\ Size' = Size
      /\ offset' = offset /\ end' = end /\ buckets' = buckets
  BY <1>1, SameTable DEF Link, Filled, Hashed
<1>3. TableTypeOK'
  BY <1>1, <1>2 DEF Link, output, search, TableInv, TableTypeOK, Stages
<1>4. StartsInv'
  BY <1>1, <1>2 DEF TableInv, StartsInv, Hashed, Filled, Placed
<1>5. EntriesInv'
  <2>1. i = Size
    BY <1>1 DEF TableInv, EntriesInv, Placed, Filled, Hashed
  <2> QED BY <1>1, <1>2, <2>1
      DEF TableInv, EntriesInv, EntryAt, Hashed, Filled, Placed, Written
<1>6. SearchInv'
  BY <1>1 DEF SearchInv
<1> QED BY <1>2, <1>3, <1>4, <1>5, <1>6 DEF TableInv

-----------------------------------------------------------------------------
LEMMA AskKeeps ==
  ASSUME TableInv, NEW s \in Symbol, Ask(s)
  PROVE  TableInv'
<1> USE DEF search
<1>1. /\ pc \in {"linked", "answered"} /\ pc' = "probe" /\ Size > 0
      /\ asked' = s /\ ptr' = starts[Bucket(s) + 1] /\ answer' = answer
      /\ UNCHANGED <<map, strings, buckets, i, k, output>>
  BY DEF Ask, Ready
<1>2. /\ StringsInv' /\ BucketsInv' /\ StartsInv' /\ EntriesInv'
      /\ symMap' = symMap /\ Size' = Size /\ offset' = offset
      /\ buckets' = buckets /\ starts' = starts
      /\ \A x : Bucket(x)' = Bucket(x)
  BY <1>1, SameOutput DEF Written
<1>3. Size \in Nat /\ Bucket(s) \in 0 .. Size - 1
  BY <1>1, MapFacts DEF TableInv
<1>4. Len(starts) = Size /\ starts \in Seq(Nat)
  BY <1>1 DEF TableInv, StartsInv, Placed, Filled, Hashed, TableTypeOK
<1>5. starts[Bucket(s) + 1] \in Nat
  BY <1>3, <1>4
<1>6. buckets[Bucket(s)] \in Seq(Nat)
  BY <1>1, <1>3 DEF TableInv, BucketsInv, Hashed
<1>7. TableTypeOK'
  BY <1>1, <1>5 DEF map, strings, output, TableInv, TableTypeOK, Stages
<1>8. SearchInv'
  <2>1. /\ ptr' >= starts[Bucket(s) + 1]
        /\ ptr' <= starts[Bucket(s) + 1] + Len(buckets[Bucket(s)])
        /\ ptr' - starts[Bucket(s) + 1] = 0
    BY <1>1, <1>5, <1>6
  <2>2. Bucket(asked)' = Bucket(s)
    BY <1>1, <1>2 DEF Bucket, Size
  <2> QED BY <1>1, <1>2, <1>3, <2>1, <2>2 DEF SearchInv
<1> QED BY <1>2, <1>7, <1>8 DEF TableInv

LEMMA AskNothingKeeps ==
  ASSUME TableInv, NEW s \in Symbol, AskNothing(s)
  PROVE  TableInv'
<1>1. /\ pc \in {"linked", "answered"} /\ pc' = "crashed" /\ Size = 0
      /\ asked' = s /\ ptr' = ptr /\ answer' = answer
      /\ UNCHANGED <<map, strings, buckets, i, k, output>>
  BY DEF AskNothing, Ready
<1>2. /\ StringsInv' /\ BucketsInv' /\ StartsInv' /\ EntriesInv' /\ Size' = Size
  BY <1>1, SameOutput DEF Written
<1>3. TableTypeOK'
  BY <1>1 DEF map, strings, output, TableInv, TableTypeOK, Stages
<1>4. SearchInv'
  BY <1>1, <1>2 DEF SearchInv
<1> QED BY <1>2, <1>3, <1>4 DEF TableInv

LEMMA ProbeKeeps == TableInv /\ Probe => TableInv'
<1> SUFFICES ASSUME TableInv, Probe PROVE TableInv'
  OBVIOUS
<1> DEFINE b == Bucket(asked)
           first == starts[b + 1]
           n == ptr - first + 1
<1>1. /\ pc = "probe" /\ pc' = "probe" /\ ptr' = ptr + 1 /\ ptr \in Nat
      /\ asked' = asked /\ answer' = answer
      /\ UNCHANGED <<map, strings, buckets, i, k, output>>
      /\ Here.off # EndMark /\ StringAt(Here.off) # asked
  BY DEF Probe, TableInv, TableTypeOK
<1>2. /\ StringsInv' /\ BucketsInv' /\ StartsInv' /\ EntriesInv'
      /\ symMap' = symMap /\ Size' = Size /\ offset' = offset
      /\ buckets' = buckets /\ starts' = starts
  BY <1>1, SameOutput DEF Written
<1>3. b \in 0 .. Size - 1 /\ Size \in Nat /\ Size > 0 /\ asked \in Symbol
  BY <1>1, MapFacts DEF TableInv, SearchInv
<1>4. first \in Nat
  <2>1. Len(starts) = Size /\ starts \in Seq(Nat)
    BY <1>1 DEF TableInv, StartsInv, Placed, Filled, Hashed, TableTypeOK
  <2> QED BY <1>3, <2>1
<1>5. Len(buckets[b]) \in Nat
  BY <1>1, <1>3 DEF TableInv, BucketsInv, Hashed
<1>6. n \in 1 .. Len(buckets[b]) + 1
      /\ (n = Len(buckets[b]) + 1 => Here = End)
      /\ (n <= Len(buckets[b]) =>
            \E s \in DOMAIN symMap :
              /\ offset[s] = buckets[b][n] /\ offset[s] \in Nat
              /\ StringAt(offset[s]) = s
              /\ Here = [off |-> offset[s], name |-> symMap[s].name])
  BY <1>1, EntryHere
<1>7. n <= Len(buckets[b])
  <2>1. Here # End
    BY <1>1 DEF End
  <2> QED BY <1>5, <1>6, <2>1
<1>8. PICK s \in DOMAIN symMap :
        /\ offset[s] = buckets[b][n]
        /\ StringAt(offset[s]) = s
        /\ Here = [off |-> offset[s], name |-> symMap[s].name]
  BY <1>6, <1>7
<1>9. s # asked
  BY <1>1, <1>8
<1>10. asked \in DOMAIN symMap => buckets[b][n] # offset[asked]
  BY <1>1, <1>8, <1>9 DEF TableInv, StringsInv, Hashed
<1>11. TableTypeOK'
  BY <1>1 DEF map, strings, output, TableInv, TableTypeOK
<1>12. SearchInv'
  <2>1. /\ ptr >= first
        /\ asked \in DOMAIN symMap =>
             \A m \in 1 .. Len(buckets[b]) :
               m <= ptr - first => buckets[b][m] # offset[asked]
    BY <1>1 DEF TableInv, SearchInv
  <2>2. ptr + 1 >= first /\ ptr + 1 <= first + Len(buckets[b])
    BY <1>1, <1>4, <1>5, <1>7, <2>1
  <2>3. asked \in DOMAIN symMap =>
          \A m \in 1 .. Len(buckets[b]) :
            m <= (ptr + 1) - first => buckets[b][m] # offset[asked]
    <3> SUFFICES ASSUME asked \in DOMAIN symMap, NEW m \in 1 .. Len(buckets[b]),
                        m <= (ptr + 1) - first
                 PROVE  buckets[b][m] # offset[asked]
      OBVIOUS
    <3>1. CASE m = n
      BY <1>10, <3>1
    <3>2. CASE m # n
      <4>1. m <= ptr - first
        BY <1>1, <1>4, <3>2
      <4> QED BY <2>1, <4>1
    <3> QED BY <3>1, <3>2
  <2>4. Bucket(asked)' = b
    BY <1>1, <1>2 DEF Bucket, Size
  <2> HIDE DEF b, n
  <2> QED BY <1>1, <1>2, <1>3, <2>2, <2>3, <2>4 DEF SearchInv
<1> QED BY <1>2, <1>11, <1>12 DEF TableInv

LEMMA AnswerKeeps == TableInv /\ Answer => TableInv'
<1> SUFFICES ASSUME TableInv, Answer PROVE TableInv'
  OBVIOUS
<1> DEFINE b == Bucket(asked)
           n == ptr - starts[b + 1] + 1
<1>1. /\ pc = "probe" /\ pc' = "answered" /\ ptr' = ptr /\ ptr \in Nat
      /\ asked' = asked /\ answer' = AddressOf(Here.name)
      /\ UNCHANGED <<map, strings, buckets, i, k, output>>
      /\ Here.off # EndMark => StringAt(Here.off) = asked
  BY DEF Answer, TableInv, TableTypeOK
<1>2. /\ StringsInv' /\ BucketsInv' /\ StartsInv' /\ EntriesInv'
      /\ symMap' = symMap
  BY <1>1, SameOutput DEF Written
<1>3. b \in 0 .. Size - 1 /\ Size \in Nat /\ asked \in Symbol
  BY <1>1, MapFacts DEF TableInv, SearchInv
<1>4. starts[b + 1] \in Nat
  <2>1. Len(starts) = Size /\ starts \in Seq(Nat)
    BY <1>1 DEF TableInv, StartsInv, Placed, Filled, Hashed, TableTypeOK
  <2> QED BY <1>3, <2>1
<1>5. Len(buckets[b]) \in Nat
  BY <1>1, <1>3 DEF TableInv, BucketsInv, Hashed
<1>6. n \in 1 .. Len(buckets[b]) + 1
      /\ (n = Len(buckets[b]) + 1 => Here = End)
      /\ (n <= Len(buckets[b]) =>
            \E s \in DOMAIN symMap :
              /\ offset[s] = buckets[b][n] /\ offset[s] \in Nat
              /\ StringAt(offset[s]) = s
              /\ Here = [off |-> offset[s], name |-> symMap[s].name])
  BY <1>1, EntryHere
<1>7. AddressOf(Here.name) = Expected(asked)
  <2>1. CASE n = Len(buckets[b]) + 1
    <3>1. asked \notin DOMAIN symMap
      <4> SUFFICES ASSUME asked \in DOMAIN symMap PROVE FALSE
        OBVIOUS
      <4>1. PICK m \in 1 .. Len(buckets[b]) : buckets[b][m] = offset[asked]
        BY <1>1 DEF TableInv, BucketsInv, Filled, Hashed, Held
      <4>2. m <= ptr - starts[b + 1]
        BY <1>1, <1>4, <1>5, <2>1
      <4> QED BY <1>1, <4>1, <4>2 DEF TableInv, SearchInv
    <3>2. Here.name = NoAddress
      BY <1>6, <2>1 DEF End
    <3> QED BY <3>1, <3>2 DEF Expected, AddressOf
  <2>2. CASE n # Len(buckets[b]) + 1
    <3>1. n <= Len(buckets[b])
      BY <1>5, <1>6, <2>2
    <3>2. PICK s \in DOMAIN symMap :
            /\ offset[s] \in Nat /\ StringAt(offset[s]) = s
            /\ Here = [off |-> offset[s], name |-> symMap[s].name]
      BY <1>6, <3>1
    <3>3. Here.off # EndMark
      BY <3>2 DEF EndMark
    <3>4. s = asked
      BY <1>1, <3>2, <3>3
    <3> QED BY <3>2, <3>4 DEF Expected
  <2> QED BY <2>1, <2>2
<1>8. TableTypeOK'
  <2>1. answer' \in Defined \cup {NoAddress}
    BY <1>1 DEF AddressOf
  <2> QED BY <1>1, <2>1 DEF map, strings, output, TableInv, TableTypeOK, Stages
<1>9. SearchInv'
  <2>1. Expected(asked)' = Expected(asked)
    BY <1>1, <1>2 DEF Expected
  <2> QED BY <1>1, <1>7, <2>1 DEF SearchInv
<1> QED BY <1>2, <1>8, <1>9 DEF TableInv

-----------------------------------------------------------------------------
LEMMA NextKeeps == TableInv /\ [TableNext]_tableVars => TableInv'
<1> SUFFICES ASSUME TableInv, [TableNext]_tableVars PROVE TableInv'
  OBVIOUS
<1>1. CASE Generate
  BY <1>1, GenerateKeeps
<1>2. CASE Write
  BY <1>2, InsertSymbolKeeps, MakeBucketsKeeps, FillBucketKeeps,
     BucketsFilledKeeps, WriteStartKeeps, StartsWrittenKeeps, WriteEntryKeeps,
     WriteEndKeeps, LinkKeeps DEF Write
<1>3. CASE Question
  BY <1>3, AskKeeps, AskNothingKeeps DEF Question
<1>4. CASE Search
  BY <1>4, ProbeKeeps, AnswerKeeps DEF Search
<1>5. CASE UNCHANGED tableVars
  <2>1. /\ pc' = pc /\ i' = i /\ k' = k /\ buckets' = buckets
        /\ symMap' = symMap /\ order' = order /\ offset' = offset /\ end' = end
        /\ starts' = starts /\ position' = position /\ entries' = entries
        /\ weak' = weak /\ asked' = asked /\ ptr' = ptr /\ answer' = answer
    BY <1>5 DEF tableVars, map, strings, output, search
  <2>2. TableTypeOK'
    BY <2>1 DEF TableInv, TableTypeOK
  <2>3. StringsInv' /\ StartsInv' /\ SearchInv'
    BY <2>1
    DEF TableInv, StringsInv, StartsInv, SearchInv, Bucket, Size, Expected,
        Hashed, Filled, Placed
  <2>4. BucketsInv'
    BY <2>1 DEF TableInv, BucketsInv, Held, Bucket, Size, Hashed, Filled
  <2>5. EntriesInv'
    <3>1. \A b, n : EntryAt(b, n)' <=> EntryAt(b, n)
      BY <2>1 DEF EntryAt
    <3>2. Size' = Size /\ (Placed' <=> Placed) /\ (Written' <=> Written)
      BY <2>1 DEF Size, Placed, Filled, Hashed, Written
    <3> QED BY <2>1, <3>1, <3>2 DEF TableInv, EntriesInv
  <2> QED BY <2>2, <2>3, <2>4, <2>5 DEF TableInv
<1> QED BY <1>1, <1>2, <1>3, <1>4, <1>5 DEF TableNext

LEMMA TableInvariant == TableSpec => []TableInv
<1> QED BY InitInv, NextKeeps, PTL DEF TableSpec

(* The members of SymTable, what is written of them and the registers of   *)
(* the resolver have their types.                                          *)
THEOREM TableTypes == TableSpec => []TableTypeOK
<1>1. TableInv => TableTypeOK
  BY DEF TableInv
<1> QED BY <1>1, TableInvariant, PTL

(* The generated resolver answers every question as the map says: neither  *)
(* the order of insertion, nor the hash, nor the number of buckets, nor a  *)
(* collision makes it miss a symbol or take it for another.                *)
THEOREM ResolverIsFaithful == TableSpec => []ResolverFaithful
<1>1. TableInv => ResolverFaithful
  BY DEF TableInv, SearchInv, ResolverFaithful
<1> QED BY <1>1, TableInvariant, PTL

(* The resolver never reads an entry of another bucket, or one behind the  *)
(* table, and divides by the number of buckets only if there is one or the *)
(* map is empty.                                                           *)
THEOREM SearchStaysInBucket == TableSpec => []SearchInBucket
<1>1. TableInv => SearchInBucket
  <2> SUFFICES ASSUME TableInv PROVE SearchInBucket
    OBVIOUS
  <2>1. ASSUME pc = "probe"
        PROVE  ptr \in starts[Bucket(asked) + 1] ..
                         starts[Bucket(asked) + 1] + Len(buckets[Bucket(asked)])
    BY <2>1 DEF TableInv, SearchInv, TableTypeOK
  <2>2. ASSUME pc = "crashed" PROVE DOMAIN symMap = {}
    BY <2>2, MapFacts DEF TableInv, SearchInv
  <2> QED BY <2>1, <2>2 DEF SearchInBucket
<1> QED BY <1>1, TableInvariant, PTL

(* ResGen and its program do nothing to the table but what ResolverTable   *)
(* allows for some map of symbols.                                         *)
THEOREM ImplementsTable == Spec => TableSpec
<1>1. Init => TableInit
  BY DEF Init
<1>2. [Next]_vars => [TableNext]_tableVars
  <2> SUFFICES ASSUME [Next]_vars PROVE [TableNext]_tableVars
    OBVIOUS
  <2>1. CASE \E f \in unread : ReadInput(f) \/ ReadRules(f)
    BY <2>1 DEF ReadInput, ReadRules
  <2>2. CASE InputsRead
    <3>1. UNCHANGED tableVars
      BY <2>2 DEF InputsRead, tableVars
    <3> QED BY <3>1
  <2>3. CASE MapSymbols
    BY <2>3 DEF MapSymbols, TableNext
  <2>4. CASE Table
    BY <2>4 DEF Table, TableNext
  <2>5. CASE Over \/ UNCHANGED vars
    BY <2>5 DEF Over, vars
  <2> QED BY <2>1, <2>2, <2>3, <2>4, <2>5 DEF Next
<1> QED BY <1>1, <1>2, PTL DEF Spec, TableSpec

(* So the program that links what ResGen wrote gets, for every name, the   *)
(* address that its map says.                                              *)
THEOREM ProgramResolves == Spec => [](ResolverFaithful /\ SearchInBucket)
BY ImplementsTable, ResolverIsFaithful, SearchStaysInBucket, PTL

-----------------------------------------------------------------------------
(* What the map is made of.  First the names: each of them is needed by    *)
(* some input, and those of the inputs that were read are all there.       *)
SymsInv ==
  /\ \A s \in DOMAIN syms : s \in Symbol /\ syms[s] \in Weakness(s)
  /\ stage = "inputs" =>
       /\ unread \subseteq command.inputs
       /\ \A f \in command.inputs \ unread : DOMAIN Found(f) \subseteq DOMAIN syms
  /\ stage = "rules" => \A f \in command.inputs : DOMAIN Found(f) \subseteq DOMAIN syms

(* Then the rules: each is of a file that was read, and behind those of    *)
(* the same file that come first and that no other file has; and what no   *)
(* other file has is there.                                                *)
Among(p, f, n) ==
  \E m \in DOMAIN rules : m < n /\ rules[m] = [pattern |-> p, rule |-> f.rules[p]]

Kept(p, f) ==
  \E m \in DOMAIN rules : rules[m] = [pattern |-> p, rule |-> f.rules[p]]

From(n, f) ==
  /\ rules[n].pattern \in DOMAIN f.rules
  /\ rules[n].rule = f.rules[rules[n].pattern]
  /\ \A p \in DOMAIN f.rules :
       Earlier(p, rules[n].pattern) /\ ~Elsewhere(f, p) => Among(p, f, n)

Read == command.rules \ unread

RulesInv ==
  /\ rules \in Seq([pattern : Pattern, rule : Rule])
  /\ stage = "inputs" => patterns = {} /\ rules = <<>>
  /\ stage = "rules" =>
       /\ unread \subseteq command.rules
       /\ \A p \in patterns : \E f \in Read : p \in DOMAIN f.rules
       /\ \A n \in DOMAIN rules : \E f \in Read : From(n, f)
       /\ \A f \in Read : \A p \in DOMAIN f.rules :
            Elsewhere(f, p) \/ Kept(p, f)

FrontInv ==
  /\ command \in Commands
  /\ stage # "table" => pc = "idle"
  /\ SymsInv /\ RulesInv /\ MappedAsRuled

(* The first of some numbers is the least.                                 *)
LEMMA FirstIs ==
  ASSUME NEW N \in SUBSET Nat, N # {}
  PROVE  First(N) \in N /\ \A m \in N : First(N) <= m
<1>0. N \subseteq Nat /\ N # {}
  OBVIOUS
<1>1. PICK n \in N : \A m \in N : ~(<<m, n>> \in OpToRel(<, Nat))
  BY <1>0, NatLessThanWellFounded, WFMin
<1>2. \A m \in N : ~(m < n)
  BY <1>1 DEF OpToRel
<1>3. \A m \in N : n <= m
  BY <1>2
<1> QED BY <1>3 DEF First

(* What is found in a file is needed by it, and what a file needs is found *)
(* in it.                                                                  *)
LEMMA FoundAsNeeded ==
  ASSUME NEW f \in command.inputs, f \in Input
  PROVE  /\ \A s \in DOMAIN Found(f) : s \in Symbol /\ Found(f)[s] \in Weakness(s)
         /\ \A s, w : (Listed(f, s) /\ s \in Symbol) \/ Imported(f, s, w) => s \in DOMAIN Found(f)
<1>1. CASE f.kind = "list"
  <2>1. Found(f) = [s \in Elements(f.lines) \cap Symbol |-> FALSE]
    BY <1>1 DEF Found, ListSyms
  <2>2. \A s \in Elements(f.lines) \cap Symbol : FALSE \in Weakness(s)
    BY <1>1 DEF Weakness, Listed
  <2>3. \A s, w : ~Imported(f, s, w)
    BY <1>1 DEF Imported
  <2> QED BY <2>1, <2>2, <2>3 DEF Listed
<1>2. CASE f.kind = "binary" /\ f.table = "found"
  <2>1. f.syms \in Seq(Import)
    BY <1>2 DEF Input
  <2>2. Found(f) = BinarySyms(f)
    BY <1>2 DEF Found
  <2> DEFINE Named(s) == {n \in Imports(f) : f.syms[n].name = s}
  <2>3. ASSUME NEW s \in DOMAIN Found(f)
        PROVE  s \in Symbol /\ Found(f)[s] \in Weakness(s)
    <3>1. s \in {f.syms[n].name : n \in Imports(f)}
          /\ Found(f)[s] = f.syms[First(Named(s))].weak
      BY <2>2, <2>3 DEF BinarySyms
    <3>2. Named(s) # {} /\ Named(s) \subseteq Imports(f)
      BY <3>1
    <3>3. Imports(f) \subseteq Nat /\ Imports(f) \subseteq DOMAIN f.syms
      BY <2>1 DEF Imports
    <3>4. PICK n \in Named(s) : n = First(Named(s))
      <4> HIDE DEF Named
      <4> QED BY <3>2, <3>3, FirstIs
    <3>5. n \in DOMAIN f.syms /\ f.syms[n].undef /\ f.syms[n].name = s
          /\ Found(f)[s] = f.syms[n].weak
      BY <3>1, <3>4 DEF Imports
    <3>6. f.syms[n] \in Import
      BY <2>1, <3>5
    <3>7. f.syms[n] = [name |-> s, weak |-> f.syms[n].weak, undef |-> TRUE]
          /\ s \in Symbol /\ f.syms[n].weak \in BOOLEAN
      BY <3>5, <3>6 DEF Import
    <3>8. Imported(f, s, f.syms[n].weak)
      BY <1>2, <3>5, <3>7 DEF Imported, Elements
    <3> QED BY <3>5, <3>7, <3>8 DEF Weakness
  <2>4. ASSUME NEW s, NEW w, Imported(f, s, w)
        PROVE  s \in DOMAIN Found(f)
    <3>1. PICK n \in DOMAIN f.syms : f.syms[n] = [name |-> s, weak |-> w, undef |-> TRUE]
      BY <2>4 DEF Imported, Elements
    <3>2. n \in Imports(f) /\ f.syms[n].name = s
      BY <3>1 DEF Imports
    <3> QED BY <2>2, <3>2 DEF BinarySyms
  <2>5. \A s : ~Listed(f, s)
    BY <1>2 DEF Listed
  <2> QED BY <2>3, <2>4, <2>5
<1>3. CASE f.kind # "list" /\ ~(f.kind = "binary" /\ f.table = "found")
  <2>1. Found(f) = Empty
    BY <1>3 DEF Found
  <2> QED BY <1>3, <2>1 DEF Empty, Listed, Imported
<1> QED BY <1>1, <1>2, <1>3

(* The files of a command line, and what the command line is, stay.        *)
LEMMA Files ==
  ASSUME command \in Commands
  PROVE  /\ \A f \in command.inputs : f \in Input
         /\ \A f \in command.rules : /\ DOMAIN f.rules \subseteq Pattern
                                     /\ f.rules \in [DOMAIN f.rules -> Rule]
BY ResGenAssumption DEF IsRuleFile

LEMMA FrontInit == Init => FrontInv
BY DEF Init, TableInit, FrontInv, SymsInv, RulesInv, MappedAsRuled, Empty

(* Steps that neither read a file nor make the map.                        *)
LEMMA FrontSame ==
  ASSUME FrontInv, UNCHANGED <<command, syms, patterns, rules>>,
         stage' = stage \/ stage' \notin {"inputs", "rules", "table"},
         unread' = unread, symMap' = symMap,
         stage' # "table" => pc' = "idle"
  PROVE  FrontInv'
<1>1. /\ command' = command /\ syms' = syms /\ patterns' = patterns /\ rules' = rules
      /\ unread' = unread /\ symMap' = symMap
  OBVIOUS
<1>2. /\ \A s : Weakness(s)' = Weakness(s) /\ Allowed(s)' = Allowed(s)
      /\ \A s : Deciding(s)' = Deciding(s)
  BY <1>1 DEF Weakness, Allowed, Deciding, MayBeUnruled, MatchesIn, Elsewhere,
              Listed, Imported
<1>3. /\ \A n, f : From(n, f)' = From(n, f)
      /\ \A p, f : Kept(p, f)' = Kept(p, f)
      /\ \A f, p : Elsewhere(f, p)' = Elsewhere(f, p)
      /\ Read' = Read
  BY <1>1 DEF From, Kept, Among, Elsewhere, Read
<1>4. SymsInv'
  BY <1>1, <1>2 DEF FrontInv, SymsInv
<1>5. RulesInv'
  BY <1>1, <1>3 DEF FrontInv, RulesInv
<1>6. MappedAsRuled'
  BY <1>1, <1>2 DEF FrontInv, MappedAsRuled
<1> QED BY <1>1, <1>4, <1>5, <1>6 DEF FrontInv

LEMMA ReadInputKeeps ==
  ASSUME FrontInv, NEW f \in unread, ReadInput(f)
  PROVE  FrontInv'
<1>0. stage = "inputs" /\ f \in command.inputs /\ f \in Input
      /\ UNCHANGED tableVars /\ UNCHANGED <<command, patterns, rules>>
  BY Files DEF ReadInput, Fails, FrontInv, SymsInv
<1>1. symMap' = symMap /\ pc' = pc /\ pc = "idle"
  BY <1>0 DEF tableVars, map, FrontInv
<1>2. CASE syms' = syms /\ unread' = unread /\ stage' \in {"failed", "nameless"}
  BY <1>0, <1>1, <1>2, FrontSame
<1>3. CASE /\ syms' = Added(Found(f)) /\ unread' = unread \ {f} /\ stage' = stage
  <2>1. /\ DOMAIN syms' = DOMAIN syms \cup DOMAIN Found(f)
        /\ \A s \in DOMAIN syms' :
             \/ s \in DOMAIN syms /\ syms'[s] = syms[s]
             \/ s \in DOMAIN Found(f) /\ syms'[s] = Found(f)[s]
    BY <1>3 DEF Added
  <2>2. \A s : Weakness(s)' = Weakness(s)
    BY <1>0 DEF Weakness, Listed, Imported
  <2>3. \A s \in DOMAIN syms' : s \in Symbol /\ syms'[s] \in Weakness(s)
    BY <1>0, <2>1, FoundAsNeeded DEF FrontInv, SymsInv
  <2>4. unread' \subseteq command.inputs
        /\ \A g \in command.inputs \ unread' : g = f \/ g \in command.inputs \ unread
    BY <1>0, <1>3 DEF FrontInv, SymsInv
  <2>5. \A g \in command.inputs \ unread' : DOMAIN Found(g) \subseteq DOMAIN syms'
    BY <1>0, <2>1, <2>4 DEF FrontInv, SymsInv
  <2>6. SymsInv'
    BY <1>0, <1>3, <2>2, <2>3, <2>4, <2>5 DEF SymsInv
  <2>7. RulesInv' /\ MappedAsRuled'
    BY <1>0, <1>3 DEF FrontInv, RulesInv, MappedAsRuled
  <2> QED BY <1>0, <1>1, <2>6, <2>7 DEF FrontInv
<1> QED BY <1>2, <1>3 DEF ReadInput, Fails

LEMMA InputsReadKeeps ==
  ASSUME FrontInv, InputsRead
  PROVE  FrontInv'
<1>1. /\ stage = "inputs" /\ unread = {} /\ stage' = "rules" /\ unread' = command.rules
      /\ command' = command /\ syms' = syms /\ patterns' = patterns /\ rules' = rules
      /\ UNCHANGED tableVars
  BY DEF InputsRead
<1>2. pc' = pc /\ pc = "idle"
  BY <1>1 DEF tableVars, FrontInv
<1>3. \A s : Weakness(s)' = Weakness(s)
  BY <1>1 DEF Weakness, Listed, Imported
<1>4. SymsInv'
  BY <1>1, <1>3 DEF FrontInv, SymsInv
<1>5. patterns = {} /\ rules = <<>> /\ DOMAIN rules = {}
  BY <1>1 DEF FrontInv, RulesInv
<1>6. RulesInv'
  BY <1>1, <1>5 DEF FrontInv, RulesInv, Read
<1>7. MappedAsRuled'
  BY <1>1 DEF MappedAsRuled
<1> QED BY <1>1, <1>2, <1>4, <1>6, <1>7 DEF FrontInv

(* The keys of an object come in one order, and each of them once.         *)
LEMMA EarlierOnce == \A p, q : ~(Earlier(p, q) /\ Earlier(q, p))
<1> SUFFICES ASSUME NEW p, NEW q, Earlier(p, q), Earlier(q, p) PROVE FALSE
  OBVIOUS
<1>1. PICK n, m \in DOMAIN KeyOrder : n < m /\ KeyOrder[n] = p /\ KeyOrder[m] = q
  BY DEF Earlier
<1>2. PICK x, y \in DOMAIN KeyOrder : x < y /\ KeyOrder[x] = q /\ KeyOrder[y] = p
  BY DEF Earlier
<1>3. x = m /\ y = n
  BY <1>1, <1>2, ResGenAssumption
<1>4. n \in Nat /\ m \in Nat
  BY <1>1, ResGenAssumption
<1> QED BY <1>1, <1>2, <1>3, <1>4

LEMMA PatternsFinite == \A P \in SUBSET Pattern : IsFiniteSet(P)
<1>1. DOMAIN KeyOrder = 1 .. Len(KeyOrder) /\ Len(KeyOrder) \in Nat
      /\ KeyOrder \in [1 .. Len(KeyOrder) -> Pattern]
  BY ResGenAssumption
<1>2. KeyOrder \in Surjection(1 .. Len(KeyOrder), Pattern)
  BY <1>1, ResGenAssumption DEF Surjection
<1>3. IsFiniteSet(1 .. Len(KeyOrder))
  BY <1>1, FS_Interval
<1>4. IsFiniteSet(Pattern)
  BY <1>2, <1>3, FS_Surjection
<1> QED BY <1>4, FS_Subset

(* A function on the first numbers is a sequence.                          *)
LEMMA SequenceOf ==
  ASSUME NEW S, NEW c \in Nat, NEW g \in [1 .. c -> S]
  PROVE  g \in Seq(S) /\ Len(g) = c
OBVIOUS

(* A file that is read adds the rules of its new patterns behind those     *)
(* there were, one behind the other.                                       *)
RuleOf(p, f) == [pattern |-> p, rule |-> f.rules[p]]
RulesOf(keys, f) == [n \in DOMAIN keys |-> RuleOf(keys[n], f)]
Adds(keys, f) == rules' = rules \o RulesOf(keys, f)

LEMMA RulesAppended ==
  ASSUME command \in Commands, NEW f \in command.rules, NEW keys \in Walks(Fresh(f)),
         Adds(keys, f), RulesInv
  PROVE  \E c \in Nat :
           /\ DOMAIN keys = 1 .. c /\ Len(rules) \in Nat
           /\ \A n \in 1 .. c : keys[n] \in DOMAIN f.rules
           /\ \A p \in Fresh(f) : \E n \in 1 .. c : keys[n] = p
           /\ rules' \in Seq([pattern : Pattern, rule : Rule])
           /\ Len(rules') = Len(rules) + c
           /\ \A n \in 1 .. Len(rules) : rules'[n] = rules[n]
           /\ \A n \in 1 .. c : rules'[Len(rules) + n] = RuleOf(keys[n], f)
<1> DEFINE c == Cardinality(Fresh(f))
           R == [pattern : Pattern, rule : Rule]
<1>1. DOMAIN f.rules \subseteq Pattern /\ f.rules \in [DOMAIN f.rules -> Rule]
  BY Files
<1>2. Fresh(f) \subseteq DOMAIN f.rules /\ Fresh(f) \subseteq Pattern
  BY <1>1 DEF Fresh
<1>3. c \in Nat
  BY <1>2, PatternsFinite, FS_CardinalityType
<1>4. keys \in [1 .. c -> Fresh(f)] /\ \A p \in Fresh(f) : \E n \in 1 .. c : keys[n] = p
  BY DEF Walks, Orders
<1> HIDE DEF c
<1>5. DOMAIN keys = 1 .. c /\ \A n \in 1 .. c : keys[n] \in DOMAIN f.rules
  BY <1>2, <1>4
<1>6. \A n \in 1 .. c : RuleOf(keys[n], f) \in R
  BY <1>1, <1>2, <1>4 DEF RuleOf
<1>7. rules \in Seq(R)
  BY DEF RulesInv
<1> HIDE DEF R
<1>8. PICK new : new = RulesOf(keys, f)
  OBVIOUS
<1>9. new \in [1 .. c -> R] /\ \A n \in 1 .. c : new[n] = RuleOf(keys[n], f)
  BY <1>5, <1>6, <1>8 DEF RulesOf
<1>10. new \in Seq(R) /\ Len(new) = c
  BY <1>3, <1>9, SequenceOf
<1>11. rules' = rules \o new
  BY <1>8 DEF Adds
<1>12. /\ rules' \in Seq(R) /\ Len(rules') = Len(rules) + c /\ Len(rules) \in Nat
       /\ \A n \in 1 .. Len(rules) : rules'[n] = rules[n]
       /\ \A n \in 1 .. c : rules'[Len(rules) + n] = new[n]
  <2>1. /\ rules \o new \in Seq(R) /\ Len(rules \o new) = Len(rules) + Len(new)
        /\ Len(rules) \in Nat
        /\ \A n \in 1 .. Len(rules) : (rules \o new)[n] = rules[n]
        /\ \A n \in 1 .. Len(new) : (rules \o new)[Len(rules) + n] = new[n]
    BY <1>7, <1>10
  <2> QED BY <1>10, <1>11, <2>1
<1>13. \A n \in 1 .. c : rules'[Len(rules) + n] = RuleOf(keys[n], f)
  BY <1>9, <1>12
<1> QED BY <1>3, <1>4, <1>5, <1>12, <1>13 DEF R

LEMMA ReadRulesKeeps ==
  ASSUME FrontInv, NEW f \in unread, ReadRules(f)
  PROVE  FrontInv'
<1>0. /\ stage = "rules" /\ f \in command.rules /\ command' = command /\ syms' = syms
      /\ UNCHANGED tableVars
  BY DEF ReadRules, Fails, FrontInv, RulesInv
<1>1. symMap' = symMap /\ pc' = pc /\ pc = "idle"
  BY <1>0 DEF tableVars, map, FrontInv
<1>2. CASE stage' = "failed" /\ unread' = unread /\ patterns' = patterns /\ rules' = rules
  BY <1>0, <1>1, <1>2, FrontSame
<1>3. CASE \E keys \in Walks(Fresh(f)) :
             /\ Adds(keys, f) /\ patterns' = patterns \cup Fresh(f)
             /\ unread' = unread \ {f} /\ stage' = stage
  <2>0. command \in Commands /\ RulesInv
    BY DEF FrontInv
  <2>1. PICK keys \in Walks(Fresh(f)) : Adds(keys, f)
    BY <1>3
  <2>a. PICK c \in Nat :
           /\ DOMAIN keys = 1 .. c /\ Len(rules) \in Nat
           /\ \A n \in 1 .. c : keys[n] \in DOMAIN f.rules
           /\ \A p \in Fresh(f) : \E n \in 1 .. c : keys[n] = p
           /\ rules' \in Seq([pattern : Pattern, rule : Rule])
           /\ Len(rules') = Len(rules) + c
           /\ \A n \in 1 .. Len(rules) : rules'[n] = rules[n]
           /\ \A n \in 1 .. c : rules'[Len(rules) + n] = RuleOf(keys[n], f)
    BY <1>0, <2>0, <2>1, RulesAppended
  <2>b. PICK l \in Nat : l = Len(rules)
    BY <2>a
  <2>2. /\ DOMAIN keys = 1 .. c /\ l = Len(rules) /\ l \in Nat
        /\ \A n \in 1 .. c : keys[n] \in DOMAIN f.rules
        /\ \A p \in Fresh(f) : \E n \in 1 .. c : keys[n] = p
        /\ rules' \in Seq([pattern : Pattern, rule : Rule])
        /\ Len(rules') = l + c
        /\ \A n \in 1 .. l : rules'[n] = rules[n]
        /\ \A n \in 1 .. c : rules'[l + n] = RuleOf(keys[n], f)
    BY <2>a, <2>b
  <2>3. /\ unread \subseteq command.rules
        /\ \A p \in patterns : \E g \in Read : p \in DOMAIN g.rules
        /\ \A n \in DOMAIN rules : \E g \in Read : From(n, g)
        /\ \A g \in Read : \A p \in DOMAIN g.rules :
             Elsewhere(g, p) \/ Kept(p, g)
    BY <1>0 DEF FrontInv, RulesInv
  <2>4. Read' = Read \cup {f} /\ f \notin Read /\ unread' \subseteq command.rules
    BY <1>0, <1>3, <2>3 DEF Read
  <2>5. DOMAIN rules = 1 .. l /\ DOMAIN rules' = 1 .. l + c
    BY <2>0, <2>2 DEF RulesInv
  <2>6. \A g, p : Elsewhere(g, p)' = Elsewhere(g, p)
    BY <1>0 DEF Elsewhere
  <2>7. ASSUME NEW g, NEW p, NEW n \in Nat, Among(p, g, n) PROVE Among(p, g, n)'
    BY <2>2, <2>5, <2>7 DEF Among
  <2>8. ASSUME NEW n \in 1 .. l, NEW g, From(n, g) PROVE From(n, g)'
    BY <2>2, <2>5, <2>6, <2>7, <2>8 DEF From
  <2>9. ASSUME NEW p \in DOMAIN f.rules, ~Elsewhere(f, p)
        PROVE  \E j \in 1 .. c : keys[j] = p
    <3>1. \A g \in Read : p \notin DOMAIN g.rules
      BY <2>4, <2>9 DEF Elsewhere, Read
    <3> QED BY <2>2, <2>3, <3>1 DEF Fresh
  <2>10. ASSUME NEW p \in DOMAIN f.rules, NEW j \in 1 .. c, keys[j] = p,
                NEW n \in Nat, l + j < n
         PROVE  Among(p, f, n)'
    BY <2>2, <2>5, <2>10 DEF Among, RuleOf
  <2>11. ASSUME NEW n \in 1 .. c PROVE From(l + n, f)'
    <3>1. /\ rules'[l + n].pattern = keys[n] /\ keys[n] \in DOMAIN f.rules
          /\ rules'[l + n].rule = f.rules[keys[n]]
      <4>1. rules'[l + n] = RuleOf(keys[n], f) /\ keys[n] \in DOMAIN f.rules
        BY <2>2
      <4> QED BY <4>1 DEF RuleOf
    <3>2. ASSUME NEW p \in DOMAIN f.rules, Earlier(p, keys[n]), ~Elsewhere(f, p)
          PROVE  Among(p, f, l + n)'
      <4>1. PICK j \in 1 .. c : keys[j] = p
        BY <2>9, <3>2
      <4>2. ~(n < j) /\ j # n
        <5>1. n < j => Earlier(keys[n], keys[j])
          BY <2>2 DEF Walks
        <5> QED BY <3>2, <4>1, <5>1, EarlierOnce
      <4>3. l + j < l + n /\ l + n \in Nat
        BY <2>2, <4>2
      <4> QED BY <2>10, <4>1, <4>3
    <3> QED BY <2>6, <3>1, <3>2 DEF From
  <2>12. ASSUME NEW n \in DOMAIN rules' PROVE \E g \in Read' : From(n, g)'
    <3>1. CASE n \in 1 .. l
      BY <2>3, <2>4, <2>5, <2>8, <3>1
    <3>2. CASE n \notin 1 .. l
      <4>1. PICK j \in 1 .. c : n = l + j
        <5>1. n - l \in 1 .. c /\ n = l + (n - l)
          BY <2>2, <2>5, <3>2
        <5> QED BY <5>1
      <4> QED BY <2>4, <2>11, <4>1
    <3> QED BY <3>1, <3>2
  <2>13. ASSUME NEW g \in Read', NEW p \in DOMAIN g.rules, ~Elsewhere(g, p)
         PROVE  Kept(p, g)'
    <3>1. CASE g \in Read
      <4>1. PICK m \in 1 .. l : rules[m] = [pattern |-> p, rule |-> g.rules[p]]
        BY <2>3, <2>5, <2>13, <3>1 DEF Kept
      <4>2. m \in DOMAIN rules' /\ rules'[m] = rules[m]
        BY <2>2, <2>5
      <4> QED BY <4>1, <4>2 DEF Kept
    <3>2. CASE g = f
      <4>1. PICK j \in 1 .. c : keys[j] = p
        BY <2>9, <2>13, <3>2
      <4>2. l + j \in DOMAIN rules' /\ rules'[l + j] = RuleOf(p, f)
        BY <2>2, <2>5, <4>1
      <4> QED BY <3>2, <4>2 DEF Kept, RuleOf
    <3> QED BY <2>4, <3>1, <3>2
  <2>14. \A p \in patterns' : \E g \in Read' : p \in DOMAIN g.rules
    BY <1>3, <2>3, <2>4 DEF Fresh
  <2>15. RulesInv'
    BY <1>0, <1>3, <2>2, <2>4, <2>6, <2>12, <2>13, <2>14 DEF RulesInv
  <2>16. \A s : Weakness(s)' = Weakness(s)
    BY <1>0 DEF Weakness, Listed, Imported
  <2>17. SymsInv'
    BY <1>0, <1>3, <2>16 DEF FrontInv, SymsInv
  <2> QED BY <1>0, <1>1, <1>3, <2>15, <2>17 DEF FrontInv, MappedAsRuled
<1>4. \A keys : [n \in DOMAIN keys |-> [pattern |-> keys[n], rule |-> f.rules[keys[n]]]]
                = RulesOf(keys, f)
  BY DEF RulesOf, RuleOf
<1> QED BY <1>2, <1>3, <1>4 DEF ReadRules, Fails, Adds

(* The rule that is chosen for a symbol is one that may decide; and a      *)
(* symbol that no rule was found for may be unruled.                       *)
LEMMA ChosenDecides ==
  ASSUME FrontInv, stage = "rules", unread = {}, NEW s
  PROVE  IF RulesFor(s) = {} THEN MayBeUnruled(s) ELSE RuleForSymName(s) \in Deciding(s)
<1>1. /\ DOMAIN rules = 1 .. Len(rules) /\ Len(rules) \in Nat
      /\ \A n \in DOMAIN rules : \E f \in command.rules : From(n, f)
      /\ \A f \in command.rules : \A p \in DOMAIN f.rules : Elsewhere(f, p) \/ Kept(p, f)
  BY DEF FrontInv, RulesInv, Read
<1>2. CASE RulesFor(s) = {}
  <2> SUFFICES ASSUME NEW f \in command.rules, NEW p \in MatchesIn(f, s)
               PROVE  Elsewhere(f, p)
    BY <1>2 DEF MayBeUnruled
  <2>1. p \in DOMAIN f.rules /\ Matching(p, f.rules[p], s)
    BY DEF MatchesIn
  <2>2. ~Kept(p, f)
    BY <1>2, <2>1 DEF Kept, RulesFor
  <2> QED BY <1>1, <2>1, <2>2
<1>3. CASE RulesFor(s) # {}
  <2>1. PICK n : n = First(RulesFor(s))
    OBVIOUS
  <2>2. n \in RulesFor(s) /\ \A m \in RulesFor(s) : n <= m
    <3>1. RulesFor(s) \subseteq Nat
      BY <1>1 DEF RulesFor
    <3> QED BY <1>3, <2>1, <3>1, FirstIs
  <2>3. n \in DOMAIN rules /\ Matching(rules[n].pattern, rules[n].rule, s) /\ n \in Nat
    BY <1>1, <2>2 DEF RulesFor
  <2>4. PICK f \in command.rules : From(n, f)
    BY <1>1, <2>3
  <2>5. PICK p : p = rules[n].pattern
    OBVIOUS
  <2>6. p \in DOMAIN f.rules /\ rules[n].rule = f.rules[p] /\ p \in MatchesIn(f, s)
    BY <2>3, <2>4, <2>5 DEF From, MatchesIn
  <2>7. ASSUME NEW e \in MatchesIn(f, s), Earlier(e, p), ~Elsewhere(f, e) PROVE FALSE
    <3>1. e \in DOMAIN f.rules /\ Matching(e, f.rules[e], s)
      BY DEF MatchesIn
    <3>2. Among(e, f, n)
      BY <2>4, <2>5, <2>7, <3>1 DEF From
    <3>3. PICK m \in DOMAIN rules : m < n /\ rules[m] = [pattern |-> e, rule |-> f.rules[e]]
      BY <3>2 DEF Among
    <3>4. m \in RulesFor(s) /\ m \in Nat
      BY <1>1, <3>1, <3>3 DEF RulesFor
    <3> QED BY <2>2, <2>3, <3>3, <3>4
  <2>8. f.rules[p] \in Deciding(s)
    BY <2>6, <2>7 DEF Deciding
  <2> QED BY <1>3, <2>1, <2>6, <2>8 DEF RuleForSymName
<1> QED BY <1>2, <1>3

LEMMA MapSymbolsKeeps ==
  ASSUME FrontInv, MapSymbols
  PROVE  FrontInv'
<1>1. /\ stage = "rules" /\ unread = {} /\ stage' = "table"
      /\ symMap' = [s \in {x \in DOMAIN syms : ~Excluded(x)} |-> MappedTo(s)]
      /\ UNCHANGED <<command, unread, syms, patterns, rules>>
  BY DEF MapSymbols
<1>2. \A s : /\ Weakness(s)' = Weakness(s) /\ Deciding(s)' = Deciding(s)
             /\ Allowed(s)' = Allowed(s)
  BY <1>1 DEF Weakness, Allowed, Deciding, MayBeUnruled, MatchesIn, Elsewhere,
              Listed, Imported
<1>3. \A s \in DOMAIN syms : s \in Symbol /\ syms[s] \in Weakness(s)
  BY DEF FrontInv, SymsInv
<1>4. ASSUME NEW s \in DOMAIN symMap'
      PROVE  Weakness(s) # {} /\ symMap'[s] \in Allowed(s)
  <2>1. s \in DOMAIN syms /\ ~Excluded(s) /\ symMap'[s] = MappedTo(s)
    BY <1>1
  <2>2. syms[s] \in Weakness(s)
    BY <1>3, <2>1
  <2>3. CASE RulesFor(s) = {}
    <3>1. MayBeUnruled(s) /\ MappedTo(s) = [name |-> s, weak |-> syms[s]]
      BY <1>1, <2>3, ChosenDecides DEF MappedTo
    <3> QED BY <2>1, <2>2, <3>1 DEF Allowed
  <2>4. CASE RulesFor(s) # {}
    <3>1. PICK r : r = RuleForSymName(s)
      OBVIOUS
    <3>2. r \in Deciding(s) /\ ~r.exclude
      BY <1>1, <2>1, <2>4, <3>1, ChosenDecides DEF Excluded
    <3>3. MappedTo(s) = [name |-> IF r.name = Unnamed THEN s ELSE r.name, weak |-> r.weak]
      BY <2>4, <3>1 DEF MappedTo, NameForSymbol
    <3> QED BY <2>1, <2>2, <3>2, <3>3 DEF Allowed
  <2> QED BY <2>3, <2>4
<1>5. ASSUME NEW s \in Symbol, s \notin DOMAIN symMap', Weakness(s) # {}
      PROVE  \E r \in Deciding(s) : r.exclude
  <2>1. PICK f \in command.inputs : Listed(f, s) \/ \E w : Imported(f, s, w)
    BY <1>5 DEF Weakness
  <2>2. f \in Input
    BY Files DEF FrontInv
  <2>3. s \in DOMAIN syms
    BY <1>1, <2>1, <2>2, FoundAsNeeded DEF FrontInv, SymsInv
  <2>4. Excluded(s)
    BY <1>1, <1>5, <2>3
  <2> QED BY <1>1, <2>4, ChosenDecides DEF Excluded
<1>6. MappedAsRuled'
  BY <1>2, <1>4, <1>5 DEF MappedAsRuled
<1>7. SymsInv' /\ RulesInv'
  BY <1>1, <1>2 DEF FrontInv, SymsInv, RulesInv
<1> QED BY <1>1, <1>6, <1>7 DEF FrontInv

LEMMA FrontKeeps == FrontInv /\ [Next]_vars => FrontInv'
<1> SUFFICES ASSUME FrontInv, [Next]_vars PROVE FrontInv'
  OBVIOUS
<1>1. CASE \E f \in unread : ReadInput(f) \/ ReadRules(f)
  BY <1>1, ReadInputKeeps, ReadRulesKeeps
<1>2. CASE InputsRead
  BY <1>2, InputsReadKeeps
<1>3. CASE MapSymbols
  BY <1>3, MapSymbolsKeeps
<1>4. CASE Table
  <2>1. UNCHANGED <<command, stage, unread, syms, patterns, rules>> /\ symMap' = symMap
    BY <1>4
    DEF Table, front, Write, Question, Search, map, InsertSymbol, MakeBuckets,
        FillBucket, BucketsFilled, WriteStart, StartsWritten, WriteEntry, WriteEnd,
        Link, Ask, AskNothing, Probe, Answer
  <2>2. pc # "idle"
    BY <1>4
    DEF Table, Write, Question, Search, InsertSymbol, MakeBuckets,
        FillBucket, BucketsFilled, WriteStart, StartsWritten, WriteEntry, WriteEnd,
        Link, Ask, AskNothing, Probe, Answer, Ready
  <2>3. stage' = "table"
    BY <2>1, <2>2 DEF FrontInv
  <2> QED BY <2>1, <2>3, FrontSame
<1>5. CASE Over \/ UNCHANGED vars
  <2>1. UNCHANGED <<command, stage, unread, syms, patterns, rules, symMap, pc>>
    BY <1>5 DEF Over, vars, front, tableVars, map
  <2> QED BY <2>1, FrontSame DEF FrontInv
<1> QED BY <1>1, <1>2, <1>3, <1>4, <1>5 DEF Next

LEMMA FrontInvariant == Spec => []FrontInv
<1> QED BY FrontInit, FrontKeeps, PTL DEF Spec

(* The map holds exactly the symbols that some input needs and no deciding *)
(* rule excludes, each mapped as its rule says, in whatever order the      *)
(* files are read and however many of them there are.                      *)
THEOREM MapsAsRuled == Spec => []MappedAsRuled
<1>1. FrontInv => MappedAsRuled
  BY DEF FrontInv
<1> QED BY <1>1, FrontInvariant, PTL

-----------------------------------------------------------------------------
(* Names that are said to be weak are declared so as their entries are     *)
(* written, so that what keeps the program from being linked is the name   *)
(* of an entry that is not weak.                                           *)
Declared(b, n) ==
  \A s \in DOMAIN symMap :
    offset[s] = buckets[b][n] /\ symMap[s].weak => symMap[s].name \in weak

Behind(b, n) == b < i \/ (b = i /\ n < k)

WeakInv ==
  /\ pc = "entries" =>
       \A b \in 0 .. Size - 1 : \A n \in 1 .. Len(buckets[b]) :
         Behind(b, n) => Declared(b, n)
  /\ pc = "unlinked" =>
       \E s \in DOMAIN symMap : ~symMap[s].weak /\ symMap[s].name \notin Defined

LEMMA WeakSame ==
  ASSUME WeakInv, pc' = pc \/ pc' \notin {"entries", "unlinked"},
         UNCHANGED <<i, k, symMap, offset, buckets, weak>>
  PROVE  WeakInv'
<1>1. Size' = Size /\ \A b, n : Declared(b, n)' = Declared(b, n) /\ Behind(b, n)' = Behind(b, n)
  BY DEF Declared, Behind, Size
<1> QED BY <1>1 DEF WeakInv

LEMMA WriteEntryDeclares ==
  ASSUME TableInv, WeakInv, WriteEntry
  PROVE  WeakInv'
<1>1. PICK s : s = symMap[StringAt(buckets[i][k])]
  OBVIOUS
<1>2. /\ pc = "entries" /\ pc' = "entries" /\ i < Size /\ i' = i /\ k' = k + 1
      /\ weak' = IF s.weak THEN weak \cup {s.name} ELSE weak
      /\ UNCHANGED <<symMap, offset, buckets>>
  BY <1>1 DEF WriteEntry, map, strings
<1>3. i \in Nat /\ k \in Nat /\ Size' = Size
  BY <1>2 DEF TableInv, TableTypeOK, Size
<1>4. DOMAIN offset = DOMAIN symMap
  BY <1>2 DEF TableInv, TableTypeOK, StringsInv, Hashed
<1>5. ASSUME NEW b \in 0 .. Size - 1, NEW n \in 1 .. Len(buckets[b]), Behind(b, n)'
      PROVE  Declared(b, n)'
  <2>1. CASE Behind(b, n)
    <3>1. Declared(b, n)
      BY <1>2, <2>1 DEF WeakInv
    <3>2. weak \subseteq weak'
      BY <1>2
    <3> QED BY <1>2, <3>1, <3>2 DEF Declared
  <2>2. CASE ~Behind(b, n)
    <3>1. b = i /\ n < k + 1 /\ ~(n < k)
      BY <1>2, <1>5, <2>2 DEF Behind
    <3>2. n = k
      BY <1>3, <3>1
    <3>3. ASSUME NEW x \in DOMAIN symMap, offset[x] = buckets[i][k] PROVE s = symMap[x]
      <4>1. StringAt(offset[x]) = x
        BY <1>4, StringFound DEF TableInv
      <4> QED BY <1>1, <3>3, <4>1
    <3> QED BY <1>2, <3>1, <3>2, <3>3 DEF Declared
  <2> QED BY <2>1, <2>2
<1> QED BY <1>2, <1>3, <1>5 DEF WeakInv

LEMMA WriteEndDeclares ==
  ASSUME TableInv, WeakInv, WriteEnd
  PROVE  WeakInv'
<1>1. /\ pc = "entries" /\ pc' = "entries" /\ i < Size /\ i' = i + 1 /\ k' = 1
      /\ k > Len(buckets[i])
      /\ UNCHANGED <<symMap, offset, buckets, weak>>
  BY DEF WriteEnd, map, strings
<1>2. i \in Nat /\ k \in Nat /\ Size' = Size
  BY <1>1 DEF TableInv, TableTypeOK, Size
<1>3. \A b, n : Declared(b, n)' = Declared(b, n)
  BY <1>1 DEF Declared
<1>4. \A b \in 0 .. Size - 1 : Len(buckets[b]) \in Nat
  BY <1>1 DEF TableInv, BucketsInv, Hashed
<1>5. ASSUME NEW b \in 0 .. Size - 1, NEW n \in 1 .. Len(buckets[b]), Behind(b, n)'
      PROVE  Behind(b, n)
  <2>1. b < i + 1
    <3>1. ~(n < 1)
      OBVIOUS
    <3> QED BY <1>1, <1>5, <3>1 DEF Behind
  <2>2. CASE b = i
    <3>1. n <= Len(buckets[b]) /\ Len(buckets[b]) < k /\ n \in Nat
      BY <1>1, <1>4, <2>2
    <3> QED BY <1>2, <1>4, <2>2, <3>1 DEF Behind
  <2>3. CASE b # i
    BY <1>2, <2>1, <2>3 DEF Behind
  <2> QED BY <2>2, <2>3
<1> QED BY <1>1, <1>2, <1>3, <1>5 DEF WeakInv

LEMMA LinkFailsForStrong ==
  ASSUME TableInv, WeakInv, Link
  PROVE  WeakInv'
<1>1. /\ pc = "entries" /\ i >= Size /\ symMap' = symMap
      /\ pc' = IF Names \subseteq Defined \cup weak THEN "linked" ELSE "unlinked"
  BY DEF Link, map
<1>2. CASE Names \subseteq Defined \cup weak
  BY <1>1, <1>2 DEF WeakInv
<1>3. CASE ~(Names \subseteq Defined \cup weak)
  <2>1. PICK s \in DOMAIN symMap : symMap[s].name \notin Defined /\ symMap[s].name \notin weak
    BY <1>3 DEF Names
  <2>2. Held(s) /\ DOMAIN symMap \subseteq Symbol /\ i \in Nat
    BY <1>1, MapFacts DEF TableInv, TableTypeOK, BucketsInv, Filled, Hashed
  <2>3. PICK b : b = Bucket(s)
    OBVIOUS
  <2>4. b \in 0 .. Size - 1 /\ Size \in Nat
    BY <2>2, <2>3, MapFacts DEF TableInv
  <2>5. PICK n \in 1 .. Len(buckets[b]) : buckets[b][n] = offset[s]
    BY <2>2, <2>3 DEF Held
  <2>6. Behind(b, n)
    BY <1>1, <2>2, <2>4 DEF Behind
  <2>7. Declared(b, n)
    BY <1>1, <2>4, <2>6 DEF WeakInv
  <2>8. ~symMap[s].weak
    BY <2>1, <2>5, <2>7 DEF Declared
  <2> QED BY <1>1, <1>3, <2>1, <2>8 DEF WeakInv
<1> QED BY <1>2, <1>3

LEMMA WeakKeeps == TableInv /\ WeakInv /\ [TableNext]_tableVars => WeakInv'
<1> SUFFICES ASSUME TableInv, WeakInv, [TableNext]_tableVars PROVE WeakInv'
  OBVIOUS
<1>1. CASE pc' \notin {"entries", "unlinked"}
  BY <1>1 DEF WeakInv
<1>2. CASE WriteEntry \/ WriteEnd \/ Link
  BY <1>2, WriteEntryDeclares, WriteEndDeclares, LinkFailsForStrong
<1>3. CASE StartsWritten
  <2>1. /\ pc' = "entries" /\ i' = 0 /\ k' = 1
    BY <1>3 DEF StartsWritten, TableInv, EntriesInv, Placed
  <2>2. \A b \in 0 .. Size' - 1 : \A n \in 1 .. Len(buckets'[b]) : ~Behind(b, n)'
    BY <2>1 DEF Behind
  <2> QED BY <2>1, <2>2 DEF WeakInv
<1>4. CASE UNCHANGED tableVars
  <2>1. pc' = pc /\ UNCHANGED <<i, k, symMap, offset, buckets, weak>>
    BY <1>4 DEF tableVars, map, strings, output
  <2> QED BY <2>1, WeakSame
<1> QED BY <1>1, <1>2, <1>3, <1>4
        DEF TableNext, Generate, Write, Question, Search, InsertSymbol, MakeBuckets,
            FillBucket, BucketsFilled, WriteStart, Ask, AskNothing, Probe, Answer

LEMMA WeakInvariant == TableSpec => []WeakInv
<1>1. TableInit => WeakInv
  BY DEF TableInit, WeakInv
<1> QED BY <1>1, WeakKeeps, TableInvariant, PTL DEF TableSpec

(* A program fails to link with the resolver only because a symbol that    *)
(* some input needs may be mapped to a name that is neither defined nor    *)
(* said to be weak.                                                        *)
THEOREM LinksByRules == Spec => []LinksAsRuled
<1>1. FrontInv /\ TableInv /\ WeakInv => LinksAsRuled
  <2> SUFFICES ASSUME FrontInv, TableInv, WeakInv, pc = "unlinked"
               PROVE  \E s \in Symbol :
                        /\ Weakness(s) # {}
                        /\ \E m \in Allowed(s) : ~m.weak /\ m.name \notin Defined
    BY DEF LinksAsRuled
  <2>1. PICK s \in DOMAIN symMap : ~symMap[s].weak /\ symMap[s].name \notin Defined
    BY DEF WeakInv
  <2>2. s \in Symbol
    BY MapFacts DEF TableInv
  <2>3. Weakness(s) # {} /\ symMap[s] \in Allowed(s)
    BY <2>2 DEF FrontInv, MappedAsRuled
  <2> QED BY <2>1, <2>2, <2>3
<1> QED BY <1>1, FrontInvariant, ImplementsTable, TableInvariant, WeakInvariant, PTL
=============================================================================
