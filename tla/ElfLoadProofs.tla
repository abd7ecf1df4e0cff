---------------------------- MODULE ElfLoadProofs ----------------------------
(***************************************************************************)
(* Proofs about ElfLoad, for any number of relocations: whichever of the   *)
(* steps of a load fails, each table is freed once, relocation tables are  *)
(* filled exactly, and the error reported is that of the step; segments    *)
(* are read into the pages of the object and protected as they ask.        *)
(***************************************************************************)
EXTENDS SegmentMap, WellFoundedInduction, TLAPS

(* The steps of a sequence, the tables that steps allocate, and what they  *)
(* read into a relocation table.                                           *)
StepsOf(s) == {s[k] : k \in 1 .. Len(s)}
Before(n) == {ParseSteps[k] : k \in 1 .. n - 1}
Allocated(S) == {x.table : x \in {y \in S : y.op = "alloc"}}
ReadInto(S, t) ==
  UNION {x.entries : x \in {y \in S : y.op = "read" /\ y.table = t}}

ParseStep ==
  {x \in [op : {"test", "refuse", "read", "alloc"}, table : ElfTable \cup {"none"},
          entries : SUBSET Nat, error : Error \ {"OK"}] :
     x.op = "alloc" => x.table \in ElfTable}

(* When pages can be there, the step that fails has one of these errors.   *)
PagesErrors == {"ReadFailed", "MapFailed", "RelocFailed"}
PagesAt(n) == IF n <= 6 THEN "none" ELSE IF n <= 9 THEN "allocated" ELSE "committed"

(* What the tables are while the object is read ...                        *)
ParseInv ==
  phase = "parse" =>
    /\ step \in 1 .. Len(ParseSteps) + 1
    /\ live = Allocated(Before(step)) /\ elf = live /\ handle = {}
    /\ \A t \in RelTable : written[t] = ReadInto(Before(step), t)
    /\ pages = "none" /\ deps = {}

(* ... and while it is mapped, when those that the handle will keep exist. *)
MapInv ==
  phase \in {"deps", "map"} =>
    /\ step \in 1 .. 13 /\ (phase = "deps" => step = 1)
    /\ Kept \subseteq elf /\ handle = {}
    /\ live = elf \cup (IF step > 2 THEN {"loadSegments"} ELSE {})
    /\ pages = PagesAt(step)

(* A failed load keeps its tables in the CTRDLElf until it is dropped, and *)
(* an object that was loaded has those of the handle.                      *)
EndInv ==
  /\ phase = "drop" => live = elf /\ elf \subseteq ElfTable /\ handle = {}
  /\ phase = "loaded" => live = Kept /\ handle = Kept /\ elf = {}
  /\ phase \in {"failed", "kept", "closed"} => live = {} /\ elf = {} /\ handle = {}
  /\ phase \in {"failed", "closed"} => pages = "none"
  /\ ~doubleFree

ErrorInv ==
  phase \in {"drop", "failed", "kept"} =>
    /\ pages # "none" => cause \in PagesErrors
    /\ \/ lastError = cause /\ cause # "OK"
       \/ lastError = "FreeFailed" /\ ("object" \in deps \/ cause \in PagesErrors)
       \/ lastError = "InvalidParam" /\ "main" \in deps

IInv ==
  TypeOK /\ ParseInv /\ MapInv /\ EndInv /\ RelocationsRead /\ ErrorInv

-----------------------------------------------------------------------------
(* Sequences of steps: r is s, and what u adds.                            *)
Joins(r, s, u) ==
  /\ r \in Seq(ParseStep)
  /\ StepsOf(r) = StepsOf(s) \cup StepsOf(u)
  /\ Len(r) \in Nat /\ Len(s) \in Nat /\ Len(r) >= Len(s)
  /\ \A k \in 1 .. Len(s) : r[k] = s[k]

LEMMA JoinSteps ==
  ASSUME NEW s \in Seq(ParseStep), NEW u \in Seq(ParseStep)
  PROVE  Joins(s \o u, s, u)
<1> DEFINE r == s \o u
<1>1. /\ r \in Seq(ParseStep) /\ Len(r) = Len(s) + Len(u)
      /\ \A k \in 1 .. Len(s) : r[k] = s[k]
      /\ \A k \in 1 .. Len(u) : r[Len(s) + k] = u[k]
  OBVIOUS
<1>2. Len(s) \in Nat /\ Len(u) \in Nat
  OBVIOUS
<1> HIDE DEF r
<1>3. StepsOf(r) \subseteq StepsOf(s) \cup StepsOf(u)
  <2> SUFFICES ASSUME NEW k \in 1 .. Len(r)
               PROVE  r[k] \in StepsOf(s) \cup StepsOf(u)
    BY DEF StepsOf
  <2>1. CASE k <= Len(s)
    BY <2>1, <1>1, <1>2 DEF StepsOf
  <2>2. CASE k > Len(s)
    <3> DEFINE j == k - Len(s)
    <3>1. j \in 1 .. Len(u) /\ k = Len(s) + j
      BY <2>2, <1>1, <1>2
    <3> QED BY <3>1, <1>1 DEF StepsOf
  <2> QED BY <2>1, <2>2, <1>2
<1>4. StepsOf(s) \subseteq StepsOf(r)
  BY <1>1, <1>2 DEF StepsOf
<1>5. StepsOf(u) \subseteq StepsOf(r)
  <2> SUFFICES ASSUME NEW k \in 1 .. Len(u) PROVE u[k] \in StepsOf(r)
    BY DEF StepsOf
  <2>1. Len(s) + k \in 1 .. Len(r) /\ r[Len(s) + k] = u[k]
    BY <1>1, <1>2
  <2> QED BY <2>1 DEF StepsOf
<1>6. Joins(r, s, u)
  BY <1>1, <1>2, <1>3, <1>4, <1>5 DEF Joins
<1> QED BY <1>6 DEF r

LEMMA NoSteps == StepsOf(<<>>) = {} /\ Len(<<>>) = 0
BY DEF StepsOf

LEMMA OneStep ==
  ASSUME NEW S, NEW s1 \in S
  PROVE  /\ <<s1>> \in Seq(S)
         /\ StepsOf(<<s1>>) = {s1}
<1>1. 1 .. 1 = {1}
  OBVIOUS
<1> QED BY <1>1 DEF StepsOf

LEMMA TwoSteps ==
  ASSUME NEW S, NEW s1 \in S, NEW s2 \in S
  PROVE  /\ <<s1, s2>> \in Seq(S)
         /\ StepsOf(<<s1, s2>>) = {s1, s2}
<1>1. 1 .. 2 = {1, 2}
  OBVIOUS
<1> QED BY <1>1 DEF StepsOf

LEMMA ThreeSteps ==
  ASSUME NEW S, NEW s1 \in S, NEW s2 \in S, NEW s3 \in S
  PROVE  /\ <<s1, s2, s3>> \in Seq(S)
         /\ StepsOf(<<s1, s2, s3>>) = {s1, s2, s3}
<1>1. 1 .. 3 = {1, 2, 3}
  OBVIOUS
<1> QED BY <1>1 DEF StepsOf

LEMMA FiveSteps ==
  ASSUME NEW S, NEW s1 \in S, NEW s2 \in S, NEW s3 \in S, NEW s4 \in S,
         NEW s5 \in S
  PROVE  /\ <<s1, s2, s3, s4, s5>> \in Seq(S)
         /\ StepsOf(<<s1, s2, s3, s4, s5>>) = {s1, s2, s3, s4, s5}
<1>1. 1 .. 5 = {1, 2, 3, 4, 5}
  OBVIOUS
<1> QED BY <1>1 DEF StepsOf

-----------------------------------------------------------------------------
LEMMA StepTypes ==
  /\ \A e \in Error \ {"OK"} :
       /\ Test(e) \in ParseStep /\ Refuse(e) \in ParseStep /\ Read(e) \in ParseStep
       /\ Test(e).op = "test" /\ Refuse(e).op = "refuse"
       /\ Read(e).op = "read" /\ Read(e).table = "none"
  /\ \A t \in ElfTable :
       Alloc(t) \in ParseStep /\ Alloc(t).op = "alloc" /\ Alloc(t).table = t
  /\ \A t \in RelTable, E \in SUBSET Nat :
       /\ Fill(t, E) \in ParseStep /\ Fill(t, E).op = "read"
       /\ Fill(t, E).table = t /\ Fill(t, E).entries = E
BY DEF Test, Refuse, Read, Alloc, Fill, Step, ParseStep, Error, ElfTable, RelTable

(* The steps up to the relocations.                                        *)
Plain(S) == \A x \in S : x.op = "read" => x.table = "none"

LEMMA HeaderTypes ==
  /\ HeaderSteps \in Seq(ParseStep) /\ Plain(StepsOf(HeaderSteps))
  /\ Len(HeaderSteps) = 9 /\ \A k \in 1 .. 8 : HeaderSteps[k].op # "alloc"
<1>1. Alloc("segments") \in ParseStep /\ Alloc("segments").op = "alloc"
  BY StepTypes DEF ElfTable
<1>2. \A e \in Error \ {"OK"} :
        /\ Test(e) \in ParseStep /\ Test(e).op = "test"
        /\ Read(e) \in ParseStep /\ Read(e).op = "read" /\ Read(e).table = "none"
  BY StepTypes
<1>3. {"ReadFailed", "InvalidObject", "InvalidBit", "NotSO", "InvalidArch"}
        \subseteq Error \ {"OK"}
  BY DEF Error
<1>4. /\ HeaderSteps \in Seq(ParseStep)
      /\ StepsOf(HeaderSteps) =
           {Test("ReadFailed"), Read("ReadFailed"), Test("InvalidObject"),
            Test("InvalidBit"), Test("InvalidObject"), Test("NotSO"),
            Test("InvalidArch"), Test("ReadFailed"), Alloc("segments")}
  <2>1. 1 .. 9 = {1, 2, 3, 4, 5, 6, 7, 8, 9}
    OBVIOUS
  <2>2. HeaderSteps \in Seq(ParseStep)
    BY <1>1, <1>2, <1>3 DEF HeaderSteps
  <2> QED BY <2>1, <2>2 DEF HeaderSteps, StepsOf
<1>5. Plain(StepsOf(HeaderSteps))
  BY <1>1, <1>2, <1>3, <1>4 DEF Plain
<1>6. Len(HeaderSteps) = 9
  BY DEF HeaderSteps
<1>7. \A k \in 1 .. 8 : HeaderSteps[k].op \in {"test", "read"}
  BY <1>2, <1>3 DEF HeaderSteps
<1> QED BY <1>4, <1>5, <1>6, <1>7

LEMMA SegmentTypes ==
  SegmentSteps \in Seq(ParseStep) /\ Plain(StepsOf(SegmentSteps))
<1>1. Alloc("dynEntries") \in ParseStep /\ Alloc("dynEntries").op = "alloc"
  BY StepTypes DEF ElfTable
<1>2. \A e \in {"ReadFailed", "InvalidObject"} :
        /\ Test(e) \in ParseStep /\ Test(e).op = "test"
        /\ Read(e) \in ParseStep /\ Read(e).op = "read" /\ Read(e).table = "none"
  BY StepTypes DEF Error
<1>3. /\ SegmentSteps \in Seq(ParseStep)
      /\ StepsOf(SegmentSteps) =
           {Read("ReadFailed"), Test("InvalidObject"), Test("InvalidObject"),
            Alloc("dynEntries"), Read("InvalidObject")}
  BY <1>1, <1>2, FiveSteps DEF SegmentSteps
<1> QED BY <1>1, <1>2, <1>3 DEF Plain

LEMMA HashTypes ==
  /\ HashSteps \in Seq(ParseStep) /\ Plain(StepsOf(HashSteps))
  /\ Alloc("symBuckets") \in StepsOf(HashSteps)
  /\ Alloc("symChains") \in StepsOf(HashSteps)
<1>1. \A t \in {"symBuckets", "symChains"} :
        Alloc(t) \in ParseStep /\ Alloc(t).op = "alloc"
  BY StepTypes DEF ElfTable, Kept
<1>2. \A e \in {"ReadFailed", "InvalidObject"} :
        /\ Test(e) \in ParseStep /\ Test(e).op = "test"
        /\ Read(e) \in ParseStep /\ Read(e).op = "read" /\ Read(e).table = "none"
  BY StepTypes DEF Error
<1>3. /\ HashSteps \in Seq(ParseStep)
      /\ StepsOf(HashSteps) =
           {Test("InvalidObject"), Test("ReadFailed"), Read("ReadFailed"),
            Read("ReadFailed"), Alloc("symBuckets"), Alloc("symChains"),
            Read("ReadFailed"), Read("ReadFailed")}
  <2>1. 1 .. 8 = {1, 2, 3, 4, 5, 6, 7, 8}
    OBVIOUS
  <2>2. HashSteps \in Seq(ParseStep)
    BY <1>1, <1>2 DEF HashSteps
  <2> QED BY <2>1, <2>2 DEF HashSteps, StepsOf
<1> QED BY <1>1, <1>2, <1>3 DEF Plain

LEMMA SymbolTypes ==
  /\ SymbolSteps \in Seq(ParseStep) /\ Plain(StepsOf(SymbolSteps))
  /\ Alloc("symEntries") \in StepsOf(SymbolSteps)
  /\ Alloc("stringTable") \in StepsOf(SymbolSteps)
<1>1. \A t \in {"symEntries", "stringTable"} :
        Alloc(t) \in ParseStep /\ Alloc(t).op = "alloc"
  BY StepTypes DEF ElfTable, Kept
<1>2. \A e \in {"ReadFailed", "InvalidObject"} :
        /\ Test(e) \in ParseStep /\ Test(e).op = "test"
        /\ Read(e) \in ParseStep /\ Read(e).op = "read" /\ Read(e).table = "none"
  BY StepTypes DEF Error
<1>3. /\ SymbolSteps \in Seq(ParseStep)
      /\ StepsOf(SymbolSteps) =
           {Test("InvalidObject"), Test("ReadFailed"), Alloc("symEntries"),
            Read("ReadFailed"), Test("InvalidObject"), Test("ReadFailed"),
            Test("InvalidObject"), Alloc("stringTable"), Read("ReadFailed")}
  <2>1. 1 .. 9 = {1, 2, 3, 4, 5, 6, 7, 8, 9}
    OBVIOUS
  <2>2. SymbolSteps \in Seq(ParseStep)
    BY <1>1, <1>2 DEF SymbolSteps
  <2> QED BY <2>1, <2>2 DEF SymbolSteps, StepsOf
<1> QED BY <1>1, <1>2, <1>3 DEF Plain

FixedSteps == HeaderSteps \o SegmentSteps \o HashSteps \o SymbolSteps

LEMMA FixedTypes ==
  /\ FixedSteps \in Seq(ParseStep) /\ Plain(StepsOf(FixedSteps))
  /\ Len(FixedSteps) \in Nat /\ Len(FixedSteps) >= 9
  /\ \A k \in 1 .. 8 : FixedSteps[k].op # "alloc"
  /\ \A t \in Kept : Alloc(t) \in StepsOf(FixedSteps)
<1> DEFINE A == HeaderSteps \o SegmentSteps
           B == A \o HashSteps
<1>1. FixedSteps = B \o SymbolSteps
  BY DEF FixedSteps
<1>2. Joins(A, HeaderSteps, SegmentSteps)
  BY HeaderTypes, SegmentTypes, JoinSteps
<1> HIDE DEF A
<1>3. Joins(B, A, HashSteps)
  BY <1>2, HashTypes, JoinSteps DEF Joins
<1> HIDE DEF B
<1>4. Joins(FixedSteps, B, SymbolSteps)
  <2>1. B \in Seq(ParseStep) /\ SymbolSteps \in Seq(ParseStep)
    BY <1>3, SymbolTypes DEF Joins
  <2>2. Joins(B \o SymbolSteps, B, SymbolSteps)
    BY <2>1, JoinSteps
  <2> QED BY <1>1, <2>2
<1>5. Len(A) >= 9 /\ Len(B) >= 9 /\ Len(FixedSteps) >= 9
  BY <1>2, <1>3, <1>4, HeaderTypes DEF Joins
<1>6. \A k \in 1 .. 8 : FixedSteps[k].op # "alloc"
  <2> TAKE k \in 1 .. 8
  <2>1. k \in 1 .. Len(HeaderSteps) /\ k \in 1 .. Len(A) /\ k \in 1 .. Len(B)
    BY <1>2, <1>3, <1>4, <1>5, HeaderTypes DEF Joins
  <2>2. FixedSteps[k] = HeaderSteps[k]
    BY <1>2, <1>3, <1>4, <2>1 DEF Joins
  <2> QED BY <2>2, HeaderTypes
<1>7. Plain(StepsOf(FixedSteps))
  BY <1>2, <1>3, <1>4, HeaderTypes, SegmentTypes, HashTypes, SymbolTypes
  DEF Plain, Joins
<1>8. \A t \in Kept : Alloc(t) \in StepsOf(FixedSteps)
  BY <1>3, <1>4, HashTypes, SymbolTypes DEF Kept, Joins
<1> QED BY <1>4, <1>5, <1>6, <1>7, <1>8 DEF Joins

-----------------------------------------------------------------------------
(* The steps that read relocations.                                        *)
LEMMA ReadUnion ==
  ASSUME NEW S, NEW T, NEW t
  PROVE  /\ ReadInto(S \cup T, t) = ReadInto(S, t) \cup ReadInto(T, t)
         /\ Plain(S) /\ t # "none" => ReadInto(S, t) = {}
BY DEF ReadInto, Plain

LEMMA RoomTypes ==
  ASSUME object \in Object
  PROVE  /\ object.rel \in Nat /\ object.rela \in Nat /\ object.jmp \in Nat
         /\ Jumps("rel") \in Nat /\ Jumps("rela") \in Nat
         /\ Room("relArray") = Jumps("rel") + object.rel
         /\ Room("relaArray") = Jumps("rela") + object.rela
         /\ \A t \in RelTable : Room(t) \in Nat
BY LoadAssumption DEF Object, Jumps, Room, RelTable

LEMMA RelocTypes ==
  ASSUME NEW t \in RelTable, NEW n \in Nat
  PROVE  /\ RelocSteps(t, n) \in Seq(ParseStep)
         /\ \A u \in RelTable :
              ReadInto(StepsOf(RelocSteps(t, n)), u) =
                IF u = t /\ Room(t) # 0 THEN 0 .. n - 1 ELSE {}
<1>1. CASE Room(t) = 0
  <2>1. RelocSteps(t, n) = <<>>
    BY <1>1 DEF RelocSteps
  <2> QED BY <1>1, <2>1, NoSteps DEF ReadInto
<1>2. CASE Room(t) # 0
  <2> DEFINE x == Alloc(t)
             y == Test("ReadFailed")
             z == Fill(t, 0 .. n - 1)
  <2>1. /\ x \in ParseStep /\ x.op = "alloc" /\ y \in ParseStep /\ y.op = "test"
        /\ z \in ParseStep /\ z.op = "read" /\ z.table = t /\ z.entries = 0 .. n - 1
    <3>1. 0 .. n - 1 \in SUBSET Nat /\ t \in ElfTable
      BY DEF ElfTable
    <3> QED BY <3>1, StepTypes DEF Error
  <2>2. RelocSteps(t, n) = <<x, y, z>>
    BY <1>2 DEF RelocSteps
  <2> HIDE DEF x, y, z
  <2>3. StepsOf(RelocSteps(t, n)) = {x, y, z} /\ RelocSteps(t, n) \in Seq(ParseStep)
    BY <2>1, <2>2, ThreeSteps
  <2> QED BY <1>2, <2>1, <2>3 DEF ReadInto
<1> QED BY <1>1, <1>2

LEMMA FillTypes ==
  ASSUME NEW t \in RelTable, NEW m \in Nat, NEW n \in Int
  PROVE  /\ <<Test("ReadFailed"), Fill(t, m .. n)>> \in Seq(ParseStep)
         /\ \A u \in RelTable :
              ReadInto(StepsOf(<<Test("ReadFailed"), Fill(t, m .. n)>>), u) =
                IF u = t THEN m .. n ELSE {}
<1> DEFINE y == Test("ReadFailed")
           z == Fill(t, m .. n)
<1>1. /\ y \in ParseStep /\ y.op = "test"
      /\ z \in ParseStep /\ z.op = "read" /\ z.table = t /\ z.entries = m .. n
  <2>1. m .. n \in SUBSET Nat
    OBVIOUS
  <2> QED BY <2>1, StepTypes DEF Error
<1> HIDE DEF y, z
<1>2. <<y, z>> \in Seq(ParseStep) /\ StepsOf(<<y, z>>) = {y, z}
  BY <1>1, TwoSteps
<1>3. \A u \in RelTable : ReadInto(StepsOf(<<y, z>>), u) = IF u = t THEN m .. n ELSE {}
  BY <1>1, <1>2 DEF ReadInto
<1> QED BY <1>2, <1>3 DEF y, z

LEMMA JumpTypes ==
  ASSUME object \in Object
  PROVE  /\ JumpSteps \in Seq(ParseStep)
         /\ ReadInto(StepsOf(JumpSteps), "relArray") =
              IF object.plt = "rel" THEN object.rel .. Room("relArray") - 1 ELSE {}
         /\ ReadInto(StepsOf(JumpSteps), "relaArray") =
              IF object.plt = "rela" THEN object.rela .. Room("relaArray") - 1 ELSE {}
<1>1. CASE object.plt = "rel"
  <2>1. JumpSteps = <<Test("ReadFailed"),
                      Fill("relArray", object.rel .. Room("relArray") - 1)>>
    BY <1>1 DEF JumpSteps
  <2>2. Room("relArray") - 1 \in Int /\ object.rel \in Nat
    BY RoomTypes
  <2> QED BY <1>1, <2>1, <2>2, FillTypes DEF RelTable
<1>2. CASE object.plt = "rela"
  <2>1. JumpSteps = <<Test("ReadFailed"),
                      Fill("relaArray", object.rela .. Room("relaArray") - 1)>>
    BY <1>2 DEF JumpSteps
  <2>2. Room("relaArray") - 1 \in Int /\ object.rela \in Nat
    BY RoomTypes
  <2> QED BY <1>2, <2>1, <2>2, FillTypes DEF RelTable
<1>3. CASE object.plt \notin {"rel", "rela"}
  <2>1. JumpSteps = <<>>
    BY <1>3 DEF JumpSteps
  <2> QED BY <1>3, <2>1, NoSteps DEF ReadInto
<1> QED BY <1>1, <1>2, <1>3

LEMMA ParseFacts ==
  ASSUME object \in Object
  PROVE  /\ ParseSteps \in Seq(ParseStep) /\ Len(ParseSteps) \in Nat
         /\ Len(ParseSteps) >= 9
         /\ \A k \in 1 .. 8 : ParseSteps[k].op # "alloc"
         /\ Kept \subseteq Allocated(StepsOf(ParseSteps))
         /\ \A t \in RelTable : ReadInto(StepsOf(ParseSteps), t) = 0 .. Room(t) - 1
<1> DEFINE O == IF object.plt = "other" THEN <<Refuse("InvalidObject")>> ELSE <<>>
           R == RelocSteps("relArray", object.rel)
           Ra == RelocSteps("relaArray", object.rela)
           A == FixedSteps \o O
           B == A \o R
           C == B \o Ra
<1> USE DEF RelTable
<1>1. O \in Seq(ParseStep) /\ Plain(StepsOf(O))
  <2>1. Refuse("InvalidObject") \in ParseStep /\ Refuse("InvalidObject").op = "refuse"
    BY StepTypes DEF Error
  <2>2. CASE object.plt = "other"
    BY <2>1, <2>2, OneStep DEF Plain
  <2>3. CASE object.plt # "other"
    BY <2>3, NoSteps DEF Plain
  <2> QED BY <2>2, <2>3
<1>2. ParseSteps = C \o JumpSteps
  BY DEF ParseSteps, FixedSteps
<1>3. R \in Seq(ParseStep) /\ Ra \in Seq(ParseStep)
  BY RoomTypes, RelocTypes
<1> HIDE DEF A, B, C, O, R, Ra
<1>4. Joins(A, FixedSteps, O)
  BY <1>1, FixedTypes, JoinSteps DEF A
<1>5. Joins(B, A, R)
  <2>1. A \in Seq(ParseStep)
    BY <1>4 DEF Joins
  <2> QED BY <1>3, <2>1, JoinSteps DEF B
<1>6. Joins(C, B, Ra)
  <2>1. B \in Seq(ParseStep)
    BY <1>5 DEF Joins
  <2> QED BY <1>3, <2>1, JoinSteps DEF C
<1>7. Joins(ParseSteps, C, JumpSteps)
  <2>1. C \in Seq(ParseStep) /\ JumpSteps \in Seq(ParseStep)
    BY <1>6, JumpTypes DEF Joins
  <2>2. Joins(C \o JumpSteps, C, JumpSteps)
    BY <2>1, JoinSteps
  <2> QED BY <1>2, <2>2
<1>9. /\ Len(A) >= 9 /\ Len(B) >= 9 /\ Len(C) >= 9
      /\ Len(ParseSteps) \in Nat /\ Len(ParseSteps) >= 9
  BY <1>4, <1>5, <1>6, <1>7, FixedTypes DEF Joins
<1>10. \A k \in 1 .. 8 : ParseSteps[k].op # "alloc"
  <2> TAKE k \in 1 .. 8
  <2>1. /\ k \in 1 .. Len(FixedSteps) /\ k \in 1 .. Len(A) /\ k \in 1 .. Len(B)
        /\ k \in 1 .. Len(C)
    BY <1>4, <1>5, <1>6, <1>7, <1>9, FixedTypes DEF Joins
  <2>2. ParseSteps[k] = FixedSteps[k]
    BY <1>4, <1>5, <1>6, <1>7, <2>1 DEF Joins
  <2> QED BY <2>2, FixedTypes
<1>11. Kept \subseteq Allocated(StepsOf(ParseSteps))
  <2>1. \A t \in Kept : Alloc(t) \in StepsOf(ParseSteps)
    BY <1>4, <1>5, <1>6, <1>7, FixedTypes DEF Joins
  <2>2. \A t \in Kept : Alloc(t).op = "alloc" /\ Alloc(t).table = t
    BY StepTypes DEF ElfTable
  <2> QED BY <2>1, <2>2 DEF Allocated
<1>12. \A t \in RelTable :
         ReadInto(StepsOf(ParseSteps), t) =
           ReadInto(StepsOf(R), t) \cup ReadInto(StepsOf(Ra), t)
             \cup ReadInto(StepsOf(JumpSteps), t)
  <2> SUFFICES ASSUME NEW t \in RelTable
               PROVE  ReadInto(StepsOf(ParseSteps), t) =
                        ReadInto(StepsOf(R), t) \cup ReadInto(StepsOf(Ra), t)
                          \cup ReadInto(StepsOf(JumpSteps), t)
    OBVIOUS
  <2>1. ReadInto(StepsOf(FixedSteps), t) = {} /\ ReadInto(StepsOf(O), t) = {}
    BY <1>1, FixedTypes, ReadUnion
  <2>2. ReadInto(StepsOf(A), t) = {}
    <3>1. StepsOf(A) = StepsOf(FixedSteps) \cup StepsOf(O)
      BY <1>4 DEF Joins
    <3> QED BY <2>1, <3>1, ReadUnion
  <2>3. ReadInto(StepsOf(B), t) = ReadInto(StepsOf(R), t)
    <3>1. StepsOf(B) = StepsOf(A) \cup StepsOf(R)
      BY <1>5 DEF Joins
    <3>2. ReadInto(StepsOf(A) \cup StepsOf(R), t) =
            ReadInto(StepsOf(A), t) \cup ReadInto(StepsOf(R), t)
      BY ReadUnion
    <3> QED BY <2>2, <3>1, <3>2
  <2>4. ReadInto(StepsOf(C), t) = ReadInto(StepsOf(R), t) \cup ReadInto(StepsOf(Ra), t)
    <3>1. StepsOf(C) = StepsOf(B) \cup StepsOf(Ra)
      BY <1>6 DEF Joins
    <3> QED BY <2>3, <3>1, ReadUnion
  <2>5. StepsOf(ParseSteps) = StepsOf(C) \cup StepsOf(JumpSteps)
    BY <1>7 DEF Joins
  <2> QED BY <2>4, <2>5, ReadUnion
<1>13. /\ ReadInto(StepsOf(R), "relArray") =
            IF Room("relArray") # 0 THEN 0 .. object.rel - 1 ELSE {}
       /\ ReadInto(StepsOf(R), "relaArray") = {}
       /\ ReadInto(StepsOf(Ra), "relaArray") =
            IF Room("relaArray") # 0 THEN 0 .. object.rela - 1 ELSE {}
       /\ ReadInto(StepsOf(Ra), "relArray") = {}
  BY RoomTypes, RelocTypes DEF R, Ra
<1>14. ReadInto(StepsOf(ParseSteps), "relArray") = 0 .. Room("relArray") - 1
  <2> DEFINE n == Room("relArray")
  <2>1. n \in Nat /\ n = Jumps("rel") + object.rel
    BY RoomTypes
  <2>2. ReadInto(StepsOf(ParseSteps), "relArray") =
          (IF n # 0 THEN 0 .. object.rel - 1 ELSE {})
            \cup (IF object.plt = "rel" THEN object.rel .. n - 1 ELSE {})
    BY <1>12, <1>13, JumpTypes
  <2>3. object.plt # "rel" => Jumps("rel") = 0
    BY DEF Jumps
  <2>4. object.rel \in Nat /\ object.rel <= n
    BY <2>1, RoomTypes
  <2> HIDE DEF n
  <2>5. CASE n = 0
    <3>1. object.rel .. n - 1 = {} /\ 0 .. n - 1 = {}
      BY <2>1, <2>4, <2>5, RoomTypes
    <3> QED BY <2>2, <2>5, <3>1 DEF n
  <2>6. CASE n # 0 /\ object.plt = "rel"
    <3>1. (0 .. object.rel - 1) \cup (object.rel .. n - 1) = 0 .. n - 1
      BY <2>1, <2>4
    <3> QED BY <2>2, <2>6, <3>1 DEF n
  <2>7. CASE n # 0 /\ object.plt # "rel"
    <3>1. n = object.rel
      BY <2>1, <2>3, <2>4, <2>7
    <3> QED BY <2>2, <2>7, <3>1 DEF n
  <2> QED BY <2>5, <2>6, <2>7
<1>15. ReadInto(StepsOf(ParseSteps), "relaArray") = 0 .. Room("relaArray") - 1
  <2> DEFINE n == Room("relaArray")
  <2>1. n \in Nat /\ n = Jumps("rela") + object.rela
    BY RoomTypes
  <2>2. ReadInto(StepsOf(ParseSteps), "relaArray") =
          (IF n # 0 THEN 0 .. object.rela - 1 ELSE {})
            \cup (IF object.plt = "rela" THEN object.rela .. n - 1 ELSE {})
    BY <1>12, <1>13, JumpTypes
  <2>3. object.plt # "rela" => Jumps("rela") = 0
    BY DEF Jumps
  <2>4. object.rela \in Nat /\ object.rela <= n
    BY <2>1, RoomTypes
  <2> HIDE DEF n
  <2>5. CASE n = 0
    <3>1. object.rela .. n - 1 = {} /\ 0 .. n - 1 = {}
      BY <2>1, <2>4, <2>5, RoomTypes
    <3> QED BY <2>2, <2>5, <3>1 DEF n
  <2>6. CASE n # 0 /\ object.plt = "rela"
    <3>1. (0 .. object.rela - 1) \cup (object.rela .. n - 1) = 0 .. n - 1
      BY <2>1, <2>4
    <3> QED BY <2>2, <2>6, <3>1 DEF n
  <2>7. CASE n # 0 /\ object.plt # "rela"
    <3>1. n = object.rela
      BY <2>1, <2>3, <2>4, <2>7
    <3> QED BY <2>2, <2>7, <3>1 DEF n
  <2> QED BY <2>5, <2>6, <2>7
<1> QED BY <1>7, <1>9, <1>10, <1>11, <1>14, <1>15 DEF Joins
-----------------------------------------------------------------------------
LEMMA MapFacts ==
  /\ Len(MapSteps) = 12
  /\ \A k \in 1 .. 12 :
       /\ MapSteps[k].error \in Error \ {"OK"}
       /\ k > 6 => MapSteps[k].error \in PagesErrors
       /\ MapSteps[k].op = "alloc" <=> k = 2
       /\ MapSteps[k].op = "read" => MapSteps[k].table = "none"
       /\ MapSteps[k].op = "pages" <=> k \in {6, 9}
  /\ MapSteps[2].table = "loadSegments"
  /\ MapSteps[6].table = "allocated" /\ MapSteps[9].table = "committed"
<1>1. Len(MapSteps) = 12
  BY DEF MapSteps
<1>2. /\ MapSteps[1] = Test("InvalidObject") /\ MapSteps[2] = Alloc("loadSegments")
      /\ MapSteps[3] = Test("InvalidObject") /\ MapSteps[4] = Test("InvalidObject")
      /\ MapSteps[5] = Test("InvalidObject")
      /\ MapSteps[6] = Step("pages", "allocated", {}, "NoMemory")
      /\ MapSteps[7] = Test("ReadFailed") /\ MapSteps[8] = Read("ReadFailed")
      /\ MapSteps[9] = Step("pages", "committed", {}, "MapFailed")
      /\ MapSteps[10] = Test("MapFailed") /\ MapSteps[11] = Test("RelocFailed")
      /\ MapSteps[12] = Test("MapFailed")
  BY DEF MapSteps
<1>3. \A e : Test(e).op = "test" /\ Test(e).error = e
             /\ Read(e).op = "read" /\ Read(e).table = "none" /\ Read(e).error = e
  BY DEF Test, Read, Step
<1>4. /\ Alloc("loadSegments").op = "alloc" /\ Alloc("loadSegments").error = "NoMemory"
      /\ Alloc("loadSegments").table = "loadSegments"
  BY DEF Alloc, Step
<1>5. \A t, e : /\ Step("pages", t, {}, e).op = "pages"
                /\ Step("pages", t, {}, e).table = t /\ Step("pages", t, {}, e).error = e
  BY DEF Step
<1>6. \A k \in 1 .. 12 : k \in {1, 2, 3, 4, 5, 6, 7, 8, 9, 10, 11, 12}
  OBVIOUS
<1> QED BY <1>1, <1>2, <1>3, <1>4, <1>5, <1>6 DEF Error, PagesErrors

(* What has been done before each step.                                    *)
LEMMA BeforeFacts ==
  ASSUME object \in Object
  PROVE  /\ Before(1) = {}
         /\ \A n \in 1 .. Len(ParseSteps) : Before(n + 1) = Before(n) \cup {ParseSteps[n]}
         /\ Before(Len(ParseSteps) + 1) = StepsOf(ParseSteps)
         /\ \A n \in 1 .. 9 : Allocated(Before(n)) = {}
<1>1. Before(1) = {}
  BY DEF Before
<1>2. ASSUME NEW n \in 1 .. Len(ParseSteps)
      PROVE  Before(n + 1) = Before(n) \cup {ParseSteps[n]}
  <2>1. Len(ParseSteps) \in Nat
    BY ParseFacts
  <2>2. 1 .. (n + 1) - 1 = (1 .. n - 1) \cup {n}
    BY <2>1
  <2> QED BY <2>2 DEF Before
<1>3. Before(Len(ParseSteps) + 1) = StepsOf(ParseSteps)
  <2>1. Len(ParseSteps) + 1 - 1 = Len(ParseSteps)
    BY ParseFacts
  <2> QED BY <2>1 DEF Before, StepsOf
<1>4. ASSUME NEW n \in 1 .. 9 PROVE Allocated(Before(n)) = {}
  <2>1. \A k \in 1 .. n - 1 : k \in 1 .. 8
    OBVIOUS
  <2>2. \A x \in Before(n) : x.op # "alloc"
    BY <2>1, ParseFacts DEF Before
  <2> QED BY <2>2 DEF Allocated
<1> QED BY <1>1, <1>2, <1>3, <1>4

LEMMA AllocatedUnion ==
  ASSUME NEW S, NEW x
  PROVE  Allocated(S \cup {x}) =
           Allocated(S) \cup (IF x.op = "alloc" THEN {x.table} ELSE {})
BY DEF Allocated

LEMMA ReadOne ==
  ASSUME NEW x, NEW t
  PROVE  ReadInto({x}, t) = IF x.op = "read" /\ x.table = t THEN x.entries ELSE {}
BY DEF ReadInto

(* The object does not change, and neither do the steps of its load.       *)
LEMMA SameSteps ==
  ASSUME object' = object
  PROVE  /\ ParseSteps' = ParseSteps
         /\ \A n : Before(n)' = Before(n)
         /\ \A t : Room(t)' = Room(t)
<1>1. \A t : Jumps(t)' = Jumps(t)
  BY DEF Jumps
<1>2. \A t : Room(t)' = Room(t)
  BY <1>1 DEF Room
<1>3. ParseSteps' = ParseSteps
  <2>1. \A t, n : RelocSteps(t, n)' = RelocSteps(t, n)
    BY <1>2 DEF RelocSteps
  <2>2. JumpSteps' = JumpSteps
    BY <1>2 DEF JumpSteps
  <2> QED BY <2>1, <2>2 DEF ParseSteps
<1> QED BY <1>2, <1>3 DEF Before
-----------------------------------------------------------------------------
LEMMA InitIInv == Init => IInv
<1> SUFFICES ASSUME Init PROVE IInv
  OBVIOUS
<1>1. TypeOK
  <2>1. written \in [RelTable -> SUBSET Nat]
    BY DEF Init
  <2>2. step \in Nat \ {0} /\ doubleFree \in BOOLEAN
    <3>1. step \in Nat \ {0}
      BY DEF Init
    <3>2. doubleFree \in BOOLEAN
      BY Zenon DEF Init
    <3> QED BY <3>1, <3>2
  <2>3. /\ live \subseteq Table /\ elf \subseteq ElfTable /\ handle \subseteq Kept
        /\ deps \subseteq {"object", "main"}
    BY DEF Init
  <2>4. /\ phase \in Phases /\ pages \in {"none", "allocated", "committed"}
        /\ lastError \in Error /\ cause \in Error
    BY DEF Init, Phases, Error
  <2> QED BY <2>1, <2>2, <2>3, <2>4 DEF Init, TypeOK
<1>2. MapInv /\ EndInv /\ RelocationsRead /\ ErrorInv
  BY DEF Init, MapInv, EndInv, RelocationsRead, ErrorInv
<1>3. object \in Object /\ Len(ParseSteps) \in Nat /\ Before(1) = {}
  BY ParseFacts, BeforeFacts DEF Init
<1>4. ParseInv
  BY <1>3 DEF Init, ParseInv, Allocated, ReadInto
<1> QED BY <1>1, <1>2, <1>4 DEF IInv

(* A step of ctrdl_parseELF.                                               *)
LEMMA ParseStepKeeps == IInv /\ phase = "parse" /\ StepSucceeds => IInv'
<1> SUFFICES ASSUME IInv, phase = "parse", StepSucceeds
             PROVE  IInv'
  OBVIOUS
<1> DEFINE x == ParseSteps[step]
<1>1. /\ object \in Object /\ object' = object /\ step \in 1 .. Len(ParseSteps)
      /\ Len(ParseSteps) \in Nat /\ Now = x /\ x \in ParseStep
  <2>1. object \in Object /\ object' = object
    BY DEF IInv, TypeOK, StepSucceeds, given
  <2>2. Steps = ParseSteps /\ step <= Len(ParseSteps) /\ step \in Nat \ {0}
    BY DEF StepSucceeds, Running, Steps, IInv, TypeOK
  <2>3. ParseSteps \in Seq(ParseStep) /\ Len(ParseSteps) \in Nat
    BY <2>1, ParseFacts
  <2> QED BY <2>1, <2>2, <2>3 DEF Now
<1>2. Before(step + 1) = Before(step) \cup {x}
  BY <1>1, BeforeFacts
<1>3. /\ x.op \in {"test", "refuse", "read", "alloc"} /\ x.table \in ElfTable \cup {"none"}
      /\ x.entries \in SUBSET Nat /\ (x.op = "alloc" => x.table \in ElfTable)
  BY <1>1 DEF ParseStep
<1>4. ParseSteps' = ParseSteps
  BY <1>1, SameSteps
<1> HIDE DEF x
<1>5. /\ step' = step + 1 /\ phase' = "parse" /\ pages' = pages
      /\ UNCHANGED <<given, handle, doubleFree, deps, lastError, cause>>
      /\ live' = live \cup (IF x.op = "alloc" THEN {x.table} ELSE {})
      /\ elf' = elf \cup (IF x.op = "alloc" THEN {x.table} ELSE {})
      /\ written' = IF x.op = "read" /\ x.table \in RelTable
                    THEN [written EXCEPT ![x.table] = @ \cup x.entries]
                    ELSE written
  BY <1>1, <1>3 DEF StepSucceeds
<1>6. /\ live = Allocated(Before(step)) /\ elf = live /\ handle = {}
      /\ \A t \in RelTable : written[t] = ReadInto(Before(step), t)
      /\ pages = "none" /\ deps = {}
  BY DEF IInv, ParseInv
<1>7. Allocated(Before(step + 1)) =
        Allocated(Before(step)) \cup (IF x.op = "alloc" THEN {x.table} ELSE {})
  BY <1>2, AllocatedUnion
<1>8. TypeOK'
  <2>1. written' \in [RelTable -> SUBSET Nat]
    BY <1>3, <1>5 DEF IInv, TypeOK
  <2>2. live' \subseteq Table /\ elf' \subseteq ElfTable
    BY <1>3, <1>5 DEF IInv, TypeOK, Table
  <2> QED BY <1>5, <2>1, <2>2 DEF IInv, TypeOK, Phases, given
<1>9. \A t \in RelTable : written'[t] = ReadInto(Before(step + 1), t)
  <2> SUFFICES ASSUME NEW t \in RelTable
               PROVE  written'[t] = ReadInto(Before(step + 1), t)
    OBVIOUS
  <2>1. ReadInto(Before(step + 1), t) =
          ReadInto(Before(step), t)
            \cup (IF x.op = "read" /\ x.table = t THEN x.entries ELSE {})
    <3>1. ReadInto(Before(step) \cup {x}, t) = ReadInto(Before(step), t) \cup ReadInto({x}, t)
      BY ReadUnion
    <3> QED BY <1>2, <3>1, ReadOne
  <2>2. written \in [RelTable -> SUBSET Nat]
    BY DEF IInv, TypeOK
  <2> QED BY <1>5, <1>6, <2>1, <2>2
<1>10. ParseInv'
  <2>1. step' \in 1 .. Len(ParseSteps') + 1
    BY <1>1, <1>4, <1>5
  <2>2. Before(step)' = Before(step + 1)
    BY <1>4, <1>5 DEF Before
  <2>3. Allocated(Before(step))' = Allocated(Before(step + 1))
    BY <2>2 DEF Allocated
  <2>4. \A t \in RelTable : ReadInto(Before(step), t)' = ReadInto(Before(step + 1), t)
    BY <2>2 DEF ReadInto
  <2> QED BY <1>5, <1>6, <1>7, <1>9, <2>1, <2>3, <2>4 DEF ParseInv
<1>11. (MapInv /\ EndInv /\ RelocationsRead /\ ErrorInv)'
  BY <1>5 DEF IInv, MapInv, EndInv, RelocationsRead, ErrorInv
<1> QED BY <1>8, <1>10, <1>11 DEF IInv

(* A step of ctrdl_mapObject.                                              *)
LEMMA MapStepKeeps == IInv /\ phase = "map" /\ StepSucceeds => IInv'
<1> SUFFICES ASSUME IInv, phase = "map", StepSucceeds
             PROVE  IInv'
  OBVIOUS
<1> DEFINE x == MapSteps[step]
<1>1. /\ object \in Object /\ object' = object /\ step \in 1 .. 12 /\ Now = x
  <2>1. Steps = MapSteps /\ step <= Len(MapSteps) /\ step \in Nat \ {0}
    BY DEF StepSucceeds, Running, Steps, IInv, TypeOK
  <2> QED BY <2>1, MapFacts DEF Now, IInv, TypeOK, StepSucceeds, given
<1>2. /\ x.op = "alloc" <=> step = 2
      /\ x.op = "read" => x.table = "none"
      /\ x.op = "pages" <=> step \in {6, 9}
      /\ step = 2 => x.table = "loadSegments"
      /\ step = 6 => x.table = "allocated"
      /\ step = 9 => x.table = "committed"
  BY <1>1, MapFacts
<1> HIDE DEF x
<1>3. "none" \notin RelTable /\ "loadSegments" \notin ElfTable /\ "loadSegments" \in Table
  BY DEF RelTable, ElfTable, Kept, Table
<1>4. /\ step' = step + 1 /\ phase' = "map" /\ written' = written /\ elf' = elf
      /\ UNCHANGED <<given, handle, doubleFree, deps, lastError, cause>>
      /\ live' = live \cup (IF step = 2 THEN {"loadSegments"} ELSE {})
      /\ pages' = IF step = 6 THEN "allocated" ELSE IF step = 9 THEN "committed" ELSE pages
  BY <1>1, <1>2, <1>3 DEF StepSucceeds
<1>5. TypeOK'
  BY <1>3, <1>4 DEF IInv, TypeOK, Phases, given
<1>6. MapInv'
  BY <1>1, <1>4 DEF IInv, MapInv, PagesAt
<1>7. RelocationsRead'
  <2>1. \A t : Room(t)' = Room(t)
    BY <1>1, SameSteps
  <2> QED BY <1>4, <2>1 DEF IInv, RelocationsRead
<1>8. (ParseInv /\ EndInv /\ ErrorInv)'
  BY <1>4 DEF IInv, ParseInv, EndInv, ErrorInv
<1> QED BY <1>5, <1>6, <1>7, <1>8 DEF IInv

LEMMA ParseFailsKeeps == IInv /\ ParseFails => IInv'
<1> SUFFICES ASSUME IInv, ParseFails
             PROVE  IInv'
  OBVIOUS
<1>1. /\ phase = "parse" /\ object \in Object /\ step \in 1 .. Len(ParseSteps)
      /\ Now.error \in Error \ {"OK"}
  <2>1. phase = "parse" /\ object \in Object /\ step \in Nat \ {0}
    BY DEF IInv, TypeOK, ParseFails
  <2>2. Steps = ParseSteps /\ step <= Len(ParseSteps)
    BY <2>1 DEF ParseFails, Running, Steps
  <2>3. ParseSteps \in Seq(ParseStep) /\ Len(ParseSteps) \in Nat
    BY <2>1, ParseFacts
  <2>4. ParseSteps[step] \in ParseStep
    BY <2>1, <2>2, <2>3
  <2> QED BY <2>1, <2>2, <2>3, <2>4 DEF Now, ParseStep
<1>2. live' = {} /\ ~doubleFree' /\ elf' = {}
  <2>1. live = elf /\ live = Allocated(Before(step)) /\ ~doubleFree
    BY <1>1 DEF IInv, ParseInv, EndInv
  <2>2. CASE FreesOnFailure
    BY <2>1, <2>2 DEF ParseFails, Free
  <2>3. CASE ~FreesOnFailure
    <3>1. step \in 1 .. 9
      BY <1>1, <2>3, HeaderTypes, ParseFacts DEF FreesOnFailure
    <3>2. live = {}
      BY <1>1, <2>1, <3>1, BeforeFacts
    <3> QED BY <2>1, <2>3, <3>2 DEF ParseFails
  <2> QED BY <2>2, <2>3
<1>3. /\ phase' = "drop" /\ lastError' = Now.error /\ cause' = Now.error
      /\ UNCHANGED <<stream, object, step, handle, written, pages, deps>>
  BY DEF ParseFails, given
<1>4. handle = {} /\ pages = "none" /\ doubleFree' \in BOOLEAN
  BY <1>1 DEF IInv, ParseInv, TypeOK, EndInv, ParseFails, Free
<1> QED
  BY <1>1, <1>2, <1>3, <1>4
  DEF IInv, TypeOK, Phases, ParseInv, MapInv, EndInv, RelocationsRead, ErrorInv

LEMMA ParsedKeeps == IInv /\ Parsed => IInv'
<1> SUFFICES ASSUME IInv, Parsed
             PROVE  IInv'
  OBVIOUS
<1>1. /\ phase = "parse" /\ object \in Object /\ step = Len(ParseSteps) + 1
      /\ object' = object
  <2>1. phase = "parse" /\ object \in Object /\ object' = object
    BY DEF IInv, TypeOK, Parsed, given
  <2>2. step \in 1 .. Len(ParseSteps) + 1 /\ step > Len(ParseSteps)
    BY <2>1 DEF IInv, ParseInv, Parsed, Steps
  <2> QED BY <2>1, <2>2, ParseFacts
<1>2. Before(step) = StepsOf(ParseSteps)
  BY <1>1, BeforeFacts
<1>3. /\ Kept \subseteq elf /\ live = elf /\ handle = {} /\ pages = "none"
      /\ \A t \in RelTable : written[t] = 0 .. Room(t) - 1
  BY <1>1, <1>2, ParseFacts DEF IInv, ParseInv
<1>4. /\ phase' = "deps" /\ step' = 1
      /\ UNCHANGED <<stream, object, live, elf, handle, doubleFree, written,
                     pages, deps, lastError, cause>>
  BY DEF Parsed, given, memory
<1>5. \A t : Room(t)' = Room(t)
  BY <1>1, SameSteps
<1>6. TypeOK' /\ RelocationsRead'
  BY <1>3, <1>4, <1>5 DEF IInv, TypeOK, Phases, RelocationsRead
<1>7. (ParseInv /\ MapInv /\ EndInv /\ ErrorInv)'
  BY <1>3, <1>4 DEF IInv, ParseInv, MapInv, EndInv, ErrorInv, PagesAt
<1> QED BY <1>6, <1>7 DEF IInv

(* What unlocking the dependencies may leave as an error.                  *)
LEMMA AfterReleaseIs ==
  ASSUME NEW bound, NEW error, NEW e \in AfterRelease(bound, error)
  PROVE  \/ e = error
         \/ e = "InvalidParam" /\ "main" \in bound
         \/ e = "FreeFailed" /\ "object" \in bound
BY DEF AfterRelease

LEMMA DepsKeep == IInv /\ (DepsLoaded \/ DepsFail) => IInv'
<1>1. ASSUME IInv, DepsLoaded
      PROVE  IInv'
  <2>1. /\ phase = "deps" /\ phase' = "map" /\ deps' \subseteq {"object", "main"}
        /\ lastError' \in {lastError} \cup (Error \ {"OK"})
        /\ UNCHANGED <<stream, object, step, live, elf, handle, doubleFree,
                       written, pages, cause>>
    BY <1>1 DEF DepsLoaded, given, memory
  <2>2. \A t : Room(t)' = Room(t)
    BY <2>1, SameSteps
  <2>3. TypeOK' /\ RelocationsRead'
    BY <1>1, <2>1, <2>2 DEF IInv, TypeOK, Phases, RelocationsRead, Error
  <2>4. (ParseInv /\ MapInv /\ EndInv /\ ErrorInv)'
    BY <1>1, <2>1 DEF IInv, ParseInv, MapInv, EndInv, ErrorInv
  <2> QED BY <2>3, <2>4 DEF IInv
<1>2. ASSUME IInv, DepsFail
      PROVE  IInv'
  <2>1. /\ phase = "deps" /\ phase' = "drop" /\ deps' \subseteq {"object", "main"}
        /\ cause' \in {"DepFailed", "DepsLimit"}
        /\ lastError' \in AfterRelease(deps', cause')
        /\ UNCHANGED <<stream, object, step, live, elf, handle, doubleFree,
                       written, pages>>
    BY <1>2 DEF DepsFail, given, memory
  <2>2. /\ pages = "none" /\ handle = {} /\ live = elf
    <3>1. step = 1
      BY <1>2, <2>1 DEF IInv, MapInv
    <3>2. PagesAt(1) = "none"
      BY DEF PagesAt
    <3> QED BY <1>2, <2>1, <3>1, <3>2 DEF IInv, MapInv
  <2>3. \/ lastError' = cause'
        \/ lastError' = "InvalidParam" /\ "main" \in deps'
        \/ lastError' = "FreeFailed" /\ "object" \in deps'
    BY <2>1, AfterReleaseIs
  <2>4. TypeOK'
    BY <1>2, <2>1, <2>3 DEF IInv, TypeOK, Phases, Error
  <2>5. (ParseInv /\ MapInv /\ EndInv /\ RelocationsRead /\ ErrorInv)'
    BY <1>2, <2>1, <2>2, <2>3
    DEF IInv, TypeOK, ParseInv, MapInv, EndInv, RelocationsRead, ErrorInv
  <2> QED BY <2>4, <2>5 DEF IInv
<1> QED BY <1>1, <1>2

(* What unloading the object does to its pages and to the error.           *)
LEMMA UnloadIs ==
  ASSUME TypeOK, NEW error, UnloadSucceeds(error) \/ UnloadFails
  PROVE  /\ pages' \in {"none", "allocated", "committed"}
         /\ pages' # "none" => pages # "none"
         /\ UnloadFails => pages # "none" /\ lastError' = "FreeFailed"
         /\ UnloadSucceeds(error) =>
              /\ pages' = "none"
              /\ \/ lastError' = error
                 \/ lastError' = "InvalidParam" /\ "main" \in deps
                 \/ lastError' = "FreeFailed" /\ "object" \in deps
BY AfterReleaseIs DEF UnloadSucceeds, UnloadFails, TypeOK

LEMMA MapFailsKeeps == IInv /\ MapFails => IInv'
<1> SUFFICES ASSUME IInv, MapFails
             PROVE  IInv'
  OBVIOUS
<1>1. /\ phase = "map" /\ step \in 1 .. 12
      /\ Now.error \in Error \ {"OK"} /\ (step > 6 => Now.error \in PagesErrors)
  <2>1. phase = "map" /\ Steps = MapSteps /\ step <= Len(MapSteps) /\ step \in Nat \ {0}
    BY DEF MapFails, Running, Steps, IInv, TypeOK
  <2> QED BY <2>1, MapFacts DEF Now
<1>2. /\ live \ {"loadSegments"} = elf /\ handle = {} /\ ~doubleFree
      /\ pages # "none" => step > 6
  <2>1. "loadSegments" \notin elf
    BY DEF IInv, TypeOK, ElfTable, Kept, RelTable
  <2> QED BY <1>1, <2>1 DEF IInv, MapInv, EndInv, PagesAt
<1>3. /\ phase' = "drop" /\ cause' = Now.error
      /\ UNCHANGED <<stream, object, step, elf, handle, written, deps>>
      /\ live' = elf /\ ~doubleFree' /\ doubleFree' \in BOOLEAN
  BY <1>2 DEF MapFails, Free, given
<1>4. /\ pages' \in {"none", "allocated", "committed"}
      /\ pages' # "none" => cause' \in PagesErrors
      /\ \/ lastError' = cause'
         \/ lastError' = "FreeFailed" /\ ("object" \in deps \/ cause' \in PagesErrors)
         \/ lastError' = "InvalidParam" /\ "main" \in deps
  <2>1. TypeOK /\ (UnloadSucceeds(Now.error) \/ UnloadFails)
    BY DEF IInv, MapFails
  <2> QED BY <1>1, <1>2, <1>3, <2>1, UnloadIs
<1>5. TypeOK'
  BY <1>1, <1>3, <1>4 DEF IInv, TypeOK, Phases, Table, Error
<1>6. (ParseInv /\ MapInv /\ EndInv /\ RelocationsRead /\ ErrorInv)'
  BY <1>1, <1>2, <1>3, <1>4
  DEF IInv, TypeOK, ParseInv, MapInv, EndInv, RelocationsRead, ErrorInv
<1> QED BY <1>5, <1>6 DEF IInv

LEMMA MappedKeeps == IInv /\ Mapped => IInv'
<1> SUFFICES ASSUME IInv, Mapped
             PROVE  IInv'
  OBVIOUS
<1>1. phase = "map" /\ step = 13 /\ object' = object
  <2>1. phase = "map" /\ step > Len(MapSteps)
    BY DEF Mapped, Steps
  <2> QED BY <2>1, MapFacts DEF Mapped, given, IInv, MapInv
<1>2. live = elf \cup {"loadSegments"} /\ Kept \subseteq elf /\ ~doubleFree
  BY <1>1 DEF IInv, MapInv, EndInv
<1>3. "loadSegments" \notin Kept
  BY DEF Kept
<1>4. /\ live' = Kept /\ ~doubleFree' /\ doubleFree' \in BOOLEAN
      /\ handle' = Kept /\ elf' = {} /\ phase' = "loaded"
      /\ UNCHANGED <<stream, object, step, written, pages, deps, lastError, cause>>
  BY <1>2, <1>3 DEF Mapped, Free, given
<1>5. \A t : Room(t)' = Room(t)
  BY <1>1, SameSteps
<1>6. TypeOK' /\ RelocationsRead'
  <2>1. Kept \subseteq Table
    BY DEF Table, ElfTable
  <2> QED BY <1>1, <1>4, <1>5, <2>1 DEF IInv, TypeOK, Phases, RelocationsRead
<1>7. (ParseInv /\ MapInv /\ EndInv /\ ErrorInv)'
  BY <1>4 DEF ParseInv, MapInv, EndInv, ErrorInv
<1> QED BY <1>6, <1>7 DEF IInv

LEMMA DropKeeps == IInv /\ Drop => IInv'
<1> SUFFICES ASSUME IInv, Drop
             PROVE  IInv'
  OBVIOUS
<1>1. /\ phase = "drop" /\ live = elf /\ handle = {} /\ ~doubleFree
      /\ UNCHANGED <<stream, object, step, handle, written, deps, cause>>
  BY DEF IInv, EndInv, Drop, given
<1>2. live' = {} /\ elf' = {} /\ ~doubleFree' /\ doubleFree' \in BOOLEAN
  BY <1>1 DEF Drop, Free
<1>3. /\ phase' \in {"failed", "kept"}
      /\ phase' = "failed" => pages' = "none"
      /\ pages' \in {"none", "allocated", "committed"}
      /\ pages' # "none" => pages # "none"
      /\ \/ lastError' = lastError
         \/ lastError' = "FreeFailed" /\ ("object" \in deps \/ pages # "none")
         \/ lastError' = "InvalidParam" /\ "main" \in deps
  <2>1. TypeOK /\ (UnloadSucceeds(lastError) \/ UnloadFails)
    BY DEF IInv, Drop
  <2>2. \/ UnloadSucceeds(lastError) /\ phase' = "failed"
        \/ UnloadFails /\ phase' = "kept"
    BY DEF Drop
  <2> QED BY <2>1, <2>2, UnloadIs
<1>4. TypeOK'
  BY <1>1, <1>2, <1>3 DEF IInv, TypeOK, Phases, Error
<1>5. ErrorInv'
  BY <1>1, <1>3 DEF IInv, ErrorInv
<1>6. (ParseInv /\ MapInv /\ EndInv /\ RelocationsRead)'
  BY <1>1, <1>2, <1>3 DEF ParseInv, MapInv, EndInv, RelocationsRead
<1> QED BY <1>4, <1>5, <1>6 DEF IInv

LEMMA CloseKeeps == IInv /\ Close => IInv'
<1> SUFFICES ASSUME IInv, Close
             PROVE  IInv'
  OBVIOUS
<1>1. /\ phase \in {"loaded", "kept"} /\ live = handle /\ elf = {} /\ ~doubleFree
      /\ UNCHANGED <<stream, object, step, elf, written, deps, cause>>
  BY DEF IInv, EndInv, Close, given
<1>2. TypeOK /\ (UnloadSucceeds(lastError) \/ UnloadFails)
  BY DEF IInv, Close
<1>3. /\ pages' \in {"none", "allocated", "committed"}
      /\ pages' # "none" => pages # "none"
      /\ \/ lastError' = lastError
         \/ lastError' = "FreeFailed" /\ ("object" \in deps \/ pages # "none")
         \/ lastError' = "InvalidParam" /\ "main" \in deps
  BY <1>2, UnloadIs
<1>4. \/ /\ pages' = "none" /\ phase' = "closed" /\ handle' = {}
         /\ live' = {} /\ ~doubleFree' /\ doubleFree' \in BOOLEAN
      \/ UNCHANGED <<live, doubleFree, handle, phase>>
  BY <1>1, <1>2, UnloadIs DEF Close, Free
<1>5. TypeOK'
  BY <1>1, <1>3, <1>4 DEF IInv, TypeOK, Phases, Error
<1>6. ErrorInv'
  BY <1>1, <1>3, <1>4 DEF IInv, ErrorInv
<1>7. RelocationsRead'
  <2>1. \A t : Room(t)' = Room(t)
    BY <1>1, SameSteps
  <2> QED BY <1>1, <1>4, <2>1 DEF IInv, RelocationsRead
<1>8. (ParseInv /\ MapInv /\ EndInv)'
  BY <1>1, <1>4 DEF IInv, ParseInv, MapInv, EndInv
<1> QED BY <1>5, <1>6, <1>7, <1>8 DEF IInv

LEMMA StepIInv == IInv /\ [Next]_vars => IInv'
<1> SUFFICES ASSUME IInv, [Next]_vars
             PROVE  IInv'
  OBVIOUS
<1>1. CASE StepSucceeds
  <2>1. phase \in {"parse", "map"}
    BY <1>1 DEF StepSucceeds, Running
  <2> QED BY <1>1, <2>1, ParseStepKeeps, MapStepKeeps
<1>2. CASE UNCHANGED vars
  <2>1. UNCHANGED <<stream, object, phase, step, live, elf, handle, doubleFree,
                    written, pages, deps, lastError, cause>>
    BY <1>2 DEF vars
  <2>2. /\ ParseSteps' = ParseSteps /\ \A n : Before(n)' = Before(n)
        /\ \A t : Room(t)' = Room(t)
    BY <2>1, SameSteps
  <2>3. Before(step)' = Before(step)
    BY <2>1, <2>2 DEF Before
  <2>4. Allocated(Before(step))' = Allocated(Before(step))
    BY <2>3 DEF Allocated
  <2>5. \A t \in RelTable : ReadInto(Before(step), t)' = ReadInto(Before(step), t)
    BY <2>3 DEF ReadInto
  <2>6. ParseInv'
    BY <2>1, <2>2, <2>4, <2>5 DEF IInv, ParseInv
  <2>7. (TypeOK /\ MapInv /\ EndInv /\ RelocationsRead /\ ErrorInv)'
    BY <2>1, <2>2 DEF IInv, TypeOK, MapInv, EndInv, RelocationsRead, ErrorInv
  <2> QED BY <2>6, <2>7 DEF IInv
<1> QED
  BY <1>1, <1>2, ParseFailsKeeps, ParsedKeeps, DepsKeep, MapFailsKeeps,
     MappedKeeps, DropKeeps, CloseKeeps DEF Next, Over

LEMMA LoadInvariant == Spec => []IInv
<1> QED BY InitIInv, StepIInv, PTL DEF Spec

-----------------------------------------------------------------------------
(* The variables of a load keep their types.                               *)
THEOREM LoadTypes == Spec => []TypeOK
<1>1. IInv => TypeOK
  BY DEF IInv
<1> QED BY <1>1, LoadInvariant, PTL

(* Whichever of its steps a load fails at, and whether pages and           *)
(* dependencies can be given back or not, each table it allocated has one  *)
(* owner, is freed once, and is not left over (ctrdl_parseELF,             *)
(* ctrdl_mapObject, ctrdl_unloadObject).                                   *)
THEOREM LoadOwnsTables == Spec => []TablesOwned
<1>1. ASSUME IInv PROVE TablesOwned
  <2>1. "loadSegments" \notin ElfTable
    BY DEF ElfTable, Kept, RelTable
  <2>2. phase \in Phases /\ elf \subseteq ElfTable /\ handle \subseteq ElfTable
    BY <1>1 DEF IInv, TypeOK, ElfTable
  <2>3. phase = "parse" => live = elf /\ handle = {}
    BY <1>1 DEF IInv, ParseInv
  <2>4. phase \in {"deps", "map"} =>
          /\ handle = {} /\ live \ {"loadSegments"} = elf
          /\ "loadSegments" \in live => phase = "map"
    BY <1>1, <2>1, <2>2 DEF IInv, MapInv
  <2> QED BY <1>1, <2>1, <2>2, <2>3, <2>4 DEF IInv, EndInv, TablesOwned, Phases
<1> QED BY <1>1, LoadInvariant, PTL

(* However many relocations an object has, and of which types, the tables  *)
(* hold all of them and nothing else when they are applied.                *)
THEOREM LoadReadsRelocations == Spec => []RelocationsRead
<1>1. IInv => RelocationsRead
  BY DEF IInv
<1> QED BY <1>1, LoadInvariant, PTL

(* The error a failed load leaves is the one its failing step set, but for *)
(* the three cases in which giving back pages, objects and the program     *)
(* replaces it.                                                            *)
THEOREM LoadReportsCause == Spec => []CauseReported
<1>1. IInv => CauseReported
  BY DEF IInv, ErrorInv, CauseReported, PagesErrors
<1> QED BY <1>1, LoadInvariant, PTL

-----------------------------------------------------------------------------
(* What segments there are and where they go decides which steps fail, and *)
(* nothing else of a load: SegmentMap implements ElfLoad, so that all of   *)
(* the above holds of ctrdl_mapObject with its arithmetic.                 *)
THEOREM SegmentsLoad == SegmentSpec => Spec
<1>1. SegmentInit => Init
  BY DEF SegmentInit
<1>2. [SegmentNext]_allVars => [Next]_vars
  <2> SUFFICES ASSUME [SegmentNext]_allVars
               PROVE  [Next]_vars
    OBVIOUS
  <2>1. CASE UNCHANGED allVars
    BY <2>1 DEF allVars
  <2>2. CASE SegmentNext
    BY <2>2 DEF SegmentNext, Checked, PagesAllocated, SegmentsRead, MadeWritable,
                SegmentsProtected, OtherStep, HeadersTaken, SegmentsFail, Next
  <2> QED BY <2>1, <2>2
<1> QED BY <1>1, <1>2, PTL DEF SegmentSpec, Spec

(* Tables are owned, relocations read and causes reported however the      *)
(* segments lie, in or out of what is allocated for them.                  *)
THEOREM SegmentsOwnTables ==
  SegmentSpec => [](TablesOwned /\ RelocationsRead /\ CauseReported)
BY SegmentsLoad, LoadOwnsTables, LoadReadsRelocations, LoadReportsCause, PTL

-----------------------------------------------------------------------------
(* Rounding, and the last address of a segment.                            *)
LEMMA Largest ==
  ASSUME NEW n \in Nat, NEW S \in SUBSET (0 .. n), S # {}
  PROVE  Max(S) \in S /\ \A y \in S : Max(S) >= y
<1> DEFINE T == {n - x : x \in S}
<1>1. \A x \in S : x \in 0 .. n /\ n - x \in Nat
  OBVIOUS
<1>2. T \subseteq Nat /\ T # {}
  BY <1>1
<1>3. PICK m \in T : \A y \in T : ~(<<y, m>> \in OpToRel(<, Nat))
  BY <1>2, NatLessThanWellFounded, WFMin
<1>4. \A y \in T : ~(y < m)
  BY <1>2, <1>3 DEF OpToRel
<1>5. PICK x \in S : m = n - x
  OBVIOUS
<1>6. \A y \in S : x >= y
  <2> TAKE y \in S
  <2>1. ~(n - y < n - x)
    BY <1>4, <1>5
  <2> HIDE DEF T
  <2> QED BY <1>1, <2>1
<1> QED BY <1>6 DEF Max

LEMMA Rounding ==
  ASSUME NEW n \in Nat, NEW d \in Nat \ {0}
  PROVE  /\ AlignDown(n + d - 1, d) \in n .. n + d - 1
         /\ \E k \in Nat : AlignDown(n + d - 1, d) = d * k
         /\ \A k \in Nat : d * k >= n => AlignDown(n + d - 1, d) <= d * k
<1> DEFINE m == n + d - 1
           q == m \div d
<1>1. m \in Nat /\ q \in Nat /\ m = d * q + (m % d) /\ m % d \in 0 .. d - 1
  OBVIOUS
<1>2. AlignDown(m, d) = d * q
  BY <1>1 DEF AlignDown
<1>3. d * q \in n .. m
  BY <1>1
<1>4. ASSUME NEW k \in Nat, d * k >= n PROVE d * q <= d * k
  <2>1. d * q <= d * k + d - 1
    BY <1>3, <1>4
  <2>2. SUFFICES ASSUME q >= k + 1 PROVE FALSE
    BY <1>1
  <2>3. d * q >= d * (k + 1)
    BY <1>1, <2>2
  <2> QED BY <2>1, <2>3
<1> QED BY <1>1, <1>2, <1>3, <1>4

(* An address that is far enough from the end is not wrapped around.       *)
LEMMA RoundedUp ==
  ASSUME NEW n \in Nat, NEW d \in Nat \ {0}, n + d <= Space
  PROVE  /\ AlignUp(n, d) \in n .. n + d - 1
         /\ \E k \in Nat : AlignUp(n, d) = d * k
         /\ \A k \in Nat : d * k >= n => AlignUp(n, d) <= d * k
<1> DEFINE r == AlignDown(n + d - 1, d)
<1>1. Space \in Nat \ {0}
  BY SegmentAssumption
<1>2. /\ r \in n .. n + d - 1 /\ \E k \in Nat : r = d * k
      /\ \A k \in Nat : d * k >= n => r <= d * k
  BY Rounding
<1>3. AlignUp(n, d) = r % Space
  BY DEF AlignUp
<1> HIDE DEF r
<1>4. r \in 0 .. Space - 1
  BY <1>1, <1>2
<1>5. r % Space = r
  BY <1>1, <1>4
<1> QED BY <1>2, <1>3, <1>5

Fits(s) == End(s) + Max({s.align, PageSize}) <= Space

LEMMA Larger ==
  ASSUME NEW s \in Segment
  PROVE  /\ Max({s.align, PageSize}) \in {s.align, PageSize}
         /\ Max({s.align, PageSize}) >= s.align
         /\ Max({s.align, PageSize}) >= PageSize
<1>1. s.align \in Nat /\ PageSize \in Nat
  BY SegmentAssumption DEF Segment, Alignment
<1>2. s.align + PageSize \in Nat
      /\ {s.align, PageSize} \in SUBSET (0 .. s.align + PageSize)
  BY <1>1
<1> QED BY <1>2, Largest

(* It is behind the segment and a multiple of a page, and of the alignment.*)
LEMMA EndRounded ==
  ASSUME NEW s \in Segment, Fits(s)
  PROVE  /\ VirtualEnd(s) \in End(s) .. Space - 1
         /\ \E k \in Nat : VirtualEnd(s) = PageSize * k
         /\ s.align > 1 => \E k \in Nat : VirtualEnd(s) = s.align * k
<1> DEFINE a == s.align
           d == Max({a, PageSize})
<1>1. /\ a \in Nat /\ PageSize \in Nat \ {0} /\ Space \in Nat
      /\ s.vaddr \in Nat /\ s.memsz \in Nat /\ End(s) \in Nat
      /\ a <= 1 \/ a % PageSize = 0 \/ PageSize % a = 0
  BY SegmentAssumption DEF Segment, Alignment, End
<1>2. d \in {a, PageSize} /\ d >= a /\ d >= PageSize
  BY Larger
<1>3. d \in Nat \ {0} /\ End(s) + d <= Space
  BY <1>1, <1>2 DEF Fits
<1> HIDE DEF a, d
<1>4. VirtualEnd(s) = AlignUp(End(s), d)
  <2>1. End(s) % Space = End(s)
    BY <1>1, <1>3
  <2> QED BY <2>1 DEF VirtualEnd, End, d, a
<1>5. VirtualEnd(s) \in End(s) .. End(s) + d - 1
  BY <1>1, <1>3, <1>4, RoundedUp
<1>6. PICK k \in Nat : VirtualEnd(s) = d * k
  BY <1>1, <1>3, <1>4, RoundedUp
<1>7. \E j \in Nat : d = PageSize * j
  <2>1. CASE d = PageSize
    BY <1>1, <2>1
  <2>2. CASE d = a /\ a # PageSize
    <3>1. a % PageSize = 0
      BY <1>1, <1>2, <2>2
    <3>2. a = PageSize * (a \div PageSize) /\ a \div PageSize \in Nat
      BY <1>1, <3>1
    <3> QED BY <2>2, <3>2
  <2> QED BY <1>2, <2>1, <2>2
<1>8. a > 1 => \E j \in Nat : d = a * j
  <2> SUFFICES ASSUME a > 1 PROVE \E j \in Nat : d = a * j
    OBVIOUS
  <2>1. CASE d = a
    BY <1>1, <2>1
  <2>2. CASE d = PageSize /\ a # PageSize
    <3>1. PageSize % a = 0
      BY <1>1, <1>2, <2>2
    <3>2. PageSize = a * (PageSize \div a) /\ PageSize \div a \in Nat
      BY <1>1, <3>1
    <3> QED BY <2>2, <3>2
  <2> QED BY <1>2, <2>1, <2>2
<1>9. \A b \in Nat : (\E j \in Nat : d = b * j) => \E i \in Nat : VirtualEnd(s) = b * i
  <2> TAKE b \in Nat
  <2> SUFFICES ASSUME NEW j \in Nat, d = b * j
               PROVE  \E i \in Nat : VirtualEnd(s) = b * i
    OBVIOUS
  <2>1. VirtualEnd(s) = b * (j * k) /\ j * k \in Nat
    BY <1>6
  <2> QED BY <2>1
<1>10. \E k2 \in Nat : VirtualEnd(s) = PageSize * k2
  BY <1>1, <1>7, <1>9
<1>11. a > 1 => \E k2 \in Nat : VirtualEnd(s) = a * k2
  BY <1>1, <1>8, <1>9
<1>12. VirtualEnd(s) \in End(s) .. Space - 1
  BY <1>1, <1>3, <1>5
<1> QED BY <1>10, <1>11, <1>12 DEF a

-----------------------------------------------------------------------------
(* The pages of an object are its addresses up to the highest one.         *)
LEMMA HighestRounded ==
  ASSUME segments \in Seq(Segment), NoWrap
  PROVE  /\ Highest \in 0 .. Space - 1
         /\ \E k \in Nat : Highest = PageSize * k
         /\ \A i \in DOMAIN segments : VirtualEnd(segments[i]) <= Highest
<1> DEFINE S == {0} \cup {VirtualEnd(segments[i]) : i \in DOMAIN segments}
<1>1. PageSize \in Nat \ {0} /\ Space \in Nat \ {0}
  BY SegmentAssumption
<1>2. \A i \in DOMAIN segments :
        /\ segments[i] \in Segment /\ Fits(segments[i])
        /\ End(segments[i]) \in Nat
  <2> TAKE i \in DOMAIN segments
  <2>1. segments[i] \in Segment
    OBVIOUS
  <2>2. segments[i].vaddr \in Nat /\ segments[i].memsz \in Nat
    BY <1>1, <2>1 DEF Segment
  <2>3. Fits(segments[i])
    BY DEF NoWrap, Fits
  <2> QED BY <2>1, <2>2, <2>3 DEF End
<1>3. \A i \in DOMAIN segments :
        /\ VirtualEnd(segments[i]) \in 0 .. Space - 1
        /\ \E k \in Nat : VirtualEnd(segments[i]) = PageSize * k
  <2> TAKE i \in DOMAIN segments
  <2>1. VirtualEnd(segments[i]) \in End(segments[i]) .. Space - 1
        /\ \E k \in Nat : VirtualEnd(segments[i]) = PageSize * k
    BY <1>2, EndRounded
  <2> QED BY <1>1, <1>2, <2>1
<1>4. S \in SUBSET (0 .. Space - 1) /\ S # {} /\ Space - 1 \in Nat
  BY <1>1, <1>3
<1>5. Highest \in S /\ \A y \in S : Highest >= y
  BY <1>4, Largest DEF Highest
<1>6. \E k \in Nat : Highest = PageSize * k
  <2>1. CASE Highest = 0
    BY <1>1, <2>1
  <2>2. CASE Highest # 0
    BY <1>3, <1>5, <2>2
  <2> QED BY <2>1, <2>2
<1>7. \A i \in DOMAIN segments : VirtualEnd(segments[i]) <= Highest
  BY <1>1, <1>3, <1>5
<1> QED BY <1>4, <1>5, <1>6, <1>7

LEMMA PagesCover ==
  ASSUME segments \in Seq(Segment), NoWrap, Lowest = 0
  PROVE  /\ PagesOfSize(Highest - Lowest) \in Nat
         /\ PagesOfSize(Highest - Lowest) * PageSize = Highest
<1>1. PICK k \in Nat : Highest = PageSize * k
  BY HighestRounded
<1>2. /\ PageSize \in Nat \ {0} /\ Space \in Nat \ {0} /\ Space % PageSize = 0
      /\ Highest \in 0 .. Space - 1
  BY HighestRounded, SegmentAssumption
<1>3. PICK n \in Nat : Space = PageSize * n
  <2>1. Space = PageSize * (Space \div PageSize) /\ Space \div PageSize \in Nat
    BY <1>2
  <2> QED BY <2>1
<1>4. Highest + PageSize <= Space
  <2>1. n > k
    <3> SUFFICES ASSUME k >= n PROVE FALSE
      OBVIOUS
    <3>1. PageSize * k >= PageSize * n
      BY <1>2
    <3> QED BY <1>1, <1>2, <1>3, <3>1
  <2>2. PageSize * n >= PageSize * (k + 1)
    BY <1>2, <2>1
  <2> QED BY <1>1, <1>2, <1>3, <2>2
<1>5. AlignUp(Highest, PageSize) = Highest
  <2>1. /\ AlignUp(Highest, PageSize) \in Highest .. Highest + PageSize - 1
        /\ \A j \in Nat : PageSize * j >= Highest => AlignUp(Highest, PageSize) <= PageSize * j
    <3>1. Highest \in Nat
      BY <1>2
    <3> HIDE DEF Highest
    <3> QED BY <1>2, <1>4, <3>1, RoundedUp
  <2>2. AlignUp(Highest, PageSize) <= Highest
    BY <1>1, <1>2, <2>1
  <2> QED BY <1>2, <2>1, <2>2
<1>6. (PageSize * k) \div PageSize = k
  BY <1>2
<1>7. PagesOfSize(Highest - Lowest) = k
  <2>1. Highest - Lowest = Highest
    BY <1>2
  <2> QED BY <1>1, <1>5, <1>6, <2>1 DEF PagesOfSize
<1> QED BY <1>1, <1>2, <1>7

-----------------------------------------------------------------------------
(* Which pages get the permissions of a segment.                           *)
Size(s) == IF s.align > 1 THEN AlignUp(s.memsz, s.align) ELSE s.memsz

LEMMA SegmentNumbers ==
  ASSUME NEW s \in Segment
  PROVE  /\ s.vaddr \in Nat /\ s.memsz \in Nat /\ s.filesz \in Nat /\ s.align \in Nat
         /\ End(s) \in Nat /\ End(s) = s.vaddr + s.memsz
         /\ s.flags \in SUBSET {"r", "w", "x"}
         /\ PageSize \in Nat \ {0} /\ Space \in Nat \ {0}
         /\ Protected(s) = Touched(s.vaddr, Size(s))
         /\ Fits(s) => End(s) + s.align <= Space /\ End(s) + PageSize <= Space
<1>1. /\ s.vaddr \in Nat /\ s.memsz \in Nat /\ s.filesz \in Nat /\ s.align \in Nat
      /\ PageSize \in Nat \ {0} /\ Space \in Nat \ {0} /\ s.flags \in SUBSET {"r", "w", "x"}
  BY SegmentAssumption DEF Segment, Alignment
<1>2. End(s) \in Nat /\ End(s) = s.vaddr + s.memsz
  BY <1>1 DEF End
<1>3. Protected(s) = Touched(s.vaddr, Size(s))
  BY DEF Protected, Size
<1>4. Fits(s) => End(s) + s.align <= Space /\ End(s) + PageSize <= Space
  <2>1. Max({s.align, PageSize}) \in Nat
    BY <1>1, Larger
  <2> QED BY <1>1, <1>2, <2>1, Larger DEF Fits
<1> QED BY <1>1, <1>2, <1>3, <1>4

LEMMA SizeRounded ==
  ASSUME NEW s \in Segment, Fits(s)
  PROVE  /\ Size(s) \in Nat /\ Size(s) >= s.memsz
         /\ s.align > 1 => \A k \in Nat : s.align * k >= s.memsz => Size(s) <= s.align * k
<1>1. CASE s.align > 1
  <2>1. s.memsz + s.align <= Space
    BY SegmentNumbers
  <2>2. s.memsz \in Nat /\ s.align \in Nat \ {0}
    BY <1>1, SegmentNumbers
  <2>3. /\ AlignUp(s.memsz, s.align) \in s.memsz .. s.memsz + s.align - 1
        /\ \A k \in Nat : s.align * k >= s.memsz => AlignUp(s.memsz, s.align) <= s.align * k
    BY <2>1, <2>2, RoundedUp
  <2> QED BY <1>1, <2>2, <2>3 DEF Size
<1>2. CASE ~(s.align > 1)
  BY <1>2, SegmentNumbers DEF Size
<1> QED BY <1>1, <1>2

LEMMA ProtectsSegment ==
  ASSUME NEW s \in Segment, Fits(s)
  PROVE  Touched(s.vaddr, s.memsz) \subseteq Protected(s)
<1> SUFFICES ASSUME NEW q \in Touched(s.vaddr, s.memsz)
             PROVE  q \in Touched(s.vaddr, Size(s))
  BY SegmentNumbers
<1>1. /\ Size(s) \in Nat /\ Size(s) >= s.memsz
      /\ s.vaddr \in Nat /\ s.memsz \in Nat /\ PageSize \in Nat \ {0} /\ Space \in Nat
  BY SizeRounded, SegmentNumbers
<1>2. q \in 0 .. Space /\ q * PageSize \in Int
      /\ q * PageSize < s.vaddr + s.memsz /\ (q + 1) * PageSize > s.vaddr
  BY <1>1 DEF Touched
<1>3. q * PageSize < s.vaddr + Size(s)
  BY <1>1, <1>2
<1> QED BY <1>2, <1>3 DEF Touched

(* The rounded size of a segment that begins at a multiple of its alignment*)
(* does not reach behind its last address.                                 *)
LEMMA ProtectsInside ==
  ASSUME NEW s \in Segment, Fits(s), s.align > 1 => s.vaddr % s.align = 0,
         NEW q \in Protected(s)
  PROVE  q \in Nat /\ q * PageSize < VirtualEnd(s)
<1> DEFINE a == s.align
           v == VirtualEnd(s)
<1>1. /\ Size(s) \in Nat /\ a \in Nat /\ s.vaddr \in Nat /\ s.memsz \in Nat
      /\ PageSize \in Nat \ {0} /\ Space \in Nat /\ End(s) = s.vaddr + s.memsz
  BY SizeRounded, SegmentNumbers
<1>2. v \in Nat /\ v >= End(s)
  <2>1. v \in End(s) .. Space - 1
    BY EndRounded
  <2> QED BY <1>1, <2>1
<1>3. q \in Nat /\ q * PageSize < s.vaddr + Size(s)
  <2>1. q \in Touched(s.vaddr, Size(s))
    BY SegmentNumbers
  <2> QED BY <1>1, <2>1 DEF Touched
<1>4. s.vaddr + Size(s) <= v
  <2>1. CASE ~(a > 1)
    BY <1>1, <1>2, <2>1 DEF Size
  <2>2. CASE a > 1
    <3>1. PICK k \in Nat : v = a * k
      BY <2>2, EndRounded
    <3>2. s.vaddr = a * (s.vaddr \div a) /\ s.vaddr \div a \in Nat
      <4>1. s.vaddr % a = 0
        BY <2>2
      <4> HIDE DEF a
      <4> QED BY <1>1, <2>2, <4>1
    <3>3. PICK j \in Nat : s.vaddr = a * j
      BY <3>2
    <3>4. a * k - a * j >= s.memsz
      BY <1>1, <1>2, <3>1, <3>3
    <3>5. k >= j
      <4> SUFFICES ASSUME j >= k + 1 PROVE FALSE
        OBVIOUS
      <4> HIDE DEF a
      <4>1. a * j >= a * (k + 1)
        BY <1>1
      <4> QED BY <1>1, <2>2, <3>4, <4>1
    <3>6. k - j \in Nat /\ a * (k - j) = a * k - a * j
      BY <1>1, <3>5
    <3>7. Size(s) <= a * (k - j)
      <4>1. a * (k - j) >= s.memsz
        BY <3>4, <3>6
      <4> QED BY <2>2, <3>6, <4>1, SizeRounded
    <3> HIDE DEF a, v
    <3> QED BY <1>1, <3>1, <3>3, <3>6, <3>7
  <2> QED BY <2>1, <2>2
<1> HIDE DEF v
<1>5. q * PageSize \in Nat
  BY <1>1, <1>3
<1>6. q * PageSize < v
  BY <1>1, <1>2, <1>3, <1>4, <1>5
<1> QED BY <1>3, <1>6 DEF v

(* A segment on later pages leaves those of an earlier one alone.          *)
LEMMA ProtectsApart ==
  ASSUME NEW s \in Segment, Fits(s), NEW t \in Segment,
         AlignUp(End(s), PageSize) <= VirtualBegin(t),
         NEW q \in Touched(s.vaddr, s.memsz)
  PROVE  q \notin Protected(t)
<1>1. /\ PageSize \in Nat \ {0} /\ Space \in Nat /\ t.vaddr \in Nat
      /\ End(s) \in Nat /\ End(s) = s.vaddr + s.memsz /\ End(s) + PageSize <= Space
  BY SegmentNumbers
<1>2. q \in Nat /\ q * PageSize < End(s)
  BY <1>1 DEF Touched
<1>3. /\ AlignUp(End(s), PageSize) \in Nat /\ AlignUp(End(s), PageSize) >= End(s)
      /\ \E k \in Nat : AlignUp(End(s), PageSize) = PageSize * k
  <2>1. /\ AlignUp(End(s), PageSize) \in End(s) .. End(s) + PageSize - 1
        /\ \E k \in Nat : AlignUp(End(s), PageSize) = PageSize * k
    BY <1>1, RoundedUp
  <2> DEFINE e == AlignUp(End(s), PageSize)
             n == End(s)
  <2>2. n \in Nat /\ e \in n .. n + PageSize - 1
    BY <1>1, <2>1
  <2> HIDE DEF e, n
  <2>3. e \in Nat /\ e >= n
    BY <1>1, <2>2
  <2> QED BY <2>1, <2>3 DEF e, n
<1>4. PICK k \in Nat : AlignUp(End(s), PageSize) = PageSize * k
  BY <1>3
<1>5. VirtualBegin(t) \in Int /\ VirtualBegin(t) <= t.vaddr
  BY <1>1 DEF VirtualBegin, AlignDown
<1>6. (q + 1) * PageSize <= PageSize * k
  <2>1. q * PageSize < PageSize * k
    BY <1>1, <1>2, <1>3, <1>4
  <2>2. q < k
    <3> SUFFICES ASSUME q >= k PROVE FALSE
      BY <1>2
    <3>1. q * PageSize >= PageSize * k
      BY <1>1, <1>2
    <3> QED BY <1>1, <1>2, <2>1, <3>1
  <2>3. k >= q + 1
    BY <1>2, <2>2
  <2> QED BY <1>1, <1>2, <2>3
<1>7. ~((q + 1) * PageSize > t.vaddr)
  BY <1>1, <1>2, <1>3, <1>4, <1>5, <1>6
<1>8. q \notin Touched(t.vaddr, Size(t))
  BY <1>7 DEF Touched
<1> QED BY <1>8, SegmentNumbers

-----------------------------------------------------------------------------
(* What ctrdl_mapObject has computed and done before each of its steps.    *)
Reached == IF phase = "map" THEN step ELSE IF phase = "loaded" THEN 13 ELSE 0

Takers(q) == {i \in DOMAIN segments : q \in Protected(segments[i])}
AllProtected ==
  /\ DOMAIN perms = (0 .. numPages - 1)
                      \cup UNION {Protected(segments[i]) : i \in DOMAIN segments}
  /\ \A q \in DOMAIN perms :
       Takers(q) # {} => perms[q] = WrapPerms(segments[Max(Takers(q))].flags)

SegInv ==
  /\ segments \in Seq(Segment)
  /\ Reached > 4 => SizesFit
  /\ Reached > 6 => numPages = PagesOfSize(Highest - Lowest)
  /\ Reached > 8 => filled = UNION {Offsets(segments[i]) : i \in DOMAIN segments}
  /\ Reached \in {11, 12} => DOMAIN perms = 0 .. numPages - 1
  /\ Reached > 12 => AllProtected

(* While nothing of it changes but the place.                              *)
LEMMA SegmentsStay ==
  ASSUME SegInv, UNCHANGED mapping, Reached \in Nat,
         \/ Reached' = 0 \/ Reached' = Reached
         \/ Reached' = Reached + 1 /\ Reached \notin {4, 6, 8, 10, 12}
  PROVE  SegInv'
<1>1. UNCHANGED <<segments, numPages, filled, perms>>
  BY DEF mapping
<1>2. /\ SizesFit' = SizesFit /\ Highest' = Highest /\ Lowest' = Lowest
      /\ AllProtected' = AllProtected
  BY <1>1 DEF SizesFit, Highest, Lowest, AllProtected, Takers
<1>3. /\ Reached' > 4 => Reached > 4
      /\ Reached' > 6 => Reached > 6
      /\ Reached' > 8 => Reached > 8
      /\ Reached' \in {11, 12} => Reached \in {11, 12}
      /\ Reached' > 12 => Reached > 12
  OBVIOUS
<1> HIDE DEF Reached
<1> QED BY <1>1, <1>2, <1>3 DEF SegInv

LEMMA SegmentsGone ==
  ASSUME SegInv, segments' = segments, Reached' = 0
  PROVE  SegInv'
BY DEF SegInv

LEMMA InitSegInv == SegmentInit => SegInv
<1> SUFFICES ASSUME SegmentInit PROVE SegInv
  OBVIOUS
<1>1. Reached = 0 /\ segments = <<>>
  BY DEF SegmentInit, Init, Reached
<1> QED BY <1>1 DEF SegInv

LEMMA NextSegInv == IInv /\ SegInv /\ [SegmentNext]_allVars => SegInv'
<1> SUFFICES ASSUME IInv, SegInv, [SegmentNext]_allVars
             PROVE  SegInv'
  OBVIOUS
<1>1. /\ step \in Nat
      /\ phase = "map" => step \in 1 .. 13
      /\ phase = "deps" => step = 1
  BY DEF IInv, TypeOK, MapInv
<1>2. Reached \in Nat
  BY <1>1 DEF Reached
<1>3. CASE UNCHANGED allVars
  <2>1. Reached' = Reached /\ UNCHANGED mapping
    BY <1>3 DEF allVars, vars, Reached
  <2> QED BY <1>2, <2>1, SegmentsStay
<1>4. ASSUME StepSucceeds PROVE step' = step + 1 /\ phase' = phase
  BY <1>4 DEF StepSucceeds
<1>5. ASSUME StepSucceeds, phase = "map"
      PROVE  Reached = step /\ Reached' = step + 1 /\ step \in 1 .. 12
  <2>1. step <= Len(MapSteps)
    BY <1>5 DEF StepSucceeds, Running, Steps
  <2> QED BY <1>1, <1>4, <1>5, <2>1, MapFacts DEF Reached
<1>6. CASE Checked
  <2>1. StepSucceeds /\ phase = "map" /\ step \in {1, 4, 5} /\ UNCHANGED mapping
    BY <1>6 DEF Checked, AtMap
  <2>2. Reached = step /\ Reached' = step + 1
    BY <1>5, <2>1
  <2>3. CASE step \in {1, 5}
    BY <1>2, <2>1, <2>2, <2>3, SegmentsStay
  <2>4. CASE step = 4
    <3>1. SizesFit /\ segments' = segments
      BY <1>6, <2>4 DEF Checked, AtMap, mapping
    <3>2. SizesFit'
      BY <3>1 DEF SizesFit
    <3>3. Reached' = 5
      BY <2>2, <2>4
    <3> QED BY <3>1, <3>2, <3>3 DEF SegInv
  <2> QED BY <2>1, <2>3, <2>4
<1>7. CASE PagesAllocated
  <2>1. Reached' = 7
    BY <1>5, <1>7 DEF PagesAllocated, AtMap
  <2>2. Reached = 6
    BY <1>5, <1>7 DEF PagesAllocated, AtMap
  <2>3. numPages' = PagesOfSize(Highest - Lowest) /\ segments' = segments
    BY <1>7 DEF PagesAllocated
  <2>4. SizesFit' = SizesFit /\ Highest' = Highest /\ Lowest' = Lowest
    BY <2>3 DEF SizesFit, Highest, Lowest
  <2> QED BY <2>1, <2>2, <2>3, <2>4 DEF SegInv
<1>8. CASE SegmentsRead
  <2>1. Reached' = 9 /\ Reached = 8
    BY <1>5, <1>8 DEF SegmentsRead, AtMap
  <2>2. /\ filled' = UNION {Offsets(segments[i]) : i \in DOMAIN segments}
        /\ UNCHANGED <<segments, numPages>>
    BY <1>8 DEF SegmentsRead
  <2>3. SizesFit' = SizesFit /\ Highest' = Highest /\ Lowest' = Lowest
    BY <2>2 DEF SizesFit, Highest, Lowest
  <2> QED BY <2>1, <2>2, <2>3 DEF SegInv
<1>9. CASE MadeWritable
  <2>1. Reached' = 11 /\ Reached = 10
    BY <1>5, <1>9 DEF MadeWritable, AtMap
  <2>2. /\ DOMAIN perms' = 0 .. numPages - 1
        /\ UNCHANGED <<segments, numPages, filled>>
    BY <1>9 DEF MadeWritable
  <2>3. SizesFit' = SizesFit /\ Highest' = Highest /\ Lowest' = Lowest
    BY <2>2 DEF SizesFit, Highest, Lowest
  <2> QED BY <2>1, <2>2, <2>3 DEF SegInv
<1>10. CASE SegmentsProtected
  <2>1. Reached' = 13 /\ Reached = 12
    BY <1>5, <1>10 DEF SegmentsProtected, AtMap
  <2>2. perms' = PermsSet /\ UNCHANGED <<segments, numPages, filled>>
    BY <1>10 DEF SegmentsProtected
  <2>3. SizesFit' = SizesFit /\ Highest' = Highest /\ Lowest' = Lowest
    BY <2>2 DEF SizesFit, Highest, Lowest
  <2>4. DOMAIN perms = 0 .. numPages - 1
    BY <2>1 DEF SegInv
  <2>5. /\ DOMAIN PermsSet = DOMAIN perms
                               \cup UNION {Protected(segments[i]) : i \in DOMAIN segments}
        /\ \A q \in DOMAIN PermsSet :
             Takers(q) # {} => PermsSet[q] = WrapPerms(segments[Max(Takers(q))].flags)
    BY DEF PermsSet, Takers
  <2>6. \A q : Takers(q)' = Takers(q)
    BY <2>2 DEF Takers
  <2>7. AllProtected'
    BY <2>2, <2>4, <2>5, <2>6 DEF AllProtected
  <2> QED BY <2>1, <2>2, <2>3, <2>7 DEF SegInv
<1>11. CASE OtherStep
  <2>1. StepSucceeds /\ UNCHANGED mapping /\ (phase = "map" => step \notin MappingSteps)
    BY <1>11 DEF OtherStep
  <2>2. CASE phase = "map"
    BY <1>2, <1>5, <2>1, <2>2, SegmentsStay DEF MappingSteps
  <2>3. CASE phase # "map"
    <3>1. Reached' = 0
      BY <1>4, <2>1, <2>3 DEF Reached, StepSucceeds, Running
    <3> QED BY <2>1, <3>1, SegmentsGone DEF mapping
  <2> QED BY <2>2, <2>3
<1>12. CASE (ParseFails \/ Parsed \/ DepsFail) /\ UNCHANGED mapping
  <2>1. Reached' = 0
    BY <1>12 DEF ParseFails, Parsed, DepsFail, Reached
  <2> QED BY <1>12, <2>1, SegmentsGone DEF mapping
<1>13. CASE Mapped /\ UNCHANGED mapping
  <2>1. phase = "map" /\ step > 12 /\ phase' = "loaded"
    BY <1>13, MapFacts DEF Mapped, Steps
  <2>2. Reached' = Reached
    BY <1>1, <2>1 DEF Reached
  <2> QED BY <1>2, <1>13, <2>2, SegmentsStay
<1>14. CASE HeadersTaken
  <2>1. Reached' = 1
    BY <1>1, <1>14 DEF HeadersTaken, DepsLoaded, Reached
  <2>2. segments' \in Seq(Segment)
    <3>1. object \in Object /\ segments' \in Headers[object]
      BY <1>14 DEF HeadersTaken, IInv, TypeOK
    <3> QED BY <3>1, SegmentAssumption
  <2> QED BY <2>1, <2>2 DEF SegInv
<1>15. CASE SegmentsFail
  <2>1. Reached' = 0 /\ segments' = segments
    BY <1>15 DEF SegmentsFail, MapFails, Unmaps, Reached
  <2> QED BY <2>1, SegmentsGone
<1>16. CASE Drop /\ Unmaps
  <2>1. Reached' = 0 /\ segments' = segments
    BY <1>16 DEF Drop, Unmaps, Reached
  <2> QED BY <2>1, SegmentsGone
<1>17. CASE Close /\ Unmaps
  <2>1. segments' = segments
    BY <1>17 DEF Unmaps
  <2>2. CASE phase' = "loaded"
    <3>1. phase = "loaded" /\ pages' # "none"
      BY <1>17, <2>2 DEF Close, UnloadSucceeds, UnloadFails
    <3>2. UNCHANGED mapping
      BY <1>17, <3>1 DEF Unmaps, mapping
    <3>3. Reached' = Reached
      BY <2>2, <3>1 DEF Reached
    <3> QED BY <1>2, <3>2, <3>3, SegmentsStay
  <2>3. CASE phase' # "loaded"
    <3>1. Reached' = 0
      BY <1>17, <2>3 DEF Close, Reached
    <3> QED BY <2>1, <3>1, SegmentsGone
  <2> QED BY <2>2, <2>3
<1>18. CASE Over /\ UNCHANGED mapping
  <2>1. Reached' = Reached
    BY <1>18 DEF Over, vars, Reached
  <2> QED BY <1>2, <1>18, <2>1, SegmentsStay
<1> QED BY <1>3, <1>6, <1>7, <1>8, <1>9, <1>10, <1>11, <1>12, <1>13, <1>14, <1>15,
           <1>16, <1>17, <1>18 DEF SegmentNext

LEMMA SegmentInvariant == SegmentSpec => []SegInv
<1>1. IInv /\ SegInv /\ [SegmentNext]_allVars => SegInv'
  BY NextSegInv
<1> QED BY <1>1, InitSegInv, SegmentsLoad, LoadInvariant, PTL DEF SegmentSpec

(* The last segment that takes a page of another one is that one itself.   *)
LEMMA LastTaker ==
  ASSUME segments \in Seq(Segment), NoWrap, Apart, NEW i \in DOMAIN segments,
         NEW q \in Touched(segments[i].vaddr, segments[i].memsz)
  PROVE  Takers(q) # {} /\ Max(Takers(q)) = i
<1>1. \A j \in DOMAIN segments : segments[j] \in Segment /\ Fits(segments[j])
  BY DEF NoWrap, Fits
<1>2. Len(segments) \in Nat /\ DOMAIN segments = 1 .. Len(segments)
  OBVIOUS
<1>3. i \in Takers(q)
  <2>1. q \in Protected(segments[i])
    BY <1>1, ProtectsSegment
  <2> QED BY <2>1 DEF Takers
<1>4. \A j \in DOMAIN segments : i < j => j \notin Takers(q)
  <2> SUFFICES ASSUME NEW j \in DOMAIN segments, i < j PROVE j \notin Takers(q)
    OBVIOUS
  <2>1. AlignUp(End(segments[i]), PageSize) <= VirtualBegin(segments[j])
    BY DEF Apart
  <2>2. q \notin Protected(segments[j])
    BY <1>1, <2>1, ProtectsApart
  <2> QED BY <2>2 DEF Takers
<1>5. Takers(q) \in SUBSET (0 .. Len(segments))
  BY <1>2 DEF Takers
<1>6. Max(Takers(q)) \in Takers(q) /\ Max(Takers(q)) >= i
  BY <1>2, <1>3, <1>5, Largest
<1>7. Max(Takers(q)) \in 1 .. Len(segments) /\ ~(i < Max(Takers(q)))
  BY <1>2, <1>4, <1>6 DEF Takers
<1> QED BY <1>2, <1>3, <1>6, <1>7

(* For any page size, any segments and any size of addresses: an object    *)
(* that is linked at 0 is read into the pages it was given, segments that  *)
(* share no page get the permissions they ask for, and no other page is    *)
(* touched if they begin at multiples of their alignment.                  *)
THEOREM SegmentsMapped == SegmentSpec => []MappedAsDeclared
<1>1. ASSUME SegInv PROVE MappedAsDeclared
  <2> SUFFICES ASSUME phase = "loaded", Lowest = 0, NoWrap
               PROVE  /\ filled \subseteq 0 .. numPages * PageSize - 1
                      /\ Apart => \A i \in DOMAIN segments :
                           \A q \in Touched(segments[i].vaddr, segments[i].memsz) :
                             perms[q] = IF {"w", "x"} \subseteq segments[i].flags
                                        THEN {} ELSE segments[i].flags
                      /\ (\A i \in DOMAIN segments :
                            segments[i].align > 1 =>
                              segments[i].vaddr % segments[i].align = 0) =>
                           DOMAIN perms = 0 .. numPages - 1
    BY DEF MappedAsDeclared
  <2>1. /\ segments \in Seq(Segment) /\ SizesFit /\ AllProtected
        /\ numPages = PagesOfSize(Highest - Lowest)
        /\ filled = UNION {Offsets(segments[i]) : i \in DOMAIN segments}
    BY <1>1 DEF SegInv, Reached
  <2>2. /\ numPages \in Nat /\ numPages * PageSize = Highest
        /\ Highest \in 0 .. Space - 1
        /\ \A i \in DOMAIN segments : VirtualEnd(segments[i]) <= Highest
    BY <2>1, PagesCover, HighestRounded
  <2>3. \A i \in DOMAIN segments : segments[i] \in Segment /\ Fits(segments[i])
    BY <2>1 DEF NoWrap, Fits
  <2>4. PageSize \in Nat \ {0} /\ Space \in Nat \ {0}
    BY SegmentAssumption
  <2>5. \A i \in DOMAIN segments : Offsets(segments[i]) \subseteq 0 .. Highest - 1
    <3> SUFFICES ASSUME NEW i \in DOMAIN segments, NEW k \in 0 .. segments[i].filesz - 1
                 PROVE  (segments[i].vaddr + k) % Space \in 0 .. Highest - 1
      BY DEF Offsets
    <3> DEFINE s == segments[i]
               v == VirtualEnd(s)
               h == Highest
    <3>1. /\ s.vaddr \in Nat /\ s.filesz \in Nat /\ s.memsz \in Nat
          /\ End(s) = s.vaddr + s.memsz /\ End(s) <= Space
      <4>1. s \in Segment /\ Fits(s)
        BY <2>3
      <4> HIDE DEF s
      <4>2. End(s) + PageSize <= Space /\ End(s) \in Nat
        BY <4>1, SegmentNumbers
      <4> QED BY <2>4, <4>1, <4>2, SegmentNumbers
    <3>2. v \in Nat /\ v >= End(s)
      <4>1. v \in End(s) .. Space - 1
        BY <2>3, EndRounded
      <4> QED BY <2>4, <3>1, <4>1
    <3>3. s.memsz >= s.filesz
      BY <2>1 DEF SizesFit
    <3>4. h \in Nat /\ v <= h /\ h < Space
      BY <2>2, <2>4
    <3> HIDE DEF s, v, h
    <3>5. k \in 0 .. s.filesz - 1
      BY DEF s
    <3>6. s.vaddr + k \in 0 .. h - 1
      BY <3>1, <3>2, <3>3, <3>4, <3>5
    <3>7. (s.vaddr + k) % Space = s.vaddr + k
      BY <2>4, <3>4, <3>6
    <3> QED BY <3>6, <3>7 DEF s, h
  <2>6. filled \subseteq 0 .. numPages * PageSize - 1
    BY <2>1, <2>2, <2>5
  <2>7. ASSUME Apart, NEW i \in DOMAIN segments,
               NEW q \in Touched(segments[i].vaddr, segments[i].memsz)
        PROVE  perms[q] = IF {"w", "x"} \subseteq segments[i].flags
                          THEN {} ELSE segments[i].flags
    <3>1. Takers(q) # {} /\ Max(Takers(q)) = i
      BY <2>1, <2>7, LastTaker
    <3>2. q \in DOMAIN perms
      BY <2>1, <3>1 DEF AllProtected, Takers
    <3>3. perms[q] = WrapPerms(segments[i].flags)
      BY <2>1, <3>1, <3>2 DEF AllProtected
    <3>4. segments[i].flags \in SUBSET {"r", "w", "x"}
      BY <2>3, SegmentNumbers
    <3> DEFINE F == segments[i].flags
    <3>5. F \in SUBSET {"r", "w", "x"} /\ perms[q] = WrapPerms(F)
      BY <3>3, <3>4
    <3> HIDE DEF F
    <3>6. WrapPerms(F) = IF {"w", "x"} \subseteq F THEN {} ELSE F
      <4>1. F \in {{}, {"r"}, {"w"}, {"x"}, {"r", "w"}, {"r", "x"}, {"w", "x"},
                   {"r", "w", "x"}}
        BY <3>5
      <4> QED BY <4>1 DEF WrapPerms
    <3> QED BY <3>5, <3>6 DEF F
  <2>8. ASSUME \A i \in DOMAIN segments :
                 segments[i].align > 1 => segments[i].vaddr % segments[i].align = 0
        PROVE  DOMAIN perms = 0 .. numPages - 1
    <3> SUFFICES ASSUME NEW i \in DOMAIN segments, NEW q \in Protected(segments[i])
                 PROVE  q \in 0 .. numPages - 1
      BY <2>1 DEF AllProtected
    <3>1. q \in Nat /\ q * PageSize < VirtualEnd(segments[i])
      BY <2>3, <2>8, ProtectsInside
    <3>2. VirtualEnd(segments[i]) \in Int
      BY <2>3, EndRounded
    <3>3. q * PageSize < numPages * PageSize
      BY <2>2, <2>4, <3>1, <3>2
    <3>4. q < numPages
      <4> SUFFICES ASSUME q >= numPages PROVE FALSE
        BY <2>2, <3>1
      <4>1. q * PageSize >= numPages * PageSize
        BY <2>2, <2>4, <3>1
      <4> QED BY <2>2, <2>4, <3>1, <3>3, <4>1
    <3> QED BY <2>2, <3>1, <3>4
  <2> QED BY <2>6, <2>7, <2>8
<1> QED BY <1>1, SegmentInvariant, PTL
=============================================================================
