--------------------------- MODULE SectionsProofs ---------------------------
(***************************************************************************)
(* Proofs about Sections, for any number of elements, sizes of elements    *)
(* and values: what is kept in memory of a section is what its file has,   *)
(* the parents have the length of the range, and every element reads as it *)
(* was last written.                                                       *)
(***************************************************************************)
EXTENDS Sections, SequenceTheorems, WellFoundedInduction, TLAPS

\* A section in the file or in memory has these four parts.
Shaped(s) == s = [range |-> s.range, connect |-> s.connect, offset |-> s.offset,
                  parents |-> s.parents]

\* The parents of a file are a sequence that is as long as the range asks.
ParentRows == file.parents # NoData =>
                  file.parents \in [1 .. 2 * Count(file.range) -> Parent \cup {0}]

\* The inductive invariant.
SectionInv ==
    sect # NoData =>
        /\ Shaped(file) /\ Shaped(mem)
        /\ file.range \in Ranges
        /\ ~ overrun => ParentRows
        /\ CachesMirrorFile

\* A range has at least one element.
LEMMA CountIsPositive ==
    ASSUME NEW r \in Ranges
    PROVE  Count(r) \in Nat \ {0}
BY SectionAssumption DEF Ranges, Count

\* The range after a write is one, and holds the old range and the written one.
LEMMA NewRangeIsRange ==
    ASSUME mem.range \in Ranges, NEW r \in Ranges
    PROVE  /\ NewRange(r[1], r[2]) \in Ranges
           /\ ShiftOf(r[1], NewRange(r[1], r[2])) \in Nat
BY SectionAssumption DEF Ranges, NewRange, Lesser, Greater, ShiftOf

\* A sequence that is given by its elements has their number as its length.
LEMMA RowsHaveLength ==
    ASSUME NEW n \in Nat, NEW S, NEW f \in [1 .. n -> S]
    PROVE  Len(f) = n
OBVIOUS

\* What the parents become by a move is a row of words for each element.
LEMMA MovedAreRows ==
    ASSUME NEW n \in Nat, NEW m \in Nat, NEW shift \in Int, NEW written \in Int,
           NEW old \in [1 .. 2 * n -> Parent \cup {0}]
    PROVE  MovedParents(old, n, m, shift, written) \in [1 .. 2 * m -> Parent \cup {0}]
<1> DEFINE at(w, row) == w - 1 - (row * m + shift)
<1> SUFFICES ASSUME NEW w \in 1 .. 2 * m
             PROVE  (CASE \E row \in {0, 1} : at(w, row) \in 0 .. written - 1 -> 0
                       [] at(w, 1) \in 0 .. n - 1 -> old[n + at(w, 1) + 1]
                       [] at(w, 1) \notin 0 .. n - 1 /\ at(w, 0) \in 0 .. n - 1 ->
                            old[at(w, 0) + 1]
                       [] OTHER -> 0) \in Parent \cup {0}
  BY Zenon DEF MovedParents
<1>1. at(w, 0) \in Int /\ at(w, 1) \in Int
  OBVIOUS
<1>2. at(w, 1) \in 0 .. n - 1 => old[n + at(w, 1) + 1] \in Parent \cup {0}
  BY <1>1
<1>3. at(w, 0) \in 0 .. n - 1 => old[at(w, 0) + 1] \in Parent \cup {0}
  BY <1>1
<1> HIDE DEF at
<1> QED BY <1>2, <1>3

\* A section made anew has nothing in memory but, perhaps, its offsets.
LEMMA CreateKeepsInv ==
    ASSUME SectionInv, Create
    PROVE  SectionInv'
<1> SUFFICES ASSUME NEW r \in Ranges, file'.range = r, Shaped(file)', Shaped(mem)',
                    mem'.range = r, mem'.connect = NoData,
                    mem'.offset \in {NoData, file'.offset},
                    mem'.parents = NoData, file'.parents = NoData
             PROVE  SectionInv'
  <2>1. PICK r \in Ranges :
           \/ \E type \in {"I4", "I8"}, spare \in 0 .. Spare :
                 \/ \E poly \in BOOLEAN : CreateEmpty(poly, type, r, spare)
                 \/ CreatePartial(type, r, spare)
           \/ \E poly \in BOOLEAN :
                 \E data \in Given(poly, Count(r)) : CreateWith(poly, r, data)
    BY DEF Create
  <2> QED BY <2>1 DEF CreateEmpty, CreatePartial, CreateWith, Created, Cleared, Shaped
<1> QED BY DEF SectionInv, CachesMirrorFile, ParentRows

\* In place nothing is in memory but the offsets, which are written with the rest.
LEMMA WriteInPlaceKeepsInv ==
    ASSUME SectionInv, sect # NoData,
           NEW r \in Ranges, NEW data, WriteInPlace(r[1], r[2], data)
    PROVE  SectionInv'
BY DEF WriteInPlace, InPlace, SectionInv, CachesMirrorFile, ParentRows, Shaped

\* A merge leaves all of its results in memory but the parents, which it gives up
\* when it moves them.
LEMMA WriteInMemoryKeepsInv ==
    ASSUME SectionInv, sect # NoData, ~ overrun,
           NEW r \in Ranges, NEW data, NEW mtype, WriteInMemory(r[1], r[2], data, mtype)
    PROVE  SectionInv'
<1> DEFINE new == NewRange(r[1], r[2])
<1>1. mem.range = file.range /\ mem.range \in Ranges
  BY DEF SectionInv, CachesMirrorFile
<1>2. new \in Ranges /\ ShiftOf(r[1], new) \in Nat
  BY <1>1, NewRangeIsRange
<1>3. Count(mem.range) \in Nat /\ Count(new) \in Nat
  BY <1>1, <1>2, CountIsPositive
<1>4. /\ file'.range = new /\ mem'.range = new
      /\ file'.parents = ParentsAfter(r[1], r[2], new)
      /\ mem'.parents = IF MustMove(new) THEN NoData ELSE mem.parents
      /\ overrun' = RunsOver(r[1], new)
      /\ mem'.connect = file'.connect
      /\ mem'.offset \in {NoData, file'.offset}
      /\ Shaped(file)' /\ Shaped(mem)'
      /\ sect' = sect
  BY DEF WriteInMemory, Shaped
<1>5. CachesMirrorFile'
  BY <1>4 DEF CachesMirrorFile, SectionInv, ParentsAfter
<1>6. ~ overrun' => ParentRows'
  <2> SUFFICES ASSUME ~ overrun', file'.parents # NoData PROVE ParentRows'
    BY DEF ParentRows
  <2>1. CASE MustMove(new)
    <3>1. /\ Parents \in [1 .. 2 * Count(mem.range) -> Parent \cup {0}]
      BY <1>1, <2>1 DEF MustMove, HasParents, Parents, SectionInv, CachesMirrorFile, ParentRows
    <3>2. file'.parents = MovedParents(Parents, Count(mem.range), Count(new),
                                       ShiftOf(r[1], new), r[2] - r[1] + 1)
      BY <1>4, <2>1 DEF ParentsAfter
    <3>3. r[2] - r[1] + 1 \in Int
      BY DEF Ranges
    <3>4. file'.parents \in [1 .. 2 * Count(new) -> Parent \cup {0}]
      BY <1>2, <1>3, <3>1, <3>2, <3>3, MovedAreRows
    <3> QED BY <1>4, <3>4 DEF ParentRows, Count
  <2>2. CASE ~ MustMove(new)
    <3>1. file'.parents = file.parents
      BY <1>4, <2>2 DEF ParentsAfter
    <3>2. /\ Len(file.parents) = 2 * Count(new)
          /\ file.parents \in [1 .. 2 * Count(mem.range) -> Parent \cup {0}]
      BY <1>1, <2>2, <3>1 DEF MustMove, HasParents, SectionInv, ParentRows
    <3>3. 2 * Count(mem.range) \in Nat
      BY <1>3
    <3>4. Len(file.parents) = 2 * Count(mem.range)
      BY <3>2, <3>3, RowsHaveLength
    <3> QED BY <1>4, <3>1, <3>2, <3>4 DEF ParentRows, Count
  <2> QED BY <2>1, <2>2
<1> QED BY <1>2, <1>4, <1>5, <1>6 DEF SectionInv

\* Parents written whole or in part have the length of the range.
LEMMA WriteParentsKeepsInv ==
    ASSUME SectionInv, sect # NoData, ~ overrun, NEW p \in Parent,
           \/ WriteParents(p)
           \/ \E r \in Ranges : WriteSomeParents(r[1], r[2], p)
    PROVE  SectionInv'
<1>1. mem.range = file.range /\ Count(file.range) \in Nat
  BY CountIsPositive DEF SectionInv, CachesMirrorFile
<1>2. /\ sect' = sect /\ overrun' = overrun
      /\ file'.range = file.range /\ file'.connect = file.connect
      /\ file'.offset = file.offset
      /\ mem' = [mem EXCEPT !.parents = NoData]
      /\ Shaped(file)'
  <2>1. CASE WriteParents(p)
    BY <2>1 DEF WriteParents, SectionInv, Shaped
  <2>2. CASE \E r \in Ranges : WriteSomeParents(r[1], r[2], p)
    BY <2>2 DEF WriteSomeParents, SectionInv, Shaped
  <2> QED BY <2>1, <2>2
<1>3. Shaped(mem)' /\ CachesMirrorFile'
  BY <1>2 DEF SectionInv, CachesMirrorFile, Shaped
<1>4. file'.parents \in [1 .. 2 * Count(file.range) -> Parent \cup {0}]
  <2>1. CASE WriteParents(p)
    BY <1>1, <2>1 DEF WriteParents, SectionInv, Shaped
  <2>2. ASSUME NEW r \in Ranges, WriteSomeParents(r[1], r[2], p)
        PROVE  file'.parents \in [1 .. 2 * Count(file.range) -> Parent \cup {0}]
    <3> DEFINE old == IF HasParents THEN file.parents ELSE Zeros(2 * Count(mem.range))
    <3>1. old \in [1 .. 2 * Count(file.range) -> Parent \cup {0}]
      BY <1>1 DEF HasParents, SectionInv, ParentRows, Zeros
    <3> QED BY <1>1, <2>2, <3>1 DEF WriteSomeParents, SectionInv, Shaped
  <2> QED BY <2>1, <2>2
<1> QED BY <1>2, <1>3, <1>4 DEF SectionInv, ParentRows, Count

\* A read brings into memory what the file has.
LEMMA ReadKeepsInv ==
    ASSUME SectionInv, sect # NoData,
           NEW s, NEW e, NEW withParents, Read(s, e, withParents)
    PROVE  SectionInv'
BY DEF Read, SectionInv, CachesMirrorFile, ParentRows, Shaped, Connect, Offset, OffsetOf,
       Parents

\* An open brings the range into memory and nothing else.
LEMMA ReopenKeepsInv ==
    ASSUME SectionInv, sect # NoData, Reopen
    PROVE  SectionInv'
BY DEF Reopen, SectionInv, CachesMirrorFile, ParentRows, Shaped, Cleared

\* Every step keeps the invariant.
LEMMA SectionInvKept ==
    ASSUME SectionInv, [Next]_vars
    PROVE  SectionInv'
<1>1. CASE UNCHANGED vars
  BY <1>1 DEF vars, SectionInv, CachesMirrorFile, ParentRows, Shaped
<1>2. ASSUME ~ overrun, Create PROVE SectionInv'
  BY <1>2, CreateKeepsInv
<1>3. ASSUME ~ overrun, sect # NoData, Use PROVE SectionInv'
  <2>1. ASSUME NEW r \in Ranges, NEW data,
               \/ WriteInPlace(r[1], r[2], data)
               \/ \E mtype \in {"I4", "I8"} : WriteInMemory(r[1], r[2], data, mtype)
        PROVE  SectionInv'
    BY <1>3, <2>1, WriteInPlaceKeepsInv, WriteInMemoryKeepsInv
  <2>2. ASSUME NEW p \in Parent,
               \/ WriteParents(p)
               \/ \E r \in Ranges : WriteSomeParents(r[1], r[2], p)
        PROVE  SectionInv'
    BY <1>3, <2>2, WriteParentsKeepsInv
  <2>3. ASSUME NEW r \in Ranges, NEW withParents, Read(r[1], r[2], withParents)
        PROVE  SectionInv'
    BY <1>3, <2>3, ReadKeepsInv
  <2>4. ASSUME Reopen PROVE SectionInv'
    BY <1>3, <2>4, ReopenKeepsInv
  <2> QED BY <1>3, <2>1, <2>2, <2>3, <2>4 DEF Use
<1> QED BY <1>1, <1>2, <1>3 DEF Next

\* Memory mirrors the file and the parents have the length of the range, through any
\* sequence of calls on a section of any size (CachesMirrorFile, ParentsFitTheRange).
THEOREM CachesAreExact ==
    Spec => [](CachesMirrorFile /\ ParentsFitTheRange)
<1>1. Init => SectionInv
  BY DEF Init, SectionInv
<1>2. SectionInv /\ [Next]_vars => SectionInv'
  BY SectionInvKept
<1>3. SectionInv => CachesMirrorFile /\ ParentsFitTheRange
  <2> SUFFICES ASSUME SectionInv, sect # NoData
               PROVE  CachesMirrorFile /\ ParentsFitTheRange
    BY DEF CachesMirrorFile, ParentsFitTheRange
  <2>1. 2 * Count(file.range) \in Nat
    BY CountIsPositive DEF SectionInv
  <2> QED BY <2>1, RowsHaveLength DEF SectionInv, ParentRows, ParentsFitTheRange, HasParents
<1> QED BY <1>1, <1>2, <1>3, PTL DEF Spec

\* The parents of a file have a row for each element of the range, so that the check
\* of their length when a section is written or opened fails for no file of the
\* library's own.
THEOREM ParentsStayFit == Spec => []ParentsFitTheRange
BY CachesAreExact, PTL

----------------------------------------------------------------------------
(* Lists of lists                                                          *)

\* A set of numbers that is not empty has a least one.
LEMMA LeastElement ==
    ASSUME NEW S \in SUBSET Nat, S # {}
    PROVE  \E n \in S : \A m \in S : n <= m
<1>1. PICK n \in S : \A m \in S : ~ (<<m, n>> \in OpToRel(<, Nat))
  BY WFMin, NatLessThanWellFounded, Zenon
<1>2. \A m \in S : ~ (m < n)
  BY <1>1, Zenon DEF OpToRel
<1> QED BY <1>2

\* A set of numbers that has 0 and with every number the next has all of them.
LEMMA AllNumbers ==
    ASSUME NEW S \in SUBSET Nat, 0 \in S, \A n \in S : n + 1 \in S
    PROVE  S = Nat
<1> SUFFICES ASSUME Nat \ S # {} PROVE FALSE
  OBVIOUS
<1>1. PICK n \in Nat \ S : \A m \in Nat \ S : n <= m
  BY LeastElement
<1>2. n # 0 /\ n - 1 \in Nat /\ n - 1 \in S
  BY <1>1
<1> QED BY <1>1, <1>2

\* f has what the first n lists of q are, one after the other.
Joins(f, q, n) ==
    \A i \in 0 .. n : f[i] = IF i = 0 THEN <<>> ELSE f[i - 1] \o q[i]

\* What Joins says of the first list and of the next ones.
LEMMA JoinsSteps ==
    ASSUME NEW f, NEW q, NEW n \in Nat, Joins(f, q, n)
    PROVE  f[0] = <<>> /\ \A i \in 1 .. n : f[i] = f[i - 1] \o q[i]
<1>1. 0 \in 0 .. n /\ \A i \in 1 .. n : i \in 0 .. n /\ i # 0
  OBVIOUS
<1>2. \A i \in 0 .. n : f[i] = IF i = 0 THEN <<>> ELSE f[i - 1] \o q[i]
  BY DEF Joins
<1>3. f[0] = <<>>
  BY <1>1, <1>2
<1>4. ASSUME NEW i \in 1 .. n PROVE f[i] = f[i - 1] \o q[i]
  BY <1>1, <1>2, Zenon
<1> QED BY <1>3, <1>4

\* There is such a function for every list of lists.
LEMMA JoinExists ==
    ASSUME NEW D, NEW q \in Seq(Seq(D))
    PROVE  \E f \in [0 .. Len(q) -> Seq(D)] : Joins(f, q, Len(q))
<1> DEFINE S == {m \in Nat : m <= Len(q) =>
                               \E f \in [0 .. m -> Seq(D)] : Joins(f, q, m)}
<1>1. 0 \in S
  <2>1. [i \in 0 .. 0 |-> <<>>] \in [0 .. 0 -> Seq(D)]
    OBVIOUS
  <2>2. Joins([i \in 0 .. 0 |-> <<>>], q, 0)
    BY DEF Joins
  <2> QED BY <2>1, <2>2
<1>2. ASSUME NEW m \in S PROVE m + 1 \in S
  <2> SUFFICES ASSUME m + 1 <= Len(q)
               PROVE  \E f \in [0 .. m + 1 -> Seq(D)] : Joins(f, q, m + 1)
    OBVIOUS
  <2>1. m \in Nat /\ m <= Len(q) /\ m + 1 \in 1 .. Len(q)
    OBVIOUS
  <2>2. PICK w \in [0 .. m -> Seq(D)] : Joins(w, q, m)
    BY <2>1
  <2>3. q[m + 1] \in Seq(D)
    BY <2>1
  <2>4. PICK v : v = [i \in 0 .. m + 1 |-> IF i = m + 1 THEN w[m] \o q[m + 1] ELSE w[i]]
    OBVIOUS
  <2>5. w[m] \o q[m + 1] \in Seq(D)
    BY <2>1, <2>2, <2>3
  <2>6. v \in [0 .. m + 1 -> Seq(D)]
    BY <2>1, <2>2, <2>4, <2>5
  <2>7. \A i \in 0 .. m : v[i] = w[i]
    BY <2>1, <2>4
  <2>8. ASSUME NEW i \in 0 .. m + 1
        PROVE  v[i] = IF i = 0 THEN <<>> ELSE v[i - 1] \o q[i]
    <3>1. CASE i = m + 1
      <4>1. v[i] = w[m] \o q[m + 1] /\ i - 1 = m /\ m \in 0 .. m
        BY SMTT(60), <2>1, <2>4, <3>1
      <4>2. v[m] = w[m]
        BY <2>7, <4>1
      <4>3. i # 0 /\ q[i] = q[m + 1] /\ v[i - 1] = v[m]
        BY <2>1, <3>1, <4>1
      <4> QED BY <4>1, <4>2, <4>3, Zenon
    <3>2. CASE i \in 0 .. m
      <4>1. w[i] = IF i = 0 THEN <<>> ELSE w[i - 1] \o q[i]
        BY <2>2, <3>2 DEF Joins
      <4>2. i # 0 => i - 1 \in 0 .. m
        BY <2>1, <3>2
      <4>3. v[i] = w[i] /\ (i # 0 => v[i - 1] = w[i - 1])
        BY <2>7, <3>2, <4>2
      <4>4. CASE i = 0
        BY <4>1, <4>3, <4>4, Zenon
      <4>5. CASE i # 0
        BY <4>1, <4>3, <4>5, Zenon
      <4> QED BY <4>4, <4>5
    <3> QED BY <2>1, <3>1, <3>2
  <2>9. Joins(v, q, m + 1)
    BY <2>8 DEF Joins
  <2> QED BY <2>6, <2>9
<1>3. S = Nat
  <2> HIDE DEF S
  <2>1. S \in SUBSET Nat
    BY DEF S
  <2> QED BY <1>1, <1>2, <2>1, AllNumbers
<1> QED BY SMTT(60), <1>3

\* FlattenSeq is its last value, whatever function the fold takes.
LEMMA Flattened ==
    ASSUME NEW D, NEW q \in Seq(Seq(D))
    PROVE  \E f \in [0 .. Len(q) -> Seq(D)] :
              Joins(f, q, Len(q)) /\ FlattenSeq(q) = f[Len(q)]
<1>1. PICK f \in [0 .. Len(q) -> Seq(D)] : Joins(f, q, Len(q))
  BY JoinExists
<1>2. Len(q) \in Nat
  OBVIOUS
<1>5. f[0] = <<>> /\ \A i \in 1 .. Len(q) : f[i] = f[i - 1] \o q[i]
  BY <1>1, <1>2, JoinsSteps, Zenon
<1>3. CASE Len(q) = 0
  <2>1. q = <<>> /\ f[0] = <<>>
    BY <1>1, <1>3 DEF Joins
  <2>2. FlattenSeq(q) = q
    BY <1>3 DEF FlattenSeq
  <2> QED BY <1>1, <1>3, <2>1, <2>2
<1>4. CASE Len(q) # 0
  <2> DEFINE Steps(c) == c = [i \in 1 .. Len(q) |-> IF i = 1 THEN q[i] ELSE c[i - 1] \o q[i]]
  <2>1. \E c : Steps(c)
    <3>1. PICK c : c = [i \in 1 .. Len(q) |-> f[i]]
      OBVIOUS
    <3>2. ASSUME NEW i \in 1 .. Len(q)
          PROVE  f[i] = IF i = 1 THEN q[i] ELSE c[i - 1] \o q[i]
      <4>1. i \in 0 .. Len(q) /\ i # 0
        BY <1>2
      <4>2. f[i] = f[i - 1] \o q[i]
        BY <1>5
      <4>3. CASE i = 1
        <5>1. f[0] = <<>> /\ 1 - 1 = 0
          BY <1>5
        <5>2. q[1] \in Seq(D)
          BY <4>3
        <5>3. <<>> \o q[1] = q[1]
          BY <5>2, ConcatEmptySeq
        <5> QED BY <4>2, <4>3, <5>1, <5>3
      <4>4. CASE i # 1
        <5>1. i - 1 \in 1 .. Len(q)
          BY <1>2, <4>4
        <5> QED BY <3>1, <4>2, <4>4, <5>1
      <4> QED BY <4>3, <4>4
    <3>3. Steps(c)
      BY <3>1, <3>2
    <3> QED BY <3>3
  <2>2. FlattenSeq(q) = (CHOOSE c : Steps(c))[Len(q)]
    BY <1>4, Zenon DEF FlattenSeq
  <2>3. PICK c : Steps(c) /\ FlattenSeq(q) = c[Len(q)]
    <3> HIDE DEF Steps
    <3> QED BY <2>1, <2>2, Zenon
  <2> DEFINE S == {j \in Nat : \A i \in 1 .. Len(q) : i = j + 1 => c[i] = f[i]}
  <2>4. 0 \in S
    <3>1. 1 \in 1 .. Len(q) /\ 1 \in 0 .. Len(q) /\ 0 \in 0 .. Len(q)
      BY <1>2, <1>4
    <3>2. c[1] = q[1]
      BY <2>3, <3>1
    <3>3. f[1] = f[0] \o q[1] /\ f[0] = <<>>
      <4>1. f[1] = f[1 - 1] \o q[1] /\ f[0] = <<>>
        BY <1>5, <3>1
      <4>2. 1 - 1 = 0
        OBVIOUS
      <4> QED BY <4>1, <4>2, Zenon
    <3>4. q[1] \in Seq(D)
      BY <3>1
    <3>5. <<>> \o q[1] = q[1]
      BY <3>4, ConcatEmptySeq
    <3> QED BY <3>2, <3>3, <3>5
  <2>5. ASSUME NEW j \in S PROVE j + 1 \in S
    <3> SUFFICES ASSUME NEW i \in 1 .. Len(q), i = (j + 1) + 1 PROVE c[i] = f[i]
      OBVIOUS
    <3>1. j \in Nat /\ i - 1 \in 1 .. Len(q) /\ i - 1 = j + 1 /\ i # 1
      BY <1>2
    <3>2. c[i] = c[i - 1] \o q[i]
      BY <2>3, <3>1
    <3>3. f[i] = f[i - 1] \o q[i]
      BY <1>5
    <3>4. c[i - 1] = f[i - 1]
      BY <3>1
    <3> QED BY <3>2, <3>3, <3>4
  <2>6. S = Nat
    <3> HIDE DEF S
    <3>1. S \in SUBSET Nat
      BY DEF S
    <3> QED BY <2>4, <2>5, <3>1, AllNumbers
  <2>7. Len(q) - 1 \in Nat /\ (Len(q) - 1) + 1 = Len(q) /\ Len(q) \in 1 .. Len(q)
    BY <1>2, <1>4
  <2>8. c[Len(q)] = f[Len(q)]
    BY <1>2, <2>6, <2>7
  <2> QED BY <1>1, <2>3, <2>8
<1> QED BY <1>3, <1>4

\* The first n lists of both are the same.
SameLists(q, q2, n) == \A i \in 1 .. n : q[i] = q2[i]

\* Two joins are the same as far as the lists are.
LEMMA JoinsAgree ==
    ASSUME NEW q, NEW q2, NEW f, NEW f2, NEW n \in Nat,
           Joins(f, q, n), Joins(f2, q2, n), SameLists(q, q2, n)
    PROVE  f[n] = f2[n]
<1> DEFINE S == {i \in Nat : i <= n => f[i] = f2[i]}
<1>1. 0 \in S
  BY DEF Joins
<1>2. ASSUME NEW i \in S PROVE i + 1 \in S
  <2> SUFFICES ASSUME i + 1 <= n PROVE f[i + 1] = f2[i + 1]
    OBVIOUS
  <2>1. i + 1 \in 0 .. n /\ i + 1 \in 1 .. n /\ i + 1 # 0 /\ (i + 1) - 1 = i /\ i <= n
    OBVIOUS
  <2>2. f[i + 1] = f[i] \o q[i + 1] /\ f2[i + 1] = f2[i] \o q2[i + 1]
    BY <2>1 DEF Joins
  <2>3. q[i + 1] = q2[i + 1]
    BY <2>1 DEF SameLists
  <2> QED BY <2>1, <2>2, <2>3
<1>3. S = Nat
  <2> HIDE DEF S
  <2>1. S \in SUBSET Nat
    BY DEF S
  <2> QED BY <1>1, <1>2, <2>1, AllNumbers
<1> QED BY <1>3

\* A list put behind the others is behind what they give.
LEMMA FlattenAppended ==
    ASSUME NEW D, NEW q \in Seq(Seq(D)), NEW p \in Seq(D)
    PROVE  FlattenSeq(Append(q, p)) = FlattenSeq(q) \o p /\ FlattenSeq(q) \in Seq(D)
<1> DEFINE n == Len(q)
<1>1. /\ Append(q, p) \in Seq(Seq(D)) /\ Len(Append(q, p)) = n + 1 /\ n \in Nat
      /\ \A i \in 1 .. n : Append(q, p)[i] = q[i]
      /\ Append(q, p)[n + 1] = p
  BY AppendProperties
<1>2. PICK f \in [0 .. n -> Seq(D)] : Joins(f, q, n) /\ FlattenSeq(q) = f[n]
  BY Flattened
<1>3. PICK f2 : /\ Joins(f2, Append(q, p), n + 1)
                /\ FlattenSeq(Append(q, p)) = f2[n + 1]
  BY <1>1, Flattened
<1>4. Joins(f2, Append(q, p), n)
  BY <1>1, <1>3 DEF Joins
<1>5. f[n] = f2[n]
  <2> HIDE DEF n
  <2>1. n \in Nat /\ SameLists(q, Append(q, p), n)
    BY <1>1 DEF SameLists
  <2> QED BY <1>2, <1>4, <2>1, JoinsAgree
<1>6. f2[n + 1] = f2[n] \o p
  <2>1. n + 1 \in Nat /\ n + 1 \in 1 .. n + 1 /\ (n + 1) - 1 = n
    BY <1>1
  <2>2. \A i \in 1 .. n + 1 : f2[i] = f2[i - 1] \o Append(q, p)[i]
    BY <1>3, <2>1, JoinsSteps, Zenon
  <2>3. f2[n + 1] = f2[(n + 1) - 1] \o Append(q, p)[n + 1]
    BY <2>1, <2>2
  <2> QED BY <1>1, <2>1, <2>3
<1>7. n \in 0 .. n
  BY <1>1
<1> QED BY <1>2, <1>3, <1>5, <1>6, <1>7

\* Lists put together may be taken in any grouping.
LEMMA Regrouped ==
    ASSUME NEW D
    PROVE  \A s, t, u \in Seq(D) : (s \o t) \o u = s \o (t \o u)
BY ConcatAssociative

\* No lists give an empty one.
LEMMA FlattenEmpty == FlattenSeq(<<>>) = <<>>
BY DEF FlattenSeq

\* What lists give one after the other is what each gives, one after the other.
LEMMA FlattenJoin ==
    ASSUME NEW D, NEW x \in Seq(Seq(D)), NEW y \in Seq(Seq(D))
    PROVE  FlattenSeq(x \o y) = FlattenSeq(x) \o FlattenSeq(y)
<1>1. \A q \in Seq(Seq(D)) : \A p \in Seq(D) :
         FlattenSeq(Append(q, p)) = FlattenSeq(q) \o p /\ FlattenSeq(q) \in Seq(D)
  BY FlattenAppended
<1>2. \A s, t, u \in Seq(D) : (s \o t) \o u = s \o (t \o u)
  BY Regrouped, SMTT(60)
<1>3. \A u \in Seq(Seq(D)) : \A p \in Seq(D) :
         x \o u \in Seq(Seq(D)) /\ x \o Append(u, p) = Append(x \o u, p)
  OBVIOUS
<1>4. \A q \in Seq(Seq(D)) : FlattenSeq(q) \in Seq(D)
  <2>1. <<>> \in Seq(D)
    OBVIOUS
  <2> QED BY <1>1, <2>1, Zenon
<1> DEFINE S == {n \in Nat : \A u \in Seq(Seq(D)) : Len(u) = n =>
                    FlattenSeq(x \o u) = FlattenSeq(x) \o FlattenSeq(u)}
<1>5. 0 \in S
  <2> SUFFICES ASSUME NEW u \in Seq(Seq(D)), Len(u) = 0
               PROVE  FlattenSeq(x \o u) = FlattenSeq(x) \o FlattenSeq(u)
    OBVIOUS
  <2>1. u = <<>>
    OBVIOUS
  <2>2. x \o <<>> = x /\ FlattenSeq(x) \o <<>> = FlattenSeq(x)
    <3>1. FlattenSeq(x) \in Seq(D)
      BY <1>4
    <3>2. x \o <<>> = x
      BY ConcatEmptySeq
    <3>3. FlattenSeq(x) \o <<>> = FlattenSeq(x)
      BY <3>1, ConcatEmptySeq
    <3> QED BY <3>2, <3>3
  <2> QED BY <2>1, <2>2, FlattenEmpty, Zenon
<1>6. ASSUME NEW n \in S PROVE n + 1 \in S
  <2> SUFFICES ASSUME NEW u \in Seq(Seq(D)), Len(u) = n + 1
               PROVE  FlattenSeq(x \o u) = FlattenSeq(x) \o FlattenSeq(u)
    OBVIOUS
  <2>1. PICK v \in Seq(Seq(D)), p \in Seq(D) : u = Append(v, p)
    <3>1. u # <<>>
      OBVIOUS
    <3> QED BY <3>1, SequenceEmptyOrAppend
  <2>2. Len(v) = n /\ v \in Seq(Seq(D)) /\ p \in Seq(D)
    <3>1. Len(u) = Len(v) + 1 /\ Len(v) \in Nat /\ n \in Nat
      BY <2>1
    <3> QED BY <2>1, <3>1
  <2>3. FlattenSeq(x \o v) = FlattenSeq(x) \o FlattenSeq(v)
    BY <2>2
  <2>4. FlattenSeq(x \o u) = FlattenSeq(x \o v) \o p /\ FlattenSeq(u) = FlattenSeq(v) \o p
    <3>1. x \o v \in Seq(Seq(D)) /\ x \o u = Append(x \o v, p)
      BY <1>3, <2>1, <2>2
    <3>2. FlattenSeq(Append(x \o v, p)) = FlattenSeq(x \o v) \o p
      BY <1>1, <2>2, <3>1, Zenon
    <3>3. FlattenSeq(Append(v, p)) = FlattenSeq(v) \o p
      BY <1>1, <2>2, Zenon
    <3> QED BY <2>1, <3>1, <3>2, <3>3, Zenon
  <2>5. FlattenSeq(x) \in Seq(D) /\ FlattenSeq(v) \in Seq(D)
    BY <1>4, <2>2
  <2>6. (FlattenSeq(x) \o FlattenSeq(v)) \o p = FlattenSeq(x) \o (FlattenSeq(v) \o p)
    <3>1. PICK a \in Seq(D), b \in Seq(D) : a = FlattenSeq(x) /\ b = FlattenSeq(v)
      BY <2>5
    <3>2. (a \o b) \o p = a \o (b \o p)
      BY <2>2, ConcatAssociative, SMTT(60)
    <3> QED BY <3>1, <3>2
  <2> QED BY <2>3, <2>4, <2>6
<1>7. S = Nat
  <2> HIDE DEF S
  <2>1. S \in SUBSET Nat
    BY DEF S
  <2> QED BY <1>5, <1>6, <2>1, AllNumbers
<1>8. Len(y) \in Nat
  OBVIOUS
<1> QED BY <1>7, <1>8

\* What lists give is a list of the same things.
LEMMA FlattenIsSeq ==
    ASSUME NEW D, NEW q \in Seq(Seq(D))
    PROVE  FlattenSeq(q) \in Seq(D)
<1>1. <<>> \in Seq(D)
  OBVIOUS
<1> QED BY <1>1, FlattenAppended

\* One list gives itself.
LEMMA FlattenOne ==
    ASSUME NEW D, NEW p \in Seq(D)
    PROVE  FlattenSeq(<<p>>) = p
<1>1. <<>> \in Seq(Seq(D)) /\ Append(<<>>, p) = <<p>>
  OBVIOUS
<1>2. FlattenSeq(Append(<<>>, p)) = FlattenSeq(<<>>) \o p
  BY <1>1, FlattenAppended
<1>3. <<>> \o p = p
  BY ConcatEmptySeq
<1> QED BY <1>1, <1>2, <1>3, FlattenEmpty

\* What lists of one length give has that many times their number.
LEMMA FlattenSameSize ==
    ASSUME NEW D, NEW l \in Nat
    PROVE  \A q \in Seq(Seq(D)) :
               (\A i \in 1 .. Len(q) : Len(q[i]) = l) => Len(FlattenSeq(q)) = Len(q) * l
<1>1. \A q \in Seq(Seq(D)) : \A p \in Seq(D) :
         FlattenSeq(Append(q, p)) = FlattenSeq(q) \o p /\ FlattenSeq(q) \in Seq(D)
  BY FlattenAppended
<1> DEFINE Same(q) == \A i \in 1 .. Len(q) : Len(q[i]) = l
           S == {n \in Nat : \A q \in Seq(Seq(D)) :
                    Len(q) = n /\ Same(q) => Len(FlattenSeq(q)) = n * l}
<1>2. 0 \in S
  <2> SUFFICES ASSUME NEW q \in Seq(Seq(D)), Len(q) = 0 PROVE Len(FlattenSeq(q)) = 0
    OBVIOUS
  <2>1. q = <<>>
    OBVIOUS
  <2> QED BY <2>1, FlattenEmpty
<1>3. ASSUME NEW n \in S PROVE n + 1 \in S
  <2> SUFFICES ASSUME NEW q \in Seq(Seq(D)), Len(q) = n + 1, Same(q)
               PROVE  Len(FlattenSeq(q)) = (n + 1) * l
    OBVIOUS
  <2>1. PICK v \in Seq(Seq(D)), p \in Seq(D) : q = Append(v, p)
    <3>1. q # <<>>
      OBVIOUS
    <3> QED BY <3>1, SequenceEmptyOrAppend
  <2>2. Len(v) = n /\ n \in Nat /\ (\A i \in 1 .. n : q[i] = v[i]) /\ q[n + 1] = p
    <3>1. Len(q) = Len(v) + 1 /\ Len(v) \in Nat /\ n \in Nat
      BY <2>1
    <3>2. Len(v) = n
      BY <3>1
    <3> QED BY <2>1, <3>1, <3>2, AppendProperties
  <2>3. Same(v) /\ Len(p) = l
    <3>1. \A i \in 1 .. n : i \in 1 .. Len(q)
      BY <2>2
    <3>2. n + 1 \in 1 .. Len(q)
      BY <2>2
    <3> QED BY <2>2, <3>1, <3>2
  <2>4. Len(FlattenSeq(v)) = n * l
    BY <2>2, <2>3
  <2>5. FlattenSeq(q) = FlattenSeq(v) \o p /\ FlattenSeq(v) \in Seq(D)
    BY <1>1, <2>1
  <2>6. Len(FlattenSeq(q)) = n * l + l
    <3>1. PICK a \in Seq(D) : a = FlattenSeq(v)
      BY <2>5
    <3>2. Len(a \o p) = Len(a) + Len(p)
      BY <2>1, ConcatProperties
    <3> QED BY <2>3, <2>4, <2>5, <3>1, <3>2
  <2> QED BY <2>2, <2>6
<1>4. S = Nat
  <2> HIDE DEF S
  <2>1. S \in SUBSET Nat
    BY DEF S
  <2> QED BY <1>2, <1>3, <2>1, AllNumbers
<1> SUFFICES ASSUME NEW q \in Seq(Seq(D)), Same(q)
             PROVE  Len(FlattenSeq(q)) = Len(q) * l
  OBVIOUS
<1>5. Len(q) \in Nat
  OBVIOUS
<1> QED BY <1>4, <1>5

----------------------------------------------------------------------------
(* Offsets                                                                 *)

\* A part of a list has as many items as it names.
LEMMA PartOfList ==
    ASSUME NEW S, NEW s \in Seq(S), NEW k \in 0 .. Len(s), NEW j \in 0 .. k
    PROVE  /\ SubSeq(s, j + 1, k) \in Seq(S) /\ Len(SubSeq(s, j + 1, k)) = k - j
           /\ \A i \in 1 .. k - j : SubSeq(s, j + 1, k)[i] = s[j + i]
<1>1. /\ j + 1 \in Int /\ k \in Int
      /\ \A i \in j + 1 .. k : s[i] \in S
  OBVIOUS
<1>2. /\ SubSeq(s, j + 1, k) \in Seq(S)
      /\ Len(SubSeq(s, j + 1, k)) = IF j + 1 <= k THEN k - (j + 1) + 1 ELSE 0
      /\ \A i \in 1 .. k - (j + 1) + 1 : SubSeq(s, j + 1, k)[i] = s[(j + 1) + i - 1]
  BY <1>1, SubSeqProperties
<1>3. k - (j + 1) + 1 = k - j /\ \A i \in 1 .. k - j : (j + 1) + i - 1 = j + i
  OBVIOUS
<1> QED BY <1>2, <1>3

\* The first k of a list.
LEMMA FrontOfList ==
    ASSUME NEW S, NEW s \in Seq(S), NEW k \in 0 .. Len(s)
    PROVE  /\ SubSeq(s, 1, k) \in Seq(S) /\ Len(SubSeq(s, 1, k)) = k
           /\ \A i \in 1 .. k : SubSeq(s, 1, k)[i] = s[i]
<1>1. 0 \in 0 .. k /\ 0 + 1 = 1 /\ k - 0 = k /\ \A i \in 1 .. k : 0 + i = i
  OBVIOUS
<1>2. /\ SubSeq(s, 0 + 1, k) \in Seq(S) /\ Len(SubSeq(s, 0 + 1, k)) = k - 0
      /\ \A i \in 1 .. k - 0 : SubSeq(s, 0 + 1, k)[i] = s[0 + i]
  BY <1>1, PartOfList
<1> QED BY <1>1, <1>2

\* The offsets o tell where the lists of d begin and end in what they give.
Marks(o, d) == \A k \in 0 .. Len(d) : o[k + 1] = Len(FlattenSeq(SubSeq(d, 1, k)))

\* What a sum is of is defined.
LEMMA SumsAreDefined ==
    ASSUME NEW n \in Nat, NEW lens, NEW h \in [0 .. n -> Nat],
           \A i \in 0 .. n : h[i] = IF i = 0 THEN 0 ELSE h[i - 1] + lens[i]
    PROVE  \A i \in 0 .. n :
               (CHOOSE g : g = [j \in 0 .. n |-> IF j = 0 THEN 0 ELSE g[j - 1] + lens[j]])[i]
                   = h[i]
<1> DEFINE Sums(g) == g = [j \in 0 .. n |-> IF j = 0 THEN 0 ELSE g[j - 1] + lens[j]]
<1>1. PICK g : Sums(g) /\ g = CHOOSE x : Sums(x)
  <2>1. Sums(h)
    OBVIOUS
  <2> HIDE DEF Sums
  <2> QED BY <2>1, Zenon
<1>2. \A i \in 0 .. n : g[i] = IF i = 0 THEN 0 ELSE g[i - 1] + lens[i]
  BY <1>1
<1> DEFINE S == {j \in Nat : j \in 0 .. n => g[j] = h[j]}
<1>3. 0 \in S
  BY <1>2
<1>4. ASSUME NEW j \in S PROVE j + 1 \in S
  <2> SUFFICES ASSUME j + 1 \in 0 .. n PROVE g[j + 1] = h[j + 1]
    OBVIOUS
  <2>1. j \in 0 .. n /\ j + 1 # 0 /\ (j + 1) - 1 = j
    OBVIOUS
  <2>2. g[j] = h[j]
    BY <2>1
  <2>3. g[j + 1] = g[j] + lens[j + 1]
    BY <1>2, <2>1
  <2>4. h[j + 1] = h[j] + lens[j + 1]
    BY <2>1
  <2> QED BY <2>2, <2>3, <2>4
<1>5. S = Nat
  <2> HIDE DEF S
  <2>1. S \in SUBSET Nat
    BY DEF S
  <2> QED BY <1>3, <1>4, <2>1, AllNumbers
<1>6. \A i \in 0 .. n : g[i] = h[i]
  BY <1>5
<1> HIDE DEF S
<1> QED BY <1>1, <1>6, Zenon

\* Joins of the first lists are those of all lists.
LEMMA JoinsOfFirst ==
    ASSUME NEW D, NEW d \in Seq(Seq(D)), NEW f \in [0 .. Len(d) -> Seq(D)],
           Joins(f, d, Len(d)), NEW k \in 0 .. Len(d)
    PROVE  f[k] = FlattenSeq(SubSeq(d, 1, k))
<1>1. PICK p \in Seq(Seq(D)) : /\ p = SubSeq(d, 1, k) /\ Len(p) = k
                                /\ \A i \in 1 .. k : p[i] = d[i]
  BY FrontOfList, ZenonT(90)
<1>2. Len(p) = k /\ k \in Nat /\ \A i \in 1 .. k : d[i] = p[i]
  BY <1>1
<1>3. PICK g : Joins(g, p, k) /\ FlattenSeq(p) = g[k]
  BY <1>2, Flattened
<1>4. Joins(f, d, k) /\ SameLists(d, p, k)
  <2>1. 0 .. k \subseteq 0 .. Len(d)
    OBVIOUS
  <2> QED BY <1>2, <2>1 DEF Joins, SameLists
<1>5. f[k] = g[k]
  BY <1>2, <1>3, <1>4, JoinsAgree
<1> QED BY <1>1, <1>3, <1>5

\* The running sums of the lengths are marks of the elements.
LEMMA OffsetsMark ==
    ASSUME NEW D, NEW d \in Seq(Seq(D)), NEW lens \in Seq(Nat), Len(lens) = Len(d),
           \A i \in 1 .. Len(d) : lens[i] = Len(d[i])
    PROVE  /\ Offsets(lens) \in Seq(Nat) /\ Len(Offsets(lens)) = Len(d) + 1
           /\ Marks(Offsets(lens), d)
<1> DEFINE n == Len(d)
<1>1. n \in Nat
  OBVIOUS
<1>2. PICK f \in [0 .. n -> Seq(D)] : Joins(f, d, n)
  BY JoinExists
<1>3. PICK h : h = [i \in 0 .. n |-> Len(f[i])]
  OBVIOUS
<1>4. h \in [0 .. n -> Nat]
  BY <1>2, <1>3
<1>5. ASSUME NEW i \in 0 .. n
      PROVE  h[i] = IF i = 0 THEN 0 ELSE h[i - 1] + lens[i]
  <2>1. f[0] = <<>> /\ \A j \in 1 .. n : f[j] = f[j - 1] \o d[j]
    BY <1>1, <1>2, JoinsSteps, ZenonT(90)
  <2>2. CASE i = 0
    <3>1. h[0] = Len(f[0]) /\ Len(<<>>) = 0
      BY <1>1, <1>3
    <3> QED BY <2>1, <2>2, <3>1
  <2>3. CASE i # 0
    <3>1. i \in 1 .. n /\ i - 1 \in 0 .. n
      BY <1>1, <2>3
    <3>2. PICK a \in Seq(D), b \in Seq(D) : a = f[i - 1] /\ b = d[i]
      <4>1. f[i - 1] \in Seq(D)
        BY <1>2, <3>1
      <4>2. d[i] \in Seq(D)
        BY <3>1
      <4> QED BY <4>1, <4>2
    <3>3. Len(a \o b) = Len(a) + Len(b)
      BY ConcatProperties
    <3>4. h[i] = Len(f[i]) /\ h[i - 1] = Len(a) /\ lens[i] = Len(b) /\ f[i] = a \o b
      BY <1>3, <2>1, <3>1, <3>2
    <3> QED BY <2>3, <3>3, <3>4
  <2> QED BY <2>2, <2>3
<1>6. Offsets(lens) = [i \in 1 .. n + 1 |-> h[i - 1]]
  <2>0. Offsets(lens) = [i \in 1 .. Len(lens) + 1 |->
           (CHOOSE g : g = [j \in 0 .. Len(lens) |->
                               IF j = 0 THEN 0 ELSE g[j - 1] + lens[j]])[i - 1]]
    BY Zenon DEF Offsets
  <2>1. Offsets(lens) = [i \in 1 .. n + 1 |->
           (CHOOSE g : g = [j \in 0 .. n |-> IF j = 0 THEN 0 ELSE g[j - 1] + lens[j]])[i - 1]]
    BY <2>0, ZenonT(90)
  <2>2. \A i \in 0 .. n :
           (CHOOSE g : g = [j \in 0 .. n |-> IF j = 0 THEN 0 ELSE g[j - 1] + lens[j]])[i]
               = h[i]
    <3> HIDE DEF n
    <3> QED BY <1>1, <1>4, <1>5, SumsAreDefined
  <2>3. PICK c : c = CHOOSE g : g = [j \in 0 .. n |-> IF j = 0 THEN 0 ELSE g[j - 1] + lens[j]]
    OBVIOUS
  <2>4. Offsets(lens) = [i \in 1 .. n + 1 |-> c[i - 1]] /\ \A i \in 0 .. n : c[i] = h[i]
    BY <2>1, <2>2, <2>3, Zenon
  <2>5. \A i \in 1 .. n + 1 : i - 1 \in 0 .. n
    BY <1>1
  <2> QED BY <2>4, <2>5, Zenon
<1>7. \A k \in 0 .. n : f[k] = FlattenSeq(SubSeq(d, 1, k))
  BY <1>2, JoinsOfFirst
<1>8. Marks(Offsets(lens), d)
  <2> SUFFICES ASSUME NEW k \in 0 .. n
               PROVE  Offsets(lens)[k + 1] = Len(FlattenSeq(SubSeq(d, 1, k)))
    BY DEF Marks
  <2>1. k + 1 \in 1 .. n + 1 /\ (k + 1) - 1 = k
    BY <1>1
  <2>2. Offsets(lens)[k + 1] = h[k]
    BY <1>6, <2>1
  <2> QED BY <1>3, <1>7, <2>2
<1>9. Offsets(lens) \in Seq(Nat) /\ Len(Offsets(lens)) = n + 1
  <2>1. \A i \in 1 .. n + 1 : h[i - 1] \in Nat
    <3>1. \A i \in 1 .. n + 1 : i - 1 \in 0 .. n
      BY <1>1
    <3> HIDE DEF n
    <3> QED BY <1>4, <3>1
  <2>2. [i \in 1 .. n + 1 |-> h[i - 1]] \in [1 .. n + 1 -> Nat]
    BY <2>1
  <2>3. n + 1 \in Nat
    BY <1>1
  <2>4. PICK g \in [1 .. n + 1 -> Nat] : g = Offsets(lens)
    BY <1>6, <2>2, Zenon
  <2> HIDE DEF n
  <2>5. g \in Seq(Nat) /\ Len(g) = n + 1
    BY <2>3, SMTT(60)
  <2> QED BY <2>4, <2>5
<1> QED BY <1>8, <1>9

\* So do multiples of a size that all lists have.
LEMMA MultiplesMark ==
    ASSUME NEW D, NEW d \in Seq(Seq(D)), NEW l \in Nat, \A i \in 1 .. Len(d) : Len(d[i]) = l,
           NEW o, o = [i \in 1 .. Len(d) + 1 |-> (i - 1) * l]
    PROVE  Marks(o, d)
<1> SUFFICES ASSUME NEW k \in 0 .. Len(d)
             PROVE  o[k + 1] = Len(FlattenSeq(SubSeq(d, 1, k)))
  BY DEF Marks
<1>1. PICK p \in Seq(Seq(D)) : /\ p = SubSeq(d, 1, k) /\ Len(p) = k
                                /\ \A i \in 1 .. k : p[i] = d[i]
  BY FrontOfList, ZenonT(90)
<1>2. Len(p) = k /\ \A i \in 1 .. k : Len(p[i]) = l
  BY <1>1
<1>3. Len(FlattenSeq(p)) = k * l
  BY <1>2, FlattenSameSize
<1>4. o[k + 1] = k * l
  OBVIOUS
<1> QED BY <1>1, <1>3, <1>4

\* The part between two lists is found by their lengths.
LEMMA MiddleOf ==
    ASSUME NEW D, NEW a \in Seq(D), NEW b \in Seq(D), NEW c \in Seq(D)
    PROVE  SubSeq((a \o b) \o c, Len(a) + 1, Len(a \o b)) = b
<1>1. PICK x \in Seq(D) :
      /\ x = a \o b /\ Len(x) = Len(a) + Len(b)
      /\ \A i \in 1 .. Len(a) + Len(b) : x[i] = IF i <= Len(a) THEN a[i] ELSE b[i - Len(a)]
  <2>1. /\ a \o b \in Seq(D) /\ Len(a \o b) = Len(a) + Len(b)
        /\ \A i \in 1 .. Len(a) + Len(b) :
               (a \o b)[i] = IF i <= Len(a) THEN a[i] ELSE b[i - Len(a)]
    BY ConcatProperties, Zenon
  <2> QED BY <2>1, Zenon
<1>2. PICK y \in Seq(D) :
      /\ y = x \o c /\ Len(y) = Len(x) + Len(c)
      /\ \A i \in 1 .. Len(x) + Len(c) : y[i] = IF i <= Len(x) THEN x[i] ELSE c[i - Len(x)]
  <2>1. /\ x \o c \in Seq(D) /\ Len(x \o c) = Len(x) + Len(c)
        /\ \A i \in 1 .. Len(x) + Len(c) :
               (x \o c)[i] = IF i <= Len(x) THEN x[i] ELSE c[i - Len(x)]
    BY ConcatProperties, Zenon
  <2> QED BY <2>1, Zenon
<1>3. Len(a) \in Nat /\ Len(b) \in Nat /\ Len(c) \in Nat /\ Len(x) \in 0 .. Len(y)
      /\ Len(a) \in 0 .. Len(x)
  BY <1>1, <1>2
<1>4. /\ SubSeq(y, Len(a) + 1, Len(x)) \in Seq(D)
      /\ Len(SubSeq(y, Len(a) + 1, Len(x))) = Len(x) - Len(a)
      /\ \A i \in 1 .. Len(x) - Len(a) : SubSeq(y, Len(a) + 1, Len(x))[i] = y[Len(a) + i]
  BY <1>2, <1>3, PartOfList
<1>5. Len(x) - Len(a) = Len(b)
  BY <1>1, <1>3
<1>6. ASSUME NEW i \in 1 .. Len(b) PROVE SubSeq(y, Len(a) + 1, Len(x))[i] = b[i]
  <2>1. SubSeq(y, Len(a) + 1, Len(x))[i] = y[Len(a) + i]
    BY <1>4, <1>5
  <2>2. Len(a) + i \in 1 .. Len(x) + Len(c) /\ Len(a) + i <= Len(x)
        /\ Len(a) + i \in 1 .. Len(a) + Len(b) /\ ~ (Len(a) + i <= Len(a))
        /\ (Len(a) + i) - Len(a) = i
    BY <1>1, <1>3
  <2>3. y[Len(a) + i] = x[Len(a) + i]
    BY <1>2, <2>2
  <2>4. x[Len(a) + i] = b[i]
    BY <1>1, <2>2
  <2> QED BY <2>1, <2>3, <2>4
<1>7. PICK z \in Seq(D) : z = SubSeq(y, Len(a) + 1, Len(x))
  BY <1>4
<1>8. z = b
  BY <1>4, <1>5, <1>6, <1>7, SeqEqual
<1> QED BY <1>1, <1>2, <1>7, <1>8

\* A list of lists cut in three gives what the three parts give.
LEMMA FlattenCut ==
    ASSUME NEW D, NEW d \in Seq(Seq(D)), NEW k \in 0 .. Len(d), NEW j \in 0 .. k
    PROVE  /\ FlattenSeq(SubSeq(d, 1, k)) =
                  FlattenSeq(SubSeq(d, 1, j)) \o FlattenSeq(SubSeq(d, j + 1, k))
           /\ FlattenSeq(d) = FlattenSeq(SubSeq(d, 1, k)) \o FlattenSeq(SubSeq(d, k + 1, Len(d)))
<1>1. Len(d) \in Nat /\ j \in 0 .. Len(d) /\ 1 \in 1 .. Len(d) + 1 /\ j \in 0 .. Len(d)
      /\ Len(d) \in 0 .. Len(d) /\ k \in Nat /\ j \in Nat /\ k \in 0 .. Len(d)
      /\ j \in 1 - 1 .. Len(d) /\ k \in 1 - 1 .. Len(d) /\ k \in j .. Len(d)
      /\ Len(d) \in k .. Len(d)
  OBVIOUS
<1>2. SubSeq(d, 1, j) \o SubSeq(d, j + 1, k) = SubSeq(d, 1, k)
  BY <1>1, ConcatAdjacentSubSeq
<1>3. SubSeq(d, 1, k) \o SubSeq(d, k + 1, Len(d)) = SubSeq(d, 1, Len(d))
  BY <1>1, ConcatAdjacentSubSeq
<1>4. SubSeq(d, 1, Len(d)) = d
  BY SubSeqFull
<1>5. SubSeq(d, 1, j) \in Seq(Seq(D)) /\ SubSeq(d, 1, k) \in Seq(Seq(D))
  BY <1>1, FrontOfList
<1>6. SubSeq(d, j + 1, k) \in Seq(Seq(D))
  BY <1>1, PartOfList
<1>7. SubSeq(d, k + 1, Len(d)) \in Seq(Seq(D))
  BY <1>1, PartOfList
<1>8. FlattenSeq(SubSeq(d, 1, j) \o SubSeq(d, j + 1, k)) =
          FlattenSeq(SubSeq(d, 1, j)) \o FlattenSeq(SubSeq(d, j + 1, k))
  BY <1>5, <1>6, FlattenJoin
<1>9. FlattenSeq(SubSeq(d, 1, k) \o SubSeq(d, k + 1, Len(d))) =
          FlattenSeq(SubSeq(d, 1, k)) \o FlattenSeq(SubSeq(d, k + 1, Len(d)))
  BY <1>5, <1>7, FlattenJoin
<1> QED BY <1>2, <1>3, <1>4, <1>8, <1>9, Zenon

\* Between the marks of two lists is what the lists from the one to the other give.
LEMMA PartGives ==
    ASSUME NEW D, NEW d \in Seq(Seq(D)), NEW rest \in Seq(D), NEW o, Marks(o, d),
           NEW k \in 0 .. Len(d), NEW j \in 0 .. k
    PROVE  SubSeq(FlattenSeq(d) \o rest, o[j + 1] + 1, o[k + 1]) =
               FlattenSeq(SubSeq(d, j + 1, k))
<1>1. PICK a \in Seq(D), b \in Seq(D), c \in Seq(D) :
          /\ a = FlattenSeq(SubSeq(d, 1, j)) /\ b = FlattenSeq(SubSeq(d, j + 1, k))
          /\ c = FlattenSeq(SubSeq(d, k + 1, Len(d)))
  <2>1. j \in 0 .. Len(d) /\ Len(d) \in 0 .. Len(d) /\ k \in 0 .. Len(d)
    OBVIOUS
  <2>2. SubSeq(d, 1, j) \in Seq(Seq(D))
    BY <2>1, FrontOfList
  <2>3. SubSeq(d, j + 1, k) \in Seq(Seq(D))
    BY <2>1, PartOfList
  <2>4. SubSeq(d, k + 1, Len(d)) \in Seq(Seq(D))
    BY <2>1, PartOfList
  <2>5. \A q \in Seq(Seq(D)) : FlattenSeq(q) \in Seq(D)
    BY FlattenIsSeq
  <2> QED BY <2>2, <2>3, <2>4, <2>5, Zenon
<1>2. FlattenSeq(SubSeq(d, 1, k)) = a \o b /\ FlattenSeq(d) = (a \o b) \o c
  BY <1>1, FlattenCut, Zenon
<1>3. o[j + 1] = Len(a) /\ o[k + 1] = Len(a \o b)
  <2>1. j \in 0 .. Len(d) /\ k \in 0 .. Len(d)
    OBVIOUS
  <2>2. /\ o[j + 1] = Len(FlattenSeq(SubSeq(d, 1, j)))
        /\ o[k + 1] = Len(FlattenSeq(SubSeq(d, 1, k)))
    BY <2>1, Zenon DEF Marks
  <2> QED BY <1>1, <1>2, <2>2, Zenon
<1>4. ((a \o b) \o c) \o rest = (a \o b) \o (c \o rest)
  <2>1. \A s, t, u \in Seq(D) : (s \o t) \o u = s \o (t \o u)
    BY Regrouped, SMTT(60)
  <2>2. a \o b \in Seq(D)
    BY ConcatProperties, Zenon
  <2> QED BY <2>1, <2>2
<1>5. c \o rest \in Seq(D)
  OBVIOUS
<1>6. SubSeq((a \o b) \o (c \o rest), Len(a) + 1, Len(a \o b)) = b
  BY <1>5, MiddleOf
<1> QED BY <1>1, <1>2, <1>3, <1>4, <1>6

\* One of a list is a list of it alone.
LEMMA OneOfList ==
    ASSUME NEW S, NEW s \in Seq(S), NEW k \in 1 .. Len(s)
    PROVE  SubSeq(s, k, k) = <<s[k]>> /\ SubSeq(s, k, k) \in Seq(S)
<1>1. k \in 0 .. Len(s) /\ k - 1 \in 0 .. k /\ (k - 1) + 1 = k /\ k - (k - 1) = 1
      /\ s[k] \in S
  OBVIOUS
<1>2. /\ SubSeq(s, (k - 1) + 1, k) \in Seq(S) /\ Len(SubSeq(s, (k - 1) + 1, k)) = k - (k - 1)
      /\ \A i \in 1 .. k - (k - 1) : SubSeq(s, (k - 1) + 1, k)[i] = s[(k - 1) + i]
  BY <1>1, PartOfList
<1>3. PICK t \in Seq(S) : t = SubSeq(s, k, k) /\ Len(t) = 1 /\ t[1] = s[k]
  <2>1. 1 \in 1 .. 1 /\ (k - 1) + 1 = k
    OBVIOUS
  <2> QED BY <1>1, <1>2, <2>1, Zenon
<1>4. t = <<s[k]>>
  <2>1. PICK v \in S : v = s[k]
    BY <1>1
  <2>2. <<v>> \in Seq(S) /\ Len(<<v>>) = 1 /\ <<v>>[1] = v
    OBVIOUS
  <2>3. Len(t) = Len(<<v>>) /\ \A i \in 1 .. Len(t) : t[i] = <<v>>[i]
    BY <1>3, <2>1, <2>2
  <2>4. t = <<v>>
    BY <1>3, <2>2, <2>3, SeqEqual, Zenon
  <2> QED BY <2>1, <2>4
<1> QED BY <1>3, <1>4

\* From each mark to the next it is as far as the list between them is long.
LEMMA MarkSteps ==
    ASSUME NEW D, NEW d \in Seq(Seq(D)), NEW o, Marks(o, d)
    PROVE  /\ o[1] = 0
           /\ \A k \in 1 .. Len(d) : /\ o[k] \in Nat /\ o[k + 1] = o[k] + Len(d[k])
                                     /\ FlattenSeq(SubSeq(d, k, k)) = d[k]
<1>1. o[1] = 0
  <2>1. 0 \in 0 .. Len(d) /\ 0 + 1 = 1
    OBVIOUS
  <2>2. o[0 + 1] = Len(FlattenSeq(SubSeq(d, 1, 0)))
    BY <2>1, Zenon DEF Marks
  <2>3. SubSeq(d, 1, 0) = <<>>
    BY SubSeqEmpty
  <2>4. Len(<<>>) = 0
    OBVIOUS
  <2> QED BY <2>1, <2>2, <2>3, <2>4, FlattenEmpty, Zenon
<1>2. ASSUME NEW k \in 1 .. Len(d)
      PROVE  /\ o[k] \in Nat /\ o[k + 1] = o[k] + Len(d[k])
             /\ FlattenSeq(SubSeq(d, k, k)) = d[k]
  <2>1. k \in 0 .. Len(d) /\ k - 1 \in 0 .. k /\ (k - 1) + 1 = k /\ d[k] \in Seq(D)
        /\ k - 1 \in 0 .. Len(d)
    OBVIOUS
  <2>2. FlattenSeq(SubSeq(d, 1, k)) =
            FlattenSeq(SubSeq(d, 1, k - 1)) \o FlattenSeq(SubSeq(d, (k - 1) + 1, k))
    BY <2>1, FlattenCut
  <2>3. SubSeq(d, k, k) = <<d[k]>>
    BY OneOfList
  <2>4. FlattenSeq(<<d[k]>>) = d[k]
    BY <2>1, FlattenOne
  <2>5. PICK a \in Seq(D), b \in Seq(D) : a = FlattenSeq(SubSeq(d, 1, k - 1)) /\ b = d[k]
    <3>1. SubSeq(d, 1, k - 1) \in Seq(Seq(D))
      BY <2>1, FrontOfList
    <3>2. FlattenSeq(SubSeq(d, 1, k - 1)) \in Seq(D)
      BY <3>1, FlattenIsSeq
    <3> QED BY <2>1, <3>2, Zenon
  <2>6. FlattenSeq(SubSeq(d, 1, k)) = a \o b
    BY <2>1, <2>2, <2>3, <2>4, <2>5
  <2>7. Len(a \o b) = Len(a) + Len(b) /\ Len(a) \in Nat
    BY ConcatProperties, LenProperties
  <2>8. o[(k - 1) + 1] = Len(FlattenSeq(SubSeq(d, 1, k - 1)))
        /\ o[k + 1] = Len(FlattenSeq(SubSeq(d, 1, k)))
    BY <2>1, Zenon DEF Marks
  <2> QED BY <2>1, <2>3, <2>4, <2>5, <2>6, <2>7, <2>8
<1> QED BY <1>1, <1>2

----------------------------------------------------------------------------
(* What a write makes of the elements                                      *)

\* The same element n times, as in a gap.
Blanks(n, blank) == [i \in 1 .. n |-> blank]

\* Two lists and what of each is where.
JoinOf(x, a, b) ==
    /\ Len(x) = Len(a) + Len(b)
    /\ \A i \in 1 .. Len(a) : x[i] = a[i]
    /\ \A i \in 1 .. Len(b) : x[Len(a) + i] = b[i]

\* Two lists put together have what each has.
LEMMA JoinIs ==
    ASSUME NEW D, NEW a \in Seq(D), NEW b \in Seq(D)
    PROVE  a \o b \in Seq(D) /\ JoinOf(a \o b, a, b)
<1>1. /\ a \o b \in Seq(D) /\ Len(a \o b) = Len(a) + Len(b)
      /\ \A i \in 1 .. Len(a) + Len(b) :
             (a \o b)[i] = IF i <= Len(a) THEN a[i] ELSE b[i - Len(a)]
  BY ConcatProperties, Zenon
<1>2. PICK x : /\ x = a \o b /\ Len(x) = Len(a) + Len(b)
               /\ \A i \in 1 .. Len(a) + Len(b) :
                      x[i] = IF i <= Len(a) THEN a[i] ELSE b[i - Len(a)]
  BY <1>1, Zenon
<1>3. Len(a) \in Nat /\ Len(b) \in Nat
  BY LenProperties
<1>4. ASSUME NEW i \in 1 .. Len(a) PROVE x[i] = a[i]
  BY <1>2, <1>3
<1>5. ASSUME NEW i \in 1 .. Len(b) PROVE x[Len(a) + i] = b[i]
  <2>1. Len(a) + i \in 1 .. Len(a) + Len(b) /\ ~ (Len(a) + i <= Len(a))
        /\ (Len(a) + i) - Len(a) = i
    BY <1>3
  <2> QED BY <1>2, <2>1
<1> QED BY <1>1, <1>2, <1>4, <1>5, Zenon DEF JoinOf

\* The elements of a range r2 after a write of mid for s .. e to elements d of a
\* range r, with what fills the gap between them.
Spliced(d, r, s, e, mid, blank, r2) ==
    [i \in 1 .. Count(r2) |->
        LET x == r2[1] + i - 1
        IN  IF x \in s .. e THEN mid[x - s + 1]
            ELSE IF x \in Of(r) THEN d[x - r[1] + 1] ELSE blank]

\* How many elements of r come before s, and how many do not come after e.
FrontCount(r, s) == IF s <= r[1] THEN 0 ELSE Lesser(s - 1, r[2]) - r[1] + 1
BackCount(r, e) == IF e >= r[2] THEN Count(r) ELSE Greater(e + 1, r[1]) - r[1]

\* A write leaves one element for each number of the new range.
LEMMA SplicedIsSeq ==
    ASSUME NEW D, NEW r \in Ranges, NEW w \in Ranges,
           NEW r2, r2 = <<Lesser(w[1], r[1]), Greater(w[2], r[2])>>,
           NEW d \in Seq(D), Len(d) = Count(r),
           NEW mid \in Seq(D), Len(mid) = Count(w), NEW blank \in D
    PROVE  /\ Spliced(d, r, w[1], w[2], mid, blank, r2) \in Seq(D)
           /\ Len(Spliced(d, r, w[1], w[2], mid, blank, r2)) = Count(r2)
<1>1. /\ r[1] \in Int /\ r[2] \in Int /\ w[1] \in Int /\ w[2] \in Int
      /\ r[1] <= r[2] /\ w[1] <= w[2]
      /\ r2[1] \in Int /\ r2[2] \in Int /\ r2[1] <= r2[2]
  BY SectionAssumption DEF Ranges, Lesser, Greater
<1>2. Count(r2) \in Nat
  BY SMTT(60), <1>1 DEF Count
<1>3. ASSUME NEW i \in 1 .. Count(r2)
      PROVE  (LET x == r2[1] + i - 1
              IN  IF x \in w[1] .. w[2] THEN mid[x - w[1] + 1]
                  ELSE IF x \in Of(r) THEN d[x - r[1] + 1] ELSE blank) \in D
  <2> DEFINE x == r2[1] + i - 1
  <2>1. x \in Int
    BY <1>1, <1>2
  <2>2. x \in w[1] .. w[2] => x - w[1] + 1 \in 1 .. Len(mid)
    <3> HIDE DEF x
    <3> QED BY <1>1, <2>1, SMTT(60) DEF Count
  <2>3. x \in Of(r) => x - r[1] + 1 \in 1 .. Len(d)
    <3> HIDE DEF x
    <3> QED BY <1>1, <2>1, SMTT(60) DEF Count, Of
  <2>4. x \in w[1] .. w[2] => mid[x - w[1] + 1] \in D
    <3> HIDE DEF x
    <3> QED BY <2>2, ElementOfSeq
  <2>5. x \in Of(r) => d[x - r[1] + 1] \in D
    <3> HIDE DEF x
    <3> QED BY <2>3, ElementOfSeq
  <2> QED BY <2>4, <2>5, Zenon
<1>4. PICK f : f = Spliced(d, r, w[1], w[2], mid, blank, r2)
  OBVIOUS
<1>5. f \in [1 .. Count(r2) -> D]
  BY <1>3, <1>4, Zenon DEF Spliced
<1>6. f \in Seq(D) /\ Len(f) = Count(r2)
  BY SMTT(60), <1>2, <1>5
<1> QED BY <1>4, <1>6

\* The same, for a list that is then taken by a name.
LEMMA JoinPicked ==
    ASSUME NEW D, NEW a \in Seq(D), NEW b \in Seq(D)
    PROVE  \E x \in Seq(D) : x = a \o b /\ JoinOf(x, a, b)
BY JoinIs, Zenon

\* What the elements of a gap are.
LEMMA BlanksAre ==
    ASSUME NEW D, NEW n \in Nat, NEW blank \in D
    PROVE  /\ Blanks(n, blank) \in Seq(D) /\ Len(Blanks(n, blank)) = n
           /\ \A i \in 1 .. n : Blanks(n, blank)[i] = blank
BY DEF Blanks

\* How many elements of lo .. hi are before a write of s .. e and how many not after
\* it, and how long the gaps are; q is where the new range begins.
Layout(lo, hi, s, e, kf, kb, n1, n2, q) ==
    /\ lo \in Int /\ hi \in Int /\ s \in Int /\ e \in Int /\ lo <= hi /\ s <= e
    /\ kf = IF s <= lo THEN 0 ELSE IF s - 1 <= hi THEN s - lo ELSE hi - lo + 1
    /\ kb = IF e >= hi THEN hi - lo + 1 ELSE IF e + 1 <= lo THEN 0 ELSE e + 1 - lo
    /\ n1 = IF s > hi THEN s - hi - 1 ELSE 0
    /\ n2 = IF lo > e THEN lo - e - 1 ELSE 0
    /\ q = IF s <= lo THEN s ELSE lo

\* What is at the place i of the new range, which is element x.
LayoutAt(lo, hi, s, e, kf, kb, n1, n2, i, x) ==
    /\ kf \in Nat /\ kb \in Nat /\ n1 \in Nat /\ n2 \in Nat /\ kb <= hi - lo + 1
    /\ i \in 1 .. kf => x \notin s .. e /\ x \in lo .. hi /\ x - lo + 1 = i
    /\ \A t \in 1 .. n1 : i = kf + t => x \notin s .. e /\ x \notin lo .. hi
    /\ \A t \in 1 .. e - s + 1 : i = kf + n1 + t => x \in s .. e /\ x - s + 1 = t
    /\ \A t \in 1 .. n2 :
           i = kf + n1 + (e - s + 1) + t => x \notin s .. e /\ x \notin lo .. hi
    /\ \A t \in 1 .. (hi - lo + 1) - kb :
           i = kf + n1 + (e - s + 1) + n2 + t =>
               x \notin s .. e /\ x \in lo .. hi /\ x - lo + 1 = kb + t

\* Where a number of the new range is found among the five parts.
LEMMA LayoutPlaces ==
    ASSUME NEW lo, NEW hi, NEW s, NEW e, NEW kf, NEW kb, NEW n1, NEW n2, NEW q,
           Layout(lo, hi, s, e, kf, kb, n1, n2, q), NEW i \in Int, NEW x, x = q + i - 1
    PROVE  LayoutAt(lo, hi, s, e, kf, kb, n1, n2, i, x)
<1>1. /\ lo \in Int /\ hi \in Int /\ s \in Int /\ e \in Int /\ lo <= hi /\ s <= e
      /\ kf \in Nat /\ kb \in Nat /\ n1 \in Nat /\ n2 \in Nat /\ q \in Int /\ x \in Int
      /\ kb <= hi - lo + 1
      /\ q + kf + n1 = s
      /\ kf > 0 => q = lo /\ lo + kf - 1 <= hi
      /\ n1 > 0 => q + kf = hi + 1
      /\ n2 > 0 => e + n2 < lo
      /\ kb < hi - lo + 1 => e + n2 = lo + kb - 1
  BY DEF Layout
<1>2. i \in 1 .. kf => x \notin s .. e /\ x \in lo .. hi /\ x - lo + 1 = i
  BY <1>1
<1>3. ASSUME NEW t \in 1 .. n1, i = kf + t PROVE x \notin s .. e /\ x \notin lo .. hi
  BY <1>1, <1>3
<1>4. ASSUME NEW t \in 1 .. e - s + 1, i = kf + n1 + t PROVE x \in s .. e /\ x - s + 1 = t
  BY <1>1, <1>4
<1>5. ASSUME NEW t \in 1 .. n2, i = kf + n1 + (e - s + 1) + t
      PROVE  x \notin s .. e /\ x \notin lo .. hi
  BY <1>1, <1>5
<1>6. ASSUME NEW t \in 1 .. (hi - lo + 1) - kb, i = kf + n1 + (e - s + 1) + n2 + t
      PROVE  x \notin s .. e /\ x \in lo .. hi /\ x - lo + 1 = kb + t
  BY <1>1, <1>6
<1> QED BY <1>1, <1>2, <1>3, <1>4, <1>5, <1>6, Zenon DEF LayoutAt

\* Five lists, one after the other.
Five(a, b, c, g, h) == a \o b \o c \o g \o h

\* That is what is before the new elements, what fills the gap after it, the new
\* elements, what fills the gap before the rest, and the rest.
LEMMA SplicedIsJoin ==
    ASSUME NEW D, NEW r \in Ranges, NEW w \in Ranges,
           NEW r2, r2 = <<Lesser(w[1], r[1]), Greater(w[2], r[2])>>,
           NEW d \in Seq(D), Len(d) = Count(r),
           NEW mid \in Seq(D), Len(mid) = Count(w), NEW blank \in D
    PROVE  Spliced(d, r, w[1], w[2], mid, blank, r2) =
               Five(SubSeq(d, 1, FrontCount(r, w[1])),
                    Blanks(Greater(0, w[1] - r[2] - 1), blank), mid,
                    Blanks(Greater(0, r[1] - w[2] - 1), blank),
                    SubSeq(d, BackCount(r, w[2]) + 1, Len(d)))
<1> DEFINE s == w[1]
           e == w[2]
           kf == FrontCount(r, s)
           kb == BackCount(r, e)
           n1 == Greater(0, s - r[2] - 1)
           n2 == Greater(0, r[1] - e - 1)
<1>1. /\ r[1] \in Int /\ r[2] \in Int /\ s \in Int /\ e \in Int
      /\ r[1] <= r[2] /\ s <= e /\ Len(d) = r[2] - r[1] + 1 /\ Len(mid) = e - s + 1
  BY SectionAssumption DEF Ranges, Count
<1>20. kf = IF s <= r[1] THEN 0 ELSE IF s - 1 <= r[2] THEN s - r[1] ELSE Len(d)
  BY <1>1, SMTT(60) DEF FrontCount, Lesser
<1>21. kb = IF e >= r[2] THEN Len(d) ELSE IF e + 1 <= r[1] THEN 0 ELSE e + 1 - r[1]
  BY <1>1 DEF BackCount, Greater, Count
<1>22. n1 = IF s > r[2] THEN s - r[2] - 1 ELSE 0
  BY SMTT(60), <1>1 DEF Greater
<1>23. n2 = IF r[1] > e THEN r[1] - e - 1 ELSE 0
  BY SMTT(60), <1>1 DEF Greater
<1>24. r2[1] = Lesser(s, r[1]) /\ r2[2] = Greater(e, r[2])
  OBVIOUS
<1>25. r2[1] = IF s <= r[1] THEN s ELSE r[1]
  BY <1>1, <1>24 DEF Lesser
<1>26. r2[2] = IF e <= r[2] THEN r[2] ELSE e
  BY <1>1, <1>24 DEF Greater
<1>27. Count(r2) = r2[2] - r2[1] + 1
  BY DEF Count
<1>13. r2[1] \in Int /\ r2[2] \in Int /\ r2[1] <= r2[2]
  <2>1. r2[1] \in Int /\ r2[1] <= s
    BY <1>1, <1>25, SMTT(60)
  <2>2. r2[2] \in Int /\ e <= r2[2]
    BY <1>1, <1>26, SMTT(60)
  <2> QED BY <1>1, <2>1, <2>2, SMTT(60)
<1> HIDE DEF s, e, kf, kb, n1, n2
<1>2. kf \in 0 .. Len(d) /\ kb \in 0 .. Len(d) /\ Len(d) \in 0 .. Len(d)
      /\ n1 \in Nat /\ n2 \in Nat
  <2>1. kf \in 0 .. Len(d)
    BY <1>1, <1>20, SMTT(60)
  <2>2. kb \in 0 .. Len(d)
    BY <1>1, <1>21, SMTT(60)
  <2>3. n1 \in Nat
    BY SMTT(60), <1>1, <1>22
  <2>4. n2 \in Nat
    BY <1>1, <1>23
  <2>5. Len(d) \in 0 .. Len(d)
    BY <1>1
  <2> QED BY <2>1, <2>2, <2>3, <2>4, <2>5
<1>3. PICK a \in Seq(D) : /\ a = SubSeq(d, 1, kf) /\ Len(a) = kf
                          /\ \A i \in 1 .. kf : a[i] = d[i]
  BY <1>2, FrontOfList, ZenonT(90)
<1>4. PICK c \in Seq(D) : /\ c = SubSeq(d, kb + 1, Len(d)) /\ Len(c) = Len(d) - kb
                          /\ \A i \in 1 .. Len(d) - kb : c[i] = d[kb + i]
  <2>1. /\ SubSeq(d, kb + 1, Len(d)) \in Seq(D)
        /\ Len(SubSeq(d, kb + 1, Len(d))) = Len(d) - kb
        /\ \A i \in 1 .. Len(d) - kb : SubSeq(d, kb + 1, Len(d))[i] = d[kb + i]
    BY <1>2, PartOfList
  <2> QED BY <2>1, Zenon
<1>5. PICK b \in Seq(D) : /\ b = Blanks(n1, blank) /\ Len(b) = n1
                          /\ \A i \in 1 .. n1 : b[i] = blank
  BY <1>2, BlanksAre, ZenonT(90)
<1>6. PICK g \in Seq(D) : /\ g = Blanks(n2, blank) /\ Len(g) = n2
                          /\ \A i \in 1 .. n2 : g[i] = blank
  BY <1>2, BlanksAre, ZenonT(90)
<1>7. PICK x1 \in Seq(D) : x1 = a \o b /\ JoinOf(x1, a, b)
  BY JoinPicked
<1>8. PICK x2 \in Seq(D) : x2 = x1 \o mid /\ JoinOf(x2, x1, mid)
  BY JoinPicked
<1>9. PICK x3 \in Seq(D) : x3 = x2 \o g /\ JoinOf(x3, x2, g)
  BY JoinPicked
<1>10. PICK x4 \in Seq(D) : x4 = x3 \o c /\ JoinOf(x4, x3, c)
  BY JoinPicked
<1>11. PICK f \in Seq(D) : /\ f = Spliced(d, r, s, e, mid, blank, r2)
                           /\ Len(f) = Count(r2)
  BY SplicedIsSeq DEF s, e
<1>12. ASSUME NEW i \in 1 .. Count(r2), NEW x, x = r2[1] + i - 1
       PROVE  f[i] = IF x \in s .. e THEN mid[x - s + 1]
                     ELSE IF x \in Of(r) THEN d[x - r[1] + 1] ELSE blank
  BY <1>11, <1>12, Zenon DEF Spliced, s, e
<1>15. /\ Len(x1) = kf + n1 /\ Len(x2) = kf + n1 + (e - s + 1)
       /\ Len(x3) = kf + n1 + (e - s + 1) + n2
       /\ Len(x4) = kf + n1 + (e - s + 1) + n2 + (Len(d) - kb)
  <2>1. /\ Len(x1) = Len(a) + Len(b) /\ Len(x2) = Len(x1) + Len(mid)
        /\ Len(x3) = Len(x2) + Len(g) /\ Len(x4) = Len(x3) + Len(c)
    BY <1>7, <1>8, <1>9, <1>10, Zenon DEF JoinOf
  <2> QED BY <1>1, <1>2, <1>3, <1>4, <1>5, <1>6, <2>1
<1>16. Len(x4) = Count(r2)
  <2>1. PICK lo \in Int, hi \in Int, n \in Int, l4 \in Int, m \in Int :
            lo = r[1] /\ hi = r[2] /\ n = Len(d) /\ l4 = Len(x4) /\ m = Count(r2)
    <3>1. Len(d) \in Int /\ Len(x4) \in Int
      BY LenProperties
    <3>2. Count(r2) \in Int
      BY <1>13, <1>27, SMTT(60)
    <3> QED BY <1>1, <3>1, <3>2
  <2>2. /\ l4 = kf + n1 + (e - s + 1) + n2 + (n - kb) /\ n = hi - lo + 1
        /\ kf = IF s <= lo THEN 0 ELSE IF s - 1 <= hi THEN s - lo ELSE n
        /\ kb = IF e >= hi THEN n ELSE IF e + 1 <= lo THEN 0 ELSE e + 1 - lo
        /\ n1 = IF s > hi THEN s - hi - 1 ELSE 0
        /\ n2 = IF lo > e THEN lo - e - 1 ELSE 0
        /\ m = (IF e <= hi THEN hi ELSE e) - (IF s <= lo THEN s ELSE lo) + 1
    BY <1>1, <1>15, <1>20, <1>21, <1>22, <1>23, <1>25, <1>26, <1>27, <2>1, Zenon
  <2>3. l4 = m
    <3>1. /\ kf \in Int /\ kb \in Int /\ n1 \in Int /\ n2 \in Int /\ lo <= hi
          /\ s \in Int /\ e \in Int /\ s <= e
      BY <1>1, <1>2, <2>1
    <3>2. CASE s > hi
      BY SMTT(60), <2>2, <3>1, <3>2
    <3>3. CASE s <= hi /\ e < lo
      BY SMTT(60), <2>2, <3>1, <3>3
    <3>4. CASE s <= hi /\ e >= lo
      <4>1. n1 = 0 /\ n2 = 0
        BY <2>2, <3>1, <3>4
      <4>2. kf = (IF s <= lo THEN lo ELSE s) - lo
        BY <2>2, <3>1, <3>4
      <4>3. n - kb = hi - (IF e >= hi THEN hi ELSE e)
        BY SMTT(60), <2>2, <3>1, <3>4
      <4> QED BY SMTT(60), <2>2, <3>1, <4>1, <4>2, <4>3
    <3> QED BY <3>1, <3>2, <3>3, <3>4
  <2> QED BY <2>1, <2>3
<1> SUFFICES ASSUME NEW i \in 1 .. Count(r2) PROVE f[i] = x4[i]
  <2>1. Spliced(d, r, s, e, mid, blank, r2) = Five(a, b, mid, g, c)
    <3>1. f = x4
      BY <1>11, <1>16, SeqEqual, ZenonT(90)
    <3> QED BY <1>7, <1>8, <1>9, <1>10, <1>11, <3>1 DEF Five
  <2> QED BY <2>1, <1>3, <1>4, <1>5, <1>6, Zenon DEF s, e, kf, kb, n1, n2
<1>30. PICK lo \in Int, hi \in Int, n \in Int, q \in Int :
          /\ lo = r[1] /\ hi = r[2] /\ n = Len(d) /\ n = hi - lo + 1 /\ lo <= hi
          /\ q = r2[1]
  <2>1. Len(d) \in Int
    BY LenProperties
  <2> QED BY <1>1, <1>13, <2>1
<1>31. Layout(lo, hi, s, e, kf, kb, n1, n2, q)
  <2>1. /\ kf = IF s <= lo THEN 0 ELSE IF s - 1 <= hi THEN s - lo ELSE hi - lo + 1
        /\ kb = IF e >= hi THEN hi - lo + 1 ELSE IF e + 1 <= lo THEN 0 ELSE e + 1 - lo
        /\ n1 = IF s > hi THEN s - hi - 1 ELSE 0
        /\ n2 = IF lo > e THEN lo - e - 1 ELSE 0
        /\ q = IF s <= lo THEN s ELSE lo
    BY <1>20, <1>21, <1>22, <1>23, <1>25, <1>30, Zenon
  <2>2. lo <= hi /\ s \in Int /\ e \in Int /\ s <= e
    BY <1>1, <1>30
  <2> QED BY <2>1, <2>2, Zenon DEF Layout
<1>43. i \in Int /\ 1 <= i /\ i <= kf + n1 + (e - s + 1) + n2 + (n - kb)
  <2>1. Count(r2) \in Int
    BY <1>13, <1>27, SMTT(60)
  <2>2. Count(r2) = kf + n1 + (e - s + 1) + n2 + (n - kb)
    BY <1>15, <1>16, <1>30, Zenon
  <2> QED BY <2>1, <2>2
<1>33. PICK x \in Int : x = r2[1] + i - 1 /\ x = q + i - 1
  BY <1>30, <1>43, SMTT(60)
<1>32. LayoutAt(lo, hi, s, e, kf, kb, n1, n2, i, x)
  <2>1. i \in Int /\ x = q + i - 1
    BY <1>33, <1>43
  <2> QED BY <1>31, <2>1, LayoutPlaces, Zenon
<1>44. /\ kf \in Nat /\ kb \in Nat /\ n1 \in Nat /\ n2 \in Nat /\ n - kb \in Nat
       /\ s \in Int /\ e \in Int /\ s <= e
  <2>1. kf \in Nat /\ kb \in Nat /\ n1 \in Nat /\ n2 \in Nat /\ kb <= hi - lo + 1
    BY <1>32, Zenon DEF LayoutAt
  <2>2. s \in Int /\ e \in Int /\ s <= e
    BY <1>1
  <2>3. n - kb \in Nat
    <3>1. n \in Int /\ lo \in Int /\ hi \in Int /\ n = hi - lo + 1
      BY <1>30
    <3>2. kb \in Nat /\ kb <= hi - lo + 1
      BY <2>1
    <3> HIDE DEF kb
    <3> QED BY <3>1, <3>2
  <2> QED BY <2>1, <2>2, <2>3, Zenon
<1>34. f[i] = IF x \in s .. e THEN mid[x - s + 1]
              ELSE IF x \in Of(r) THEN d[x - r[1] + 1] ELSE blank
  BY <1>12, <1>33, Zenon
<1>35. Of(r) = lo .. hi
  BY <1>30 DEF Of
<1>36. /\ \A t \in 1 .. Len(x3) : x4[t] = x3[t]
       /\ \A t \in 1 .. Len(x2) : x4[t] = x2[t]
       /\ \A t \in 1 .. Len(x1) : x4[t] = x1[t]
  <2>1. \A t \in 1 .. Len(x3) : x4[t] = x3[t]
    BY <1>10 DEF JoinOf
  <2>2. \A t \in 1 .. Len(x2) : x3[t] = x2[t] /\ t \in 1 .. Len(x3)
    <3>1. 1 .. Len(x2) \subseteq 1 .. Len(x3)
      BY <1>15, <1>44
    <3> QED BY <1>9, <3>1, Zenon DEF JoinOf
  <2>3. \A t \in 1 .. Len(x1) : x2[t] = x1[t] /\ t \in 1 .. Len(x2)
    <3>1. 1 .. Len(x1) \subseteq 1 .. Len(x2)
      BY <1>15, <1>44
    <3> QED BY <1>8, <3>1, Zenon DEF JoinOf
  <2> QED BY <2>1, <2>2, <2>3, Zenon
<1>37. CASE i \in 1 .. kf
  <2>1. i \in 1 .. Len(a) /\ i \in 1 .. Len(x1)
    BY <1>3, <1>15, <1>44, <1>37
  <2>2. x4[i] = d[i]
    <3>1. x1[i] = a[i]
      BY <1>7, <2>1, Zenon DEF JoinOf
    <3> QED BY <1>3, <1>36, <1>37, <2>1, <3>1, Zenon
  <2>3. x \notin s .. e /\ x \in lo .. hi /\ x - lo + 1 = i
    BY <1>30, <1>32, <1>37, Zenon DEF LayoutAt
  <2> QED BY <1>30, <1>34, <1>35, <2>2, <2>3, Zenon
<1>38. ASSUME NEW t \in 1 .. n1, i = kf + t PROVE f[i] = x4[i]
  <2>1. t \in 1 .. Len(b) /\ i = Len(a) + t /\ i \in 1 .. Len(x1)
    <3>1. t \in 1 .. Len(b) /\ i = Len(a) + t
      BY <1>3, <1>5, <1>38, Zenon
    <3>2. Len(x1) = kf + n1
      BY <1>15
    <3>3. i \in 1 .. kf + n1
      BY <1>44, <1>38
    <3> QED BY <3>1, <3>2, <3>3, Zenon
  <2>2. x4[i] = blank
    <3>1. x1[Len(a) + t] = b[t]
      BY <1>7, <2>1, Zenon DEF JoinOf
    <3> QED BY <1>5, <1>36, <1>38, <2>1, <3>1, Zenon
  <2>3. x \notin s .. e /\ x \notin lo .. hi
    BY <1>30, <1>32, <1>38, Zenon DEF LayoutAt
  <2> QED BY <1>34, <1>35, <2>2, <2>3, Zenon
<1>39. ASSUME NEW t \in 1 .. e - s + 1, i = kf + n1 + t PROVE f[i] = x4[i]
  <2>1. t \in 1 .. Len(mid) /\ i = Len(x1) + t /\ i \in 1 .. Len(x2)
    BY <1>1, <1>15, <1>44, <1>39
  <2>2. x4[i] = mid[t]
    <3>1. x2[Len(x1) + t] = mid[t]
      BY <1>8, <2>1, Zenon DEF JoinOf
    <3> QED BY <1>36, <2>1, <3>1, Zenon
  <2>3. x \in s .. e /\ x - s + 1 = t
    BY <1>30, <1>32, <1>39, Zenon DEF LayoutAt
  <2> QED BY <1>34, <2>2, <2>3, Zenon
<1>40. ASSUME NEW t \in 1 .. n2, i = kf + n1 + (e - s + 1) + t PROVE f[i] = x4[i]
  <2>1. t \in 1 .. Len(g) /\ i = Len(x2) + t /\ i \in 1 .. Len(x3)
    BY <1>6, <1>15, <1>44, <1>40
  <2>2. x4[i] = blank
    <3>1. x3[Len(x2) + t] = g[t]
      BY <1>9, <2>1, Zenon DEF JoinOf
    <3> QED BY <1>6, <1>36, <1>40, <2>1, <3>1, Zenon
  <2>3. x \notin s .. e /\ x \notin lo .. hi
    BY <1>30, <1>32, <1>40, Zenon DEF LayoutAt
  <2> QED BY <1>34, <1>35, <2>2, <2>3, Zenon
<1>41. ASSUME NEW t \in 1 .. n - kb, i = kf + n1 + (e - s + 1) + n2 + t
       PROVE  f[i] = x4[i]
  <2>1. t \in 1 .. Len(c) /\ i = Len(x3) + t
    BY <1>4, <1>15, <1>30, <1>44, <1>41
  <2>2. x4[i] = d[kb + t]
    <3>1. x4[Len(x3) + t] = c[t]
      BY <1>10, <2>1, Zenon DEF JoinOf
    <3> QED BY <1>4, <1>30, <1>41, <2>1, <3>1, Zenon
  <2>3. x \notin s .. e /\ x \in lo .. hi /\ x - lo + 1 = kb + t
    BY <1>30, <1>32, <1>41, Zenon DEF LayoutAt
  <2> QED BY <1>30, <1>34, <1>35, <2>2, <2>3, Zenon
<1>42. \/ i \in 1 .. kf
       \/ \E t \in 1 .. n1 : i = kf + t
       \/ \E t \in 1 .. e - s + 1 : i = kf + n1 + t
       \/ \E t \in 1 .. n2 : i = kf + n1 + (e - s + 1) + t
       \/ \E t \in 1 .. n - kb : i = kf + n1 + (e - s + 1) + n2 + t
  <2>1. i \in Int /\ 1 <= i /\ i <= kf + n1 + (e - s + 1) + n2 + (n - kb)
    BY <1>43
  <2>2. \/ i <= kf
        \/ i - kf \in 1 .. n1
        \/ i - kf - n1 \in 1 .. e - s + 1
        \/ i - kf - n1 - (e - s + 1) \in 1 .. n2
        \/ i - kf - n1 - (e - s + 1) - n2 \in 1 .. n - kb
    BY <1>44, <2>1
  <2>3. /\ i = kf + (i - kf) /\ i = kf + n1 + (i - kf - n1)
        /\ i = kf + n1 + (e - s + 1) + (i - kf - n1 - (e - s + 1))
        /\ i = kf + n1 + (e - s + 1) + n2 + (i - kf - n1 - (e - s + 1) - n2)
        /\ i <= kf => i \in 1 .. kf
    BY <1>44, <2>1
  <2> QED BY <2>2, <2>3, Zenon
<1> QED BY <1>37, <1>38, <1>39, <1>40, <1>41, <1>42, Zenon

\* Five lists of elements give the words of each, one after the other.
LEMMA FlattenFive ==
    ASSUME NEW D, NEW a \in Seq(Seq(D)), NEW b \in Seq(Seq(D)), NEW c \in Seq(Seq(D)),
           NEW g \in Seq(Seq(D)), NEW h \in Seq(Seq(D))
    PROVE  FlattenSeq(Five(a, b, c, g, h)) =
               Five(FlattenSeq(a), FlattenSeq(b), FlattenSeq(c), FlattenSeq(g),
                    FlattenSeq(h))
<1>1. PICK x1 \in Seq(Seq(D)) : x1 = a \o b
  BY JoinPicked, Zenon
<1>2. PICK x2 \in Seq(Seq(D)) : x2 = x1 \o c
  BY JoinPicked, Zenon
<1>3. PICK x3 \in Seq(Seq(D)) : x3 = x2 \o g
  BY JoinPicked, Zenon
<1>4. FlattenSeq(x1 \o c) = FlattenSeq(x1) \o FlattenSeq(c)
      /\ FlattenSeq(a \o b) = FlattenSeq(a) \o FlattenSeq(b)
      /\ FlattenSeq(x2 \o g) = FlattenSeq(x2) \o FlattenSeq(g)
      /\ FlattenSeq(x3 \o h) = FlattenSeq(x3) \o FlattenSeq(h)
  BY FlattenJoin, ZenonT(90)
<1> QED BY <1>1, <1>2, <1>3, <1>4, Zenon DEF Five

\* The counts are within the range, and are those Before and After take.
LEMMA FrontAndBack ==
    ASSUME NEW r \in Ranges, NEW w \in Ranges
    PROVE  /\ FrontCount(r, w[1]) \in 0 .. Count(r) /\ BackCount(r, w[2]) \in 0 .. Count(r)
           /\ Greater(0, w[1] - r[2] - 1) \in Nat /\ Greater(0, r[1] - w[2] - 1) \in Nat
           /\ (IF w[1] <= r[1] THEN r[1] - 1 ELSE Lesser(w[1] - 1, r[2])) - r[1] + 2 =
                  FrontCount(r, w[1]) + 1
           /\ (IF w[2] >= r[2] THEN r[2] + 1 ELSE Greater(w[2] + 1, r[1])) - r[1] + 1 =
                  BackCount(r, w[2]) + 1
<1>1. PICK lo \in Int, hi \in Int, s \in Int, e \in Int :
         lo = r[1] /\ hi = r[2] /\ s = w[1] /\ e = w[2] /\ lo <= hi /\ s <= e
  BY SectionAssumption DEF Ranges
<1>2. Count(r) = hi - lo + 1
  BY <1>1 DEF Count
<1>3. FrontCount(r, s) \in 0 .. Count(r)
  BY <1>1, <1>2 DEF FrontCount, Lesser
<1>4. BackCount(r, e) \in 0 .. Count(r)
  BY <1>1, <1>2 DEF BackCount, Greater
<1>5. Greater(0, s - r[2] - 1) \in Nat
  BY <1>1 DEF Greater
<1>6. Greater(0, r[1] - e - 1) \in Nat
  BY <1>1 DEF Greater
<1>7. (IF s <= r[1] THEN r[1] - 1 ELSE Lesser(s - 1, r[2])) - r[1] + 2 = FrontCount(r, s) + 1
  BY <1>1 DEF FrontCount, Lesser
<1>8. (IF e >= r[2] THEN r[2] + 1 ELSE Greater(e + 1, r[1])) - r[1] + 1 = BackCount(r, e) + 1
  BY <1>1, <1>2 DEF BackCount, Greater
<1> QED BY <1>1, <1>3, <1>4, <1>5, <1>6, <1>7, <1>8

\* The words a write leaves are those of its five parts, as Merged puts them.
LEMMA SplicedGives ==
    ASSUME NEW D, NEW r \in Ranges, NEW w \in Ranges,
           NEW r2, r2 = <<Lesser(w[1], r[1]), Greater(w[2], r[2])>>,
           NEW d \in Seq(Seq(D)), Len(d) = Count(r),
           NEW mid \in Seq(Seq(D)), Len(mid) = Count(w), NEW blank \in Seq(D)
    PROVE  FlattenSeq(Spliced(d, r, w[1], w[2], mid, blank, r2)) =
               Five(FlattenSeq(SubSeq(d, 1, FrontCount(r, w[1]))),
                    FlattenSeq(Blanks(Greater(0, w[1] - r[2] - 1), blank)),
                    FlattenSeq(mid),
                    FlattenSeq(Blanks(Greater(0, r[1] - w[2] - 1), blank)),
                    FlattenSeq(SubSeq(d, BackCount(r, w[2]) + 1, Len(d))))
<1> DEFINE a == SubSeq(d, 1, FrontCount(r, w[1]))
           b == Blanks(Greater(0, w[1] - r[2] - 1), blank)
           g == Blanks(Greater(0, r[1] - w[2] - 1), blank)
           h == SubSeq(d, BackCount(r, w[2]) + 1, Len(d))
<1>1. /\ FrontCount(r, w[1]) \in 0 .. Len(d) /\ BackCount(r, w[2]) \in 0 .. Len(d)
      /\ Greater(0, w[1] - r[2] - 1) \in Nat /\ Greater(0, r[1] - w[2] - 1) \in Nat
  BY FrontAndBack, Zenon
<1>2. Len(d) \in 0 .. Len(d)
  OBVIOUS
<1>3. a \in Seq(Seq(D))
  BY <1>1, FrontOfList
<1>4. h \in Seq(Seq(D))
  BY <1>1, <1>2, PartOfList
<1>5. b \in Seq(Seq(D)) /\ g \in Seq(Seq(D))
  BY <1>1, BlanksAre, Zenon
<1>6. Spliced(d, r, w[1], w[2], mid, blank, r2) = Five(a, b, mid, g, h)
  BY SplicedIsJoin
<1> HIDE DEF a, b, g, h
<1>7. FlattenSeq(Five(a, b, mid, g, h)) =
          Five(FlattenSeq(a), FlattenSeq(b), FlattenSeq(mid), FlattenSeq(g), FlattenSeq(h))
  BY <1>3, <1>4, <1>5, FlattenFive
<1> QED BY <1>6, <1>7, Zenon DEF a, b, g, h

\* A function on 1 .. n is a list of length n.
LEMMA RowsAreSeq ==
    ASSUME NEW n \in Nat, NEW S, NEW f \in [1 .. n -> S]
    PROVE  f \in Seq(S) /\ Len(f) = n
OBVIOUS

\* A function on the numbers of a list is a list as long as it.
LEMMA RowsAlike ==
    ASSUME NEW S, NEW T, NEW sp \in Seq(S), NEW f \in [1 .. Len(sp) -> T]
    PROVE  f \in Seq(T) /\ Len(f) = Len(sp)
<1>1. Len(sp) \in Nat
  OBVIOUS
<1> QED BY <1>1, RowsAreSeq

\* lens are the numbers of words of the elements d.
AreLengths(lens, d) ==
    lens \in Seq(Nat) /\ Len(lens) = Len(d) /\ \A i \in 1 .. Len(d) : lens[i] = Len(d[i])

\* The lengths after a write, from the offsets o before it, as NewLengths has them.
SplicedLens(o, r, s, e, mid, blank, r2) ==
    [i \in 1 .. Count(r2) |->
        LET x == r2[1] + i - 1
        IN  IF x \in s .. e THEN Len(mid[x - s + 1])
            ELSE IF x \in Of(r) THEN o[x - r[1] + 2] - o[x - r[1] + 1] ELSE Len(blank)]

\* The lengths that a write computes from the offsets are those of the elements.
LEMMA SplicedLengths ==
    ASSUME NEW D, NEW r \in Ranges, NEW w \in Ranges,
           NEW r2, r2 = <<Lesser(w[1], r[1]), Greater(w[2], r[2])>>,
           NEW d \in Seq(Seq(D)), Len(d) = Count(r), NEW o, Marks(o, d),
           NEW mid \in Seq(Seq(D)), Len(mid) = Count(w), NEW blank \in Seq(D)
    PROVE  AreLengths(SplicedLens(o, r, w[1], w[2], mid, blank, r2),
                      Spliced(d, r, w[1], w[2], mid, blank, r2))
<1>1. PICK sp \in Seq(Seq(D)) : /\ sp = Spliced(d, r, w[1], w[2], mid, blank, r2)
                                /\ Len(sp) = Count(r2)
  BY SplicedIsSeq
<1>6. PICK lens : lens = SplicedLens(o, r, w[1], w[2], mid, blank, r2)
  OBVIOUS
<1>7. DOMAIN lens = 1 .. Count(r2) /\ lens = [i \in DOMAIN lens |-> lens[i]]
  BY <1>6, Zenon DEF SplicedLens
<1>2. ASSUME NEW i \in 1 .. Count(r2) PROVE lens[i] = Len(sp[i])
  <2>1. PICK x : x = r2[1] + i - 1
    OBVIOUS
  <2>2. lens[i] = IF x \in w[1] .. w[2] THEN Len(mid[x - w[1] + 1])
                  ELSE IF x \in Of(r) THEN o[x - r[1] + 2] - o[x - r[1] + 1]
                  ELSE Len(blank)
    BY <1>6, <2>1, Zenon DEF SplicedLens
  <2>3. sp[i] = IF x \in w[1] .. w[2] THEN mid[x - w[1] + 1]
                ELSE IF x \in Of(r) THEN d[x - r[1] + 1] ELSE blank
    BY <1>1, <2>1, Zenon DEF Spliced
  <2>4. x \in Of(r) => o[x - r[1] + 2] - o[x - r[1] + 1] = Len(d[x - r[1] + 1])
    <3> SUFFICES ASSUME x \in Of(r)
                 PROVE  o[x - r[1] + 2] - o[x - r[1] + 1] = Len(d[x - r[1] + 1])
      OBVIOUS
    <3>1. PICK k : k = x - r[1] + 1 /\ k \in 1 .. Len(d) /\ k + 1 = x - r[1] + 2
      <4>1. PICK lo \in Int, hi \in Int : lo = r[1] /\ hi = r[2] /\ Len(d) = hi - lo + 1
        BY SectionAssumption DEF Ranges, Count
      <4>2. x \in lo .. hi
        BY <4>1 DEF Of
      <4>3. x - lo + 1 \in 1 .. hi - lo + 1 /\ (x - lo + 1) + 1 = x - lo + 2
        BY <4>2
      <4> QED BY <4>1, <4>3, Zenon
    <3>2. o[k] \in Nat /\ o[k + 1] = o[k] + Len(d[k])
      BY <3>1, MarkSteps
    <3>3. Len(d[k]) \in Nat
      BY <3>1
    <3>4. o[k + 1] - o[k] = Len(d[k])
      BY <3>2, <3>3
    <3> QED BY <3>1, <3>4, Zenon
  <2> QED BY <2>2, <2>3, <2>4, Zenon
<1>3. Len(sp) \in Nat /\ \A i \in 1 .. Len(sp) : Len(sp[i]) \in Nat
  OBVIOUS
<1>4. lens \in [1 .. Len(sp) -> Nat]
  <2>1. DOMAIN lens = 1 .. Len(sp) /\ lens = [i \in DOMAIN lens |-> lens[i]]
    BY <1>1, <1>7, Zenon
  <2> QED BY <1>1, <1>2, <1>3, <2>1
<1>5. lens \in Seq(Nat) /\ Len(lens) = Len(sp)
  <2>1. sp \in Seq(Seq(D))
    BY <1>1
  <2> QED BY <1>4, <2>1, RowsAlike
<1> QED BY <1>1, <1>2, <1>5, <1>6, Zenon DEF AreLengths

\* Offsets made from the lengths of elements are marks of them.
LEMMA LengthsMark ==
    ASSUME NEW D, NEW d \in Seq(Seq(D)), NEW lens, AreLengths(lens, d)
    PROVE  /\ Offsets(lens) \in Seq(Nat) /\ Len(Offsets(lens)) = Len(d) + 1
           /\ Marks(Offsets(lens), d)
<1>1. lens \in Seq(Nat) /\ Len(lens) = Len(d) /\ \A i \in 1 .. Len(d) : lens[i] = Len(d[i])
  BY DEF AreLengths
<1> QED BY <1>1, OffsetsMark

\* LengthsOf are the lengths.
LEMMA LengthsOfAre ==
    ASSUME NEW D, NEW d \in Seq(Seq(D))
    PROVE  AreLengths(LengthsOf(d), d)
<1>1. Len(d) \in Nat /\ DOMAIN d = 1 .. Len(d) /\ \A i \in 1 .. Len(d) : Len(d[i]) \in Nat
  OBVIOUS
<1>2. PICK lens \in [1 .. Len(d) -> Nat] :
          lens = LengthsOf(d) /\ \A i \in 1 .. Len(d) : lens[i] = Len(d[i])
  <2>1. LengthsOf(d) = [i \in 1 .. Len(d) |-> Len(d[i])]
    BY <1>1, Zenon DEF LengthsOf
  <2> QED BY <1>1, <2>1
<1>3. lens \in Seq(Nat) /\ Len(lens) = Len(d)
  <2>1. lens \in [1 .. Len(d) -> Nat]
    BY <1>2
  <2> QED BY <2>1, RowsAlike
<1> QED BY <1>2, <1>3, Zenon DEF AreLengths

\* What lists give is as long as the last mark tells.
LEMMA LastMark ==
    ASSUME NEW D, NEW d \in Seq(Seq(D)), NEW o, Marks(o, d)
    PROVE  o[Len(d) + 1] = Len(FlattenSeq(d))
<1>1. Len(d) \in 0 .. Len(d)
  OBVIOUS
<1>2. o[Len(d) + 1] = Len(FlattenSeq(SubSeq(d, 1, Len(d))))
  BY <1>1, Zenon DEF Marks
<1>3. SubSeq(d, 1, Len(d)) = d
  BY SubSeqFull
<1> QED BY <1>2, <1>3, Zenon

\* The elements a write stores, raw or not.
RawOf(d) == [i \in 1 .. Len(d) |-> [j \in 1 .. Len(d[i]) |-> Raw]]

\* Raw elements have the lengths of the others, and give as many words, all raw.
LEMMA RawIs ==
    ASSUME NEW D, NEW d \in Seq(Seq(D))
    PROVE  /\ RawOf(d) \in Seq(Seq({Raw})) /\ Len(RawOf(d)) = Len(d)
           /\ \A i \in 1 .. Len(d) : Len(RawOf(d)[i]) = Len(d[i])
           /\ FlattenSeq(RawOf(d)) = [i \in DOMAIN FlattenSeq(d) |-> Raw]
<1>1. PICK q : q = RawOf(d)
  OBVIOUS
<1>2. Len(d) \in Nat /\ \A i \in 1 .. Len(d) : Len(d[i]) \in Nat
  OBVIOUS
<1>3. ASSUME NEW i \in 1 .. Len(d) PROVE q[i] \in Seq({Raw}) /\ Len(q[i]) = Len(d[i])
  <2>1. q[i] = [j \in 1 .. Len(d[i]) |-> Raw]
    BY <1>1, Zenon DEF RawOf
  <2>2. Len(d[i]) \in Nat
    BY <1>2
  <2>3. [j \in 1 .. Len(d[i]) |-> Raw] \in [1 .. Len(d[i]) -> {Raw}]
    OBVIOUS
  <2>4. q[i] \in [1 .. Len(d[i]) -> {Raw}]
    BY <2>1, <2>3, Zenon
  <2> QED BY <2>2, <2>4, RowsAreSeq
<1>4. q \in Seq(Seq({Raw})) /\ Len(q) = Len(d)
  <2>1. q = [i \in 1 .. Len(d) |-> q[i]]
    BY <1>1, Zenon DEF RawOf
  <2>2. q \in [1 .. Len(d) -> Seq({Raw})]
    BY <1>3, <2>1, Zenon
  <2> QED BY <1>2, <2>2, RowsAreSeq
<1>5. Len(FlattenSeq(q)) = Len(FlattenSeq(d))
  <2>1. AreLengths(LengthsOf(d), d)
    BY LengthsOfAre
  <2>2. AreLengths(LengthsOf(d), q)
    <3>1. \A i \in 1 .. Len(d) : LengthsOf(d)[i] = Len(q[i])
      BY <1>3, <2>1, Zenon DEF AreLengths
    <3> QED BY <1>4, <2>1, <3>1, Zenon DEF AreLengths
  <2>3. Marks(Offsets(LengthsOf(d)), d)
    BY <2>1, LengthsMark
  <2>4. Marks(Offsets(LengthsOf(d)), q)
    BY <1>4, <2>2, LengthsMark
  <2>5. Offsets(LengthsOf(d))[Len(d) + 1] = Len(FlattenSeq(d))
    BY <2>3, LastMark
  <2>6. Offsets(LengthsOf(d))[Len(q) + 1] = Len(FlattenSeq(q))
    BY <1>4, <2>4, LastMark
  <2> QED BY <1>4, <2>5, <2>6
<1>6. FlattenSeq(q) \in Seq({Raw}) /\ FlattenSeq(d) \in Seq(D)
  BY <1>4, FlattenIsSeq
<1>7. PICK a \in Seq({Raw}), b \in Seq(D) :
         a = FlattenSeq(q) /\ b = FlattenSeq(d) /\ Len(a) = Len(b)
  BY <1>5, <1>6, Zenon
<1>8. a = [i \in DOMAIN b |-> Raw]
  BY <1>7
<1> QED BY <1>1, <1>3, <1>4, <1>7, <1>8, Zenon

\* What a caller gives are that many elements.
LEMMA GivenIs ==
    ASSUME NEW poly \in BOOLEAN, NEW n \in Nat, NEW data \in Given(poly, n)
    PROVE  /\ data \in Seq(Seq(Value)) /\ Len(data) = n
           /\ ~ poly => \A i \in 1 .. n : Len(data[i]) = Npe
<1>1. PICK v \in Value, size \in [1 .. n -> IF poly THEN Sizes ELSE {Npe}] :
          data = [i \in 1 .. n |-> [j \in 1 .. size[i] |-> v]]
  BY DEF Given
<1>2. \A i \in 1 .. n : size[i] \in Nat /\ (~ poly => size[i] = Npe)
  BY <1>1, SectionAssumption
<1>3. ASSUME NEW i \in 1 .. n PROVE data[i] \in Seq(Value) /\ Len(data[i]) = size[i]
  <2>1. data[i] = [j \in 1 .. size[i] |-> v]
    BY <1>1, Zenon
  <2>2. size[i] \in Nat
    BY <1>2
  <2>3. [j \in 1 .. size[i] |-> v] \in [1 .. size[i] -> Value]
    BY <1>1
  <2>4. data[i] \in [1 .. size[i] -> Value]
    BY <2>1, <2>3, Zenon
  <2> QED BY <2>2, <2>4, RowsAreSeq
<1>4. data \in Seq(Seq(Value)) /\ Len(data) = n
  <2>1. data = [i \in 1 .. n |-> data[i]]
    BY <1>1, Zenon
  <2>2. data \in [1 .. n -> Seq(Value)]
    BY <1>3, <2>1, Zenon
  <2> QED BY <2>2, RowsAreSeq
<1> QED BY <1>2, <1>3, <1>4, Zenon

----------------------------------------------------------------------------
(* The words of a section                                                  *)

\* What a word of the connectivity may be.
Words == Value \cup {0, Raw}

\* The file of a section, of range r, has the elements d, of which the callers have
\* given w: off marks them in the connectivity, which may have room behind them.
HoldsIn(poly, r, connect, off, w, d) ==
    /\ d \in Seq(Seq(Words)) /\ Len(d) = Count(r)
    /\ Marks(off, d)
    /\ \E rest \in Seq(Words) : connect = FlattenSeq(d) \o rest
    /\ ~ poly => \A i \in 1 .. Len(d) : Len(d[i]) = Npe
    /\ DOMAIN w = Of(r)
    /\ \A x \in Of(r) : w[x] \in {Raw, d[x - r[1] + 1]}

\* The words of a run of elements are those elements, one after the other.
WordsBetween(connect, off, r, d) ==
    \A a, b \in Int : \A k \in 0 .. Count(r) : \A j \in 0 .. k :
        a - r[1] + 1 = j + 1 /\ b - r[1] + 2 = k + 1 =>
            WordsOf(connect, off, r, a, b) = FlattenSeq(SubSeq(d, j + 1, k))

\* The words of an element are what is between its marks.
LEMMA WordsAre ==
    ASSUME NEW poly, NEW r \in Ranges, NEW connect, NEW off, NEW w, NEW d,
           HoldsIn(poly, r, connect, off, w, d)
    PROVE  /\ \A x \in Of(r) : WordsOf(connect, off, r, x, x) = d[x - r[1] + 1]
           /\ WordsBetween(connect, off, r, d)
<1>1. PICK rest \in Seq(Words) : connect = FlattenSeq(d) \o rest
  BY DEF HoldsIn
<1>2. d \in Seq(Seq(Words)) /\ Len(d) = Count(r) /\ Marks(off, d)
  BY DEF HoldsIn
<1>3. \A k \in 0 .. Len(d) : \A j \in 0 .. k :
          SubSeq(FlattenSeq(d) \o rest, off[j + 1] + 1, off[k + 1]) =
              FlattenSeq(SubSeq(d, j + 1, k))
  BY <1>2, PartGives, ZenonT(90)
<1>4. ASSUME NEW a \in Int, NEW b \in Int, NEW k \in 0 .. Count(r), NEW j \in 0 .. k,
             a - r[1] + 1 = j + 1, b - r[1] + 2 = k + 1
      PROVE  WordsOf(connect, off, r, a, b) = FlattenSeq(SubSeq(d, j + 1, k))
  <2>1. WordsOf(connect, off, r, a, b) = SubSeq(connect, off[j + 1] + 1, off[k + 1])
    BY <1>4, Zenon DEF WordsOf
  <2>2. SubSeq(FlattenSeq(d) \o rest, off[j + 1] + 1, off[k + 1]) =
            FlattenSeq(SubSeq(d, j + 1, k))
    BY <1>2, <1>3
  <2> QED BY <1>1, <2>1, <2>2
<1>5. ASSUME NEW x \in Of(r) PROVE WordsOf(connect, off, r, x, x) = d[x - r[1] + 1]
  <2>1. PICK lo \in Int, hi \in Int : lo = r[1] /\ hi = r[2] /\ Count(r) = hi - lo + 1
    BY SectionAssumption DEF Ranges, Count
  <2>2. x \in lo .. hi
    BY <2>1 DEF Of
  <2>3. PICK k \in 1 .. Count(r) : k = x - lo + 1
    <3>1. x - lo + 1 \in 1 .. hi - lo + 1
      BY <2>2
    <3> QED BY <2>1, <3>1, Zenon
  <2>4. /\ x \in Int /\ k \in 0 .. Count(r) /\ k - 1 \in 0 .. k /\ (k - 1) + 1 = k
        /\ x - lo + 1 = (k - 1) + 1 /\ x - lo + 2 = k + 1
    <3>1. k \in Int /\ 1 <= k /\ k <= hi - lo + 1 /\ k = x - lo + 1
      BY <2>1, <2>3
    <3>2. x \in Int
      BY <2>2
    <3>3. k \in 0 .. Count(r)
      BY <2>1, <3>1
    <3>4. k - 1 \in 0 .. k /\ (k - 1) + 1 = k
      BY <3>1
    <3>5. x - lo + 1 = (k - 1) + 1 /\ x - lo + 2 = k + 1
      BY <3>1, <3>2
    <3> QED BY <3>2, <3>3, <3>4, <3>5, Zenon
  <2>5. WordsOf(connect, off, r, x, x) = FlattenSeq(SubSeq(d, (k - 1) + 1, k))
    BY <1>4, <2>1, <2>4, Zenon
  <2>6. FlattenSeq(SubSeq(d, k, k)) = d[k]
    BY <1>2, <2>3, MarkSteps
  <2> QED BY <2>1, <2>3, <2>4, <2>5, <2>6, Zenon
<1>6. WordsBetween(connect, off, r, d)
  BY <1>4, ZenonT(90) DEF WordsBetween
<1> QED BY <1>5, <1>6, Zenon

\* The offsets there are after a write.
MarksAfter(poly, off, r, w, mid, blank, r2) ==
    IF poly THEN Offsets(SplicedLens(off, r, w[1], w[2], mid, blank, r2))
    ELSE [i \in 1 .. Count(r2) + 1 |-> (i - 1) * Npe]

\* The last offset is the length of the words.
EndsAt(off, words) == off \in Seq(Nat) /\ off[Len(off)] = Len(words)

\* A write of mid for the elements w.
IsWrite(poly, r, w, r2, connect, off, want1, d, mid, blank, sp, off2, want2) ==
    /\ r \in Ranges /\ w \in Ranges
    /\ r2 = <<Lesser(w[1], r[1]), Greater(w[2], r[2])>>
    /\ HoldsIn(poly, r, connect, off, want1, d)
    /\ mid \in Seq(Seq(Words)) /\ Len(mid) = Count(w)
    /\ blank \in Seq(Words)
    /\ ~ poly => Len(blank) = Npe /\ \A i \in 1 .. Len(mid) : Len(mid[i]) = Npe
    /\ sp = Spliced(d, r, w[1], w[2], mid, blank, r2)
    /\ off2 = MarksAfter(poly, off, r, w, mid, blank, r2)
    /\ DOMAIN want2 = Of(r2)
    /\ \A x \in Of(r2) :
           want2[x] \in IF x \in w[1] .. w[2] THEN {Raw, mid[x - w[1] + 1]}
                        ELSE IF x \in DOMAIN want1 THEN {want1[x]} ELSE {blank}

\* What it makes of them.
LEMMA WriteHolds ==
    ASSUME NEW poly, NEW r, NEW w, NEW r2, NEW connect, NEW off, NEW want1, NEW d,
           NEW mid, NEW blank, NEW sp, NEW rest \in Seq(Words), NEW off2, NEW want2,
           IsWrite(poly, r, w, r2, connect, off, want1, d, mid, blank, sp, off2, want2)
    PROVE  /\ HoldsIn(poly, r2, FlattenSeq(sp) \o rest, off2, want2, sp)
           /\ poly => EndsAt(off2, FlattenSeq(sp))
<1> USE DEF IsWrite
<1> r \in Ranges /\ w \in Ranges
  OBVIOUS
<1>1. d \in Seq(Seq(Words)) /\ Len(d) = Count(r)
  BY DEF HoldsIn
<1>2. sp \in Seq(Seq(Words)) /\ Len(sp) = Count(r2)
  BY <1>1, SplicedIsSeq
<1>3. PICK lo \in Int, hi \in Int, s \in Int, e \in Int, p \in Int, q \in Int :
         /\ lo = r[1] /\ hi = r[2] /\ s = w[1] /\ e = w[2] /\ p = r2[1] /\ q = r2[2]
         /\ Count(r) = hi - lo + 1 /\ Count(w) = e - s + 1 /\ Count(r2) = q - p + 1
  <2>1. r[1] \in Int /\ r[2] \in Int /\ w[1] \in Int /\ w[2] \in Int
    BY SectionAssumption DEF Ranges
  <2>2. r2[1] \in Int /\ r2[2] \in Int
    BY <2>1 DEF Lesser, Greater
  <2> QED BY <2>1, <2>2, Zenon DEF Count
<1>10. lo \in Int /\ hi \in Int /\ s \in Int /\ e \in Int /\ p \in Int /\ q \in Int
  BY <1>3
<1>4. ASSUME NEW i \in 1 .. Count(r2), NEW x \in Int, x = p + i - 1
      PROVE  sp[i] = IF x \in s .. e THEN mid[x - s + 1]
                     ELSE IF x \in lo .. hi THEN d[x - lo + 1] ELSE blank
  BY <1>3, <1>4, Zenon DEF Spliced, Of
<1>5. ASSUME NEW x \in s .. e PROVE x - s + 1 \in 1 .. Len(mid)
  <2>1. x - s + 1 \in 1 .. e - s + 1
    BY <1>10
  <2> QED BY <1>3, <2>1, Zenon
<1>6. ASSUME NEW x \in lo .. hi PROVE x - lo + 1 \in 1 .. Len(d)
  <2>1. x - lo + 1 \in 1 .. hi - lo + 1
    BY <1>10
  <2> QED BY <1>1, <1>3, <2>1, Zenon
<1>7. ~ poly => \A i \in 1 .. Len(sp) : Len(sp[i]) = Npe
  <2> SUFFICES ASSUME ~ poly, NEW i \in 1 .. Count(r2) PROVE Len(sp[i]) = Npe
    BY <1>2, Zenon
  <2>1. PICK x \in Int : x = p + i - 1
    BY <1>3
  <2>2. \A k \in 1 .. Len(d) : Len(d[k]) = Npe
    BY Zenon DEF HoldsIn
  <2>3. sp[i] = IF x \in s .. e THEN mid[x - s + 1]
                ELSE IF x \in lo .. hi THEN d[x - lo + 1] ELSE blank
    BY <1>4, <2>1, Zenon
  <2>4. x \in s .. e => Len(mid[x - s + 1]) = Npe
    BY <1>5, Zenon
  <2>5. x \in lo .. hi => Len(d[x - lo + 1]) = Npe
    BY <1>6, <2>2, Zenon
  <2>6. Len(blank) = Npe
    OBVIOUS
  <2> QED BY <2>3, <2>4, <2>5, <2>6, Zenon
<1>8. ASSUME NEW x \in Of(r2) PROVE want2[x] \in {Raw, sp[x - r2[1] + 1]}
  <2>1. PICK i \in 1 .. Count(r2) : i = x - r2[1] + 1 /\ x = p + i - 1 /\ x \in Int
    <3>1. x \in p .. q
      BY <1>3, Zenon DEF Of
    <3>2. x - p + 1 \in 1 .. q - p + 1 /\ x = p + (x - p + 1) - 1 /\ x \in Int
      BY <1>10, <3>1
    <3> QED BY <1>3, <3>2, Zenon
  <2>2. sp[i] = IF x \in s .. e THEN mid[x - s + 1]
                ELSE IF x \in lo .. hi THEN d[x - lo + 1] ELSE blank
    BY <1>4, <2>1, Zenon
  <2>3. want2[x] \in IF x \in s .. e THEN {Raw, mid[x - s + 1]}
                     ELSE IF x \in DOMAIN want1 THEN {want1[x]} ELSE {blank}
    BY <1>3, Zenon
  <2>4. DOMAIN want1 = lo .. hi /\ \A y \in lo .. hi : want1[y] \in {Raw, d[y - lo + 1]}
    BY <1>3, Zenon DEF HoldsIn, Of
  <2>5. CASE x \in s .. e
    BY <2>1, <2>2, <2>3, <2>5, Zenon
  <2>6. CASE x \notin s .. e /\ x \in lo .. hi
    BY <2>1, <2>2, <2>3, <2>4, <2>6, Zenon
  <2>7. CASE x \notin s .. e /\ x \notin lo .. hi
    BY <2>1, <2>2, <2>3, <2>4, <2>7, Zenon
  <2> QED BY <2>5, <2>6, <2>7
<1>9. \E t \in Seq(Words) : FlattenSeq(sp) \o rest = FlattenSeq(sp) \o t
  OBVIOUS
<1>11. CASE poly
  <2>1. PICK lens : lens = SplicedLens(off, r, w[1], w[2], mid, blank, r2)
    OBVIOUS
  <2>2. AreLengths(lens, sp)
    <3>1. Marks(off, d)
      BY DEF HoldsIn
    <3>2. AreLengths(SplicedLens(off, r, w[1], w[2], mid, blank, r2),
                     Spliced(d, r, w[1], w[2], mid, blank, r2))
      BY <1>1, <3>1, SplicedLengths
    <3> QED BY <2>1, <3>2, Zenon
  <2>3. /\ Offsets(lens) \in Seq(Nat) /\ Len(Offsets(lens)) = Len(sp) + 1
        /\ Marks(Offsets(lens), sp)
    <3>1. sp \in Seq(Seq(Words))
      BY <1>2
    <3> QED BY <2>2, <3>1, LengthsMark
  <2>4. Offsets(lens)[Len(sp) + 1] = Len(FlattenSeq(sp))
    <3>1. sp \in Seq(Seq(Words))
      BY <1>2
    <3> QED BY <2>3, <3>1, LastMark
  <2>5. off2 = Offsets(lens)
    BY <1>11, <2>1, Zenon DEF MarksAfter
  <2>6. Marks(off2, sp) /\ EndsAt(off2, FlattenSeq(sp))
    BY <2>3, <2>4, <2>5, Zenon DEF EndsAt
  <2> QED BY <1>2, <1>7, <1>8, <1>9, <2>6, Zenon DEF HoldsIn
<1>12. CASE ~ poly
  <2>1. off2 = [i \in 1 .. Len(sp) + 1 |-> (i - 1) * Npe]
    BY <1>2, <1>12, Zenon DEF MarksAfter
  <2>2. sp \in Seq(Seq(Words)) /\ Npe \in Nat /\ \A i \in 1 .. Len(sp) : Len(sp[i]) = Npe
    BY <1>2, <1>7, <1>12, SectionAssumption
  <2>3. Marks(off2, sp)
    BY <2>1, <2>2, MultiplesMark
  <2> QED BY <1>2, <1>7, <1>8, <1>9, <1>12, <2>3, Zenon DEF HoldsIn
<1> QED BY <1>11, <1>12

\* Every element of the file is marked in the connectivity and is what is wanted.
WordsInv ==
    sect # NoData =>
        /\ sect.poly \in BOOLEAN
        /\ \E d : HoldsIn(sect.poly, file.range, file.connect, OffsetOf(file), want, d)

\* Zeros is a list of that length.
LEMMA ZerosAre ==
    ASSUME NEW n \in Nat
    PROVE  Zeros(n) \in Seq({0}) /\ Len(Zeros(n)) = n /\ \A i \in 1 .. n : Zeros(n)[i] = 0
BY DEF Zeros

\* What fills a gap is an element of the section.
LEMMA BlankIs ==
    ASSUME sect.poly \in BOOLEAN
    PROVE  Blank \in Seq(Words) /\ (~ sect.poly => Len(Blank) = Npe)
<1>1. (IF sect.poly THEN 2 ELSE Npe) \in Nat
  BY SectionAssumption
<1>2. PICK n \in Nat : n = (IF sect.poly THEN 2 ELSE Npe) /\ Blank = Zeros(n)
  BY <1>1, Zenon DEF Blank
<1>3. Zeros(n) \in Seq({0}) /\ Len(Zeros(n)) = n
  BY <1>2, ZerosAre
<1>4. {0} \subseteq Words
  BY DEF Words
<1>5. Zeros(n) \in Seq(Words)
  BY <1>3, <1>4
<1> QED BY <1>2, <1>3, <1>5, Zenon

\* What a write works on is what the file has, wherever it takes it from.
LEMMA CachedIs ==
    ASSUME SectionInv, sect # NoData
    PROVE  Connect = file.connect /\ Offset = OffsetOf(file) /\ mem.range = file.range
           /\ file.range \in Ranges
<1>1. mem.range = file.range /\ file.range \in Ranges
      /\ mem.connect \in {NoData, file.connect} /\ mem.offset \in {NoData, file.offset}
  BY DEF SectionInv, CachesMirrorFile
<1>2. Connect = file.connect
  BY <1>1 DEF Connect
<1>3. Offset = OffsetOf(file)
  <2>1. CASE mem.offset = NoData
    BY <2>1, Zenon DEF Offset
  <2>2. CASE mem.offset # NoData
    <3>1. Offset = OffsetOf(mem)
      BY <2>2, Zenon DEF Offset
    <3>2. OffsetOf(mem) = OffsetOf(file)
      BY <1>1, <2>2, Zenon DEF OffsetOf
    <3> QED BY <3>1, <3>2
  <2> QED BY <2>1, <2>2
<1> QED BY <1>1, <1>2, <1>3

\* Before and After are the elements before and after the write.
LEMMA BeforeAndAfter ==
    ASSUME SectionInv, sect # NoData, NEW w \in Ranges, NEW d,
           HoldsIn(sect.poly, file.range, file.connect, OffsetOf(file), want, d)
    PROVE  /\ Before(w[1]) = FlattenSeq(SubSeq(d, 1, FrontCount(file.range, w[1])))
           /\ After(w[2]) = FlattenSeq(SubSeq(d, BackCount(file.range, w[2]) + 1, Len(d)))
<1> DEFINE r == file.range
           b == IF w[1] <= r[1] THEN r[1] - 1 ELSE Lesser(w[1] - 1, r[2])
           a == IF w[2] >= r[2] THEN r[2] + 1 ELSE Greater(w[2] + 1, r[1])
           kf == FrontCount(r, w[1])
           kb == BackCount(r, w[2])
<1>1. /\ Connect = file.connect /\ Offset = OffsetOf(file) /\ mem.range = r /\ r \in Ranges
  BY CachedIs, Zenon
<1>2. /\ kf \in 0 .. Count(r) /\ kb \in 0 .. Count(r)
      /\ b - r[1] + 2 = kf + 1 /\ a - r[1] + 1 = kb + 1
  BY <1>1, FrontAndBack, Zenon
<1>3. /\ r[1] \in Int /\ r[2] \in Int /\ w[1] \in Int /\ w[2] \in Int
  BY <1>1, SectionAssumption DEF Ranges
<1>4. a \in Int /\ b \in Int
  <2> HIDE DEF r
  <2> QED BY <1>3 DEF Lesser, Greater
<1>5. Before(w[1]) = WordsOf(file.connect, OffsetOf(file), r, r[1], b)
  BY <1>1, Zenon DEF Before
<1>6. After(w[2]) = WordsOf(file.connect, OffsetOf(file), r, a, r[2])
  BY <1>1, Zenon DEF After
<1>7. Len(d) = Count(r)
  BY Zenon DEF HoldsIn
<1>11. HoldsIn(sect.poly, r, file.connect, OffsetOf(file), want, d)
  OBVIOUS
<1> HIDE DEF r, a, b, kf, kb
<1>8. \A x, y \in Int : \A k \in 0 .. Count(r) : \A j \in 0 .. k :
          x - r[1] + 1 = j + 1 /\ y - r[1] + 2 = k + 1 =>
              WordsOf(file.connect, OffsetOf(file), r, x, y) = FlattenSeq(SubSeq(d, j + 1, k))
  <2>1. WordsBetween(file.connect, OffsetOf(file), r, d)
    BY <1>1, <1>11, WordsAre, Zenon
  <2> QED BY <2>1, Zenon DEF WordsBetween
<1>9. WordsOf(file.connect, OffsetOf(file), r, r[1], b) = FlattenSeq(SubSeq(d, 1, kf))
  <2>1. 0 \in 0 .. kf /\ r[1] - r[1] + 1 = 0 + 1 /\ 0 + 1 = 1
    BY <1>2, <1>3
  <2>2. WordsOf(file.connect, OffsetOf(file), r, r[1], b) = FlattenSeq(SubSeq(d, 0 + 1, kf))
    <3>1. /\ r[1] \in Int /\ b \in Int /\ kf \in 0 .. Count(r) /\ 0 \in 0 .. kf
          /\ r[1] - r[1] + 1 = 0 + 1 /\ b - r[1] + 2 = kf + 1
      BY <1>2, <1>3, <1>4, <2>1, Zenon
    <3> QED BY <1>8, <3>1
  <2> QED BY <2>1, <2>2, Zenon
<1>10. WordsOf(file.connect, OffsetOf(file), r, a, r[2]) =
           FlattenSeq(SubSeq(d, kb + 1, Count(r)))
  <2>1. Count(r) \in 0 .. Count(r) /\ r[2] - r[1] + 2 = Count(r) + 1
    <3>1. Count(r) \in Nat
      BY <1>1, CountIsPositive
    <3>2. Count(r) = r[2] - r[1] + 1
      BY DEF Count
    <3> QED BY <1>3, <3>1, <3>2
  <2> QED BY <1>2, <1>3, <1>4, <1>8, <2>1, ZenonT(90)
<1> QED BY <1>5, <1>6, <1>7, <1>9, <1>10, Zenon DEF r, kf, kb

\* The elements of a write as they are stored.
StoredElems(s, mtype, data) == IF CopiesRaw(s, mtype) THEN RawOf(data) ELSE data

\* What is stored are elements of the lengths of those given.
LEMMA StoredIs ==
    ASSUME NEW s, NEW mtype, NEW data \in Seq(Seq(Value))
    PROVE  /\ StoredElems(s, mtype, data) \in Seq(Seq(Words))
           /\ Len(StoredElems(s, mtype, data)) = Len(data)
           /\ \A i \in 1 .. Len(data) : Len(StoredElems(s, mtype, data)[i]) = Len(data[i])
           /\ FlattenSeq(StoredElems(s, mtype, data)) = Stored(s, mtype, FlattenSeq(data))
<1>1. Seq(Seq(Value)) \subseteq Seq(Seq(Words)) /\ Seq(Seq({Raw})) \subseteq Seq(Seq(Words))
  <2>1. Value \subseteq Words /\ {Raw} \subseteq Words
    BY DEF Words
  <2>2. \A S, T : S \subseteq T => Seq(S) \subseteq Seq(T)
    BY SeqMonotonic, Zenon
  <2> QED BY <2>1, <2>2, Zenon
<1>2. CASE CopiesRaw(s, mtype)
  <2>1. StoredElems(s, mtype, data) = RawOf(data)
        /\ Stored(s, mtype, FlattenSeq(data)) = [i \in DOMAIN FlattenSeq(data) |-> Raw]
    BY <1>2, Zenon DEF StoredElems, Stored
  <2>2. /\ RawOf(data) \in Seq(Seq({Raw})) /\ Len(RawOf(data)) = Len(data)
        /\ \A i \in 1 .. Len(data) : Len(RawOf(data)[i]) = Len(data[i])
        /\ FlattenSeq(RawOf(data)) = [i \in DOMAIN FlattenSeq(data) |-> Raw]
    BY RawIs
  <2> QED BY <1>1, <2>1, <2>2, Zenon
<1>3. CASE ~ CopiesRaw(s, mtype)
  BY <1>1, <1>3, Zenon DEF StoredElems, Stored
<1> QED BY <1>2, <1>3

\* The merged array has the words of the elements that a write leaves.
LEMMA MergedIs ==
    ASSUME SectionInv, sect # NoData, sect.poly \in BOOLEAN, NEW w \in Ranges, NEW d,
           HoldsIn(sect.poly, file.range, file.connect, OffsetOf(file), want, d),
           NEW mid \in Seq(Seq(Words)), Len(mid) = Count(w)
    PROVE  Merged(w[1], w[2], FlattenSeq(mid)) =
               FlattenSeq(Spliced(d, file.range, w[1], w[2], mid, Blank,
                                  NewRange(w[1], w[2])))
<1> DEFINE r == file.range
<1>1. r \in Ranges /\ mem.range = r
  BY CachedIs, Zenon
<1>2. d \in Seq(Seq(Words)) /\ Len(d) = Count(r)
  BY DEF HoldsIn
<1>3. Blank \in Seq(Words)
  BY BlankIs
<1>4. NewRange(w[1], w[2]) = <<Lesser(w[1], r[1]), Greater(w[2], r[2])>>
  BY <1>1, Zenon DEF NewRange
<1>5. /\ Before(w[1]) = FlattenSeq(SubSeq(d, 1, FrontCount(r, w[1])))
      /\ After(w[2]) = FlattenSeq(SubSeq(d, BackCount(r, w[2]) + 1, Len(d)))
  BY BeforeAndAfter, Zenon
<1>6. \A n : Gap(n) = FlattenSeq(Blanks(n, Blank))
  BY Zenon DEF Gap, Blanks
<1> HIDE DEF r
<1>7. Merged(w[1], w[2], FlattenSeq(mid)) =
          Five(Before(w[1]), Gap(Greater(0, w[1] - r[2] - 1)), FlattenSeq(mid),
               Gap(Greater(0, r[1] - w[2] - 1)), After(w[2]))
  BY <1>1, Zenon DEF Merged, Five
<1>8. FlattenSeq(Spliced(d, r, w[1], w[2], mid, Blank, NewRange(w[1], w[2]))) =
          Five(FlattenSeq(SubSeq(d, 1, FrontCount(r, w[1]))),
               FlattenSeq(Blanks(Greater(0, w[1] - r[2] - 1), Blank)),
               FlattenSeq(mid),
               FlattenSeq(Blanks(Greater(0, r[1] - w[2] - 1), Blank)),
               FlattenSeq(SubSeq(d, BackCount(r, w[2]) + 1, Len(d))))
  BY <1>1, <1>2, <1>3, <1>4, SplicedGives
<1>9. Merged(w[1], w[2], FlattenSeq(mid)) =
          FlattenSeq(Spliced(d, r, w[1], w[2], mid, Blank, NewRange(w[1], w[2])))
  BY <1>5, <1>6, <1>7, <1>8, Zenon
<1> QED BY <1>9 DEF r

\* The lengths computed from what the caller gives are those of what is stored.
LEMMA NewLengthsAre ==
    ASSUME SectionInv, sect # NoData, NEW w \in Ranges, NEW data, NEW mid, NEW r2,
           Len(data) = Count(w), \A i \in 1 .. Len(data) : Len(mid[i]) = Len(data[i])
    PROVE  NewLengths(w[1], w[2], data, r2) =
               SplicedLens(OffsetOf(file), file.range, w[1], w[2], mid, Blank, r2)
<1> DEFINE A(i) == LET x == r2[1] + i - 1
                   IN  IF x \in w[1] .. w[2] THEN Len(data[x - w[1] + 1])
                       ELSE IF x \in Of(file.range)
                            THEN OffsetOf(file)[x - file.range[1] + 2]
                                   - OffsetOf(file)[x - file.range[1] + 1]
                            ELSE Len(Blank)
           B(i) == LET x == r2[1] + i - 1
                   IN  IF x \in w[1] .. w[2] THEN Len(mid[x - w[1] + 1])
                       ELSE IF x \in Of(file.range)
                            THEN OffsetOf(file)[x - file.range[1] + 2]
                                   - OffsetOf(file)[x - file.range[1] + 1]
                            ELSE Len(Blank)
<1>1. Offset = OffsetOf(file) /\ mem.range = file.range
  BY CachedIs, Zenon
<1>2. NewLengths(w[1], w[2], data, r2) = [i \in 1 .. Count(r2) |-> A(i)]
  BY <1>1, Zenon DEF NewLengths
<1>3. SplicedLens(OffsetOf(file), file.range, w[1], w[2], mid, Blank, r2) =
          [i \in 1 .. Count(r2) |-> B(i)]
  BY Zenon DEF SplicedLens
<1>4. ASSUME NEW x \in w[1] .. w[2] PROVE x - w[1] + 1 \in 1 .. Len(data)
  <2>1. PICK s \in Int, e \in Int : s = w[1] /\ e = w[2]
    BY SectionAssumption DEF Ranges
  <2>2. s \in Int /\ e \in Int /\ x \in s .. e
    BY <2>1
  <2>3. x - s + 1 \in 1 .. e - s + 1
    BY <2>2
  <2> QED BY <2>1, <2>3, Zenon DEF Count
<1>5. ASSUME NEW i \in 1 .. Count(r2) PROVE A(i) = B(i)
  BY <1>4, Zenon
<1> HIDE DEF A, B
<1> QED BY <1>2, <1>3, <1>5, Zenon

\* A merge puts the elements where the new offsets mark them, and leaves in memory
\* a connectivity as long as the last offset says.
LEMMA WriteInMemoryWords ==
    ASSUME SectionInv, sect # NoData, WordsInv, NEW w \in Ranges, NEW mtype,
           NEW data \in Given(sect.poly, Count(w)), WriteInMemory(w[1], w[2], data, mtype)
    PROVE  WordsInv' /\ WholeReadIsServed'
<1>1. PICK d : HoldsIn(sect.poly, file.range, file.connect, OffsetOf(file), want, d)
  BY DEF WordsInv
<1>2. sect.poly \in BOOLEAN /\ Count(w) \in Nat
  BY CountIsPositive DEF WordsInv
<1>3. file.range \in Ranges /\ mem.range = file.range
  BY CachedIs, Zenon
<1>4. /\ data \in Seq(Seq(Value)) /\ Len(data) = Count(w)
      /\ ~ sect.poly => \A i \in 1 .. Count(w) : Len(data[i]) = Npe
  BY <1>2, GivenIs
<1>5. PICK mid : mid = StoredElems(w[1], mtype, data)
  OBVIOUS
<1>6. /\ mid \in Seq(Seq(Words)) /\ Len(mid) = Len(data)
      /\ \A i \in 1 .. Len(data) : Len(mid[i]) = Len(data[i])
      /\ FlattenSeq(mid) = Stored(w[1], mtype, FlattenSeq(data))
  <2>1. /\ StoredElems(w[1], mtype, data) \in Seq(Seq(Words))
        /\ Len(StoredElems(w[1], mtype, data)) = Len(data)
        /\ \A i \in 1 .. Len(data) :
               Len(StoredElems(w[1], mtype, data)[i]) = Len(data[i])
        /\ FlattenSeq(StoredElems(w[1], mtype, data)) =
               Stored(w[1], mtype, FlattenSeq(data))
    BY <1>4, StoredIs
  <2> QED BY <1>5, <2>1, Zenon
<1>7. PICK r2 : r2 = NewRange(w[1], w[2])
  OBVIOUS
<1>8. PICK sp : sp = Spliced(d, file.range, w[1], w[2], mid, Blank, r2)
  OBVIOUS
<1>9. PICK blank : blank = Blank
  OBVIOUS
<1>10. r2 = <<Lesser(w[1], file.range[1]), Greater(w[2], file.range[2])>>
  BY <1>3, <1>7, Zenon DEF NewRange
<1>11. Merged(w[1], w[2], Stored(w[1], mtype, FlattenSeq(data))) = FlattenSeq(sp)
  <2>1. /\ mid \in Seq(Seq(Words)) /\ Len(mid) = Count(w)
    BY <1>4, <1>6
  <2>2. Merged(w[1], w[2], FlattenSeq(mid)) =
               FlattenSeq(Spliced(d, file.range, w[1], w[2], mid, Blank,
                                  NewRange(w[1], w[2])))
    BY <1>1, <1>2, <2>1, MergedIs
  <2> QED BY <1>6, <1>7, <1>8, <2>2, Zenon
<1>12. /\ sect' = sect /\ file'.range = r2 /\ file'.connect = FlattenSeq(sp)
       /\ file'.offset = IF sect.poly THEN Offsets(NewLengths(w[1], w[2], data, r2)) ELSE <<>>
       /\ mem'.connect = FlattenSeq(sp)
       /\ mem'.offset = IF sect.poly THEN file'.offset ELSE NoData
       /\ want' = Wanted(w[1], w[2], data, CopiesRaw(w[1], mtype))
  BY <1>7, <1>11 DEF WriteInMemory
<1>13. PICK off2 : off2 = OffsetOf(file)'
  OBVIOUS
<1>14. off2 = MarksAfter(sect.poly, OffsetOf(file), file.range, w, mid, blank, r2)
  <2>1. NewLengths(w[1], w[2], data, r2) =
            SplicedLens(OffsetOf(file), file.range, w[1], w[2], mid, blank, r2)
    BY <1>4, <1>6, <1>9, NewLengthsAre
  <2>2. off2 = IF sect.poly THEN file'.offset
               ELSE [i \in 1 .. Count(r2) + 1 |-> (i - 1) * Npe]
    BY <1>12, <1>13, Zenon DEF OffsetOf
  <2>3. CASE sect.poly
    BY <1>12, <2>1, <2>2, <2>3, Zenon DEF MarksAfter
  <2>4. CASE ~ sect.poly
    BY <2>2, <2>4, Zenon DEF MarksAfter
  <2> QED BY <2>3, <2>4
<1>15. PICK want2 : want2 = want'
  OBVIOUS
<1>16. DOMAIN want2 = Of(r2) /\
       \A x \in Of(r2) :
           want2[x] \in IF x \in w[1] .. w[2] THEN {Raw, mid[x - w[1] + 1]}
                        ELSE IF x \in DOMAIN want THEN {want[x]} ELSE {blank}
  <2>1. want2 = [x \in Of(r2) |->
                    IF x \in w[1] .. w[2]
                    THEN (IF CopiesRaw(w[1], mtype) THEN Raw ELSE data[x - w[1] + 1])
                    ELSE IF x \in DOMAIN want THEN want[x] ELSE blank]
    BY <1>7, <1>9, <1>12, <1>15, Zenon DEF Wanted
  <2>2. ~ CopiesRaw(w[1], mtype) => mid = data
    BY <1>5, Zenon DEF StoredElems
  <2>3. DOMAIN want2 = Of(r2)
    BY <2>1, Zenon
  <2>4. ASSUME NEW x \in Of(r2)
        PROVE  want2[x] \in IF x \in w[1] .. w[2] THEN {Raw, mid[x - w[1] + 1]}
                            ELSE IF x \in DOMAIN want THEN {want[x]} ELSE {blank}
    <3>1. want2[x] = IF x \in w[1] .. w[2]
                     THEN (IF CopiesRaw(w[1], mtype) THEN Raw ELSE data[x - w[1] + 1])
                     ELSE IF x \in DOMAIN want THEN want[x] ELSE blank
      BY <2>1, Zenon
    <3>2. CASE x \in w[1] .. w[2]
      BY <2>2, <3>1, <3>2, Zenon
    <3>3. CASE x \notin w[1] .. w[2] /\ x \in DOMAIN want
      BY <3>1, <3>3, Zenon
    <3>4. CASE x \notin w[1] .. w[2] /\ x \notin DOMAIN want
      BY <3>1, <3>4, Zenon
    <3> QED BY <3>2, <3>3, <3>4
  <2> QED BY <2>3, <2>4
<1>17. /\ blank \in Seq(Words)
       /\ ~ sect.poly => Len(blank) = Npe /\ \A i \in 1 .. Len(mid) : Len(mid[i]) = Npe
  <2>1. blank \in Seq(Words) /\ (~ sect.poly => Len(blank) = Npe)
    BY <1>2, <1>9, BlankIs
  <2> QED BY <1>4, <1>6, <2>1
<1>18. <<>> \in Seq(Words) /\ FlattenSeq(sp) \o <<>> = FlattenSeq(sp)
  <2>1. d \in Seq(Seq(Words)) /\ Len(d) = Count(file.range)
    BY <1>1 DEF HoldsIn
  <2>2. sp \in Seq(Seq(Words))
    BY <1>3, <1>4, <1>6, <1>8, <1>9, <1>10, <1>17, <2>1, SplicedIsSeq
  <2>3. FlattenSeq(sp) \in Seq(Words)
    BY <2>2, FlattenIsSeq
  <2> QED BY <2>3, ConcatEmptySeq, EmptySeq
<1>19. /\ HoldsIn(sect.poly, r2, FlattenSeq(sp) \o <<>>, off2, want2, sp)
       /\ sect.poly => EndsAt(off2, FlattenSeq(sp))
  <2>1. /\ file.range \in Ranges /\ w \in Ranges
        /\ r2 = <<Lesser(w[1], file.range[1]), Greater(w[2], file.range[2])>>
        /\ HoldsIn(sect.poly, file.range, file.connect, OffsetOf(file), want, d)
        /\ mid \in Seq(Seq(Words)) /\ Len(mid) = Count(w)
        /\ blank \in Seq(Words)
        /\ (~ sect.poly => Len(blank) = Npe /\ \A i \in 1 .. Len(mid) : Len(mid[i]) = Npe)
        /\ sp = Spliced(d, file.range, w[1], w[2], mid, blank, r2)
        /\ <<>> \in Seq(Words)
        /\ off2 = MarksAfter(sect.poly, OffsetOf(file), file.range, w, mid, blank, r2)
    BY <1>1, <1>3, <1>4, <1>6, <1>8, <1>9, <1>10, <1>14, <1>17, <1>18, Zenon
  <2>2. IsWrite(sect.poly, file.range, w, r2, file.connect, OffsetOf(file), want, d,
                mid, blank, sp, off2, want2)
    BY <1>16, <2>1, Zenon DEF IsWrite
  <2> QED BY <2>1, <2>2, WriteHolds, Zenon
<1>20. WordsInv'
  <2>1. HoldsIn(sect.poly, r2, FlattenSeq(sp), off2, want2, sp)
    BY <1>18, <1>19, Zenon
  <2>2. HoldsIn(sect.poly, file.range, file.connect, OffsetOf(file), want, sp)'
    BY <1>12, <1>13, <1>15, <2>1
  <2> QED BY <1>2, <1>12, <2>2 DEF WordsInv
<1>21. WholeReadIsServed'
  <2> SUFFICES ASSUME sect.poly, sect'.type = "I8"
               PROVE  mem'.offset # NoData /\ mem'.offset[Len(mem'.offset)] = Len(mem'.connect)
    BY <1>12 DEF WholeReadIsServed, WholeReadRefused
  <2>1. off2 = file'.offset /\ mem'.offset = file'.offset
    BY <1>12, <1>13, Zenon DEF OffsetOf
  <2>2. off2 \in Seq(Nat) /\ off2[Len(off2)] = Len(FlattenSeq(sp))
    BY <1>19, Zenon DEF EndsAt
  <2>3. off2 # NoData
    BY <2>2, SectionAssumption
  <2> QED BY <1>12, <2>1, <2>2, <2>3, Zenon
<1> QED BY <1>20, <1>21

\* In its place is the same as in memory, but for what is behind it.
LEMMA ReplacedIs ==
    ASSUME SectionInv, sect # NoData, sect.poly \in BOOLEAN, NEW w \in Ranges, NEW d,
           HoldsIn(sect.poly, file.range, file.connect, OffsetOf(file), want, d),
           NEW mid \in Seq(Seq(Words)), Len(mid) = Count(w), Within(w[1], w[2])
    PROVE  \E rest \in Seq(Words) :
               Replaced(w[1], w[2], FlattenSeq(mid)) =
                   FlattenSeq(Spliced(d, file.range, w[1], w[2], mid, Blank,
                                      NewRange(w[1], w[2]))) \o rest
<1>0. \A x1, x2, x3 \in Seq(Words) : (x1 \o x2) \o x3 = x1 \o (x2 \o x3)
  BY Regrouped, SMTT(60)
<1>1. /\ Connect = file.connect /\ Offset = OffsetOf(file) /\ mem.range = file.range
      /\ file.range \in Ranges
  BY CachedIs, Zenon
<1>2. PICK lo \in Int, hi \in Int, s \in Int, e \in Int :
         /\ lo = file.range[1] /\ hi = file.range[2] /\ s = w[1] /\ e = w[2]
         /\ Count(file.range) = hi - lo + 1 /\ Count(w) = e - s + 1
         /\ lo <= s /\ s <= e /\ e <= hi
  <2>1. /\ file.range[1] \in Int /\ file.range[2] \in Int
        /\ w[1] \in Int /\ w[2] \in Int /\ w[1] <= w[2]
    BY <1>1, SectionAssumption DEF Ranges
  <2>2. file.range[1] <= w[1] /\ w[2] <= file.range[2]
    BY <1>1, Zenon DEF Within
  <2> QED BY <2>1, <2>2, Zenon DEF Count
<1>3. /\ lo \in Int /\ hi \in Int /\ s \in Int /\ e \in Int
      /\ lo <= s /\ s <= e /\ e <= hi
  BY <1>2
<1>4. /\ d \in Seq(Seq(Words)) /\ Len(d) = hi - lo + 1 /\ Marks(OffsetOf(file), d)
  BY <1>2, Zenon DEF HoldsIn
<1>5. PICK rest0 \in Seq(Words) : file.connect = FlattenSeq(d) \o rest0
  BY Zenon DEF HoldsIn
<1>6. PICK o : o = OffsetOf(file)
  OBVIOUS
<1>7. PICK k \in Int : k = s - lo + 1
  BY <1>3
<1>8. k \in 1 .. Len(d)
  <2>1. k \in 1 .. hi - lo + 1
    BY <1>3, <1>7
  <2> QED BY <1>4, <2>1, Zenon
<1>9. o[1] = 0 /\ o[k] \in Nat
  BY <1>4, <1>6, <1>8, MarkSteps, Zenon
<1>10. PICK new \in Seq(Words) : new = FlattenSeq(mid)
  BY FlattenIsSeq
<1>11. PICK a \in Seq(Words), c \in Seq(Words) :
          /\ a = Before(s) /\ c = After(e)
  <2>1. /\ Before(s) = FlattenSeq(SubSeq(d, 1, FrontCount(file.range, s)))
        /\ After(e) = FlattenSeq(SubSeq(d, BackCount(file.range, e) + 1, Len(d)))
    BY <1>2, BeforeAndAfter, Zenon
  <2>2. /\ FrontCount(file.range, s) \in 0 .. Len(d) /\ BackCount(file.range, e) \in 0 .. Len(d)
    <3>1. /\ FrontCount(file.range, s) \in 0 .. Count(file.range)
          /\ BackCount(file.range, e) \in 0 .. Count(file.range)
      BY <1>1, <1>2, FrontAndBack, Zenon
    <3> QED BY <1>2, <1>4, <3>1, Zenon
  <2>3. SubSeq(d, 1, FrontCount(file.range, s)) \in Seq(Seq(Words))
    BY <1>4, <2>2, FrontOfList, Zenon
  <2>4. SubSeq(d, BackCount(file.range, e) + 1, Len(d)) \in Seq(Seq(Words))
    <3>1. d \in Seq(Seq(Words)) /\ BackCount(file.range, e) \in 0 .. Len(d)
          /\ Len(d) \in 0 .. Len(d)
      <4>1. d \in Seq(Seq(Words))
        BY <1>4
      <4>2. Len(d) \in 0 .. Len(d)
        BY <4>1
      <4> QED BY <4>1, <4>2, <2>2
    <3> QED BY <3>1, PartOfList
  <2>5. /\ FlattenSeq(SubSeq(d, 1, FrontCount(file.range, s))) \in Seq(Words)
        /\ FlattenSeq(SubSeq(d, BackCount(file.range, e) + 1, Len(d))) \in Seq(Words)
    BY <2>3, <2>4, FlattenIsSeq, Zenon
  <2> QED BY <2>1, <2>5, Zenon
<1>12. SubSeq(file.connect, 1, o[k]) = a
  <2>1. Before(s) = WordsOf(file.connect, o, file.range, lo,
                            IF s <= lo THEN lo - 1 ELSE Lesser(s - 1, hi))
    BY <1>1, <1>2, <1>6, Zenon DEF Before
  <2>2. (IF s <= lo THEN lo - 1 ELSE Lesser(s - 1, hi)) - lo + 2 = k /\ lo - lo + 1 = 1
    BY <1>3, <1>7 DEF Lesser
  <2>3. Before(s) = SubSeq(file.connect, o[1] + 1, o[k])
    BY <1>2, <2>1, <2>2, Zenon DEF WordsOf
  <2>4. o[1] + 1 = 1
    BY <1>9
  <2> QED BY <1>11, <2>3, <2>4, Zenon
<1>13. PICK moved \in Seq(Words) : moved = new \o c
  BY JoinPicked, Zenon
<1>14. PICK rest \in Seq(Words) :
          rest = SubSeq(file.connect, o[k] + Len(moved) + 1, Len(file.connect))
  <2>1. FlattenSeq(d) \in Seq(Words)
    BY <1>4, FlattenIsSeq
  <2>2. file.connect \in Seq(Words)
    <3>1. rest0 \in Seq(Words)
      BY <1>5
    <3>2. FlattenSeq(d) \o rest0 \in Seq(Words)
      BY <2>1, <3>1, JoinIs
    <3> QED BY <1>5, <3>2, Zenon
  <2>3. o[k] + Len(moved) + 1 \in Int /\ 1 <= o[k] + Len(moved) + 1
    BY SMTT(60), <1>9, LenProperties
  <2>4. PICK n \in Int : n = o[k] + Len(moved) + 1 /\ 1 <= n
    BY <2>3
  <2>5. PICK f \in Seq(Words) : f = file.connect
    BY <2>2
  <2>6. \A i \in n .. Len(f) : f[i] \in Words
    BY SMTT(60), <2>4
  <2>7. SubSeq(f, n, Len(f)) \in Seq(Words)
    BY <2>6, SubSeqProperties, LenProperties
  <2> QED BY <2>4, <2>5, <2>7, Zenon
<1>15. Replaced(w[1], w[2], FlattenSeq(mid)) = (a \o moved) \o rest
  <2>1. Offset[w[1] - mem.range[1] + 1] = o[k]
    BY <1>1, <1>2, <1>6, <1>7, Zenon
  <2>2. After(w[2]) = c
    BY <1>2, <1>11, Zenon
  <2> QED BY <1>10, <1>12, <1>13, <1>14, <2>1, <2>2, Zenon DEF Replaced
<1>16. Merged(w[1], w[2], FlattenSeq(mid)) = Five(a, Gap(0), new, Gap(0), c)
  <2>1. Greater(0, s - hi - 1) = 0 /\ Greater(0, lo - e - 1) = 0
    BY <1>3 DEF Greater
  <2> QED BY <1>1, <1>2, <1>10, <1>11, <2>1, Zenon DEF Merged, Five
<1>17. Gap(0) = <<>>
  <2>1. PICK b : b = Blank
    OBVIOUS
  <2>2. [i \in 1 .. 0 |-> b] = <<>>
    OBVIOUS
  <2> QED BY <2>1, <2>2, FlattenEmpty, Zenon DEF Gap
<1>18. Five(a, <<>>, new, <<>>, c) = a \o moved
  <2>1. PICK x \in Seq(Words) : x = a \o new
    BY JoinPicked, Zenon
  <2>2. a \o <<>> = a /\ x \o <<>> = x
    BY ConcatEmptySeq
  <2>3. (a \o new) \o c = a \o (new \o c)
    <3>1. a \in Seq(Words) /\ new \in Seq(Words) /\ c \in Seq(Words)
      BY <1>10, <1>11
    <3> QED BY <1>0, <3>1, ZenonT(90)
  <2> QED BY <1>13, <2>1, <2>2, <2>3, Zenon DEF Five
<1>19. Merged(w[1], w[2], FlattenSeq(mid)) =
               FlattenSeq(Spliced(d, file.range, w[1], w[2], mid, Blank,
                                  NewRange(w[1], w[2])))
  BY MergedIs
<1> QED BY <1>14, <1>15, <1>16, <1>17, <1>18, <1>19, Zenon

\* A write in place leaves the elements where the new offsets mark them.
LEMMA WriteInPlaceWords ==
    ASSUME SectionInv, sect # NoData, WordsInv, NEW w \in Ranges,
           NEW data \in Given(sect.poly, Count(w)), WriteInPlace(w[1], w[2], data)
    PROVE  WordsInv'
<1>1. PICK d : HoldsIn(sect.poly, file.range, file.connect, OffsetOf(file), want, d)
  BY DEF WordsInv
<1>2. sect.poly \in BOOLEAN /\ Count(w) \in Nat
  BY CountIsPositive DEF WordsInv
<1>3. file.range \in Ranges /\ mem.range = file.range
  BY CachedIs, Zenon
<1>4. /\ data \in Seq(Seq(Value)) /\ Len(data) = Count(w)
      /\ ~ sect.poly => \A i \in 1 .. Count(w) : Len(data[i]) = Npe
  BY <1>2, GivenIs
<1>5. data \in Seq(Seq(Words))
  <2>1. Value \subseteq Words
    BY DEF Words
  <2>2. \A S, T : S \subseteq T => Seq(S) \subseteq Seq(T)
    BY SeqMonotonic, Zenon
  <2> QED BY <1>4, <2>1, <2>2, Zenon
<1>6. PICK r2 : r2 = NewRange(w[1], w[2])
  OBVIOUS
<1>7. r2 = <<Lesser(w[1], file.range[1]), Greater(w[2], file.range[2])>>
  BY <1>3, <1>6, Zenon DEF NewRange
<1>8. Within(w[1], w[2])
  BY DEF WriteInPlace, InPlace
<1>9. r2 = file.range
  <2>1. PICK lo \in Int, hi \in Int, s \in Int, e \in Int :
           file.range = <<lo, hi>> /\ w = <<s, e>>
    BY <1>3, SectionAssumption DEF Ranges
  <2>2. lo <= s /\ e <= hi
    BY <1>3, <1>8, <2>1 DEF Within
  <2>3. Lesser(s, lo) = lo /\ Greater(e, hi) = hi
    BY <2>2 DEF Lesser, Greater
  <2> QED BY <1>7, <2>1, <2>3
<1>10. PICK sp : sp = Spliced(d, file.range, w[1], w[2], data, Blank, r2)
  OBVIOUS
<1>11. PICK blank : blank = Blank
  OBVIOUS
<1>12. PICK rest \in Seq(Words) :
          Replaced(w[1], w[2], FlattenSeq(data)) = FlattenSeq(sp) \o rest
  <2>1. data \in Seq(Seq(Words)) /\ Len(data) = Count(w)
    BY <1>4, <1>5
  <2>2. \E rest \in Seq(Words) :
               Replaced(w[1], w[2], FlattenSeq(data)) =
                   FlattenSeq(Spliced(d, file.range, w[1], w[2], data, Blank,
                                      NewRange(w[1], w[2]))) \o rest
    BY <1>1, <1>2, <1>8, <2>1, ReplacedIs
  <2> QED BY <1>6, <1>10, <2>2, Zenon
<1>13. /\ sect' = sect /\ file'.range = r2 /\ file'.connect = FlattenSeq(sp) \o rest
       /\ file'.offset = IF sect.poly THEN Offsets(NewLengths(w[1], w[2], data, r2)) ELSE <<>>
       /\ want' = Wanted(w[1], w[2], data, FALSE)
  <2>1. /\ sect' = sect /\ want' = Wanted(w[1], w[2], data, FALSE)
        /\ file' = [file EXCEPT
              !.connect = Replaced(w[1], w[2], FlattenSeq(data)),
              !.offset = IF sect.poly
                         THEN Offsets(NewLengths(w[1], w[2], data, mem.range)) ELSE <<>>]
    BY DEF WriteInPlace
  <2>2. Shaped(file)
    BY DEF SectionInv
  <2>3. PICK c, o : /\ c = Replaced(w[1], w[2], FlattenSeq(data))
                    /\ o = IF sect.poly
                           THEN Offsets(NewLengths(w[1], w[2], data, r2)) ELSE <<>>
    OBVIOUS
  <2>4. file' = [file EXCEPT !.connect = c, !.offset = o]
    BY <1>3, <1>9, <2>1, <2>3, Zenon
  <2>5. file'.range = file.range /\ file'.connect = c /\ file'.offset = o
    BY <2>2, <2>4 DEF Shaped
  <2> QED BY <1>9, <1>12, <2>1, <2>3, <2>5, Zenon
<1>14. PICK off2 : off2 = OffsetOf(file)'
  OBVIOUS
<1>15. off2 = MarksAfter(sect.poly, OffsetOf(file), file.range, w, data, blank, r2)
  <2>1. NewLengths(w[1], w[2], data, r2) =
            SplicedLens(OffsetOf(file), file.range, w[1], w[2], data, blank, r2)
    BY <1>4, <1>11, NewLengthsAre
  <2>2. off2 = IF sect.poly THEN file'.offset
               ELSE [i \in 1 .. Count(r2) + 1 |-> (i - 1) * Npe]
    BY <1>13, <1>14, Zenon DEF OffsetOf
  <2>3. CASE sect.poly
    BY <1>13, <2>1, <2>2, <2>3, Zenon DEF MarksAfter
  <2>4. CASE ~ sect.poly
    BY <2>2, <2>4, Zenon DEF MarksAfter
  <2> QED BY <2>3, <2>4
<1>16. PICK want2 : want2 = want'
  OBVIOUS
<1>17. want2 = [x \in Of(r2) |->
                  IF x \in w[1] .. w[2] THEN data[x - w[1] + 1]
                  ELSE IF x \in DOMAIN want THEN want[x] ELSE blank]
  BY <1>6, <1>11, <1>13, <1>16, Zenon DEF Wanted
<1>18. DOMAIN want2 = Of(r2) /\
       \A x \in Of(r2) :
           want2[x] \in IF x \in w[1] .. w[2] THEN {Raw, data[x - w[1] + 1]}
                        ELSE IF x \in DOMAIN want THEN {want[x]} ELSE {blank}
  BY <1>17, Zenon
<1>19. /\ blank \in Seq(Words)
       /\ ~ sect.poly => Len(blank) = Npe /\ \A i \in 1 .. Len(data) : Len(data[i]) = Npe
  <2>1. blank \in Seq(Words) /\ (~ sect.poly => Len(blank) = Npe)
    BY <1>2, <1>11, BlankIs
  <2> QED BY <1>4, <2>1
<1>20. IsWrite(sect.poly, file.range, w, r2, file.connect, OffsetOf(file), want, d,
               data, blank, sp, off2, want2)
  BY <1>1, <1>3, <1>4, <1>5, <1>7, <1>10, <1>11, <1>15, <1>18, <1>19, Zenon DEF IsWrite
<1>21. HoldsIn(sect.poly, r2, FlattenSeq(sp) \o rest, off2, want2, sp)
  <2>1. rest \in Seq(Words)
    BY <1>12
  <2> QED BY <1>20, <2>1, WriteHolds, Zenon
<1>22. HoldsIn(sect.poly, file.range, file.connect, OffsetOf(file), want, sp)'
  BY <1>13, <1>14, <1>16, <1>21
<1> QED BY <1>2, <1>13, <1>22 DEF WordsInv

----------------------------------------------------------------------------
(* A section is made                                                       *)

\* Zeros and more zeros.
LEMMA ZerosJoin ==
    ASSUME NEW m \in Nat, NEW n \in Nat
    PROVE  Zeros(m + n) = Zeros(m) \o Zeros(n)
<1>1. PICK a \in Seq({0}), b \in Seq({0}), c \in Seq({0}) :
         /\ a = Zeros(m) /\ b = Zeros(n) /\ c = Zeros(m + n)
         /\ Len(a) = m /\ Len(b) = n /\ Len(c) = m + n
  <2>1. m + n \in Nat
    OBVIOUS
  <2> QED BY <2>1, ZerosAre
<1>2. PICK x \in Seq({0}) : x = a \o b /\ JoinOf(x, a, b)
  BY JoinPicked
<1>3. Len(x) = Len(c)
  BY <1>1, <1>2 DEF JoinOf
<1>4. \A i \in 1 .. Len(x) : x[i] \in {0} /\ c[i] \in {0}
  <2>1. x \in Seq({0}) /\ c \in Seq({0})
    BY <1>1, <1>2
  <2> QED BY <1>3, <2>1
<1>5. x = c
  <2>1. x \in Seq({0}) /\ c \in Seq({0})
    BY <1>1, <1>2
  <2>2. \A i \in 1 .. Len(x) : x[i] = c[i]
    BY <1>4
  <2> QED BY <1>3, <2>1, <2>2, SeqEqual, Zenon
<1> QED BY <1>1, <1>2, <1>5

\* d are n elements of l zeros, and give as many zeros.
ZerosIn(n, l, d) ==
    /\ d \in Seq(Seq({0})) /\ Len(d) = n
    /\ \A i \in 1 .. n : d[i] = Zeros(l) /\ Len(d[i]) = l
    /\ FlattenSeq(d) = Zeros(n * l)

\* Elements of zeros give as many zeros.
LEMMA ZeroElems ==
    ASSUME NEW n \in Nat, NEW l \in Nat
    PROVE  ZerosIn(n, l, Blanks(n, Zeros(l)))
<1>0. PICK d : d = Blanks(n, Zeros(l))
  OBVIOUS
<1>1. Zeros(l) \in Seq({0}) /\ Len(Zeros(l)) = l
  BY ZerosAre
<1>2. d \in Seq(Seq({0})) /\ Len(d) = n /\ \A i \in 1 .. n : d[i] = Zeros(l)
  BY <1>0, <1>1, BlanksAre
<1>3. \A i \in 1 .. n : Len(d[i]) = l
  BY <1>1, <1>2, Zenon
<1>4. Len(FlattenSeq(d)) = n * l
  <2>1. d \in Seq(Seq({0})) /\ \A i \in 1 .. Len(d) : Len(d[i]) = l
    BY <1>2, <1>3
  <2>2. Len(FlattenSeq(d)) = Len(d) * l
    BY <2>1, FlattenSameSize
  <2> QED BY <1>2, <2>2
<1>5. n * l \in Nat
  OBVIOUS
<1>6. PICK x \in Seq({0}), z \in Seq({0}) :
         x = FlattenSeq(d) /\ z = Zeros(n * l) /\ Len(x) = Len(z)
  <2>1. FlattenSeq(d) \in Seq({0})
    BY <1>2, FlattenIsSeq
  <2>2. Zeros(n * l) \in Seq({0}) /\ Len(Zeros(n * l)) = n * l
    BY <1>5, ZerosAre
  <2> QED BY <1>4, <2>1, <2>2
<1>7. x = z
  <2>1. x \in Seq({0}) /\ z \in Seq({0}) /\ Len(x) = Len(z)
    BY <1>6
  <2>2. \A i \in 1 .. Len(x) : x[i] = z[i]
    BY <2>1
  <2> QED BY <2>1, <2>2, SeqEqual, Zenon
<1>8. ZerosIn(n, l, d)
  BY <1>2, <1>3, <1>6, <1>7, Zenon DEF ZerosIn
<1> QED BY <1>0, <1>8, Zenon

\* Where the number of an element in the range is.
LEMMA PlaceOf ==
    ASSUME NEW r \in Ranges, NEW x \in Of(r)
    PROVE  x - r[1] + 1 \in 1 .. Count(r)
<1>1. PICK lo \in Int, hi \in Int : lo = r[1] /\ hi = r[2] /\ Count(r) = hi - lo + 1
  BY SectionAssumption DEF Ranges, Count
<1>2. lo \in Int /\ hi \in Int /\ x \in lo .. hi
  BY <1>1 DEF Of
<1>3. x - lo + 1 \in 1 .. hi - lo + 1
  BY <1>2
<1> QED BY <1>1, <1>3, Zenon

\* A section of zeros holds elements of zeros, with room behind them.
LEMMA ZeroHolds ==
    ASSUME NEW poly, NEW r \in Ranges, NEW l \in Nat, NEW m \in Nat, ~ poly => l = Npe,
           NEW off, Marks(off, Blanks(Count(r), Zeros(l)))
    PROVE  HoldsIn(poly, r, Zeros(Count(r) * l + m), off, [x \in Of(r) |-> Zeros(l)],
                   Blanks(Count(r), Zeros(l)))
<1>1. Count(r) \in Nat
  BY CountIsPositive
<1>2. PICK d : d = Blanks(Count(r), Zeros(l))
  OBVIOUS
<1>3. /\ d \in Seq(Seq({0})) /\ Len(d) = Count(r)
      /\ \A i \in 1 .. Count(r) : d[i] = Zeros(l) /\ Len(d[i]) = l
      /\ FlattenSeq(d) = Zeros(Count(r) * l)
  <2>1. ZerosIn(Count(r), l, Blanks(Count(r), Zeros(l)))
    BY <1>1, ZeroElems, Zenon
  <2> QED BY <1>2, <2>1, Zenon DEF ZerosIn
<1>4. Seq({0}) \subseteq Seq(Words) /\ Seq(Seq({0})) \subseteq Seq(Seq(Words))
  <2>1. {0} \subseteq Words
    BY DEF Words
  <2>2. \A S, T : S \subseteq T => Seq(S) \subseteq Seq(T)
    BY SeqMonotonic, Zenon
  <2> QED BY <2>1, <2>2, Zenon
<1>5. \E rest \in Seq(Words) : Zeros(Count(r) * l + m) = FlattenSeq(d) \o rest
  <2>1. Count(r) * l \in Nat
    BY <1>1
  <2>2. Zeros(Count(r) * l + m) = Zeros(Count(r) * l) \o Zeros(m)
    BY <2>1, ZerosJoin
  <2>3. Zeros(m) \in Seq(Words)
    BY <1>4, ZerosAre
  <2> QED BY <1>3, <2>2, <2>3, Zenon
<1>6. PICK w : w = [x \in Of(r) |-> Zeros(l)]
  OBVIOUS
<1>7. DOMAIN w = Of(r) /\ \A x \in Of(r) : w[x] \in {Raw, d[x - r[1] + 1]}
  <2>1. DOMAIN w = Of(r) /\ \A x \in Of(r) : w[x] = Zeros(l)
    BY <1>6, Zenon
  <2>2. \A x \in Of(r) : d[x - r[1] + 1] = Zeros(l)
    BY <1>3, PlaceOf, Zenon
  <2> QED BY <2>1, <2>2, Zenon
<1>8. Marks(off, d) /\ (~ poly => \A i \in 1 .. Len(d) : Len(d[i]) = Npe)
  BY <1>2, <1>3, Zenon
<1>9. HoldsIn(poly, r, Zeros(Count(r) * l + m), off, w, d)
  BY <1>3, <1>4, <1>5, <1>7, <1>8, Zenon DEF HoldsIn
<1> QED BY <1>2, <1>6, <1>9, Zenon

\* A section that is made holds what it is made with.
LEMMA CreateWords ==
    ASSUME Create
    PROVE  WordsInv' /\ WholeReadIsServed'
<1> SUFFICES ASSUME NEW poly \in BOOLEAN, sect'.poly = poly, mem'.connect = NoData,
                    NEW off, off = OffsetOf(file)', NEW d,
                    HoldsIn(poly, file'.range, file'.connect, off, want', d)
             PROVE  WordsInv' /\ WholeReadIsServed'
  <2>1. PICK r \in Ranges :
           \/ \E type \in {"I4", "I8"}, spare \in 0 .. Spare :
                 \/ \E poly \in BOOLEAN : CreateEmpty(poly, type, r, spare)
                 \/ CreatePartial(type, r, spare)
           \/ \E poly \in BOOLEAN :
                 \E data \in Given(poly, Count(r)) : CreateWith(poly, r, data)
    BY DEF Create
  <2>2. Count(r) \in Nat /\ Npe \in Nat /\ 0 .. Spare \subseteq Nat
    BY CountIsPositive, SectionAssumption
  <2>3. PICK off : off = OffsetOf(file)'
    OBVIOUS
  <2>4. ASSUME NEW type, NEW spare \in 0 .. Spare, NEW poly \in BOOLEAN,
               CreateEmpty(poly, type, r, spare)
        PROVE  WordsInv' /\ WholeReadIsServed'
    <3>1. /\ sect'.poly = poly /\ mem'.connect = NoData /\ file'.range = r
          /\ file'.connect = Zeros(IF poly THEN 2 * Count(r) + spare ELSE Npe * Count(r))
          /\ file'.offset = IF poly THEN Zeros(Count(r) + 1) ELSE <<>>
          /\ want' = [x \in Of(r) |-> IF poly THEN <<>> ELSE Zeros(Npe)]
      BY <2>4 DEF CreateEmpty, Created, Cleared
    <3>2. PICK l \in Nat, m \in Nat : /\ l = IF poly THEN 0 ELSE Npe
                                      /\ m = IF poly THEN 2 * Count(r) + spare ELSE 0
      BY <2>2
    <3>3. off = [i \in 1 .. Count(r) + 1 |-> (i - 1) * l]
      <4>1. CASE poly
        <5>1. off = Zeros(Count(r) + 1)
          BY <2>3, <3>1, <4>1, Zenon DEF OffsetOf
        <5>2. \A i \in 1 .. Count(r) + 1 : (i - 1) * l = 0
          BY <2>2, <3>2, <4>1
        <5> QED BY <5>1, <5>2, Zenon DEF Zeros
      <4>2. CASE ~ poly
        BY <2>3, <3>1, <3>2, <4>2, Zenon DEF OffsetOf
      <4> QED BY <4>1, <4>2
    <3>4. file'.connect = Zeros(Count(r) * l + m)
      <4>1. CASE poly
        <5>1. Count(r) * l + m = 2 * Count(r) + spare
          BY <2>2, <3>2, <4>1
        <5> QED BY <3>1, <4>1, <5>1, Zenon
      <4>2. CASE ~ poly
        <5>1. Count(r) * l + m = Npe * Count(r)
          BY <2>2, <3>2, <4>2
        <5> QED BY <3>1, <4>2, <5>1, Zenon
      <4> QED BY <4>1, <4>2
    <3>5. want' = [x \in Of(r) |-> Zeros(l)]
      <4>1. CASE poly
        <5>1. Zeros(0) = <<>>
          BY DEF Zeros
        <5> QED BY <3>1, <3>2, <4>1, <5>1, Zenon
      <4>2. CASE ~ poly
        BY <3>1, <3>2, <4>2, Zenon
      <4> QED BY <4>1, <4>2
    <3>6. Marks(off, Blanks(Count(r), Zeros(l)))
      <4>1. PICK d : d = Blanks(Count(r), Zeros(l))
        OBVIOUS
      <4>2. /\ d \in Seq(Seq({0})) /\ Len(d) = Count(r)
            /\ \A i \in 1 .. Len(d) : Len(d[i]) = l
        <5>1. l \in Nat
          BY <3>2
        <5>2. Count(r) \in Nat
          BY <2>2
        <5>3. ZerosIn(Count(r), l, Blanks(Count(r), Zeros(l)))
          BY <5>1, <5>2, ZeroElems, Zenon
        <5> QED BY <4>1, <5>3, Zenon DEF ZerosIn
      <4>3. off = [i \in 1 .. Len(d) + 1 |-> (i - 1) * l]
        BY <3>3, <4>2, Zenon
      <4>4. l \in Nat
        BY <3>2
      <4>5. Marks(off, d)
        BY <4>2, <4>3, <4>4, MultiplesMark
      <4> QED BY <4>1, <4>5
    <3>7. HoldsIn(poly, r, Zeros(Count(r) * l + m), off, [x \in Of(r) |-> Zeros(l)],
                  Blanks(Count(r), Zeros(l)))
      <4>1. l \in Nat /\ m \in Nat /\ (~ poly => l = Npe)
        BY <3>2
      <4> QED BY <3>6, <4>1, ZeroHolds
    <3> QED BY <2>3, <3>1, <3>4, <3>5, <3>7, ZenonT(90)
  <2>5. ASSUME NEW type, NEW spare \in 0 .. Spare, CreatePartial(type, r, spare)
        PROVE  WordsInv' /\ WholeReadIsServed'
    <3>1. PICK lens : lens = [i \in 1 .. Count(r) |-> 2]
      OBVIOUS
    <3>2. /\ sect'.poly = TRUE /\ mem'.connect = NoData /\ file'.range = r
          /\ file'.connect = Zeros(2 * Count(r) + spare)
          /\ file'.offset = Offsets(lens)
          /\ want' = [x \in Of(r) |-> Zeros(2)]
      BY <2>5, <3>1 DEF CreatePartial, Created, Cleared
    <3>3. off = Offsets(lens)
      BY <2>3, <3>2, Zenon DEF OffsetOf
    <3>4. PICK d : d = Blanks(Count(r), Zeros(2))
      OBVIOUS
    <3>5. /\ d \in Seq(Seq({0})) /\ Len(d) = Count(r)
          /\ \A i \in 1 .. Count(r) : Len(d[i]) = 2
      <4>1. 2 \in Nat
        OBVIOUS
      <4>2. Count(r) \in Nat
        BY <2>2
      <4>3. ZerosIn(Count(r), 2, Blanks(Count(r), Zeros(2)))
        BY <4>1, <4>2, ZeroElems, Zenon
      <4> QED BY <3>4, <4>3, Zenon DEF ZerosIn
    <3>6. lens \in Seq(Nat) /\ Len(lens) = Count(r) /\ \A i \in 1 .. Count(r) : lens[i] = 2
      BY <2>2, <3>1
    <3>7. AreLengths(lens, d)
      BY <3>5, <3>6, Zenon DEF AreLengths
    <3>8. Marks(Offsets(lens), d)
      BY <3>5, <3>7, LengthsMark
    <3>9. Marks(off, Blanks(Count(r), Zeros(2)))
      BY <3>3, <3>4, <3>8, Zenon
    <3>10. spare \in Nat /\ 2 \in Nat /\ Count(r) * 2 + spare = 2 * Count(r) + spare
      BY <2>2
    <3>11. HoldsIn(TRUE, r, Zeros(Count(r) * 2 + spare), off, [x \in Of(r) |-> Zeros(2)],
                   Blanks(Count(r), Zeros(2)))
      BY <3>9, <3>10, ZeroHolds
    <3> QED BY <2>3, <3>2, <3>10, <3>11, Zenon
  <2>6. ASSUME NEW poly \in BOOLEAN, NEW data \in Given(poly, Count(r)),
               CreateWith(poly, r, data)
        PROVE  WordsInv' /\ WholeReadIsServed'
    <3>1. /\ sect'.poly = poly /\ mem'.connect = NoData /\ file'.range = r
          /\ file'.connect = FlattenSeq(data)
          /\ file'.offset = IF poly THEN Offsets(LengthsOf(data)) ELSE <<>>
          /\ want' = [x \in Of(r) |-> data[x - r[1] + 1]]
      BY <2>6 DEF CreateWith, Created, Cleared
    <3>2. /\ data \in Seq(Seq(Value)) /\ Len(data) = Count(r)
          /\ ~ poly => \A i \in 1 .. Count(r) : Len(data[i]) = Npe
      BY <2>2, GivenIs
    <3>3. data \in Seq(Seq(Words))
      <4>1. Value \subseteq Words
        BY DEF Words
      <4>2. \A S, T : S \subseteq T => Seq(S) \subseteq Seq(T)
        BY SeqMonotonic, Zenon
      <4> QED BY <3>2, <4>1, <4>2, Zenon
    <3>4. Marks(off, data)
      <4>1. CASE poly
        <5>1. off = Offsets(LengthsOf(data))
          BY <2>3, <3>1, <4>1, Zenon DEF OffsetOf
        <5>2. AreLengths(LengthsOf(data), data)
          BY <3>3, LengthsOfAre
        <5>3. Marks(Offsets(LengthsOf(data)), data)
          BY <3>3, <5>2, LengthsMark
        <5> QED BY <5>1, <5>3
      <4>2. CASE ~ poly
        <5>1. off = [i \in 1 .. Len(data) + 1 |-> (i - 1) * Npe]
          BY <2>3, <3>1, <3>2, <4>2, Zenon DEF OffsetOf
        <5>2. \A i \in 1 .. Len(data) : Len(data[i]) = Npe
          BY <3>2, <4>2
        <5> QED BY <2>2, <3>3, <5>1, <5>2, MultiplesMark
      <4> QED BY <4>1, <4>2
    <3>5. \E rest \in Seq(Words) : FlattenSeq(data) = FlattenSeq(data) \o rest
      <4>1. FlattenSeq(data) \in Seq(Words)
        BY <3>3, FlattenIsSeq
      <4>2. FlattenSeq(data) \o <<>> = FlattenSeq(data) /\ <<>> \in Seq(Words)
        BY <4>1, ConcatEmptySeq, EmptySeq
      <4> QED BY <4>2, Zenon
    <3>6. PICK w : w = [x \in Of(r) |-> data[x - r[1] + 1]]
      OBVIOUS
    <3>7. DOMAIN w = Of(r) /\ \A x \in Of(r) : w[x] \in {Raw, data[x - r[1] + 1]}
      BY <3>6, Zenon
    <3>8. HoldsIn(poly, r, FlattenSeq(data), off, w, data)
      BY <3>2, <3>3, <3>4, <3>5, <3>7, Zenon DEF HoldsIn
    <3> QED BY <2>3, <3>1, <3>6, <3>8, Zenon
  <2> QED BY <2>1, <2>4, <2>5, <2>6
<1>1. HoldsIn(sect.poly, file.range, file.connect, OffsetOf(file), want, d)'
  OBVIOUS
<1> QED BY <1>1 DEF WordsInv, WholeReadIsServed, WholeReadRefused

\* Parents, reads and an open change no word of the file, and a read brings the
\* offsets that it needs.
LEMMA OthersKeepWords ==
    ASSUME SectionInv, sect # NoData, WordsInv, WholeReadIsServed,
           \/ \E p \in Parent : WriteParents(p)
           \/ \E r \in Ranges, p \in Parent : WriteSomeParents(r[1], r[2], p)
           \/ \E r \in Ranges, withParents \in BOOLEAN : Read(r[1], r[2], withParents)
           \/ Reopen
           \/ UNCHANGED vars
    PROVE  WordsInv' /\ WholeReadIsServed'
<1>1. Shaped(file) /\ Shaped(mem)
  BY DEF SectionInv
<1>2. /\ sect' = sect /\ want' = want /\ file'.range = file.range
      /\ file'.connect = file.connect /\ file'.offset = file.offset
  BY <1>1 DEF WriteParents, WriteSomeParents, Read, Reopen, vars, Shaped
<1>3. WordsInv'
  <2>1. OffsetOf(file)' = OffsetOf(file)
    BY <1>2, Zenon DEF OffsetOf, Count
  <2>2. PICK d : HoldsIn(sect.poly, file.range, file.connect, OffsetOf(file), want, d)
    BY DEF WordsInv
  <2>3. HoldsIn(sect'.poly, file'.range, file'.connect, OffsetOf(file)', want', d)
    BY <1>2, <2>1, <2>2, Zenon
  <2>4. sect'.poly \in BOOLEAN
    BY <1>2 DEF WordsInv
  <2> QED BY <2>3, <2>4 DEF WordsInv
<1>4. WholeReadIsServed'
  <2>1. CASE \E r \in Ranges, withParents \in BOOLEAN : Read(r[1], r[2], withParents)
    <3> SUFFICES ASSUME sect.type = "I8", sect.poly, mem'.connect # NoData
                 PROVE  ~ WholeReadRefused'
      BY <1>2 DEF WholeReadIsServed, WholeReadRefused
    <3>1. mem'.connect = mem.connect /\ mem'.offset = Offset
      BY <1>1, <2>1 DEF Read, Shaped
    <3>2. mem.offset # NoData /\ mem.offset[Len(mem.offset)] = Len(mem.connect)
      BY <3>1 DEF WholeReadIsServed, WholeReadRefused
    <3>3. Offset = mem.offset
      BY <3>2 DEF Offset, OffsetOf
    <3> QED BY <1>2, <3>1, <3>2, <3>3 DEF WholeReadRefused
  <2>2. CASE ~ \E r \in Ranges, withParents \in BOOLEAN : Read(r[1], r[2], withParents)
    <3>1. mem'.connect = NoData \/ (mem'.connect = mem.connect /\ mem'.offset = mem.offset)
      BY <1>1, <2>2 DEF WriteParents, WriteSomeParents, Reopen, vars, Shaped, Cleared
    <3> QED BY <1>2, <3>1 DEF WholeReadIsServed, WholeReadRefused
  <2> QED BY <2>1, <2>2
<1> QED BY <1>3, <1>4

\* What is written in place is in the file alone.
LEMMA InPlaceIsServed ==
    ASSUME SectionInv, sect # NoData, NEW s, NEW e, NEW data, WriteInPlace(s, e, data)
    PROVE  WholeReadIsServed'
<1>1. mem.connect = NoData /\ Shaped(mem)
  BY DEF WriteInPlace, InPlace, SectionInv
<1>2. mem'.connect = NoData
  BY <1>1 DEF WriteInPlace, Shaped
<1> QED BY <1>2 DEF WholeReadIsServed, WholeReadRefused

\* Every step keeps the words.
LEMMA StepKeepsWords ==
    ASSUME SectionInv, WordsInv, WholeReadIsServed, [Next]_vars
    PROVE  WordsInv' /\ WholeReadIsServed'
<1>1. CASE Create
  BY <1>1, CreateWords
<1>2. CASE UNCHANGED vars
  <2>1. CASE sect = NoData
    BY <1>2, <2>1 DEF WordsInv, WholeReadIsServed, vars
  <2>2. CASE sect # NoData
    BY <1>2, <2>2, OthersKeepWords
  <2> QED BY <2>1, <2>2
<1>3. CASE sect # NoData /\ Use
  <2>1. ASSUME NEW r \in Ranges, NEW data \in Given(sect.poly, Count(r)),
               WriteInPlace(r[1], r[2], data)
        PROVE  WordsInv' /\ WholeReadIsServed'
    BY <1>3, <2>1, WriteInPlaceWords, InPlaceIsServed
  <2>2. ASSUME NEW r \in Ranges, NEW data \in Given(sect.poly, Count(r)),
               NEW mtype \in {"I4", "I8"}, WriteInMemory(r[1], r[2], data, mtype)
        PROVE  WordsInv' /\ WholeReadIsServed'
    BY <1>3, <2>2, WriteInMemoryWords
  <2>3. CASE \/ \E p \in Parent : WriteParents(p)
             \/ \E r \in Ranges, p \in Parent : WriteSomeParents(r[1], r[2], p)
             \/ \E r \in Ranges, withParents \in BOOLEAN : Read(r[1], r[2], withParents)
             \/ Reopen
    BY <1>3, <2>3, OthersKeepWords
  <2> QED BY <1>3, <2>1, <2>2, <2>3 DEF Use
<1> QED BY <1>1, <1>2, <1>3 DEF Next

\* Every element reads as it was last written, and no sequence of calls makes a
\* section that can be read in parts unreadable as a whole, whatever the number of
\* elements, their sizes and the space reserved (ElementsAreAsWritten,
\* WholeReadIsServed).
THEOREM ElementsStayAsWritten ==
    Spec => [](ElementsAreAsWritten /\ WholeReadIsServed)
<1> DEFINE Inv == SectionInv /\ WordsInv /\ WholeReadIsServed
<1>1. Init => Inv
  BY DEF Init, SectionInv, WordsInv, WholeReadIsServed
<1>2. Inv /\ [Next]_vars => Inv'
  BY SectionInvKept, StepKeepsWords
<1>3. Inv => ElementsAreAsWritten /\ WholeReadIsServed
  <2> SUFFICES ASSUME Inv, sect # NoData PROVE ElementsAreAsWritten
    BY DEF ElementsAreAsWritten
  <2>1. PICK d : HoldsIn(sect.poly, file.range, file.connect, OffsetOf(file), want, d)
    BY DEF WordsInv
  <2>2. file.range \in Ranges
    BY DEF SectionInv
  <2>3. \A x \in Of(file.range) :
            WordsOf(file.connect, OffsetOf(file), file.range, x, x) = d[x - file.range[1] + 1]
    BY <2>1, <2>2, WordsAre
  <2>4. DOMAIN want = Of(file.range)
        /\ \A x \in Of(file.range) : want[x] \in {Raw, d[x - file.range[1] + 1]}
    BY <2>1, Zenon DEF HoldsIn
  <2> QED BY <2>3, <2>4, Zenon DEF ElementsAreAsWritten
<1> QED BY <1>1, <1>2, <1>3, PTL DEF Spec

\* A section of the library's own integer type is never refused to a caller who reads
\* it whole.
THEOREM WholeReadsAreServed == Spec => []WholeReadIsServed
BY ElementsStayAsWritten, PTL
=============================================================================
