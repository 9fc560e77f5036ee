--------------------------- MODULE AdfTreeProofs ----------------------------
(***************************************************************************)
(* Proofs about AdfTree, for any names, number of nodes and size of a      *)
(* first table: between the calls the headers and tables are a tree, and   *)
(* wherever a call is stopped no table lists a node that is gone and no    *)
(* node is lost but what the call itself deletes or makes.                 *)
(***************************************************************************)
EXTENDS AdfTree, FiniteSetTheorems, SequenceTheorems, WellFoundedInduction, TLAPS

----------------------------------------------------------------------------
(* Disks                                                                   *)

\* The headers and tables there may be, in the midst of a call, too.
Headers == UNION {[S -> Header] : S \in SUBSET Place}
Tables == UNION {[T -> Seq(Row)] : T \in SUBSET (Place \X Nat)}

\* A header that may stand for node n.
Fits(n, h) ==
    /\ h \in Header /\ h.num <= h.entries /\ h.entries # 1
    /\ n # Root => h.name \in Name

Disks == {d \in [header : Headers, table : Tables] :
             /\ Root \in DOMAIN d.header
             /\ \A n \in DOMAIN d.header : Fits(n, d.header[n])
             /\ \A t \in DOMAIN d.table : Len(d.table[t]) = t[2]}

LEMMA DiskIs ==
    ASSUME NEW d \in Disks
    PROVE  /\ d = [header |-> d.header, table |-> d.table]
           /\ DOMAIN d.header \subseteq Place /\ Root \in DOMAIN d.header
           /\ d.header \in Headers /\ d.table \in Tables
           /\ \A n \in DOMAIN d.header : Fits(n, d.header[n])
           /\ DOMAIN d.table \subseteq Place \X Nat
           /\ \A t \in DOMAIN d.table : d.table[t] \in Seq(Row) /\ Len(d.table[t]) = t[2]
<1>1. /\ d \in [header : Headers, table : Tables] /\ Root \in DOMAIN d.header
      /\ \A n \in DOMAIN d.header : Fits(n, d.header[n])
      /\ \A t \in DOMAIN d.table : Len(d.table[t]) = t[2]
  BY DEF Disks
<1>2. PICK S \in SUBSET Place : d.header \in [S -> Header]
  BY <1>1 DEF Headers
<1>3. PICK T \in SUBSET (Place \X Nat) : d.table \in [T -> Seq(Row)]
  BY <1>1 DEF Tables
<1> QED BY <1>1, <1>2, <1>3

LEMMA IsDisk ==
    ASSUME NEW h, NEW t, h \in Headers, t \in Tables, Root \in DOMAIN h,
           \A n \in DOMAIN h : Fits(n, h[n]),
           \A x \in DOMAIN t : Len(t[x]) = x[2]
    PROVE  [header |-> h, table |-> t] \in Disks
BY DEF Disks

\* A function that one more value is put into, or one is taken from.
LEMMA WithIs ==
    ASSUME NEW f, NEW x, NEW v
    PROVE  /\ DOMAIN With(f, x, v) = DOMAIN f \cup {x}
           /\ With(f, x, v)[x] = v
           /\ \A y \in DOMAIN f : y # x => With(f, x, v)[y] = f[y]
BY DEF With

LEMMA WithoutIs ==
    ASSUME NEW f, NEW x
    PROVE  /\ DOMAIN Without(f, x) = DOMAIN f \ {x}
           /\ \A y \in DOMAIN f : y # x => Without(f, x)[y] = f[y]
BY DEF Without, Restrict

LEMMA WithHeader ==
    ASSUME NEW f \in Headers, NEW n \in Place, NEW h \in Header
    PROVE  With(f, n, h) \in Headers
<1>1. PICK S \in SUBSET Place : f \in [S -> Header]
  BY DEF Headers
<1>2. With(f, n, h) \in [S \cup {n} -> Header]
  BY <1>1 DEF With
<1> QED BY <1>2 DEF Headers

LEMMA WithoutHeader ==
    ASSUME NEW f \in Headers, NEW n
    PROVE  Without(f, n) \in Headers
<1>1. PICK S \in SUBSET Place : f \in [S -> Header]
  BY DEF Headers
<1>2. Without(f, n) \in [S \ {n} -> Header]
  BY <1>1 DEF Without, Restrict
<1> QED BY <1>2 DEF Headers

LEMMA WithTable ==
    ASSUME NEW f \in Tables, NEW t \in Place \X Nat, NEW rows \in Seq(Row)
    PROVE  With(f, t, rows) \in Tables
<1>1. PICK T \in SUBSET (Place \X Nat) : f \in [T -> Seq(Row)]
  BY DEF Tables
<1>2. With(f, t, rows) \in [T \cup {t} -> Seq(Row)]
  BY <1>1 DEF With
<1>3. T \cup {t} \in SUBSET (Place \X Nat)
  OBVIOUS
<1> QED BY <1>2, <1>3, ZenonT(60) DEF Tables

LEMMA WithoutTable ==
    ASSUME NEW f \in Tables, NEW t
    PROVE  Without(f, t) \in Tables
<1>1. PICK T \in SUBSET (Place \X Nat) : f \in [T -> Seq(Row)]
  BY DEF Tables
<1>2. Without(f, t) \in [T \ {t} -> Seq(Row)]
  BY <1>1 DEF Without, Restrict
<1> QED BY <1>2 DEF Tables

----------------------------------------------------------------------------
(* One write                                                               *)

LEMMA HeaderWritten ==
    ASSUME NEW d \in Disks, NEW n \in Place, NEW h, Fits(n, h),
           NEW e, e = Written(d, WriteHeader(n, h))
    PROVE  e \in Disks /\ e.header = With(d.header, n, h) /\ e.table = d.table
<1>1. e = [header |-> With(d.header, n, h), table |-> d.table]
  BY DiskIs DEF Written, WriteHeader
<1>2. \A m \in DOMAIN With(d.header, n, h) : Fits(m, With(d.header, n, h)[m])
  BY DiskIs DEF With
<1>3. h \in Header
  BY DEF Fits
<1>4. d.header \in Headers /\ Root \in DOMAIN d.header
  BY DiskIs
<1>5. With(d.header, n, h) \in Headers /\ Root \in DOMAIN With(d.header, n, h)
  <2>1. With(d.header, n, h) \in Headers
    BY <1>3, <1>4, WithHeader
  <2>2. DOMAIN With(d.header, n, h) = DOMAIN d.header \cup {n}
    BY WithIs
  <2> QED BY <1>4, <2>1, <2>2
<1>6. [header |-> With(d.header, n, h), table |-> d.table] \in Disks
  BY <1>2, <1>5, DiskIs, IsDisk
<1> QED BY <1>1, <1>6

LEMMA HeaderFreed ==
    ASSUME NEW d \in Disks, NEW n, n # Root, NEW e, e = Written(d, FreeHeader(n))
    PROVE  e \in Disks /\ e.header = Without(d.header, n) /\ e.table = d.table
<1>1. e = [header |-> Without(d.header, n), table |-> d.table]
  BY DiskIs DEF Written, FreeHeader
<1>2. \A m \in DOMAIN Without(d.header, n) : Fits(m, Without(d.header, n)[m])
  BY DiskIs DEF Without, Restrict
<1>3. d.header \in Headers /\ Root \in DOMAIN d.header
  BY DiskIs
<1>5. Without(d.header, n) \in Headers /\ Root \in DOMAIN Without(d.header, n)
  <2>1. Without(d.header, n) \in Headers
    BY <1>3, WithoutHeader
  <2>2. DOMAIN Without(d.header, n) = DOMAIN d.header \ {n}
    BY WithoutIs
  <2> QED BY <1>3, <2>1, <2>2
<1>4. [header |-> Without(d.header, n), table |-> d.table] \in Disks
  BY <1>2, <1>5, DiskIs, IsDisk
<1> QED BY <1>1, <1>4

LEMMA TableWritten ==
    ASSUME NEW d \in Disks, NEW t \in Place \X Nat, NEW rows \in Seq(Row), Len(rows) = t[2],
           NEW e, e = Written(d, WriteTable(t, rows))
    PROVE  e \in Disks /\ e.header = d.header /\ e.table = With(d.table, t, rows)
<1>1. e = [header |-> d.header, table |-> With(d.table, t, rows)]
  BY DiskIs DEF Written, WriteTable
<1>2. \A x \in DOMAIN With(d.table, t, rows) : Len(With(d.table, t, rows)[x]) = x[2]
  BY DiskIs DEF With
<1>3. With(d.table, t, rows) \in Tables
  BY DiskIs, WithTable
<1>4. [header |-> d.header, table |-> With(d.table, t, rows)] \in Disks
  BY <1>2, <1>3, DiskIs, IsDisk
<1> QED BY <1>1, <1>4

LEMMA RowWritten ==
    ASSUME NEW d \in Disks, NEW t \in DOMAIN d.table, NEW k \in 1 .. t[2], NEW row \in Row,
           NEW e, e = Written(d, WriteRow(t, k, row))
    PROVE  /\ e \in Disks /\ e.header = d.header /\ DOMAIN e.table = DOMAIN d.table
           /\ \A x \in DOMAIN d.table : x # t => e.table[x] = d.table[x]
           /\ e.table[t] = [d.table[t] EXCEPT ![k] = row]
<1> DEFINE rows == [d.table[t] EXCEPT ![k] = row]
           after == [d.table EXCEPT ![t] = rows]
<1>1. e = [header |-> d.header, table |-> after]
  <2>1. e = [d EXCEPT !.table[t][k] = row]
    BY DEF Written, WriteRow
  <2>2. d = [header |-> d.header, table |-> d.table]
    BY DiskIs
  <2> QED BY <2>1, <2>2
<1>2. rows \in Seq(Row) /\ Len(rows) = t[2]
  BY DiskIs
<1>3. PICK T \in SUBSET (Place \X Nat) : d.table \in [T -> Seq(Row)]
  BY ZenonT(60), DiskIs DEF Tables
<1>4. after \in [T -> Seq(Row)]
  BY <1>2, <1>3
<1>5. after \in Tables
  BY <1>4 DEF Tables
<1>6. \A x \in DOMAIN after : Len(after[x]) = x[2]
  BY <1>2, <1>3, DiskIs
<1>7. [header |-> d.header, table |-> after] \in Disks
  BY <1>5, <1>6, DiskIs, IsDisk
<1> QED BY <1>1, <1>3, <1>7

LEMMA TableFreed ==
    ASSUME NEW d \in Disks, NEW t, NEW e, e = Written(d, FreeTable(t))
    PROVE  e \in Disks /\ e.header = d.header /\ e.table = Without(d.table, t)
<1>1. e = [header |-> d.header, table |-> Without(d.table, t)]
  BY DiskIs DEF Written, FreeTable
<1>2. \A x \in DOMAIN Without(d.table, t) : Len(Without(d.table, t)[x]) = x[2]
  BY DiskIs DEF Without, Restrict
<1>3. Without(d.table, t) \in Tables
  BY DiskIs, WithoutTable
<1>4. [header |-> d.header, table |-> Without(d.table, t)] \in Disks
  BY <1>2, <1>3, DiskIs, IsDisk
<1> QED BY <1>1, <1>4

----------------------------------------------------------------------------
(* Children                                                                *)

\* The nodes that p lists; 0 stands in rows that list none.
Kids(d, p) == {row.node : row \in Range(Children(d, p))}

LEMMA ChildrenAre ==
    ASSUME NEW d \in Disks, NEW p \in DOMAIN d.header
    PROVE  /\ Children(d, p) \in Seq(Row)
           /\ TableOf(d, p) \notin DOMAIN d.table => Children(d, p) = <<>>
           /\ TableOf(d, p) \in DOMAIN d.table =>
                 /\ Len(Children(d, p)) = d.header[p].num
                 /\ \A k \in 1 .. d.header[p].num :
                       Children(d, p)[k] = d.table[TableOf(d, p)][k]
<1>1. CASE TableOf(d, p) \notin DOMAIN d.table
  <2>1. Children(d, p) = <<>>
    BY <1>1 DEF Children
  <2> QED BY <1>1, <2>1
<1>2. CASE TableOf(d, p) \in DOMAIN d.table
  <2> DEFINE rows == d.table[TableOf(d, p)]
             n == d.header[p].num
  <2>1. Children(d, p) = SubSeq(rows, 1, n)
    BY <1>2 DEF Children
  <2>2. rows \in Seq(Row) /\ Len(rows) = d.header[p].entries
    BY <1>2, DiskIs DEF TableOf
  <2>3. n \in Nat /\ n <= Len(rows)
    BY <2>2, DiskIs DEF Fits, Header
  <2> QED BY <1>2, <2>1, <2>2, <2>3
<1> QED BY <1>1, <1>2

LEMMA KidsAre ==
    ASSUME NEW d \in Disks, NEW p \in DOMAIN d.header
    PROVE  /\ Kids(d, p) = {Children(d, p)[k].node : k \in DOMAIN Children(d, p)}
           /\ Kids(d, p) \subseteq Place \cup {0}
<1>1. Children(d, p) \in Seq(Row)
  BY ChildrenAre
<1>2. Range(Children(d, p)) = {Children(d, p)[k] : k \in DOMAIN Children(d, p)}
  BY DEF Range
<1>3. \A k \in DOMAIN Children(d, p) : Children(d, p)[k].node \in Place \cup {0}
  <2>1. \A row \in Row : row.node \in Place \cup {0}
    BY DEF Row, Blank
  <2> QED BY <1>1, <2>1
<1> QED BY <1>2, <1>3 DEF Kids

\* What p lists is the same on two disks that have its header and its table in common.
Alike(d, e, p) ==
    /\ e.header[p].num = d.header[p].num /\ e.header[p].entries = d.header[p].entries
    /\ TableOf(d, p) \in DOMAIN d.table <=> TableOf(d, p) \in DOMAIN e.table
    /\ TableOf(d, p) \in DOMAIN d.table => e.table[TableOf(d, p)] = d.table[TableOf(d, p)]

LEMMA SameChildren ==
    ASSUME NEW d, NEW e, NEW p, Alike(d, e, p)
    PROVE  /\ Children(e, p) = Children(d, p) /\ Kids(e, p) = Kids(d, p)
           /\ TableOf(e, p) = TableOf(d, p)
<1>1. TableOf(e, p) = TableOf(d, p)
  BY DEF Alike, TableOf
<1>2. Children(e, p) = Children(d, p)
  BY <1>1 DEF Alike, Children
<1> QED BY <1>1, <1>2 DEF Kids

----------------------------------------------------------------------------
(* What is below a node                                                    *)

LEMMA LeastElement ==
    ASSUME NEW S \in SUBSET Nat, S # {}
    PROVE  \E n \in S : \A m \in S : n <= m
<1>1. PICK n \in S : \A m \in S : ~ (<<m, n>> \in OpToRel(<, Nat))
  BY WFMin, NatLessThanWellFounded, Zenon
<1>2. \A m \in S : ~ (m < n)
  BY <1>1, Zenon DEF OpToRel
<1> QED BY <1>2

\* A set of numbers that has 0 and with every number the next has all of them.
LEMMA AllNumbers ==
    ASSUME NEW S \in SUBSET Nat, 0 \in S, \A n \in S : n + 1 \in S
    PROVE  S = Nat
<1> SUFFICES ASSUME Nat \ S # {} PROVE FALSE
  OBVIOUS
<1>1. PICK n \in Nat \ S : \A m \in Nat \ S : n <= m
  BY LeastElement
<1>2. n # 0 /\ n - 1 \in Nat /\ n - 1 \in S
  BY <1>1
<1> QED BY <1>1, <1>2

\* The nodes R and what those of them that are there list.
Listed(d, R) == UNION {{row.node : row \in Range(Children(d, n))} : n \in R \cap DOMAIN d.header}
Further(d, R) == R \cup Listed(d, R)
Reaches(f, d, p, N) == f = [k \in 0 .. N |-> IF k = 0 THEN {p} ELSE Further(d, f[k - 1])]

LEMMA ReachesExists ==
    ASSUME NEW d, NEW p, NEW n \in Nat
    PROVE  \E f : Reaches(f, d, p, n)
<1> DEFINE S == {m \in Nat : \E f : Reaches(f, d, p, m)}
<1>1. 0 \in S
  <2>1. Reaches([k \in 0 .. 0 |-> {p}], d, p, 0)
    BY DEF Reaches
  <2> QED BY <2>1
<1>2. ASSUME NEW m \in S PROVE m + 1 \in S
  <2>1. PICK w : Reaches(w, d, p, m)
    OBVIOUS
  <2>2. PICK v : v = [k \in 0 .. m + 1 |-> IF k = 0 THEN {p} ELSE Further(d, w[k - 1])]
    OBVIOUS
  <2>3. \A k \in 0 .. m : v[k] = w[k]
    <3>1. \A k \in 0 .. m : w[k] = IF k = 0 THEN {p} ELSE Further(d, w[k - 1])
      BY <2>1 DEF Reaches
    <3>2. \A k \in 0 .. m : v[k] = IF k = 0 THEN {p} ELSE Further(d, w[k - 1])
      BY <2>2
    <3> QED BY <3>1, <3>2
  <2>4. \A k \in 0 .. m + 1 : k # 0 => v[k - 1] = w[k - 1]
    BY <2>3
  <2>5. Reaches(v, d, p, m + 1)
    BY <2>2, <2>4 DEF Reaches
  <2> QED BY <2>5
<1>3. S = Nat
  <2> HIDE DEF S
  <2>1. S \in SUBSET Nat
    BY DEF S
  <2> QED BY <1>1, <1>2, <2>1, AllNumbers
<1> QED BY <1>3

LEMMA ReachesIs ==
    ASSUME NEW d, NEW p
    PROVE  \E f : Reaches(f, d, p, MaxNode) /\ Below(d, p) = f[MaxNode] \ {0}
<1>1. MaxNode \in Nat
  BY TreeAssumption
<1>2. \E f : Reaches(f, d, p, MaxNode)
  BY <1>1, ReachesExists, Zenon
<1>3. \E f : f = [k \in 0 .. MaxNode |->
                     IF k = 0 THEN {p}
                     ELSE f[k - 1] \cup
                          UNION {{row.node : row \in Range(Children(d, n))} :
                                    n \in f[k - 1] \cap DOMAIN d.header}]
  BY <1>2, Zenon DEF Reaches, Listed, Further
<1>4. Blank.node = 0
  BY DEF Blank
<1> QED BY <1>3, <1>4, Zenon DEF Below, Reaches, Listed, Further

\* A set of nodes that has all that they list.
Closed(d, S) == \A n \in S \cap DOMAIN d.header : Kids(d, n) \ {0} \subseteq S

LEMMA ListedIs ==
    ASSUME NEW d, NEW R
    PROVE  /\ \A n \in R \cap DOMAIN d.header : Kids(d, n) \subseteq Listed(d, R)
           /\ \A x \in Listed(d, R) : \E n \in R \cap DOMAIN d.header : x \in Kids(d, n)
BY DEF Listed, Kids

\* As many steps as there can be nodes reach all that is below.
LEMMA ReachesAll ==
    ASSUME NEW d \in Disks, NEW p \in Place, NEW f, Reaches(f, d, p, MaxNode)
    PROVE  /\ p \in f[MaxNode] /\ f[MaxNode] \subseteq 0 .. MaxNode
           /\ Listed(d, f[MaxNode]) \subseteq f[MaxNode]
<1>0. MaxNode \in Nat
  BY TreeAssumption
<1>1. \A k \in 0 .. MaxNode : f[k] = IF k = 0 THEN {p} ELSE Further(d, f[k - 1])
  BY DEF Reaches
<1>2. \A R : Listed(d, R) \subseteq 0 .. MaxNode
  <2>1. \A n \in DOMAIN d.header : Kids(d, n) \subseteq 0 .. MaxNode
    BY <1>0, KidsAre DEF Place
  <2> QED BY <2>1, ListedIs
<1>3. IsFiniteSet(0 .. MaxNode) /\ Cardinality(0 .. MaxNode) = MaxNode + 1
  BY <1>0, FS_Interval
<1> DEFINE Large(R, k) == Listed(d, R) \subseteq R \/ Cardinality(R) >= k + 1
           S == {k \in Nat : k <= MaxNode =>
                    p \in f[k] /\ f[k] \subseteq 0 .. MaxNode /\ Large(f[k], k)}
<1>4. 0 \in S
  <2>1. f[0] = {p}
    BY <1>0, <1>1
  <2>2. Cardinality({p}) = 1
    BY FS_Singleton
  <2> QED BY <1>0, <2>1, <2>2 DEF Place
<1>5. ASSUME NEW k \in S PROVE k + 1 \in S
  <2> SUFFICES ASSUME k + 1 <= MaxNode
               PROVE  /\ p \in f[k + 1] /\ f[k + 1] \subseteq 0 .. MaxNode
                      /\ Large(f[k + 1], k + 1)
    OBVIOUS
  <2>1. p \in f[k] /\ f[k] \subseteq 0 .. MaxNode /\ Large(f[k], k)
    BY <1>0, <1>5
  <2>2. k + 1 \in 0 .. MaxNode /\ k + 1 # 0 /\ (k + 1) - 1 = k
    BY <1>0
  <2>3. f[k + 1] = f[k] \cup Listed(d, f[k])
    BY <1>1, <2>2 DEF Further
  <2>4. f[k + 1] \subseteq 0 .. MaxNode
    BY <1>2, <2>1, <2>3
  <2>5. Large(f[k + 1], k + 1)
    <3>1. CASE Listed(d, f[k]) \subseteq f[k]
      <4>1. f[k + 1] = f[k]
        BY <2>3, <3>1
      <4> QED BY <3>1, <4>1
    <3>2. CASE ~ (Listed(d, f[k]) \subseteq f[k])
      <4>1. PICK x \in f[k + 1] : x \notin f[k]
        BY <2>3, <3>2
      <4>2. IsFiniteSet(f[k]) /\ IsFiniteSet(f[k + 1])
        BY <1>3, <2>1, <2>4, FS_Subset
      <4>3. Cardinality(f[k]) \in Nat /\ Cardinality(f[k + 1]) \in Nat
        BY <4>2, FS_CardinalityType
      <4>4. Cardinality(f[k] \cup {x}) = Cardinality(f[k]) + 1
        BY <4>1, <4>2, FS_AddElement
      <4>5. f[k] \cup {x} \subseteq f[k + 1]
        BY <2>3, <4>1
      <4>6. Cardinality(f[k] \cup {x}) <= Cardinality(f[k + 1])
        BY <4>2, <4>5, FS_Subset
      <4>7. Cardinality(f[k]) >= k + 1
        BY <2>1, <3>2
      <4> QED BY <4>3, <4>4, <4>6, <4>7
    <3> QED BY <3>1, <3>2
  <2> QED BY <2>1, <2>3, <2>4, <2>5
<1>6. S = Nat
  <2> HIDE DEF S
  <2>1. S \in SUBSET Nat
    BY DEF S
  <2> QED BY <1>4, <1>5, <2>1, AllNumbers
<1>7. /\ p \in f[MaxNode] /\ f[MaxNode] \subseteq 0 .. MaxNode
      /\ Large(f[MaxNode], MaxNode)
  <2>1. MaxNode \in S
    BY <1>0, <1>6
  <2> QED BY <1>0, <2>1
<1>8. CASE Cardinality(f[MaxNode]) >= MaxNode + 1
  <2>1. /\ Cardinality(f[MaxNode]) <= Cardinality(0 .. MaxNode)
        /\ Cardinality(0 .. MaxNode) = Cardinality(f[MaxNode]) => 0 .. MaxNode = f[MaxNode]
        /\ Cardinality(f[MaxNode]) \in Nat
    BY <1>3, <1>7, FS_Subset, FS_CardinalityType
  <2>2. f[MaxNode] = 0 .. MaxNode
    BY <1>0, <1>3, <1>8, <2>1
  <2> QED BY <1>2, <1>7, <2>2
<1> QED BY <1>7, <1>8

\* What is below p is the least set that has p and is closed.
LEMMA BelowIs ==
    ASSUME NEW d \in Disks, NEW p \in Place
    PROVE  /\ p \in Below(d, p) /\ Below(d, p) \subseteq Place
           /\ Closed(d, Below(d, p))
           /\ \A S : p \in S /\ Closed(d, S) => Below(d, p) \subseteq S
<1>0. MaxNode \in Nat /\ 0 \notin Place /\ Place = (0 .. MaxNode) \ {0}
  BY TreeAssumption DEF Place
<1>1. PICK f : Reaches(f, d, p, MaxNode) /\ Below(d, p) = f[MaxNode] \ {0}
  BY ReachesIs, Zenon
<1>2. /\ p \in f[MaxNode] /\ f[MaxNode] \subseteq 0 .. MaxNode
      /\ Listed(d, f[MaxNode]) \subseteq f[MaxNode]
  BY <1>1, ReachesAll
<1>3. Closed(d, Below(d, p))
  <2>1. \A n \in f[MaxNode] \cap DOMAIN d.header : Kids(d, n) \subseteq f[MaxNode]
    BY <1>2, ListedIs
  <2> QED BY <1>1, <2>1 DEF Closed
<1>4. ASSUME NEW S, p \in S, Closed(d, S) PROVE Below(d, p) \subseteq S
  <2>1. \A k \in 0 .. MaxNode : f[k] = IF k = 0 THEN {p} ELSE Further(d, f[k - 1])
    BY <1>1 DEF Reaches
  <2> DEFINE T == {k \in Nat : k <= MaxNode => f[k] \subseteq S \cup {0}}
  <2>2. 0 \in T
    BY <1>0, <1>4, <2>1
  <2>3. ASSUME NEW k \in T PROVE k + 1 \in T
    <3> SUFFICES ASSUME k + 1 <= MaxNode PROVE f[k + 1] \subseteq S \cup {0}
      OBVIOUS
    <3>1. f[k] \subseteq S \cup {0}
      BY <1>0, <2>3
    <3>2. k + 1 \in 0 .. MaxNode /\ k + 1 # 0 /\ (k + 1) - 1 = k
      BY <1>0
    <3>3. f[k + 1] = f[k] \cup Listed(d, f[k])
      BY <2>1, <3>2 DEF Further
    <3>4. 0 \notin DOMAIN d.header
      BY <1>0, DiskIs
    <3>5. Listed(d, f[k]) \subseteq S \cup {0}
      BY <1>4, <3>1, <3>4, ListedIs DEF Closed
    <3> QED BY <3>1, <3>3, <3>5
  <2>4. T = Nat
    <3> HIDE DEF T
    <3>1. T \in SUBSET Nat
      BY DEF T
    <3> QED BY <2>2, <2>3, <3>1, AllNumbers
  <2>5. MaxNode \in T
    BY <1>0, <2>4
  <2> QED BY <1>0, <1>1, <2>5
<1> QED BY <1>0, <1>1, <1>2, <1>3, <1>4

----------------------------------------------------------------------------
(* Writes one after the other                                              *)

\* The writes ws make disk e of disk d, and all disks on the way are in G.
Runs(d, ws, e, G) ==
    \E chain \in Seq(G) :
        /\ \E W : ws \in Seq(W)
        /\ Len(chain) = Len(ws) + 1 /\ chain[1] = d /\ chain[Len(ws) + 1] = e
        /\ \A k \in 1 .. Len(ws) : chain[k + 1] = Written(chain[k], ws[k])

LEMMA RunsNone ==
    ASSUME NEW G, NEW d \in G
    PROVE  Runs(d, <<>>, d, G)
<1> DEFINE chain == <<d>>
           ws == <<>>
<1>1. ws \in Seq({}) /\ Len(ws) = 0
  OBVIOUS
<1>2. chain \in Seq(G) /\ Len(chain) = 1 /\ chain[1] = d
  OBVIOUS
<1>3. /\ \E W : ws \in Seq(W)
      /\ Len(chain) = Len(ws) + 1 /\ chain[1] = d /\ chain[Len(ws) + 1] = d
      /\ \A k \in 1 .. Len(ws) : chain[k + 1] = Written(chain[k], ws[k])
  <2> HIDE DEF chain, ws
  <2> QED BY <1>1, <1>2
<1>4. Runs(d, ws, d, G)
  <2> HIDE DEF chain, ws
  <2> QED BY <1>2, <1>3 DEF Runs
<1> QED BY <1>4

LEMMA RunsOne ==
    ASSUME NEW G, NEW d \in G, NEW w, NEW e \in G, e = Written(d, w)
    PROVE  Runs(d, <<w>>, e, G)
<1> DEFINE chain == <<d, e>>
           ws == <<w>>
<1>1. ws \in Seq({w}) /\ Len(ws) = 1 /\ ws[1] = w
  OBVIOUS
<1>2. chain \in Seq(G) /\ Len(chain) = 2 /\ chain[1] = d /\ chain[2] = e
  OBVIOUS
<1>3. /\ \E W : ws \in Seq(W)
      /\ Len(chain) = Len(ws) + 1 /\ chain[1] = d /\ chain[Len(ws) + 1] = e
      /\ \A k \in 1 .. Len(ws) : chain[k + 1] = Written(chain[k], ws[k])
  <2> HIDE DEF chain, ws
  <2> QED BY <1>1, <1>2
<1>4. Runs(d, ws, e, G)
  <2> HIDE DEF chain, ws
  <2> QED BY <1>2, <1>3 DEF Runs
<1> QED BY <1>4

LEMMA RunsEnds ==
    ASSUME NEW d, NEW ws, NEW e, NEW G, Runs(d, ws, e, G)
    PROVE  d \in G /\ e \in G /\ Len(ws) \in Nat /\ (ws = <<>> => e = d)
<1>1. PICK chain \in Seq(G) : /\ \E W : ws \in Seq(W)
                              /\ Len(chain) = Len(ws) + 1
                              /\ chain[1] = d /\ chain[Len(ws) + 1] = e
  BY DEF Runs
<1>2. Len(ws) \in Nat
  BY <1>1
<1>3. 1 \in 1 .. Len(chain) /\ Len(ws) + 1 \in 1 .. Len(chain)
  BY <1>1, <1>2
<1>4. d \in G /\ e \in G
  BY <1>1, <1>3
<1>5. ws = <<>> => e = d
  BY <1>1
<1> QED BY <1>2, <1>4, <1>5

LEMMA RunsWider ==
    ASSUME NEW d, NEW ws, NEW e, NEW G, NEW H, Runs(d, ws, e, G), G \subseteq H
    PROVE  Runs(d, ws, e, H)
<1>1. PICK chain \in Seq(G) :
          /\ \E W : ws \in Seq(W)
          /\ Len(chain) = Len(ws) + 1 /\ chain[1] = d /\ chain[Len(ws) + 1] = e
          /\ \A k \in 1 .. Len(ws) : chain[k + 1] = Written(chain[k], ws[k])
  BY DEF Runs
<1>2. chain \in Seq(H)
  OBVIOUS
<1> QED BY <1>1, <1>2 DEF Runs

LEMMA RunsOn ==
    ASSUME NEW d, NEW us, NEW e, NEW vs, NEW f, NEW G,
           Runs(d, us, e, G), Runs(e, vs, f, G)
    PROVE  Runs(d, us \o vs, f, G)
<1>1. PICK a \in Seq(G) :
          /\ \E W : us \in Seq(W)
          /\ Len(a) = Len(us) + 1 /\ a[1] = d /\ a[Len(us) + 1] = e
          /\ \A k \in 1 .. Len(us) : a[k + 1] = Written(a[k], us[k])
  BY DEF Runs
<1>2. PICK b \in Seq(G) :
          /\ \E W : vs \in Seq(W)
          /\ Len(b) = Len(vs) + 1 /\ b[1] = e /\ b[Len(vs) + 1] = f
          /\ \A k \in 1 .. Len(vs) : b[k + 1] = Written(b[k], vs[k])
  BY DEF Runs
<1>3. PICK U : us \in Seq(U)
  BY <1>1
<1>4. PICK V : vs \in Seq(V)
  BY <1>2
<1> DEFINE m == Len(us)
           n == Len(vs)
           ws == us \o vs
           chain == [k \in 1 .. m + n + 1 |-> IF k <= m THEN a[k] ELSE b[k - m]]
<1>5. m \in Nat /\ n \in Nat
  BY <1>3, <1>4
<1>6. /\ ws \in Seq(U \cup V) /\ Len(ws) = m + n
      /\ \A k \in 1 .. m + n : ws[k] = IF k <= m THEN us[k] ELSE vs[k - m]
  BY <1>3, <1>4
<1>7. chain \in Seq(G) /\ Len(chain) = m + n + 1
  <2>1. \A k \in 1 .. m + n + 1 : chain[k] \in G
    BY <1>1, <1>2, <1>5
  <2> QED BY <1>5, <2>1
<1>8. chain[1] = d /\ chain[m + n + 1] = f
  BY <1>1, <1>2, <1>5
<1>9. ASSUME NEW k \in 1 .. m + n PROVE chain[k + 1] = Written(chain[k], ws[k])
  <2>1. CASE k < m
    <3>1. chain[k] = a[k] /\ chain[k + 1] = a[k + 1] /\ ws[k] = us[k]
      BY <1>5, <1>6, <2>1
    <3> QED BY <1>1, <1>5, <2>1, <3>1
  <2>2. CASE k = m
    <3>1. chain[k] = a[k] /\ chain[k + 1] = b[1] /\ ws[k] = us[k]
      BY <1>5, <1>6, <2>2
    <3> QED BY <1>1, <1>2, <1>5, <2>2, <3>1
  <2>3. CASE k > m
    <3>1. /\ k - m \in 1 .. n /\ ~ (k <= m) /\ ~ (k + 1 <= m) /\ (k + 1) - m = (k - m) + 1
          /\ k \in 1 .. m + n + 1 /\ k + 1 \in 1 .. m + n + 1
      BY <1>5, <2>3
    <3>2. ws[k] = vs[k - m]
      BY <1>6, <3>1
    <3>3. chain[k] = b[k - m] /\ chain[k + 1] = b[(k + 1) - m]
      BY <3>1, Zenon
    <3> QED BY <1>2, <3>1, <3>2, <3>3
  <2> QED BY <1>5, <2>1, <2>2, <2>3
<1>10. /\ \E W : ws \in Seq(W)
       /\ Len(chain) = Len(ws) + 1 /\ chain[1] = d /\ chain[Len(ws) + 1] = f
       /\ \A k \in 1 .. Len(ws) : chain[k + 1] = Written(chain[k], ws[k])
  BY <1>6, <1>7, <1>8, <1>9
<1> HIDE DEF chain, ws
<1> QED BY <1>7, <1>10 DEF Runs, ws

LEMMA RunsHead ==
    ASSUME NEW d, NEW ws, NEW e, NEW G, Runs(d, ws, e, G), ws # <<>>
    PROVE  Runs(Written(d, Head(ws)), Tail(ws), e, G)
<1>1. PICK a \in Seq(G) :
          /\ \E W : ws \in Seq(W)
          /\ Len(a) = Len(ws) + 1 /\ a[1] = d /\ a[Len(ws) + 1] = e
          /\ \A k \in 1 .. Len(ws) : a[k + 1] = Written(a[k], ws[k])
  BY DEF Runs
<1>2. PICK W : ws \in Seq(W)
  BY <1>1
<1>3. /\ Len(ws) \in Nat \ {0} /\ Tail(ws) \in Seq(W) /\ Len(Tail(ws)) = Len(ws) - 1
      /\ Head(ws) = ws[1] /\ \A k \in 1 .. Len(ws) - 1 : Tail(ws)[k] = ws[k + 1]
  BY <1>2
<1>4. /\ Tail(a) \in Seq(G) /\ Len(Tail(a)) = Len(ws)
      /\ \A k \in 1 .. Len(ws) : Tail(a)[k] = a[k + 1]
  BY <1>1, <1>3
<1>5. Tail(a)[1] = Written(d, Head(ws)) /\ Tail(a)[Len(ws)] = e
  BY <1>1, <1>3, <1>4
<1>6. ASSUME NEW k \in 1 .. Len(ws) - 1
      PROVE  Tail(a)[k + 1] = Written(Tail(a)[k], Tail(ws)[k])
  <2>1. Tail(a)[k + 1] = a[(k + 1) + 1] /\ Tail(a)[k] = a[k + 1] /\ Tail(ws)[k] = ws[k + 1]
    BY <1>3, <1>4
  <2>2. k + 1 \in 1 .. Len(ws)
    BY <1>3
  <2> QED BY <1>1, <2>1, <2>2
<1>7. /\ \E V : Tail(ws) \in Seq(V)
      /\ Len(Tail(a)) = Len(Tail(ws)) + 1
      /\ Tail(a)[1] = Written(d, Head(ws)) /\ Tail(a)[Len(Tail(ws)) + 1] = e
      /\ \A k \in 1 .. Len(Tail(ws)) : Tail(a)[k + 1] = Written(Tail(a)[k], Tail(ws)[k])
  BY <1>3, <1>4, <1>5, <1>6
<1> QED BY <1>4, <1>7 DEF Runs

After(f, d, ws) ==
    f = [k \in 0 .. Len(ws) |-> IF k = 0 THEN d ELSE Written(f[k - 1], ws[k])]

LEMMA RunsAll ==
    ASSUME NEW d, NEW ws, NEW e, NEW G, Runs(d, ws, e, G)
    PROVE  AllWritten(d, ws) = e
<1>1. PICK a \in Seq(G) :
          /\ \E W : ws \in Seq(W)
          /\ Len(a) = Len(ws) + 1 /\ a[1] = d /\ a[Len(ws) + 1] = e
          /\ \A k \in 1 .. Len(ws) : a[k + 1] = Written(a[k], ws[k])
  BY DEF Runs
<1>2. Len(ws) \in Nat
  BY <1>1
<1>3. \E f : After(f, d, ws)
  <2>1. PICK f : f = [k \in 0 .. Len(ws) |-> a[k + 1]]
    OBVIOUS
  <2>2. \A k \in 0 .. Len(ws) : f[k] = IF k = 0 THEN d ELSE Written(f[k - 1], ws[k])
    <3> SUFFICES ASSUME NEW k \in 0 .. Len(ws), k # 0 PROVE f[k] = Written(f[k - 1], ws[k])
      BY <1>1, <1>2, <2>1
    <3>1. k \in 1 .. Len(ws) /\ f[k] = a[k + 1] /\ f[k - 1] = a[k]
      BY <1>2, <2>1
    <3> QED BY <1>1, <3>1
  <2>3. f = [k \in 0 .. Len(ws) |-> IF k = 0 THEN d ELSE Written(f[k - 1], ws[k])]
    BY <2>1, <2>2
  <2> QED BY <2>3 DEF After
<1>4. \E f : After(f, d, ws) /\ AllWritten(d, ws) = f[Len(ws)]
  <2>1. \E f : f = [k \in 0 .. Len(ws) |-> IF k = 0 THEN d ELSE Written(f[k - 1], ws[k])]
    BY <1>3, Zenon DEF After
  <2> QED BY <2>1, Zenon DEF After, AllWritten
<1>5. PICK f : After(f, d, ws) /\ AllWritten(d, ws) = f[Len(ws)]
  BY <1>4, Zenon
<1>6. \A k \in 0 .. Len(ws) : f[k] = IF k = 0 THEN d ELSE Written(f[k - 1], ws[k])
  BY <1>5 DEF After
<1> DEFINE S == {k \in Nat : k <= Len(ws) => f[k] = a[k + 1]}
<1>7. 0 \in S
  BY <1>1, <1>2, <1>6
<1>8. ASSUME NEW k \in S PROVE k + 1 \in S
  <2> SUFFICES ASSUME k + 1 <= Len(ws) PROVE f[k + 1] = a[(k + 1) + 1]
    OBVIOUS
  <2>1. f[k] = a[k + 1]
    BY <1>2, <1>8
  <2>2. k + 1 \in 0 .. Len(ws) /\ k + 1 # 0 /\ (k + 1) - 1 = k /\ k + 1 \in 1 .. Len(ws)
    BY <1>2
  <2>3. f[k + 1] = Written(f[k], ws[k + 1])
    BY <1>6, <2>2
  <2> QED BY <1>1, <2>1, <2>2, <2>3
<1>9. S = Nat
  <2> HIDE DEF S
  <2>1. S \in SUBSET Nat
    BY DEF S
  <2> QED BY <1>7, <1>8, <2>1, AllNumbers
<1>10. Len(ws) \in S
  BY <1>2, <1>9
<1> QED BY <1>1, <1>5, <1>10

----------------------------------------------------------------------------
(* Trees                                                                   *)

Rooted(d) == DOMAIN d.header \subseteq Below(d, Root)

\* Two rows that one list may not have both.
Clash(row, other) ==
    row.node = other.node \/ (row.name = other.name /\ ~ MayBeShared(row.name))

\* Who lists x, all rows of p under the names of their nodes, and which tables there are.
OneParent(d) ==
    /\ \A x \in DOMAIN d.header \ {Root} : \E p \in DOMAIN d.header : x \in Kids(d, p)
    /\ \A p, q \in DOMAIN d.header : \A x \in Kids(d, p) : x \in Kids(d, q) => p = q
WellNamed(d, p) ==
    /\ \A k \in DOMAIN Children(d, p) :
          Children(d, p)[k].name = d.header[Children(d, p)[k].node].name
    /\ \A k, m \in DOMAIN Children(d, p) :
          Clash(Children(d, p)[k], Children(d, p)[m]) => k = m
TableNames(d) == {TableOf(d, p) : p \in {q \in DOMAIN d.header : d.header[q].entries > 0}}
ListsNodes(d) == \A p \in DOMAIN d.header : Kids(d, p) \subseteq DOMAIN d.header \ {Root}

\* What TreeIsSound asks of a disk, and that no node lists the root.
Sound(d) ==
    /\ ListsNodes(d) /\ Rooted(d) /\ OneParent(d)
    /\ \A p \in DOMAIN d.header : WellNamed(d, p)
    /\ DOMAIN d.table = TableNames(d)

LEMMA RootIsPlace == Root \in Place /\ 0 \notin Place
BY TreeAssumption DEF Root, Place

\* What is lost from the lists of d is in X, and what X lists is in X: the rest is still
\* below the root.
LEMMA RestIsRooted ==
    ASSUME NEW d \in Disks, NEW e \in Disks, Rooted(d), NEW X,
           \A n \in DOMAIN d.header \ X :
               n \in DOMAIN e.header /\ Kids(d, n) \subseteq Kids(e, n) \cup X \cup {0},
           \A n \in DOMAIN d.header \cap X : Kids(d, n) \subseteq X \cup {0}
    PROVE  DOMAIN d.header \ X \subseteq Below(e, Root)
<1> DEFINE S == Below(e, Root) \cup X
<1>1. Root \in Below(e, Root) /\ Closed(e, Below(e, Root))
  BY RootIsPlace, BelowIs
<1>2. Closed(d, S)
  <2> SUFFICES ASSUME NEW n \in S \cap DOMAIN d.header, NEW y \in Kids(d, n), y # 0
               PROVE  y \in S
    BY DEF Closed
  <2>1. CASE n \in X
    BY <2>1
  <2>2. CASE n \notin X
    <3>1. n \in DOMAIN e.header /\ y \in Kids(e, n) \cup X
      BY <2>2
    <3> QED BY <1>1, <2>2, <3>1 DEF Closed
  <2> QED BY <2>1, <2>2
<1>3. Below(d, Root) \subseteq S
  <2> HIDE DEF S
  <2>1. Root \in S
    BY <1>1 DEF S
  <2> QED BY <1>2, <2>1, RootIsPlace, BelowIs
<1> QED BY <1>3 DEF Rooted

LEMMA AllRooted ==
    ASSUME NEW d \in Disks, NEW e \in Disks, Rooted(d), DOMAIN d.header \subseteq DOMAIN e.header,
           \A q \in DOMAIN d.header : Kids(d, q) \subseteq Kids(e, q)
    PROVE  DOMAIN d.header \subseteq Below(e, Root)
<1> DEFINE X == {}
<1>1. \A q \in DOMAIN d.header \ X :
          q \in DOMAIN e.header /\ Kids(d, q) \subseteq Kids(e, q) \cup X \cup {0}
  OBVIOUS
<1>2. \A q \in DOMAIN d.header \cap X : Kids(d, q) \subseteq X \cup {0}
  OBVIOUS
<1>3. DOMAIN d.header \ X \subseteq Below(e, Root)
  <2> HIDE DEF X
  <2> QED BY <1>1, <1>2, RestIsRooted
<1> QED BY <1>3

\* Nothing below a node lists it.
LEMMA NoCycle ==
    ASSUME NEW d \in Disks, Sound(d), NEW n \in DOMAIN d.header, n # Root,
           NEW q \in DOMAIN d.header, q \in Below(d, n)
    PROVE  n \notin Kids(d, q)
<1> SUFFICES ASSUME n \in Kids(d, q) PROVE FALSE
  OBVIOUS
<1> DEFINE B == Below(d, n)
<1>1. n \in Place /\ DOMAIN d.header \subseteq Place
  BY DiskIs
<1>2. n \in B /\ Closed(d, B) /\ \A S : n \in S /\ Closed(d, S) => B \subseteq S
  BY <1>1, BelowIs
<1>3. \A y \in B : \E x \in B \cap DOMAIN d.header : y \in Kids(d, x)
  <2> DEFINE S == {y \in B : \E x \in B \cap DOMAIN d.header : y \in Kids(d, x)}
  <2>1. n \in S
    BY <1>2
  <2>2. Closed(d, S)
    BY <1>2 DEF Closed
  <2>3. B \subseteq S
    <3> HIDE DEF S
    <3> QED BY <1>2, <2>1, <2>2
  <2> QED BY <2>3
<1>4. Root \notin B
  BY <1>3 DEF Sound, ListsNodes
<1> DEFINE R == Place \ B
<1>5. Closed(d, R)
  <2> SUFFICES ASSUME NEW x \in DOMAIN d.header \ B, NEW y \in Kids(d, x), y # 0
               PROVE  y \in R
    BY DEF Closed
  <2>1. y \in Place
    BY KidsAre
  <2>2. ASSUME y \in B PROVE FALSE
    <3>1. PICK z \in B \cap DOMAIN d.header : y \in Kids(d, z)
      BY <1>3, <2>2
    <3>2. z = x
      BY <3>1 DEF Sound, OneParent
    <3> QED BY <3>1, <3>2
  <2> QED BY <2>1, <2>2
<1>6. Below(d, Root) \subseteq R
  <2>1. Root \in R
    BY <1>4, RootIsPlace
  <2> HIDE DEF R, B
  <2> QED BY <1>5, <2>1, RootIsPlace, BelowIs
<1> QED BY <1>2, <1>6 DEF Sound, Rooted

\* What Sound says is what TreeIsSound asks for.
LEMMA SoundIsTree ==
    ASSUME Disk \in Disks, Sound(Disk)
    PROVE  TreeIsSound
<1>1. Disk.header = header /\ Disk.table = table
  BY DEF Disk
<1>2. Below(Disk, Root) = DOMAIN header
  <2>1. Closed(Disk, DOMAIN header)
    BY <1>1 DEF Closed, Sound, ListsNodes
  <2>2. Root \in DOMAIN header
    BY <1>1, DiskIs
  <2>3. Below(Disk, Root) \subseteq DOMAIN header
    BY <2>1, <2>2, RootIsPlace, BelowIs
  <2> QED BY <1>1, <2>3 DEF Sound, Rooted
<1>3. ASSUME NEW n \in DOMAIN header \ {Root}
      PROVE  Cardinality({p \in DOMAIN header : Lists(p, n)}) = 1
  <2>1. \A p \in DOMAIN header : Lists(p, n) <=> n \in Kids(Disk, p)
    BY DEF Lists, Kids
  <2>2. PICK q \in DOMAIN header : n \in Kids(Disk, q)
    BY <1>1 DEF Sound, OneParent
  <2>3. {p \in DOMAIN header : Lists(p, n)} = {q}
    BY <1>1, <2>1, <2>2 DEF Sound, OneParent
  <2> QED BY <2>3, FS_Singleton
<1>4. ASSUME NEW p \in DOMAIN header
      PROVE  LET rows == Children(Disk, p) IN
             /\ \A k \in DOMAIN rows : rows[k].name = header[rows[k].node].name
             /\ \A k, m \in DOMAIN rows : rows[k].node = rows[m].node => k = m
             /\ \A k, m \in DOMAIN rows :
                   rows[k].name = rows[m].name => k = m \/ MayBeShared(rows[k].name)
  <2>1. WellNamed(Disk, p)
    BY <1>1 DEF Sound
  <2> QED BY <1>1, <2>1 DEF WellNamed, Clash
<1>5. DOMAIN table = {TableOf(Disk, p) : p \in {q \in DOMAIN header : header[q].entries > 0}}
  BY <1>1 DEF Sound, TableNames
<1> QED BY <1>2, <1>3, <1>4, <1>5 DEF TreeIsSound

----------------------------------------------------------------------------
(* An entry is added                                                       *)

\* There is a table for every header that names one, and no other.
Tight(d) == DOMAIN d.table = TableNames(d)

\* Some header names a table that is not there.
Torn(d) == \E p \in DOMAIN d.header : d.header[p].entries > 0 /\ TableOf(d, p) \notin DOMAIN d.table

\* Two disks that differ in nothing but what p lists.
SameBut(d, e, p) ==
    /\ DOMAIN e.header = DOMAIN d.header
    /\ \A q \in DOMAIN d.header : e.header[q].name = d.header[q].name
    /\ \A q \in DOMAIN d.header \ {p} : Alike(d, e, q)

LEMMA SameButOn ==
    ASSUME NEW d, NEW e, NEW f, NEW p, SameBut(d, e, p), SameBut(e, f, p)
    PROVE  SameBut(d, f, p)
<1>1. DOMAIN f.header = DOMAIN d.header /\ DOMAIN e.header = DOMAIN d.header
  BY DEF SameBut
<1>2. \A q \in DOMAIN d.header : f.header[q].name = d.header[q].name
  BY DEF SameBut
<1>3. ASSUME NEW q \in DOMAIN d.header \ {p} PROVE Alike(d, f, q)
  <2>1. Alike(d, e, q) /\ Alike(e, f, q)
    BY <1>1 DEF SameBut
  <2>2. TableOf(e, q) = TableOf(d, q)
    BY <2>1, SameChildren
  <2> QED BY <2>1, <2>2 DEF Alike
<1> QED BY <1>1, <1>2, <1>3 DEF SameBut

\* Headers that are the same, and tables but those of p.
LEMMA SameTables ==
    ASSUME NEW d \in Disks, NEW e \in Disks, NEW p, NEW size, e.header = d.header,
           \A t : t # <<p, size>> => (t \in DOMAIN d.table <=> t \in DOMAIN e.table),
           \A t \in DOMAIN d.table : t # <<p, size>> => e.table[t] = d.table[t]
    PROVE  SameBut(d, e, p)
<1>1. ASSUME NEW q \in DOMAIN d.header \ {p} PROVE Alike(d, e, q)
  <2>1. TableOf(d, q) # <<p, size>>
    BY DEF TableOf
  <2> QED BY <2>1 DEF Alike
<1> QED BY <1>1 DEF SameBut

\* The header of p is written, under its old name.
LEMMA SameHeaders ==
    ASSUME NEW d \in Disks, NEW p \in DOMAIN d.header, NEW h, h.name = d.header[p].name,
           NEW e, e.header = With(d.header, p, h), e.table = d.table
    PROVE  SameBut(d, e, p) /\ e.header[p] = h
<1>1. DOMAIN e.header = DOMAIN d.header /\ e.header[p] = h
  BY DEF With
<1>2. \A q \in DOMAIN d.header : q # p => e.header[q] = d.header[q]
  BY DEF With
<1>3. \A q \in DOMAIN d.header : e.header[q].name = d.header[q].name
  BY <1>1, <1>2
<1>4. ASSUME NEW q \in DOMAIN d.header \ {p} PROVE Alike(d, e, q)
  BY <1>2 DEF Alike
<1> QED BY <1>1, <1>3, <1>4 DEF SameBut

\* The row behind the last is written, and the header that counts it.
Counting(h, size) == [h EXCEPT !.num = @ + 1, !.entries = size]

LEMMA ChildrenOf ==
    ASSUME NEW d \in Disks, NEW p \in DOMAIN d.header,
           NEW t \in DOMAIN d.table, t = TableOf(d, p), NEW n, n = d.header[p].num
    PROVE  /\ Children(d, p) \in Seq(Row) /\ Len(Children(d, p)) = n
           /\ \A k \in 1 .. n : Children(d, p)[k] = d.table[t][k]
BY ChildrenAre

LEMMA SameRows ==
    ASSUME NEW a \in Seq(Row), NEW b \in Seq(Row), NEW n, Len(a) = n, Len(b) = n,
           \A k \in 1 .. n : a[k] = b[k]
    PROVE  a = b
BY SMTT(60)

\* A row is added to the table of the given size, and then the header counts it.
RowAdds(d, f, e, p, size, row) ==
    /\ size # 1 /\ <<p, size>> \in DOMAIN d.table /\ d.header[p].num + 1 <= size
    /\ \/ d.header[p].entries = size \/ d.header[p].num = 0
       \/ TableOf(d, p) \notin DOMAIN d.table
    /\ f = Written(d, WriteRow(<<p, size>>, d.header[p].num + 1, row))
    /\ e = Written(f, WriteHeader(p, Counting(d.header[p], size)))

LEMMA RowAdded ==
    ASSUME NEW d \in Disks, NEW p \in DOMAIN d.header, NEW size \in Nat, NEW row \in Row,
           NEW f, NEW e, RowAdds(d, f, e, p, size, row)
    PROVE  /\ f \in Disks /\ SameBut(d, f, p) /\ Children(f, p) = Children(d, p)
           /\ f.header = d.header /\ DOMAIN f.table = DOMAIN d.table
           /\ e \in Disks /\ SameBut(d, e, p) /\ DOMAIN e.table = DOMAIN d.table
           /\ e.header[p].entries = size
           /\ Len(Children(e, p)) = d.header[p].num + 1
           /\ Children(e, p)[d.header[p].num + 1] = row
           /\ \A k \in 1 .. d.header[p].num : Children(e, p)[k] = d.table[<<p, size>>][k]
<1> DEFINE t == <<p, size>>
           g == d.header[p]
           n == g.num
           h == Counting(g, size)
           own == TableOf(d, p)
<1>0. /\ size # 1 /\ t \in DOMAIN d.table /\ n + 1 <= size
      /\ g.entries = size \/ n = 0 \/ own \notin DOMAIN d.table
  BY DEF RowAdds
<1>1. n \in Nat /\ g \in Header /\ p \in Place /\ Fits(p, g)
  BY DiskIs DEF Fits, Header
<1>2. t[2] = size /\ n + 1 \in 1 .. t[2]
  BY <1>0, <1>1
<1>3. /\ f \in Disks /\ f.header = d.header /\ DOMAIN f.table = DOMAIN d.table
      /\ \A x \in DOMAIN d.table : x # t => f.table[x] = d.table[x]
      /\ f.table[t] = [d.table[t] EXCEPT ![n + 1] = row]
  <2>1. f = Written(d, WriteRow(t, n + 1, row))
    BY DEF RowAdds
  <2> HIDE DEF t, n
  <2> QED BY <1>0, <1>2, <2>1, RowWritten
<1>4. SameBut(d, f, p)
  <2>1. \A x \in DOMAIN d.table : x # <<p, size>> => f.table[x] = d.table[x]
    BY <1>3
  <2> QED BY <1>3, <2>1, SameTables
<1>5. d.table[t] \in Seq(Row) /\ Len(d.table[t]) = size
  BY <1>0, <1>2, DiskIs
<1>6. (\A k \in 1 .. n : f.table[t][k] = d.table[t][k]) /\ f.table[t][n + 1] = row
  <2> DEFINE rows == d.table[t]
             new == f.table[t]
  <2>1. n + 1 \in 1 .. Len(rows)
    BY <1>2, <1>5
  <2>4. rows \in Seq(Row) /\ n + 1 \in 1 .. Len(rows) /\ new = [rows EXCEPT ![n + 1] = row]
    BY <1>3, <1>5, <2>1
  <2> HIDE DEF rows, new, n
  <2>2. new[n + 1] = row /\ \A i \in 1 .. Len(rows) : i # n + 1 => new[i] = rows[i]
    BY <2>4
  <2>3. \A i \in 1 .. n : i \in 1 .. Len(rows) /\ i # n + 1
    BY <1>1, <2>1
  <2>5. (\A k \in 1 .. n : new[k] = rows[k]) /\ new[n + 1] = row
    BY <2>2, <2>3
  <2> QED BY <2>5 DEF rows, new
<1>8. Fits(p, h) /\ h.num = n + 1 /\ h.entries = size /\ h.name = g.name
  <2>1. h = [g EXCEPT !.num = @ + 1, !.entries = size]
    BY DEF Counting
  <2>2. n = g.num
    OBVIOUS
  <2> HIDE DEF g, n, h
  <2>3. g = [name |-> g.name, num |-> g.num, entries |-> g.entries]
    BY <1>1 DEF Header
  <2>4. g.name \in Name \cup {RootName} /\ n + 1 \in Nat
    BY <1>1 DEF Header
  <2>5. h = [name |-> g.name, num |-> n + 1, entries |-> size]
    <3>1. h = [name |-> g.name, num |-> g.num + 1, entries |-> size]
      BY <2>1, <2>3
    <3> QED BY <2>2, <3>1
  <2>6. h \in Header
    BY <2>4, <2>5 DEF Header
  <2>7. p # Root => g.name \in Name
    BY <1>1 DEF Fits
  <2> QED BY <1>0, <2>5, <2>6, <2>7 DEF Fits
<1>9. e \in Disks /\ e.header = With(f.header, p, h) /\ e.table = f.table
  <2>1. e = Written(f, WriteHeader(p, h))
    BY DEF RowAdds
  <2> HIDE DEF h
  <2> QED BY <1>1, <1>3, <1>8, <2>1, HeaderWritten
<1>10. SameBut(f, e, p) /\ e.header[p] = h
  <2>1. p \in DOMAIN f.header /\ h.name = f.header[p].name
    BY <1>3, <1>8
  <2> HIDE DEF h
  <2> QED BY <1>3, <1>9, <2>1, SameHeaders
<1>11. SameBut(d, e, p)
  BY <1>4, <1>10, SameButOn
<1>12. p \in DOMAIN e.header /\ e.header[p].num = n + 1 /\ e.header[p].entries = size
  <2>1. p \in DOMAIN e.header
    BY <1>11 DEF SameBut
  <2> HIDE DEF h, n
  <2> QED BY <1>8, <1>10, <2>1
<1>20. TableOf(e, p) = t
  BY <1>12 DEF TableOf
<1>21. TableOf(f, p) = own
  BY <1>3 DEF TableOf
<1>13. Children(f, p) = Children(d, p)
  <2>0. p \in DOMAIN f.header /\ n = f.header[p].num /\ n = d.header[p].num
    BY <1>3
  <2> HIDE DEF n, own, g
  <2>1. CASE own \notin DOMAIN d.table
    <3>1. TableOf(d, p) \notin DOMAIN d.table /\ TableOf(f, p) \notin DOMAIN f.table
      BY <1>3, <1>21, <2>1 DEF own
    <3> QED BY <3>1, Zenon DEF Children
  <2>2. CASE own \in DOMAIN d.table
    <3> DEFINE x == Children(f, p)
               y == Children(d, p)
               was == d.table[own]
               is == f.table[own]
    <3>1. y \in Seq(Row) /\ Len(y) = n /\ \A k \in 1 .. n : y[k] = was[k]
      BY <2>0, <2>2, ChildrenOf DEF own
    <3>2. own \in DOMAIN f.table /\ own = TableOf(f, p)
      BY <1>3, <1>21, <2>2
    <3>3. x \in Seq(Row) /\ Len(x) = n /\ \A k \in 1 .. n : x[k] = is[k]
      BY <1>3, <2>0, <3>2, ChildrenOf
    <3>4. \A k \in 1 .. n : is[k] = was[k]
      <4>1. CASE own = t
        <5>1. own = TableOf(d, p) /\ \A k \in 1 .. n : f.table[t][k] = d.table[t][k]
          BY <1>6 DEF own
        <5> QED BY <4>1, <5>1
      <4>2. CASE own # t
        BY <1>3, <2>2, <4>2
      <4> QED BY <4>1, <4>2
    <3> HIDE DEF x, y, was, is
    <3>5. \A k \in 1 .. n : x[k] = y[k]
      BY <3>1, <3>3, <3>4
    <3>6. x = y
      BY <3>1, <3>3, <3>5, SameRows
    <3> QED BY <3>6 DEF x, y
  <2> QED BY <2>1, <2>2
<1> DEFINE m == n + 1
           new == f.table[t]
           kids == Children(e, p)
<1>14. Len(kids) = m /\ \A k \in 1 .. m : kids[k] = new[k]
  <2>1. t \in DOMAIN e.table /\ t = TableOf(e, p) /\ m = e.header[p].num /\ e.table[t] = f.table[t]
    BY <1>0, <1>3, <1>9, <1>12, <1>20
  <2> HIDE DEF t, m
  <2> QED BY <1>9, <1>12, <2>1, ChildrenOf
<1>15. (\A k \in 1 .. n : k \in 1 .. m) /\ m \in 1 .. m
  BY <1>1
<1>16. (\A k \in 1 .. n : kids[k] = d.table[t][k]) /\ kids[m] = row
  <2>1. (\A k \in 1 .. n : new[k] = d.table[t][k]) /\ new[m] = row
    BY <1>6
  <2> HIDE DEF new, kids, m, n, t
  <2> QED BY <1>14, <1>15, <2>1
<1>17. DOMAIN e.table = DOMAIN d.table
  BY <1>3, <1>9
<1>18. Len(kids) = d.header[p].num + 1 /\ kids[d.header[p].num + 1] = row
       /\ \A k \in 1 .. d.header[p].num : kids[k] = d.table[<<p, size>>][k]
  BY <1>14, <1>16
<1> HIDE DEF h, t, n, g, m
<1> QED BY <1>3, <1>4, <1>9, <1>11, <1>12, <1>13, <1>17, <1>18

\* In a table that every header has, all children are listed.
LEMMA TightChildren ==
    ASSUME NEW d \in Disks, Tight(d), NEW p \in DOMAIN d.header
    PROVE  /\ Children(d, p) \in Seq(Row) /\ Len(Children(d, p)) = d.header[p].num
           /\ d.header[p].entries > 0 => TableOf(d, p) \in DOMAIN d.table
           /\ d.header[p].entries = 0 => TableOf(d, p) \notin DOMAIN d.table
<1>1. d.header[p].num \in Nat /\ d.header[p].entries \in Nat
      /\ d.header[p].num <= d.header[p].entries
  BY DiskIs DEF Fits, Header
<1>2. d.header[p].entries > 0 => TableOf(d, p) \in DOMAIN d.table
  BY DEF Tight, TableNames
<1>3. ASSUME d.header[p].entries = 0 PROVE TableOf(d, p) \notin DOMAIN d.table
  <2>1. \A q \in DOMAIN d.header : d.header[q].entries > 0 => TableOf(d, q) # TableOf(d, p)
    BY <1>3 DEF TableOf
  <2> QED BY <2>1 DEF Tight, TableNames
<1>4. Children(d, p) \in Seq(Row)
  BY ChildrenAre
<1>5. CASE d.header[p].entries > 0
  <2>1. Len(Children(d, p)) = d.header[p].num
    BY <1>2, <1>5, ChildrenAre
  <2> QED BY <1>2, <1>4, <1>5, <2>1
<1>6. CASE d.header[p].entries = 0
  <2>1. Children(d, p) = <<>> /\ d.header[p].num = 0
    BY <1>1, <1>3, <1>6, ChildrenAre
  <2> QED BY <1>3, <1>4, <1>6, <2>1
<1> QED BY <1>1, <1>5, <1>6

\* The table of p is the only one that came or went.
LEMMA TightAgain ==
    ASSUME NEW d \in Disks, NEW e \in Disks, Tight(d), NEW p \in DOMAIN d.header, SameBut(d, e, p),
           NEW size, size > 0, e.header[p].entries = size,
           DOMAIN e.table = (DOMAIN d.table \ {TableOf(d, p)}) \cup {<<p, size>>}
    PROVE  Tight(e)
<1>1. TableOf(e, p) = <<p, size>>
  BY DEF TableOf
<1>2. ASSUME NEW q \in DOMAIN d.header \ {p}
      PROVE  /\ TableOf(e, q) = TableOf(d, q) /\ TableOf(d, q) # TableOf(d, p)
             /\ e.header[q].entries = d.header[q].entries
  <2>1. Alike(d, e, q)
    BY DEF SameBut
  <2>2. TableOf(d, q) # TableOf(d, p)
    BY DEF TableOf
  <2> QED BY <2>1, <2>2, SameChildren DEF Alike
<1>3. DOMAIN e.header = DOMAIN d.header
  BY DEF SameBut
<1>4. \A t \in DOMAIN e.table : t \in TableNames(e)
  <2> SUFFICES ASSUME NEW t \in DOMAIN d.table, t # TableOf(d, p) PROVE t \in TableNames(e)
    BY <1>1, <1>3 DEF TableNames
  <2>1. PICK q \in DOMAIN d.header : d.header[q].entries > 0 /\ t = TableOf(d, q)
    BY DEF Tight, TableNames
  <2> QED BY <1>2, <1>3, <2>1 DEF TableNames
<1>5. ASSUME NEW q \in DOMAIN e.header, e.header[q].entries > 0
      PROVE  TableOf(e, q) \in DOMAIN e.table
  <2>1. CASE q = p
    BY <1>1, <2>1
  <2>2. CASE q # p
    <3>1. TableOf(d, q) \in DOMAIN d.table
      BY <1>2, <1>3, <1>5, <2>2 DEF Tight, TableNames
    <3> QED BY <1>2, <1>3, <2>2, <3>1
  <2> QED BY <2>1, <2>2
<1>6. \A t \in TableNames(e) : t \in DOMAIN e.table
  BY <1>5 DEF TableNames
<1> QED BY <1>4, <1>6 DEF Tight

\* The disks on the way to one more row, and the one that has it.
AddStages(d, p, row) ==
    {e \in Disks : /\ SameBut(d, e, p)
                   /\ \/ Children(e, p) = Children(d, p)
                      \/ Children(e, p) = <<>> /\ Torn(e)
                      \/ Children(e, p) = Append(Children(d, p), row)}
Added(d, e, p, row) ==
    e \in Disks /\ SameBut(d, e, p) /\ Children(e, p) = Append(Children(d, p), row) /\ Tight(e)

LEMMA SameButSelf ==
    ASSUME NEW d \in Disks, NEW p
    PROVE  SameBut(d, d, p)
BY DEF SameBut, Alike

LEMMA TwoWrites ==
    ASSUME NEW v, NEW w
    PROVE  <<v>> \o <<w>> = <<v, w>>
<1> DEFINE a == <<v>>
           b == <<w>>
           c == <<v, w>>
           S == {v, w}
<1>1. a \in Seq(S) /\ Len(a) = 1 /\ a[1] = v
  OBVIOUS
<1>2. b \in Seq(S) /\ Len(b) = 1 /\ b[1] = w
  OBVIOUS
<1>3. c \in Seq(S) /\ Len(c) = 2 /\ c[1] = v /\ c[2] = w
  OBVIOUS
<1>4. a \o b = c
  <2> HIDE DEF a, b, c, S
  <2>1. a \o b \in Seq(S) /\ Len(a \o b) = 2 /\ (a \o b)[1] = v /\ (a \o b)[2] = w
    BY <1>1, <1>2, ConcatProperties
  <2>2. \A k \in 1 .. 2 : (a \o b)[k] = c[k]
    BY <1>3, <2>1
  <2> QED BY <1>3, <2>1, <2>2
<1> QED BY <1>4

LEMMA RunsTwo ==
    ASSUME NEW G, NEW d \in G, NEW v, NEW f \in G, f = Written(d, v),
           NEW w, NEW e \in G, e = Written(f, w)
    PROVE  Runs(d, <<v, w>>, e, G)
<1>1. Runs(d, <<v>>, f, G)
  BY RunsOne
<1>2. Runs(f, <<w>>, e, G)
  BY RunsOne
<1>3. Runs(d, <<v>> \o <<w>>, e, G)
  BY <1>1, <1>2, RunsOn
<1>4. <<v>> \o <<w>> = <<v, w>>
  BY TwoWrites
<1> QED BY <1>3, <1>4

LEMMA GrownIsLarger ==
    ASSUME NEW n \in Nat, n # 1
    PROVE  Grown(n) \in Nat /\ Grown(n) > n /\ Grown(n) > 1
<1>1. CASE n = 0
  BY <1>1, TreeAssumption DEF Grown
<1>2. CASE n # 0
  <2>1. Grown(n) = (n * 3) \div 2 /\ n >= 2
    BY <1>2 DEF Grown
  <2>2. (n * 3) \div 2 \in Nat /\ (n * 3) \div 2 > n
    BY <1>2
  <2> QED BY <2>1, <2>2
<1> QED BY <1>1, <1>2

LEMMA OneMoreRow ==
    ASSUME NEW rows \in Seq(Row), NEW n, Len(rows) = n, NEW row \in Row,
           NEW more \in Seq(Row), Len(more) = n + 1, more[n + 1] = row,
           \A k \in 1 .. n : more[k] = rows[k]
    PROVE  more = Append(rows, row)
OBVIOUS

\* ADFI_add_2_sub_node_table with room in the table.
LEMMA AddsToRoom ==
    ASSUME NEW d \in Disks, Tight(d), NEW p \in DOMAIN d.header, NEW n \in Place,
           NEW name \in Name, NEW row, row = [name |-> name, node |-> n],
           d.header[p].entries > d.header[p].num
    PROVE  \E e : Added(d, e, p, row) /\ Runs(d, AddWrites(d, p, n, name), e, AddStages(d, p, row))
<1> DEFINE num == d.header[p].num
           size == d.header[p].entries
           v == WriteRow(<<p, size>>, num + 1, row)
           w == WriteHeader(p, Counting(d.header[p], size))
<1>1. num \in Nat /\ size \in Nat /\ num + 1 <= size /\ size # 1 /\ size > 0
  BY DiskIs DEF Fits, Header
<1>2. AddWrites(d, p, n, name) = <<v, w>>
  <2>1. ~ (size <= num)
    BY <1>1
  <2>2. AddWrites(d, p, n, name) = <<>> \o <<>> \o <<v, w>>
    BY <2>1 DEF AddWrites, Counting
  <2> HIDE DEF v, w
  <2> QED BY <2>2
<1>3. TableOf(d, p) = <<p, size>> /\ <<p, size>> \in DOMAIN d.table
  BY <1>1, TightChildren DEF TableOf
<1>4. row \in Row
  BY DEF Row
<1>5. PICK f : f = Written(d, v)
  OBVIOUS
<1>6. PICK e : e = Written(f, w)
  OBVIOUS
<1>7. /\ f \in Disks /\ SameBut(d, f, p) /\ Children(f, p) = Children(d, p)
      /\ e \in Disks /\ SameBut(d, e, p) /\ DOMAIN e.table = DOMAIN d.table
      /\ e.header[p].entries = size
      /\ Len(Children(e, p)) = num + 1 /\ Children(e, p)[num + 1] = row
      /\ \A k \in 1 .. num : Children(e, p)[k] = d.table[<<p, size>>][k]
  <2>1. /\ size \in Nat /\ size # 1 /\ <<p, size>> \in DOMAIN d.table
        /\ d.header[p].num + 1 <= size /\ row \in Row /\ d.header[p].entries = size
        /\ f = Written(d, WriteRow(<<p, size>>, d.header[p].num + 1, row))
        /\ e = Written(f, WriteHeader(p, Counting(d.header[p], size)))
    BY <1>1, <1>3, <1>4, <1>5, <1>6
  <2> HIDE DEF size
  <2>2. RowAdds(d, f, e, p, size, row)
    BY <2>1, Zenon DEF RowAdds
  <2> QED BY <2>1, <2>2, RowAdded
<1>8. Children(e, p) = Append(Children(d, p), row)
  <2>1. /\ Children(d, p) \in Seq(Row) /\ Len(Children(d, p)) = num
        /\ \A k \in 1 .. num : Children(d, p)[k] = d.table[<<p, size>>][k]
    BY <1>3, ChildrenOf
  <2>2. Children(e, p) \in Seq(Row)
    BY <1>7, ChildrenAre DEF SameBut
  <2>3. \A k \in 1 .. num : Children(e, p)[k] = Children(d, p)[k]
    BY <1>7, <2>1
  <2> HIDE DEF num
  <2> QED BY <1>4, <1>7, <2>1, <2>2, <2>3, OneMoreRow
<1>9. Tight(e)
  <2>1. DOMAIN e.table = (DOMAIN d.table \ {TableOf(d, p)}) \cup {<<p, size>>}
    BY <1>3, <1>7
  <2> QED BY <1>1, <1>7, <2>1, TightAgain
<1>10. d \in AddStages(d, p, row) /\ f \in AddStages(d, p, row) /\ e \in AddStages(d, p, row)
  BY <1>7, <1>8, SameButSelf DEF AddStages
<1>11. Runs(d, <<v, w>>, e, AddStages(d, p, row))
  <2> HIDE DEF v, w
  <2> QED BY <1>5, <1>6, <1>10, RunsTwo
<1> HIDE DEF v, w
<1> QED BY <1>2, <1>7, <1>8, <1>9, <1>11 DEF Added

\* A larger table is written, the old one freed before it if there was one.
GrowWrites(d, p, size, rows) ==
    (IF d.header[p].num > 0 THEN <<FreeTable(TableOf(d, p))>> ELSE <<>>)
    \o <<WriteTable(<<p, size>>, rows)>>

LEMMA TableGrows ==
    ASSUME NEW d \in Disks, Tight(d), NEW p \in DOMAIN d.header, NEW row,
           d.header[p].entries <= d.header[p].num,
           NEW size \in Nat, size > d.header[p].entries,
           NEW rows \in Seq(Row), Len(rows) = size
    PROVE  \E f : /\ Runs(d, GrowWrites(d, p, size, rows), f, AddStages(d, p, row))
                  /\ f \in Disks /\ f.header = d.header
                  /\ SameBut(d, f, p) /\ Children(f, p) = <<>> /\ (d.header[p].num = 0 \/ Torn(f))
                  /\ DOMAIN f.table = (DOMAIN d.table \ {TableOf(d, p)}) \cup {<<p, size>>}
                  /\ f.table[<<p, size>>] = rows /\ TableOf(d, p) \notin DOMAIN f.table
<1> DEFINE num == d.header[p].num
           old == TableOf(d, p)
           t == <<p, size>>
           G == AddStages(d, p, row)
<1>1. num \in Nat /\ d.header[p].entries = num /\ p \in Place
  BY DiskIs DEF Fits, Header
<1>2. /\ num > 0 => old \in DOMAIN d.table
      /\ num = 0 => old \notin DOMAIN d.table /\ Children(d, p) = <<>>
  <2>1. num = 0 => Children(d, p) = <<>>
    BY <1>1, TightChildren, ChildrenAre
  <2> QED BY <1>1, <2>1, TightChildren
<1>3. d \in G
  BY SameButSelf DEF AddStages
<1>4. \E c : /\ Runs(d, IF num > 0 THEN <<FreeTable(old)>> ELSE <<>>, c, G)
             /\ c \in Disks /\ c.header = d.header /\ SameBut(d, c, p)
             /\ DOMAIN c.table = DOMAIN d.table \ {old}
  <2>1. CASE num = 0
    <3>1. Runs(d, <<>>, d, G)
      BY <1>3, RunsNone
    <3>2. DOMAIN d.table = DOMAIN d.table \ {old}
      BY <1>2, <2>1
    <3> QED BY <2>1, <3>1, <3>2, SameButSelf
  <2>2. CASE num > 0
    <3>1. PICK c : c = Written(d, FreeTable(old))
      OBVIOUS
    <3>2. c \in Disks /\ c.header = d.header /\ c.table = Without(d.table, old)
      BY <3>1, TableFreed
    <3>3. /\ DOMAIN c.table = DOMAIN d.table \ {old}
          /\ \A x \in DOMAIN d.table : x # old => c.table[x] = d.table[x]
      BY <3>2 DEF Without, Restrict
    <3>4. SameBut(d, c, p)
      BY <3>2, <3>3, SameTables DEF TableOf
    <3>5. Children(c, p) = <<>> /\ Torn(c)
      <4>1. TableOf(c, p) = old
        BY <3>2 DEF TableOf
      <4>2. TableOf(c, p) \notin DOMAIN c.table
        BY <3>3, <4>1
      <4> QED BY <1>1, <2>2, <3>2, <4>2, ChildrenAre DEF Torn
    <3>6. c \in G
      BY <3>2, <3>4, <3>5 DEF AddStages
    <3>7. Runs(d, <<FreeTable(old)>>, c, G)
      BY <1>3, <3>1, <3>6, RunsOne
    <3> QED BY <2>2, <3>2, <3>3, <3>4, <3>7
  <2> QED BY <1>1, <2>1, <2>2
<1>5. PICK c : /\ Runs(d, IF num > 0 THEN <<FreeTable(old)>> ELSE <<>>, c, G)
               /\ c \in Disks /\ c.header = d.header /\ SameBut(d, c, p)
               /\ DOMAIN c.table = DOMAIN d.table \ {old}
  BY <1>4
<1>6. PICK f : f = Written(c, WriteTable(t, rows))
  OBVIOUS
<1>7. f \in Disks /\ f.header = c.header /\ f.table = With(c.table, t, rows)
  <2>1. t \in Place \X Nat /\ t[2] = size
    BY <1>1
  <2> HIDE DEF t
  <2> QED BY <1>5, <1>6, <2>1, TableWritten
<1>8. /\ DOMAIN f.table = (DOMAIN d.table \ {old}) \cup {t} /\ f.table[t] = rows
      /\ \A x \in DOMAIN c.table : x # t => f.table[x] = c.table[x]
  BY <1>5, <1>7 DEF With
<1>9. SameBut(d, f, p)
  <2>1. SameBut(c, f, p)
    <3>1. \A x : x # t => (x \in DOMAIN c.table <=> x \in DOMAIN f.table)
      BY <1>5, <1>8
    <3> QED BY <1>5, <1>7, <1>8, <3>1, SameTables
  <2> QED BY <1>5, <2>1, SameButOn
<1>10. old \notin DOMAIN f.table
  <2>1. old # t
    BY <1>1 DEF TableOf
  <2> QED BY <1>8, <2>1
<1>11. Children(f, p) = <<>> /\ (num = 0 \/ Torn(f))
  <2>1. TableOf(f, p) = old
    BY <1>5, <1>7 DEF TableOf
  <2>2. p \in DOMAIN f.header /\ f.header[p].entries = num
    BY <1>1, <1>5, <1>7
  <2> QED BY <1>1, <1>7, <1>10, <2>1, <2>2, ChildrenAre DEF Torn
<1>12. f \in G /\ c \in G
  <2>1. f \in G
    BY <1>2, <1>7, <1>9, <1>11 DEF AddStages
  <2>2. c \in G
    BY <1>5, RunsEnds
  <2> QED BY <2>1, <2>2
<1>13. Runs(c, <<WriteTable(t, rows)>>, f, G)
  BY <1>6, <1>12, RunsOne
<1>14. Runs(d, GrowWrites(d, p, size, rows), f, G)
  BY <1>5, <1>13, RunsOn DEF GrowWrites
<1> HIDE DEF G
<1> QED BY <1>5, <1>7, <1>8, <1>9, <1>10, <1>11, <1>14 DEF G

\* ADFI_add_2_sub_node_table with no room in the table.
LEMMA AddsToFull ==
    ASSUME NEW d \in Disks, Tight(d), NEW p \in DOMAIN d.header, NEW n \in Place,
           NEW name \in Name, NEW row, row = [name |-> name, node |-> n],
           d.header[p].entries <= d.header[p].num
    PROVE  \E e : Added(d, e, p, row) /\ Runs(d, AddWrites(d, p, n, name), e, AddStages(d, p, row))
<1> DEFINE num == d.header[p].num
           size == Grown(d.header[p].entries)
           rows == Children(d, p) \o [k \in 1 .. size - num |-> Blank]
           us == GrowWrites(d, p, size, rows)
           v == WriteRow(<<p, size>>, num + 1, row)
           w == WriteHeader(p, Counting(d.header[p], size))
           G == AddStages(d, p, row)
           t == <<p, size>>
           own == TableOf(d, p)
<1>1. num \in Nat /\ d.header[p].entries = num /\ num # 1
  BY DiskIs DEF Fits, Header
<1>2. size \in Nat /\ size > num /\ size > 1 /\ size # 1 /\ num + 1 <= size
  <2>1. Grown(num) \in Nat /\ Grown(num) > num /\ Grown(num) > 1
    BY <1>1, GrownIsLarger
  <2> QED BY <1>1, <2>1
<1>3. Children(d, p) \in Seq(Row) /\ Len(Children(d, p)) = num
  BY TightChildren
<1>4. /\ rows \in Seq(Row) /\ Len(rows) = size
      /\ \A k \in 1 .. num : rows[k] = Children(d, p)[k]
  <2> DEFINE blanks == [k \in 1 .. size - num |-> Blank]
  <2>1. Blank \in Row
    BY DEF Row, Blank
  <2>2. blanks \in Seq(Row) /\ Len(blanks) = size - num
    <3> HIDE DEF size, num
    <3> QED BY <1>1, <1>2, <2>1
  <2>3. rows = Children(d, p) \o blanks
    BY SMTT(60)
  <2> HIDE DEF rows, blanks, size, num
  <2> QED BY <1>1, <1>2, <1>3, <2>2, <2>3
<1>5. AddWrites(d, p, n, name) = us \o <<v, w>>
  <2>1. size = Grown(d.header[p].entries) /\ num = d.header[p].num
    OBVIOUS
  <2> HIDE DEF size, num
  <2>2. d.header[p].entries <= d.header[p].num
    OBVIOUS
  <2> QED BY <2>1, <2>2 DEF AddWrites, GrowWrites, Counting
<1>6. PICK c : /\ Runs(d, us, c, G) /\ c \in Disks /\ c.header = d.header
               /\ SameBut(d, c, p) /\ Children(c, p) = <<>> /\ (num = 0 \/ Torn(c))
               /\ DOMAIN c.table = (DOMAIN d.table \ {own}) \cup {t}
               /\ c.table[t] = rows /\ own \notin DOMAIN c.table
  <2>1. d.header[p].entries <= num /\ size > d.header[p].entries
    BY <1>1, <1>2
  <2> HIDE DEF size, rows
  <2> QED BY <1>2, <1>4, <2>1, TableGrows
<1>7. row \in Row
  BY DEF Row
<1>8. PICK f : f = Written(c, v)
  OBVIOUS
<1>9. PICK e : e = Written(f, w)
  OBVIOUS
<1> DEFINE kids == Children(e, p)
<1>10. /\ f \in Disks /\ SameBut(c, f, p) /\ Children(f, p) = Children(c, p)
       /\ f.header = c.header /\ DOMAIN f.table = DOMAIN c.table
       /\ e \in Disks /\ SameBut(c, e, p) /\ DOMAIN e.table = DOMAIN c.table
       /\ e.header[p].entries = size
       /\ Len(kids) = num + 1 /\ kids[num + 1] = row
       /\ \A k \in 1 .. num : kids[k] = c.table[t][k]
  <2>1. TableOf(c, p) \notin DOMAIN c.table
    <3>1. TableOf(c, p) = own
      BY <1>6 DEF TableOf
    <3> QED BY <1>6, <3>1
  <2>2. p \in DOMAIN c.header /\ c.header[p].num = num /\ c.header[p] = d.header[p]
    BY <1>6
  <2>3. RowAdds(c, f, e, p, size, row)
    <3>1. v = WriteRow(<<p, size>>, c.header[p].num + 1, row)
          /\ w = WriteHeader(p, Counting(c.header[p], size))
      BY <2>2
    <3>2. size # 1 /\ <<p, size>> \in DOMAIN c.table /\ c.header[p].num + 1 <= size
      BY <1>2, <1>6, <2>2
    <3> HIDE DEF v, w, size, num
    <3> QED BY <1>8, <1>9, <2>1, <3>1, <3>2, Zenon DEF RowAdds
  <2>4. /\ f \in Disks /\ SameBut(c, f, p) /\ Children(f, p) = Children(c, p)
        /\ f.header = c.header /\ DOMAIN f.table = DOMAIN c.table
        /\ e \in Disks /\ SameBut(c, e, p) /\ DOMAIN e.table = DOMAIN c.table
        /\ e.header[p].entries = size
        /\ Len(Children(e, p)) = c.header[p].num + 1
        /\ Children(e, p)[c.header[p].num + 1] = row
        /\ \A k \in 1 .. c.header[p].num : Children(e, p)[k] = c.table[<<p, size>>][k]
    <3> HIDE DEF v, w, us, rows, G, num, size, own, t, kids
    <3> QED BY <1>2, <1>6, <1>7, <2>2, <2>3, RowAdded
  <2> HIDE DEF size, num
  <2> QED BY <2>2, <2>4, Zenon
<1>11. SameBut(d, f, p) /\ SameBut(d, e, p)
  <2> HIDE DEF us, rows, G, t, own, num, size, kids
  <2> QED BY <1>6, <1>10, SameButOn
<1>12. kids = Append(Children(d, p), row)
  <2>1. kids \in Seq(Row)
    <3>1. p \in DOMAIN e.header
      BY <1>11 DEF SameBut
    <3> QED BY <1>10, <3>1, ChildrenAre
  <2> DEFINE old == Children(d, p)
  <2>2. \A k \in 1 .. num : kids[k] = old[k]
    <3> HIDE DEF us, G, t, own, num, rows, kids
    <3> QED BY <1>4, <1>6, <1>10
  <2>3. Len(kids) = num + 1 /\ kids[num + 1] = row
    BY <1>10
  <2> HIDE DEF num, kids
  <2> QED BY <1>3, <1>7, <2>1, <2>2, <2>3, OneMoreRow
<1>13. Tight(e)
  <2>1. size > 0
    BY <1>2
  <2>2. DOMAIN e.table = (DOMAIN d.table \ {TableOf(d, p)}) \cup {<<p, size>>}
    <3>1. DOMAIN e.table = (DOMAIN d.table \ {own}) \cup {t}
      <4> HIDE DEF us, rows, G, t, own, num, size, kids
      <4> QED BY <1>6, <1>10
    <3> QED BY <3>1
  <2> HIDE DEF size
  <2> QED BY <1>10, <1>11, <2>1, <2>2, TightAgain
<1>14. c \in G /\ f \in G /\ e \in G
  <2>1. c \in G
    <3> HIDE DEF us, rows, G, t, own, num, size
    <3> QED BY <1>6, RunsEnds
  <2>2. Children(f, p) = <<>>
    <3> HIDE DEF us, rows, G, t, own, num, size, kids
    <3> QED BY <1>6, <1>10
  <2>3. num = 0 => Children(d, p) = <<>>
    BY <1>3
  <2>4. num = 0 \/ Torn(f)
    <3>1. ASSUME num # 0 PROVE Torn(f)
      <4>0. f.header = d.header /\ own \notin DOMAIN f.table
        <5> HIDE DEF us, rows, G, t, own, num, size, kids
        <5>1. \A x : x \in DOMAIN f.table <=> x \in DOMAIN c.table
          BY <1>10
        <5> QED BY <1>6, <1>10, <5>1
      <4>1. p \in DOMAIN f.header /\ f.header[p].entries > 0
        BY <1>1, <3>1, <4>0
      <4>2. TableOf(f, p) \notin DOMAIN f.table
        BY <4>0 DEF TableOf
      <4> QED BY <4>1, <4>2, SMTT(60) DEF Torn
    <3> QED BY <3>1
  <2>5. f \in G
    <3>1. f \in Disks /\ SameBut(d, f, p)
      BY <1>10, <1>11
    <3> QED BY <2>2, <2>3, <2>4, <3>1 DEF AddStages
  <2>6. e \in G
    <3>1. e \in Disks /\ SameBut(d, e, p)
      BY <1>10, <1>11
    <3> QED BY <1>12, <3>1 DEF AddStages
  <2> QED BY <2>1, <2>5, <2>6
<1>15. Runs(c, <<v, w>>, e, G)
  <2> HIDE DEF v, w, G
  <2> QED BY SMTT(60), <1>8, <1>9, <1>14, RunsTwo
<1>16. Runs(d, us \o <<v, w>>, e, G)
  <2>1. Runs(d, us, c, G)
    BY <1>6, Zenon
  <2> HIDE DEF us, v, w, G
  <2> QED BY <1>15, <2>1, RunsOn
<1>17. e \in Disks /\ e.header[p].entries = size
  BY <1>10
<1> HIDE DEF us, v, w, size, t, own, num, rows
<1> QED BY <1>5, <1>11, <1>12, <1>13, <1>16, <1>17 DEF Added

\* ADFI_add_2_sub_node_table.
LEMMA Adds ==
    ASSUME NEW d \in Disks, Tight(d), NEW p \in DOMAIN d.header, NEW n \in Place,
           NEW name \in Name, NEW row, row = [name |-> name, node |-> n]
    PROVE  \E e : Added(d, e, p, row) /\ Runs(d, AddWrites(d, p, n, name), e, AddStages(d, p, row))
<1>1. d.header[p].num \in Nat /\ d.header[p].entries \in Nat
  BY DiskIs DEF Fits, Header
<1>2. CASE d.header[p].entries > d.header[p].num
  BY <1>2, AddsToRoom
<1>3. CASE d.header[p].entries <= d.header[p].num
  BY <1>3, AddsToFull
<1> QED BY <1>1, <1>2, <1>3

----------------------------------------------------------------------------
(* An entry is removed                                                     *)

RowOf(rows, n) == SelectInSeq(rows, LAMBDA row : row.node = n)

LEMMA FirstRow ==
    ASSUME NEW rows \in Seq(Row), NEW n, \E i \in 1 .. Len(rows) : rows[i].node = n
    PROVE  RowOf(rows, n) \in 1 .. Len(rows) /\ rows[RowOf(rows, n)].node = n
<1> DEFINE I == {i \in 1 .. Len(rows) : rows[i].node = n}
<1>1. RowOf(rows, n) = Min(I)
  BY DEF RowOf, SelectInSeq
<1>2. Min(I) \in I
  <2>1. I \in SUBSET Nat /\ I # {}
    OBVIOUS
  <2> HIDE DEF I
  <2>2. \E i \in I : \A j \in I : i <= j
    BY <2>1, LeastElement
  <2> QED BY <2>2, Zenon DEF Min
<1> QED BY <1>1, <1>2

LEMMA NoRow ==
    ASSUME NEW rows, NEW n, \A i \in 1 .. Len(rows) : rows[i].node # n
    PROVE  RowOf(rows, n) = 0
BY DEF RowOf, SelectInSeq

LEMMA RowRemoved ==
    ASSUME NEW rows \in Seq(Row), NEW k \in 1 .. Len(rows)
    PROVE  /\ RemoveAt(rows, k) \in Seq(Row) /\ Len(RemoveAt(rows, k)) = Len(rows) - 1
           /\ \A i \in 1 .. Len(rows) - 1 :
                 RemoveAt(rows, k)[i] = IF i < k THEN rows[i] ELSE rows[i + 1]
<1> DEFINE a == SubSeq(rows, 1, k - 1)
           b == SubSeq(rows, k + 1, Len(rows))
           n == Len(rows)
<1>1. n \in Nat /\ k \in 1 .. n
  OBVIOUS
<1>2. a \in Seq(Row) /\ Len(a) = k - 1 /\ \A i \in 1 .. k - 1 : a[i] = rows[i]
  OBVIOUS
<1>3. b \in Seq(Row) /\ Len(b) = n - k /\ \A i \in 1 .. n - k : b[i] = rows[k + i]
  OBVIOUS
<1>4. RemoveAt(rows, k) = a \o b
  BY DEF RemoveAt
<1> HIDE DEF a, b, n
<1>5. /\ a \o b \in Seq(Row) /\ Len(a \o b) = n - 1
      /\ \A i \in 1 .. n - 1 : (a \o b)[i] = IF i <= k - 1 THEN a[i] ELSE b[i - (k - 1)]
  <2>1. /\ a \o b \in Seq(Row) /\ Len(a \o b) = Len(a) + Len(b)
        /\ \A i \in 1 .. Len(a) + Len(b) :
              (a \o b)[i] = IF i <= Len(a) THEN a[i] ELSE b[i - Len(a)]
    BY <1>2, <1>3, ConcatProperties
  <2>2. Len(a) + Len(b) = n - 1
    BY <1>1, <1>2, <1>3
  <2> QED BY <1>2, <2>1, <2>2
<1>6. ASSUME NEW i \in 1 .. n - 1 PROVE (a \o b)[i] = IF i < k THEN rows[i] ELSE rows[i + 1]
  <2>1. CASE i < k
    <3>1. (a \o b)[i] = a[i] /\ i \in 1 .. k - 1
      BY <1>1, <1>5, <2>1
    <3>2. a[i] = rows[i]
      BY <1>2, <3>1
    <3> QED BY <2>1, <3>1, <3>2
  <2>2. CASE i >= k
    <3>1. (a \o b)[i] = b[i - (k - 1)] /\ i - (k - 1) \in 1 .. n - k /\ k + (i - (k - 1)) = i + 1
      BY <1>1, <1>5, <2>2
    <3>2. b[i - (k - 1)] = rows[i + 1]
      BY <1>3, <3>1, SMTT(60)
    <3>3. ~ (i < k)
      BY <1>1, <2>2
    <3>4. (a \o b)[i] = rows[i + 1]
      BY <3>1, <3>2
    <3> QED BY <3>3, <3>4
  <2>3. i < k \/ i >= k
    BY <1>1
  <2> QED BY <2>1, <2>2, <2>3, Zenon
<1> QED BY <1>4, <1>5, <1>6 DEF n

\* The disks on the way to one row less, and the one that has one less.
RemoveStages(d, p, k) ==
    {e \in Disks : /\ SameBut(d, e, p)
                   /\ \/ Children(e, p) = Children(d, p)
                      \/ Children(e, p) = RemoveAt(Children(d, p), k) \o <<Blank>>
                      \/ Children(e, p) = RemoveAt(Children(d, p), k)}
Removed(d, e, p, k) ==
    /\ e \in Disks /\ SameBut(d, e, p) /\ Children(e, p) = RemoveAt(Children(d, p), k) /\ Tight(e)
    /\ e.header[p].entries = d.header[p].entries

Uncounting(h) == [h EXCEPT !.num = @ - 1]
RowsWithout(d, p, k) ==
    RemoveAt(Children(d, p), k) \o <<Blank>>
    \o SubSeq(d.table[TableOf(d, p)], d.header[p].num + 1, d.header[p].entries)

LEMMA RowsWithoutAre ==
    ASSUME NEW d \in Disks, Tight(d), NEW p \in DOMAIN d.header,
           NEW k \in 1 .. Len(Children(d, p)), NEW num, num = d.header[p].num
    PROVE  /\ RowsWithout(d, p, k) \in Seq(Row)
           /\ Len(RowsWithout(d, p, k)) = d.header[p].entries
           /\ \A i \in 1 .. num :
                 RowsWithout(d, p, k)[i] = (RemoveAt(Children(d, p), k) \o <<Blank>>)[i]
           /\ RemoveAt(Children(d, p), k) \o <<Blank>> \in Seq(Row)
           /\ Len(RemoveAt(Children(d, p), k) \o <<Blank>>) = num
           /\ \A i \in 1 .. num - 1 :
                 (RemoveAt(Children(d, p), k) \o <<Blank>>)[i] = RemoveAt(Children(d, p), k)[i]
           /\ (RemoveAt(Children(d, p), k) \o <<Blank>>)[num] = Blank
<1> DEFINE rows == Children(d, p)
           size == d.header[p].entries
           less == RemoveAt(rows, k)
           hole == less \o <<Blank>>
           unused == SubSeq(d.table[TableOf(d, p)], num + 1, size)
<1>1. num \in Nat /\ size \in Nat /\ num <= size
  BY DiskIs DEF Fits, Header
<1>2. rows \in Seq(Row) /\ Len(rows) = num /\ k \in 1 .. num /\ size > 0
  <2>1. rows \in Seq(Row) /\ Len(rows) = num
    BY TightChildren
  <2> QED BY <1>1, <2>1
<1>3. less \in Seq(Row) /\ Len(less) = num - 1
  BY <1>2, RowRemoved
<1>4. /\ hole \in Seq(Row) /\ Len(hole) = num /\ hole[num] = Blank
      /\ \A i \in 1 .. num - 1 : hole[i] = less[i]
  <2>1. hole = Append(less, Blank)
    BY <1>3
  <2>2. Blank \in Row
    BY DEF Row, Blank
  <2> HIDE DEF less, hole, rows
  <2> QED BY <1>1, <1>2, <1>3, <2>1, <2>2, SMTT(60)
<1>5. unused \in Seq(Row) /\ Len(unused) = size - num
  <2>1. d.table[TableOf(d, p)] \in Seq(Row) /\ Len(d.table[TableOf(d, p)]) = size
    BY <1>2, TightChildren, DiskIs DEF TableOf
  <2> HIDE DEF size
  <2> QED BY <1>1, <2>1, SMTT(60)
<1>6. RowsWithout(d, p, k) = hole \o unused
  BY DEF RowsWithout
<1>7. /\ hole \o unused \in Seq(Row) /\ Len(hole \o unused) = size
      /\ \A i \in 1 .. num : (hole \o unused)[i] = hole[i]
  <2> HIDE DEF hole, unused, size
  <2>1. /\ hole \o unused \in Seq(Row) /\ Len(hole \o unused) = Len(hole) + Len(unused)
        /\ \A i \in 1 .. Len(hole) + Len(unused) :
              (hole \o unused)[i] = IF i <= Len(hole) THEN hole[i] ELSE unused[i - Len(hole)]
    BY <1>4, <1>5, ConcatProperties
  <2>2. Len(hole) + Len(unused) = size
    BY <1>1, <1>4, <1>5
  <2>3. \A i \in 1 .. num : i \in 1 .. size /\ i <= Len(hole)
    BY <1>1, <1>4
  <2> QED BY <2>1, <2>2, <2>3
<1> DEFINE all == RowsWithout(d, p, k)
<1>8. all \in Seq(Row) /\ Len(all) = size /\ \A i \in 1 .. num : all[i] = hole[i]
  <2> HIDE DEF hole, unused, size, all
  <2> QED BY <1>6, <1>7 DEF all
<1> QED BY <1>4, <1>8, Zenon

\* The table is written without the row, and the header that counts one less.
LEMMA RowTakenOut ==
    ASSUME NEW d \in Disks, Tight(d), NEW p \in DOMAIN d.header, NEW k \in 1 .. Len(Children(d, p)),
           NEW f, f = Written(d, WriteTable(TableOf(d, p), RowsWithout(d, p, k))),
           NEW e, e = Written(f, WriteHeader(p, Uncounting(d.header[p])))
    PROVE  f \in RemoveStages(d, p, k) /\ Removed(d, e, p, k)
<1> DEFINE num == d.header[p].num
           size == d.header[p].entries
           t == TableOf(d, p)
           rows == RowsWithout(d, p, k)
           less == RemoveAt(Children(d, p), k)
           hole == less \o <<Blank>>
           h == Uncounting(d.header[p])
<1>1. /\ num \in Nat /\ size \in Nat /\ num <= size /\ size # 1 /\ p \in Place
      /\ d.header[p] \in Header /\ (p # Root => d.header[p].name \in Name)
  BY DiskIs DEF Fits, Header
<1>2. Children(d, p) \in Seq(Row) /\ Len(Children(d, p)) = num /\ num > 0 /\ k \in 1 .. num
  <2>1. Children(d, p) \in Seq(Row) /\ Len(Children(d, p)) = num
    BY TightChildren
  <2> QED BY <1>1, <2>1
<1>3. t \in DOMAIN d.table
  BY <1>1, <1>2, TightChildren
<1>4. /\ rows \in Seq(Row) /\ Len(rows) = size
      /\ \A i \in 1 .. num : rows[i] = hole[i]
      /\ hole \in Seq(Row) /\ Len(hole) = num
      /\ \A i \in 1 .. num - 1 : hole[i] = less[i]
  <2> HIDE DEF rows, hole, less, num
  <2> QED BY RowsWithoutAre DEF rows, hole, less, num
<1>5. less \in Seq(Row) /\ Len(less) = num - 1
  BY <1>2, RowRemoved
<1> HIDE DEF rows, hole, less
<1>6. f \in Disks /\ f.header = d.header /\ f.table = With(d.table, t, rows)
  <2>1. t \in Place \X Nat /\ t[2] = size
    BY <1>1 DEF TableOf
  <2>2. f = Written(d, WriteTable(t, rows))
    BY DEF rows
  <2> HIDE DEF t, size
  <2> QED BY <1>4, <2>1, <2>2, TableWritten
<1>7. /\ DOMAIN f.table = DOMAIN d.table /\ f.table[t] = rows
      /\ \A x \in DOMAIN d.table : x # t => f.table[x] = d.table[x]
  BY <1>3, <1>6 DEF With
<1>8. SameBut(d, f, p)
  <2>1. t = <<p, size>>
    BY DEF TableOf
  <2> HIDE DEF t, size
  <2> QED BY <1>6, <1>7, <2>1, SameTables
<1>9. Children(f, p) = hole
  <2>1. p \in DOMAIN f.header /\ t \in DOMAIN f.table /\ t = TableOf(f, p) /\ num = f.header[p].num
    BY <1>3, <1>6, <1>7 DEF TableOf
  <2> HIDE DEF t, num
  <2>2. /\ Children(f, p) \in Seq(Row) /\ Len(Children(f, p)) = num
        /\ \A i \in 1 .. num : Children(f, p)[i] = f.table[t][i]
    BY <1>6, <2>1, ChildrenOf
  <2>3. \A i \in 1 .. num : Children(f, p)[i] = hole[i]
    BY <1>4, <1>7, <2>2
  <2> QED BY <1>4, <2>2, <2>3, SameRows
<1>10. Fits(p, h) /\ h.num = num - 1 /\ h.entries = size /\ h.name = d.header[p].name
  <2> DEFINE g == d.header[p]
  <2>1. /\ g \in Header /\ h = [g EXCEPT !.num = @ - 1] /\ g.num = num /\ g.entries = size
    BY <1>1 DEF Uncounting
  <2> HIDE DEF g, h, num, size
  <2>2. g = [name |-> g.name, num |-> num, entries |-> size]
    BY <2>1 DEF Header
  <2>3. h = [name |-> g.name, num |-> num - 1, entries |-> size]
    BY <2>1, <2>2
  <2>4. h \in Header
    <3>1. g.name \in Name \cup {RootName} /\ num - 1 \in Nat
      BY <1>1, <1>2, <2>1 DEF Header
    <3> QED BY <1>1, <2>3, <3>1 DEF Header
  <2>5. h.num <= h.entries /\ h.entries # 1
    BY <1>1, <2>3
  <2>6. h.name = d.header[p].name
    BY <2>3 DEF g
  <2> QED BY <1>1, <2>3, <2>4, <2>5, <2>6 DEF Fits
<1>11. e \in Disks /\ e.header = With(f.header, p, h) /\ e.table = f.table
  <2> HIDE DEF h
  <2> QED BY <1>1, <1>6, <1>10, HeaderWritten DEF h
<1>12. SameBut(f, e, p) /\ e.header[p] = h
  <2> HIDE DEF h
  <2>1. p \in DOMAIN f.header /\ h.name = f.header[p].name
    BY <1>6, <1>10
  <2> QED BY <1>6, <1>11, <2>1, SameHeaders
<1>13. SameBut(d, e, p)
  BY <1>8, <1>12, SameButOn
<1>14. Children(e, p) = less
  <2> HIDE DEF h
  <2> DEFINE m == num - 1
  <2>1. /\ p \in DOMAIN e.header /\ t \in DOMAIN e.table /\ t = TableOf(e, p) /\ m = e.header[p].num
    <3>1. p \in DOMAIN e.header
      BY <1>13 DEF SameBut
    <3>2. t \in DOMAIN e.table
      BY <1>3, <1>7, <1>11
    <3>3. e.header[p].num = num - 1 /\ e.header[p].entries = size
      <4> HIDE DEF num, size
      <4> QED BY <1>10, <1>12
    <3>4. t = <<p, size>>
      BY DEF TableOf
    <3>5. t = TableOf(e, p)
      <4> HIDE DEF t, size
      <4> QED BY <3>3, <3>4 DEF TableOf
    <3> HIDE DEF t, num
    <3> QED BY <3>1, <3>2, <3>3, <3>5
  <2>4. \A i \in 1 .. m : i \in 1 .. num
    BY <1>1
  <2>6. \A i \in 1 .. m : rows[i] = less[i]
    BY <1>4, <2>4
  <2>5. Len(less) = m
    BY <1>5
  <2> HIDE DEF t, num, m
  <2>2. /\ Children(e, p) \in Seq(Row) /\ Len(Children(e, p)) = m
        /\ \A i \in 1 .. m : Children(e, p)[i] = e.table[t][i]
    BY <1>11, <2>1, ChildrenOf
  <2>3. \A i \in 1 .. m : Children(e, p)[i] = less[i]
    BY <1>7, <1>11, <2>2, <2>6
  <2> QED BY <1>5, <2>2, <2>3, <2>5, SameRows, SMTT(60)
<1>15. e.header[p].entries = size
  BY <1>10, <1>12
<1>16. Tight(e)
  <2>1. size > 0 /\ t = <<p, size>>
    BY <1>1, <1>2 DEF TableOf
  <2>2. DOMAIN e.table = (DOMAIN d.table \ {t}) \cup {<<p, size>>}
    BY <1>3, <1>7, <1>11, <2>1
  <2> HIDE DEF size
  <2> QED BY <1>11, <1>13, <1>15, <2>1, <2>2, TightAgain
<1> QED BY <1>6, <1>8, <1>9, <1>11, <1>13, <1>14, <1>15, <1>16 DEF RemoveStages, Removed, hole, less

\* ADFI_delete_from_sub_node_table.
LEMMA Removes ==
    ASSUME NEW d \in Disks, Tight(d), NEW p \in DOMAIN d.header, NEW n, n \in Kids(d, p)
    PROVE  /\ RemoveWrites(d, p, n) # <<>>
           /\ \E e : \E k \in 1 .. Len(Children(d, p)) :
                 /\ Children(d, p)[k].node = n /\ Removed(d, e, p, k)
                 /\ Runs(d, RemoveWrites(d, p, n), e, RemoveStages(d, p, k))
<1> DEFINE rows == Children(d, p)
<1>1. PICK k : k = RowOf(rows, n)
  OBVIOUS
<1>2. rows \in Seq(Row)
  BY ChildrenAre
<1>3. \E i \in 1 .. Len(rows) : rows[i].node = n
  <2>1. \E i \in DOMAIN rows : rows[i].node = n
    BY KidsAre
  <2> QED BY <1>2, <2>1
<1>4. k \in 1 .. Len(rows) /\ rows[k].node = n /\ k # 0
  <2> HIDE DEF rows
  <2>1. k \in 1 .. Len(rows) /\ rows[k].node = n
    BY <1>1, <1>2, <1>3, FirstRow
  <2>2. Len(rows) \in Nat
    BY <1>2
  <2> QED BY <2>1, <2>2
<1> DEFINE v == WriteTable(TableOf(d, p), RowsWithout(d, p, k))
           w == WriteHeader(p, Uncounting(d.header[p]))
<1>5. RemoveWrites(d, p, n) = <<v, w>>
  BY <1>1, <1>4 DEF RemoveWrites, RowOf, RowsWithout, Uncounting
<1>6. PICK f : f = Written(d, v)
  OBVIOUS
<1>7. PICK e : e = Written(f, w)
  OBVIOUS
<1>8. f \in RemoveStages(d, p, k) /\ Removed(d, e, p, k)
  <2> HIDE DEF rows
  <2> QED BY <1>4, <1>6, <1>7, RowTakenOut DEF rows
<1>9. d \in RemoveStages(d, p, k) /\ e \in RemoveStages(d, p, k)
  BY <1>8, SameButSelf DEF RemoveStages, Removed
<1> HIDE DEF v, w
<1>10. Runs(d, <<v, w>>, e, RemoveStages(d, p, k))
  BY <1>6, <1>7, <1>8, <1>9, RunsTwo
<1>11. <<v, w>> # <<>>
  OBVIOUS
<1> QED BY <1>4, <1>5, <1>8, <1>10, <1>11

LEMMA RemovesNothing ==
    ASSUME NEW d \in Disks, NEW p \in DOMAIN d.header, NEW n, n \notin Kids(d, p)
    PROVE  RemoveWrites(d, p, n) = <<>>
<1> DEFINE rows == Children(d, p)
<1>1. PICK k : k = RowOf(rows, n)
  OBVIOUS
<1>2. rows \in Seq(Row)
  BY ChildrenAre
<1>3. \A i \in 1 .. Len(rows) : rows[i].node # n
  <2>1. \A i \in DOMAIN rows : rows[i].node # n
    BY KidsAre
  <2> QED BY <1>2, <2>1
<1>4. k = 0
  <2> HIDE DEF rows
  <2> QED BY <1>1, <1>3, NoRow
<1> QED BY <1>1, <1>4 DEF RemoveWrites, RowOf

----------------------------------------------------------------------------
(* Nodes and names in the rows of a list                                   *)

Nodes(rows) == {rows[k].node : k \in DOMAIN rows}
Distinct(rows) == \A i, j \in DOMAIN rows : Clash(rows[i], rows[j]) => i = j
DistinctBut(rows, k) ==
    \A i, j \in DOMAIN rows : i # k /\ j # k /\ Clash(rows[i], rows[j]) => i = j
RightlyNamed(d, rows) == \A k \in DOMAIN rows : rows[k].name = d.header[rows[k].node].name

\* Every row is unused or names one of S.
There(rows, S) == \A k \in DOMAIN rows : rows[k] = Blank \/ rows[k].node \in S

LEMMA KidsAreNodes ==
    ASSUME NEW d \in Disks, NEW p \in DOMAIN d.header
    PROVE  Kids(d, p) = Nodes(Children(d, p))
BY KidsAre DEF Nodes

LEMMA RowAppended ==
    ASSUME NEW rows \in Seq(Row), NEW row \in Row, NEW more, more = Append(rows, row)
    PROVE  /\ Nodes(more) = Nodes(rows) \cup {row.node}
           /\ \A S : There(rows, S) /\ row.node \in S => There(more, S)
           /\ \A d : RightlyNamed(d, rows) /\ row.name = d.header[row.node].name =>
                        RightlyNamed(d, more)
           /\ Distinct(rows) /\ (\A k \in DOMAIN rows : ~ Clash(rows[k], row)) => Distinct(more)
<1> DEFINE n == Len(rows)
<1>1. n \in Nat /\ DOMAIN rows = 1 .. n
  OBVIOUS
<1>2. /\ DOMAIN more = 1 .. n + 1 /\ more[n + 1] = row
      /\ \A k \in 1 .. n : more[k] = rows[k]
  OBVIOUS
<1> HIDE DEF n
<1>3. /\ \A k \in DOMAIN rows : k \in DOMAIN more /\ more[k] = rows[k]
      /\ n + 1 \in DOMAIN more /\ n + 1 \notin DOMAIN rows
      /\ \A k \in DOMAIN more : k = n + 1 \/ k \in DOMAIN rows
  BY <1>1, <1>2
<1>4. Nodes(more) = Nodes(rows) \cup {row.node}
  BY <1>2, <1>3 DEF Nodes
<1>5. \A S : There(rows, S) /\ row.node \in S => There(more, S)
  BY <1>2, <1>3 DEF There
<1>6. \A d : RightlyNamed(d, rows) /\ row.name = d.header[row.node].name => RightlyNamed(d, more)
  BY <1>2, <1>3 DEF RightlyNamed
<1>7. ASSUME Distinct(rows), \A k \in DOMAIN rows : ~ Clash(rows[k], row) PROVE Distinct(more)
  <2>1. \A k \in DOMAIN rows : ~ Clash(row, rows[k])
    BY <1>7 DEF Clash
  <2> QED BY <1>2, <1>3, <1>7, <2>1 DEF Distinct
<1> QED BY <1>4, <1>5, <1>6, <1>7

\* A row of what is left was another row than k, and all others are left.
LEMMA RowsLeft ==
    ASSUME NEW rows \in Seq(Row), NEW k \in 1 .. Len(rows), NEW less, less = RemoveAt(rows, k)
    PROVE  /\ less \in Seq(Row)
           /\ \A i \in DOMAIN less : \E j \in DOMAIN rows : j # k /\ less[i] = rows[j]
           /\ \A j \in DOMAIN rows : j # k => \E i \in DOMAIN less : less[i] = rows[j]
           /\ DistinctBut(rows, k) => Distinct(less)
<1> DEFINE n == Len(rows)
           at(i) == IF i < k THEN i ELSE i + 1
<1>1. n \in Nat /\ DOMAIN rows = 1 .. n /\ k \in 1 .. n
  OBVIOUS
<1>2. /\ less \in Seq(Row) /\ DOMAIN less = 1 .. n - 1
      /\ \A i \in 1 .. n - 1 : less[i] = IF i < k THEN rows[i] ELSE rows[i + 1]
  <2>1. /\ less \in Seq(Row) /\ Len(less) = n - 1
        /\ \A i \in 1 .. n - 1 : less[i] = IF i < k THEN rows[i] ELSE rows[i + 1]
    BY RowRemoved
  <2> HIDE DEF n
  <2> QED BY <2>1
<1> HIDE DEF n
<1>3. \A i \in DOMAIN less : at(i) \in DOMAIN rows /\ at(i) # k /\ less[i] = rows[at(i)]
  BY <1>1, <1>2
<1>4. ASSUME NEW j \in DOMAIN rows, j # k PROVE \E i \in DOMAIN less : less[i] = rows[j]
  <2>1. CASE j < k
    <3>1. j \in DOMAIN less /\ less[j] = rows[j]
      BY <1>1, <1>2, <2>1
    <3> QED BY <3>1
  <2>2. CASE j > k
    <3>1. j - 1 \in DOMAIN less /\ ~ (j - 1 < k) /\ (j - 1) + 1 = j
      BY <1>1, <1>2, <2>2
    <3>2. less[j - 1] = rows[j]
      BY <1>2, <3>1
    <3> QED BY <3>1, <3>2
  <2>3. j < k \/ j > k
    BY <1>1, <1>4
  <2> QED BY <2>1, <2>2, <2>3
<1>5. ASSUME DistinctBut(rows, k) PROVE Distinct(less)
  <2> SUFFICES ASSUME NEW i \in DOMAIN less, NEW j \in DOMAIN less, Clash(less[i], less[j])
               PROVE  i = j
    BY DEF Distinct
  <2>1. at(i) = at(j)
    <3> HIDE DEF at
    <3> QED BY <1>3, <1>5 DEF DistinctBut
  <2> QED BY <1>1, <1>2, <2>1
<1> HIDE DEF at
<1> QED BY <1>2, <1>3, <1>4, <1>5

LEMMA RowLeft ==
    ASSUME NEW rows \in Seq(Row), NEW k \in 1 .. Len(rows), NEW less, less = RemoveAt(rows, k)
    PROVE  /\ Nodes(less) \subseteq Nodes(rows)
           /\ Nodes(rows) \subseteq Nodes(less) \cup {rows[k].node}
           /\ \A S : There(rows, S) => There(less, S)
           /\ \A d : RightlyNamed(d, rows) => RightlyNamed(d, less)
           /\ Distinct(rows) => Distinct(less)
<1>1. /\ \A i \in DOMAIN less : \E j \in DOMAIN rows : j # k /\ less[i] = rows[j]
      /\ \A j \in DOMAIN rows : j # k => \E i \in DOMAIN less : less[i] = rows[j]
  BY RowsLeft
<1>2. Nodes(less) \subseteq Nodes(rows) /\ Nodes(rows) \subseteq Nodes(less) \cup {rows[k].node}
  BY <1>1 DEF Nodes
<1>3. \A S : There(rows, S) => There(less, S)
  BY <1>1 DEF There
<1>4. \A d : RightlyNamed(d, rows) => RightlyNamed(d, less)
  BY <1>1 DEF RightlyNamed
<1>5. ASSUME Distinct(rows) PROVE Distinct(less)
  <2>1. DistinctBut(rows, k)
    BY <1>5 DEF Distinct, DistinctBut
  <2> QED BY <2>1, RowsLeft
<1> QED BY <1>2, <1>3, <1>4, <1>5

\* Of rows with different nodes the removed one is gone, of one that is there twice the other stays.
LEMMA NodeLeft ==
    ASSUME NEW rows \in Seq(Row), NEW k \in 1 .. Len(rows), NEW less, less = RemoveAt(rows, k)
    PROVE  /\ (\A j \in DOMAIN rows : rows[j].node = rows[k].node => j = k) =>
                 Nodes(less) = Nodes(rows) \ {rows[k].node}
           /\ (\E j \in DOMAIN rows : j # k /\ rows[j].node = rows[k].node) =>
                 Nodes(less) = Nodes(rows)
<1>1. /\ \A i \in DOMAIN less : \E j \in DOMAIN rows : j # k /\ less[i] = rows[j]
      /\ \A j \in DOMAIN rows : j # k => \E i \in DOMAIN less : less[i] = rows[j]
      /\ k \in DOMAIN rows
  BY RowsLeft
<1>2. ASSUME \A j \in DOMAIN rows : rows[j].node = rows[k].node => j = k
      PROVE  Nodes(less) = Nodes(rows) \ {rows[k].node}
  BY <1>1, <1>2 DEF Nodes
<1>3. ASSUME NEW j \in DOMAIN rows, j # k, rows[j].node = rows[k].node
      PROVE  Nodes(less) = Nodes(rows)
  BY <1>1, <1>3, SMTT(60) DEF Nodes
<1> QED BY <1>2, <1>3

LEMMA HoleLeft ==
    ASSUME NEW rows \in Seq(Row), NEW more, more = rows \o <<Blank>>
    PROVE  /\ Nodes(more) = Nodes(rows) \cup {0}
           /\ \A S : There(rows, S) => There(more, S)
<1>1. Blank \in Row /\ Blank.node = 0
  BY DEF Row, Blank
<1>2. more = Append(rows, Blank)
  BY <1>1
<1> DEFINE n == Len(rows)
<1>3. n \in Nat /\ DOMAIN rows = 1 .. n
  OBVIOUS
<1>4. /\ DOMAIN more = 1 .. n + 1 /\ more[n + 1] = Blank
      /\ \A k \in 1 .. n : more[k] = rows[k]
  BY <1>1, <1>2
<1> HIDE DEF n
<1>5. /\ \A k \in DOMAIN rows : k \in DOMAIN more /\ more[k] = rows[k]
      /\ n + 1 \in DOMAIN more
      /\ \A k \in DOMAIN more : k = n + 1 \/ k \in DOMAIN rows
  BY <1>3, <1>4
<1>6. Nodes(more) = Nodes(rows) \cup {0}
  BY <1>1, <1>4, <1>5 DEF Nodes
<1>7. \A S : There(rows, S) => There(more, S)
  BY <1>4, <1>5 DEF There
<1> QED BY <1>6, <1>7

----------------------------------------------------------------------------
(* What the disks on the way list                                          *)

RowsThere(d) == \A p \in DOMAIN d.header : There(Children(d, p), DOMAIN d.header)

\* Only the rows of p are others.
LEMMA OtherRows ==
    ASSUME NEW d \in Disks, NEW e \in Disks, NEW p \in DOMAIN d.header, SameBut(d, e, p)
    PROVE  /\ DOMAIN e.header = DOMAIN d.header
           /\ \A q \in DOMAIN d.header : e.header[q].name = d.header[q].name
           /\ \A q \in DOMAIN d.header : q # p =>
                 /\ Children(e, q) = Children(d, q) /\ Kids(e, q) = Kids(d, q)
                 /\ TableOf(e, q) = TableOf(d, q)
           /\ Kids(d, p) = Nodes(Children(d, p)) /\ Kids(e, p) = Nodes(Children(e, p))
<1>1. DOMAIN e.header = DOMAIN d.header
  BY DEF SameBut
<1>2. \A q \in DOMAIN d.header : e.header[q].name = d.header[q].name
  BY DEF SameBut
<1>3. ASSUME NEW q \in DOMAIN d.header, q # p
      PROVE  /\ Children(e, q) = Children(d, q) /\ Kids(e, q) = Kids(d, q)
             /\ TableOf(e, q) = TableOf(d, q)
  <2>1. Alike(d, e, q)
    BY <1>3 DEF SameBut
  <2> QED BY <2>1, SameChildren
<1>4. Kids(d, p) = Nodes(Children(d, p)) /\ Kids(e, p) = Nodes(Children(e, p))
  BY <1>1, KidsAreNodes
<1> QED BY <1>1, <1>2, <1>3, <1>4

LEMMA OthersThere ==
    ASSUME NEW d \in Disks, NEW e \in Disks, NEW p \in DOMAIN d.header, SameBut(d, e, p),
           RowsThere(d), There(Children(e, p), DOMAIN d.header)
    PROVE  RowsThere(e)
<1>1. DOMAIN e.header = DOMAIN d.header
  BY OtherRows
<1>2. \A q \in DOMAIN d.header : q # p => Children(e, q) = Children(d, q)
  BY OtherRows
<1> QED BY <1>1, <1>2 DEF RowsThere

LEMMA AddStagesAre ==
    ASSUME NEW d \in Disks, RowsThere(d), NEW p \in DOMAIN d.header,
           NEW row \in Row, row.node \in DOMAIN d.header, NEW e \in AddStages(d, p, row)
    PROVE  /\ e \in Disks /\ DOMAIN e.header = DOMAIN d.header /\ RowsThere(e)
           /\ Torn(e) \/ \A q \in DOMAIN d.header : Kids(d, q) \subseteq Kids(e, q)
<1>1. /\ e \in Disks /\ SameBut(d, e, p)
      /\ \/ Children(e, p) = Children(d, p)
         \/ Children(e, p) = <<>> /\ Torn(e)
         \/ Children(e, p) = Append(Children(d, p), row)
  BY DEF AddStages
<1>2. Children(d, p) \in Seq(Row) /\ There(Children(d, p), DOMAIN d.header)
  BY ChildrenAre DEF RowsThere
<1>3. There(Children(e, p), DOMAIN d.header)
  <2>1. There(<<>>, DOMAIN d.header)
    BY DEF There
  <2>2. There(Append(Children(d, p), row), DOMAIN d.header)
    BY <1>2, RowAppended
  <2> QED BY <1>1, <1>2, <2>1, <2>2
<1>4. RowsThere(e) /\ DOMAIN e.header = DOMAIN d.header
  BY <1>1, <1>3, OthersThere, OtherRows
<1>5. ASSUME ~ Torn(e) PROVE \A q \in DOMAIN d.header : Kids(d, q) \subseteq Kids(e, q)
  <2>1. Kids(d, p) \subseteq Kids(e, p)
    <3>1. Nodes(Append(Children(d, p), row)) = Nodes(Children(d, p)) \cup {row.node}
      BY <1>2, RowAppended
    <3>2. Kids(d, p) = Nodes(Children(d, p)) /\ Kids(e, p) = Nodes(Children(e, p))
      BY <1>1, OtherRows
    <3> QED BY <1>1, <1>5, <3>1, <3>2
  <2>2. \A q \in DOMAIN d.header : q # p => Kids(e, q) = Kids(d, q)
    BY <1>1, OtherRows
  <2> QED BY <2>1, <2>2
<1> QED BY <1>1, <1>4, <1>5

LEMMA RemoveStagesAre ==
    ASSUME NEW d \in Disks, RowsThere(d), NEW p \in DOMAIN d.header,
           NEW k \in 1 .. Len(Children(d, p)), NEW e \in RemoveStages(d, p, k),
           NEW n, n = Children(d, p)[k].node
    PROVE  /\ e \in Disks /\ DOMAIN e.header = DOMAIN d.header /\ RowsThere(e)
           /\ \A q \in DOMAIN d.header : Kids(d, q) \subseteq Kids(e, q) \cup {n}
           /\ \A q \in DOMAIN d.header : q # p => Kids(e, q) = Kids(d, q)
           /\ (\E j \in DOMAIN Children(d, p) : j # k /\ Children(d, p)[j].node = n) =>
                 Kids(d, p) \subseteq Kids(e, p)
<1> DEFINE rows == Children(d, p)
           less == RemoveAt(rows, k)
           hole == less \o <<Blank>>
<1>1. /\ e \in Disks /\ SameBut(d, e, p)
      /\ Children(e, p) = rows \/ Children(e, p) = hole \/ Children(e, p) = less
  BY DEF RemoveStages
<1>2. rows \in Seq(Row) /\ There(rows, DOMAIN d.header)
  BY ChildrenAre DEF RowsThere
<1>3. less \in Seq(Row) /\ There(less, DOMAIN d.header) /\ Nodes(rows) \subseteq Nodes(less) \cup {n}
  <2> HIDE DEF rows
  <2>1. less \in Seq(Row)
    BY <1>2, RowRemoved DEF rows
  <2>2. There(less, DOMAIN d.header) /\ Nodes(rows) \subseteq Nodes(less) \cup {rows[k].node}
    BY <1>2, RowLeft DEF rows
  <2>3. n = rows[k].node
    BY DEF rows
  <2> QED BY <2>1, <2>2, <2>3
<1>4. (\E j \in DOMAIN rows : j # k /\ rows[j].node = n) => Nodes(less) = Nodes(rows)
  <2>1. rows \in Seq(Row) /\ k \in 1 .. Len(rows) /\ n = rows[k].node
    BY <1>2
  <2> HIDE DEF rows
  <2> QED BY <2>1, NodeLeft
<1> HIDE DEF less
<1>5. There(hole, DOMAIN d.header) /\ Nodes(hole) = Nodes(less) \cup {0}
  BY <1>3, HoleLeft
<1> HIDE DEF hole
<1>6. There(Children(e, p), DOMAIN d.header)
  BY <1>1, <1>2, <1>3, <1>5
<1>7. RowsThere(e) /\ DOMAIN e.header = DOMAIN d.header
  BY <1>1, <1>6, OthersThere, OtherRows
<1>8. Kids(d, p) = Nodes(rows) /\ Kids(e, p) = Nodes(Children(e, p))
  BY <1>1, OtherRows
<1>9. \A q \in DOMAIN d.header : q # p => Kids(e, q) = Kids(d, q)
  BY <1>1, OtherRows
<1> HIDE DEF rows
<1>10. Kids(d, p) \subseteq Kids(e, p) \cup {n}
  BY <1>1, <1>3, <1>5, <1>8
<1>11. (\E j \in DOMAIN rows : j # k /\ rows[j].node = n) => Kids(d, p) \subseteq Kids(e, p)
  BY <1>1, <1>4, <1>5, <1>8
<1>12. \A q \in DOMAIN d.header : Kids(d, q) \subseteq Kids(e, q) \cup {n}
  BY <1>9, <1>10
<1> QED BY <1>1, <1>7, <1>9, <1>11, <1>12 DEF rows

\* The disks a call may leave behind when the nodes up to m were made and those of X may be lost.
Fit(m, X) ==
    {d \in Disks : /\ DOMAIN d.header \subseteq 1 .. m /\ RowsThere(d)
                   /\ Torn(d) \/ DOMAIN d.header \ X \subseteq Below(d, Root)}

LEMMA SoundRows ==
    ASSUME NEW d \in Disks, Sound(d)
    PROVE  RowsThere(d) /\ Tight(d)
<1>1. Tight(d)
  BY DEF Sound, Tight
<1>2. ASSUME NEW p \in DOMAIN d.header PROVE There(Children(d, p), DOMAIN d.header)
  <2>1. Nodes(Children(d, p)) \subseteq DOMAIN d.header
    BY KidsAreNodes DEF Sound, ListsNodes
  <2> QED BY <2>1 DEF There, Nodes
<1> QED BY <1>1, <1>2 DEF RowsThere

LEMMA SoundFits ==
    ASSUME NEW d \in Disks, Sound(d), NEW m, DOMAIN d.header \subseteq 1 .. m, NEW X
    PROVE  d \in Fit(m, X)
BY SoundRows DEF Fit, Sound, Rooted

LEMMA WellNamedIs ==
    ASSUME NEW d, NEW p
    PROVE  WellNamed(d, p) <=> RightlyNamed(d, Children(d, p)) /\ Distinct(Children(d, p))
BY DEF WellNamed, RightlyNamed, Distinct

\* A list that is not written keeps its names.
LEMMA NamesKept ==
    ASSUME NEW d, NEW e, NEW q, Sound(d), q \in DOMAIN d.header, Children(e, q) = Children(d, q),
           d \in Disks, \A x \in Kids(d, q) : e.header[x].name = d.header[x].name
    PROVE  WellNamed(e, q)
<1>1. WellNamed(d, q)
  BY DEF Sound
<1>2. \A k \in DOMAIN Children(d, q) : Children(d, q)[k].node \in Kids(d, q)
  BY KidsAre
<1> QED BY <1>1, <1>2 DEF WellNamed

\* No two rows of a list have the same node.
LEMMA NodesDiffer ==
    ASSUME NEW d, NEW p, WellNamed(d, p), NEW i \in DOMAIN Children(d, p),
           NEW j \in DOMAIN Children(d, p), Children(d, p)[i].node = Children(d, p)[j].node
    PROVE  i = j
BY DEF WellNamed, Clash

----------------------------------------------------------------------------
(* A node is made                                                          *)

\* The disk with the header of n, which is in no list yet.
LEMMA HeaderMade ==
    ASSUME NEW d \in Disks, Sound(d), NEW n \in Place \ DOMAIN d.header, NEW name \in Name,
           NEW c, c = Written(d, WriteHeader(n, NewNode(name)))
    PROVE  /\ c \in Disks /\ DOMAIN c.header = DOMAIN d.header \cup {n} /\ RowsThere(c) /\ Tight(c)
           /\ \A q \in DOMAIN d.header :
                 /\ c.header[q] = d.header[q] /\ Children(c, q) = Children(d, q)
                 /\ Kids(c, q) = Kids(d, q) /\ TableOf(c, q) = TableOf(d, q)
           /\ c.header[n].name = name /\ Children(c, n) = <<>> /\ Kids(c, n) = {}
<1> DEFINE h == NewNode(name)
<1>1. Fits(n, h) /\ h.name = name /\ h.entries = 0
  BY DEF Fits, NewNode, Header
<1>2. c \in Disks /\ c.header = With(d.header, n, h) /\ c.table = d.table
  <2> HIDE DEF h
  <2> QED BY <1>1, HeaderWritten DEF h
<1> HIDE DEF h
<1>3. /\ DOMAIN c.header = DOMAIN d.header \cup {n} /\ c.header[n] = h
      /\ \A q \in DOMAIN d.header : c.header[q] = d.header[q]
  BY <1>2 DEF With
<1>4. ASSUME NEW q \in DOMAIN d.header
      PROVE  /\ Children(c, q) = Children(d, q) /\ Kids(c, q) = Kids(d, q)
             /\ TableOf(c, q) = TableOf(d, q)
  <2>1. Alike(d, c, q)
    BY <1>2, <1>3 DEF Alike
  <2> QED BY <2>1, SameChildren
<1>5. Tight(c)
  <2>1. TableNames(c) = TableNames(d)
    <3>1. ASSUME NEW q \in DOMAIN c.header, c.header[q].entries > 0
          PROVE  q \in DOMAIN d.header
      BY <1>1, <1>3, <3>1
    <3> QED BY <1>3, <1>4, <3>1 DEF TableNames
  <2> QED BY <1>2, <2>1 DEF Tight, Sound
<1>6. Children(c, n) = <<>> /\ Kids(c, n) = {}
  <2>1. TableOf(c, n) \notin DOMAIN c.table
    BY <1>1, <1>2, <1>3, <1>5, TightChildren
  <2>2. Children(c, n) = <<>>
    BY <1>2, <1>3, <2>1, ChildrenAre
  <2>3. Kids(c, n) = Nodes(Children(c, n))
    BY <1>2, <1>3, KidsAreNodes
  <2> QED BY <2>2, <2>3 DEF Nodes
<1>7. RowsThere(c)
  <2>1. RowsThere(d)
    BY SoundRows
  <2>2. There(<<>>, DOMAIN c.header)
    BY DEF There
  <2>3. \A q \in DOMAIN d.header : There(Children(d, q), DOMAIN c.header)
    BY <1>3, <2>1 DEF RowsThere, There
  <2> QED BY <1>3, <1>4, <1>6, <2>2, <2>3 DEF RowsThere
<1> QED BY <1>1, <1>2, <1>3, <1>4, <1>5, <1>6, <1>7

\* The tree with one more node.
LEMMA OneMoreNode ==
    ASSUME NEW d \in Disks, Sound(d), NEW e \in Disks, Tight(e), NEW n, n \notin DOMAIN d.header,
           NEW p \in DOMAIN d.header, DOMAIN e.header = DOMAIN d.header \cup {n},
           \A q \in DOMAIN d.header : e.header[q].name = d.header[q].name,
           \A q \in DOMAIN d.header : q # p => Children(e, q) = Children(d, q),
           \A q \in DOMAIN d.header : q # p => Kids(e, q) = Kids(d, q),
           Kids(e, p) = Kids(d, p) \cup {n}, Kids(e, n) = {}, WellNamed(e, p), WellNamed(e, n)
    PROVE  Sound(e)
<1>1. \A q \in DOMAIN d.header : Kids(d, q) \subseteq DOMAIN d.header \ {Root}
  BY DEF Sound, ListsNodes
<1>2. Root \in DOMAIN d.header /\ n # Root /\ n \in Place
  BY DiskIs
<1>3. ListsNodes(e)
  BY <1>1, <1>2 DEF ListsNodes
<1>4. Rooted(e)
  <2>1. Rooted(d) /\ \A q \in DOMAIN d.header : Kids(d, q) \subseteq Kids(e, q)
    BY DEF Sound
  <2>2. DOMAIN d.header \subseteq Below(e, Root)
    BY <2>1, AllRooted
  <2>3. Closed(e, Below(e, Root))
    BY RootIsPlace, BelowIs
  <2>4. n \in Below(e, Root)
    <3>1. n # 0 /\ p \in Below(e, Root) /\ n \in Kids(e, p)
      BY <1>2, <2>2, RootIsPlace
    <3> QED BY <2>3, <3>1 DEF Closed
  <2> QED BY <2>2, <2>4 DEF Rooted
<1>5. OneParent(e)
  <2>1. ASSUME NEW x \in DOMAIN e.header \ {Root} PROVE \E q \in DOMAIN e.header : x \in Kids(e, q)
    <3>1. CASE x = n
      BY <3>1
    <3>2. CASE x # n
      <4>1. PICK q \in DOMAIN d.header : x \in Kids(d, q)
        BY <3>2 DEF Sound, OneParent
      <4> QED BY <4>1
    <3> QED BY <3>1, <3>2
  <2>2. ASSUME NEW q \in DOMAIN e.header, NEW r \in DOMAIN e.header,
               NEW x \in Kids(e, q), x \in Kids(e, r)
        PROVE  q = r
    <3>1. q \in DOMAIN d.header /\ r \in DOMAIN d.header
      BY <2>2
    <3>2. CASE x = n
      BY <1>1, <2>2, <3>1, <3>2
    <3>3. CASE x # n
      <4>1. x \in Kids(d, q) /\ x \in Kids(d, r)
        BY <2>2, <3>1, <3>3
      <4> QED BY <3>1, <4>1 DEF Sound, OneParent
    <3> QED BY <3>2, <3>3
  <2> QED BY <2>1, <2>2 DEF OneParent
<1>6. ASSUME NEW q \in DOMAIN e.header PROVE WellNamed(e, q)
  <2>1. CASE q = p \/ q = n
    BY <2>1
  <2>2. CASE q # p /\ q # n
    <3>1. q \in DOMAIN d.header /\ Children(e, q) = Children(d, q)
      BY <2>2
    <3>2. \A x \in Kids(d, q) : e.header[x].name = d.header[x].name
      BY <1>1, <3>1
    <3> QED BY <3>1, <3>2, NamesKept
  <2> QED BY <2>1, <2>2
<1>7. DOMAIN e.table = TableNames(e)
  BY DEF Tight
<1> QED BY <1>3, <1>4, <1>5, <1>6, <1>7 DEF Sound

\* ADF_Create.
LEMMA NodeMade ==
    ASSUME NEW d \in Disks, Sound(d), NEW n \in Place \ DOMAIN d.header, NEW p \in DOMAIN d.header,
           NEW name \in Name, \A k \in DOMAIN Children(d, p) : Children(d, p)[k].name # name,
           NEW m, DOMAIN d.header \cup {n} \subseteq 1 .. m
    PROVE  \E e : /\ Runs(d, <<WriteHeader(n, NewNode(name))>> \o AddWrites(d, p, n, name), e, Fit(m, {n}))
                  /\ Sound(e)
<1> DEFINE w == WriteHeader(n, NewNode(name))
           row == [name |-> name, node |-> n]
           G == Fit(m, {n})
<1>1. PICK c : c = Written(d, w)
  OBVIOUS
<1>2. /\ c \in Disks /\ DOMAIN c.header = DOMAIN d.header \cup {n} /\ RowsThere(c) /\ Tight(c)
      /\ \A q \in DOMAIN d.header :
            /\ c.header[q] = d.header[q] /\ Children(c, q) = Children(d, q)
            /\ Kids(c, q) = Kids(d, q) /\ TableOf(c, q) = TableOf(d, q)
      /\ c.header[n].name = name /\ Children(c, n) = <<>> /\ Kids(c, n) = {}
  BY <1>1, HeaderMade
<1>3. AddWrites(d, p, n, name) = AddWrites(c, p, n, name)
  <2>1. c.header[p] = d.header[p] /\ Children(c, p) = Children(d, p) /\ TableOf(c, p) = TableOf(d, p)
    BY <1>2
  <2> QED BY <2>1 DEF AddWrites
<1>4. row \in Row /\ row.node = n /\ row.name = name
  BY DEF Row
<1>5. PICK e : Added(c, e, p, row) /\ Runs(c, AddWrites(c, p, n, name), e, AddStages(c, p, row))
  <2>1. p \in DOMAIN c.header /\ n \in Place
    BY <1>2
  <2> QED BY <1>2, <2>1, Adds
<1>6. AddStages(c, p, row) \subseteq G
  <2> SUFFICES ASSUME NEW f \in AddStages(c, p, row) PROVE f \in G
    OBVIOUS
  <2>1. p \in DOMAIN c.header /\ row.node \in DOMAIN c.header
    BY <1>2, <1>4
  <2>2. /\ f \in Disks /\ DOMAIN f.header = DOMAIN c.header /\ RowsThere(f)
        /\ Torn(f) \/ \A q \in DOMAIN c.header : Kids(c, q) \subseteq Kids(f, q)
    <3> HIDE DEF row
    <3> QED BY <1>2, <1>4, <2>1, AddStagesAre
  <2>3. ASSUME ~ Torn(f) PROVE DOMAIN d.header \subseteq Below(f, Root)
    <3>1. Rooted(d) /\ \A q \in DOMAIN d.header : Kids(d, q) \subseteq Kids(f, q)
      BY <1>2, <2>2, <2>3 DEF Sound
    <3> QED BY <1>2, <2>2, <3>1, AllRooted
  <2>4. Torn(f) \/ DOMAIN f.header \ {n} \subseteq Below(f, Root)
    BY <1>2, <2>2, <2>3
  <2> QED BY <1>2, <2>2, <2>4 DEF Fit
<1>7. c \in G /\ d \in G
  <2>1. c \in AddStages(c, p, row)
    BY <1>5, RunsEnds
  <2>2. d \in G
    BY SoundFits
  <2> QED BY <1>6, <2>1, <2>2
<1>8. Runs(d, <<w>> \o AddWrites(d, p, n, name), e, G)
  <2> HIDE DEF w, G, row
  <2>1. Runs(c, AddWrites(d, p, n, name), e, G)
    BY <1>3, <1>5, <1>6, RunsWider
  <2>2. Runs(d, <<w>>, c, G)
    BY <1>1, <1>7, RunsOne
  <2> QED BY <2>1, <2>2, RunsOn
<1>9. Sound(e)
  <2>1. /\ e \in Disks /\ SameBut(c, e, p) /\ Tight(e)
        /\ Children(e, p) = Append(Children(c, p), row)
    BY <1>5 DEF Added
  <2>2. p \in DOMAIN c.header /\ n \in DOMAIN c.header /\ n # p /\ Children(c, p) = Children(d, p)
    BY <1>2
  <2>3. /\ DOMAIN e.header = DOMAIN c.header
        /\ \A q \in DOMAIN c.header : e.header[q].name = c.header[q].name
        /\ \A q \in DOMAIN c.header : q # p =>
              Children(e, q) = Children(c, q) /\ Kids(e, q) = Kids(c, q)
        /\ Kids(c, p) = Nodes(Children(c, p)) /\ Kids(e, p) = Nodes(Children(e, p))
    <3>1. c \in Disks /\ e \in Disks /\ p \in DOMAIN c.header /\ SameBut(c, e, p)
      BY <1>2, <2>1
    <3> QED BY <3>1, OtherRows
  <2>4. Children(c, p) \in Seq(Row)
    BY <1>2, <2>2, ChildrenAre
  <2>5. Kids(e, p) = Kids(d, p) \cup {n}
    <3>1. Nodes(Children(e, p)) = Nodes(Children(c, p)) \cup {row.node}
      <4> HIDE DEF row
      <4> QED BY <1>4, <2>1, <2>4, RowAppended
    <3> QED BY <1>2, <1>4, <2>3, <3>1
  <2>6. WellNamed(e, p)
    <3>1. WellNamed(d, p)
      BY DEF Sound
    <3>2. Distinct(Children(c, p)) /\ \A k \in DOMAIN Children(c, p) : ~ Clash(Children(c, p)[k], row)
      <4>1. \A k \in DOMAIN Children(d, p) : Children(d, p)[k].node \in DOMAIN d.header
        BY KidsAre DEF Sound, ListsNodes
      <4>2. \A k \in DOMAIN Children(d, p) : ~ Clash(Children(d, p)[k], row)
        BY <1>4, <4>1 DEF Clash
      <4> QED BY <2>2, <3>1, <4>2, WellNamedIs
    <3>3. RightlyNamed(e, Children(c, p))
      <4>1. RightlyNamed(d, Children(c, p))
        BY <2>2, <3>1, WellNamedIs
      <4>2. \A k \in DOMAIN Children(c, p) : Children(c, p)[k].node \in DOMAIN d.header
        BY <2>2, KidsAre DEF Sound, ListsNodes
      <4>3. \A x \in DOMAIN d.header : e.header[x].name = d.header[x].name
        BY <1>2, <2>3
      <4> QED BY <4>1, <4>2, <4>3 DEF RightlyNamed
    <3>4. row.name = e.header[row.node].name
      BY <1>2, <1>4, <2>2, <2>3
    <3>5. RightlyNamed(e, Children(e, p)) /\ Distinct(Children(e, p))
      <4> HIDE DEF row
      <4> QED BY <1>4, <2>1, <2>4, <3>2, <3>3, <3>4, RowAppended
    <3> QED BY <3>5, WellNamedIs
  <2>7. WellNamed(e, n) /\ Kids(e, n) = {}
    BY <1>2, <2>2, <2>3 DEF WellNamed
  <2>8. /\ \A q \in DOMAIN d.header : e.header[q].name = d.header[q].name
        /\ \A q \in DOMAIN d.header : q # p => Children(e, q) = Children(d, q)
        /\ \A q \in DOMAIN d.header : q # p => Kids(e, q) = Kids(d, q)
        /\ DOMAIN e.header = DOMAIN d.header \cup {n}
    BY <1>2, <2>3
  <2> HIDE DEF row
  <2> QED BY <2>1, <2>5, <2>6, <2>7, <2>8, OneMoreNode
<1> QED BY <1>8, <1>9

----------------------------------------------------------------------------
(* A node is moved                                                         *)

LEMMA AddStagesFit ==
    ASSUME NEW d \in Disks, Sound(d), NEW p \in DOMAIN d.header,
           NEW row \in Row, row.node \in DOMAIN d.header,
           NEW m, DOMAIN d.header \subseteq 1 .. m, NEW X
    PROVE  AddStages(d, p, row) \subseteq Fit(m, X)
<1> SUFFICES ASSUME NEW f \in AddStages(d, p, row) PROVE f \in Fit(m, X)
  OBVIOUS
<1>1. RowsThere(d) /\ Rooted(d)
  BY SoundRows DEF Sound
<1>2. /\ f \in Disks /\ DOMAIN f.header = DOMAIN d.header /\ RowsThere(f)
      /\ Torn(f) \/ \A q \in DOMAIN d.header : Kids(d, q) \subseteq Kids(f, q)
  BY <1>1, AddStagesAre
<1>3. Torn(f) \/ DOMAIN f.header \subseteq Below(f, Root)
  BY <1>1, <1>2, AllRooted
<1> QED BY <1>2, <1>3 DEF Fit

\* With both lists or with the new one alone: all is below the root, if n is.
LEMMA MoveRooted ==
    ASSUME NEW d \in Disks, Sound(d), NEW e \in Disks, DOMAIN e.header = DOMAIN d.header,
           NEW n \in DOMAIN d.header, NEW np \in DOMAIN d.header, np \notin Below(d, n),
           n \in Kids(e, np), \A q \in DOMAIN d.header : Kids(d, q) \subseteq Kids(e, q) \cup {n}
    PROVE  DOMAIN e.header \subseteq Below(e, Root)
<1> DEFINE X == Below(d, n)
           T == Below(e, Root)
<1>1. Rooted(d) /\ n \in Place /\ n # 0
  BY DiskIs, RootIsPlace DEF Sound
<1>2. n \in X /\ Closed(d, X)
  BY <1>1, BelowIs
<1>3. Root \in T /\ Closed(e, T)
  BY RootIsPlace, BelowIs
<1>4. \A q \in DOMAIN d.header \ X :
          q \in DOMAIN e.header /\ Kids(d, q) \subseteq Kids(e, q) \cup X \cup {0}
  BY <1>2
<1>5. \A q \in DOMAIN d.header \cap X : Kids(d, q) \subseteq X \cup {0}
  BY <1>2 DEF Closed
<1>6. DOMAIN d.header \ X \subseteq T
  <2> HIDE DEF X, T
  <2> QED BY <1>1, <1>4, <1>5, RestIsRooted DEF T
<1>7. n \in T
  BY <1>1, <1>3, <1>6 DEF Closed
<1>8. Closed(d, T)
  BY <1>3, <1>7 DEF Closed
<1>9. Below(d, Root) \subseteq T
  <2> HIDE DEF T
  <2> QED BY <1>3, <1>8, RootIsPlace, BelowIs
<1> QED BY <1>1, <1>9 DEF Rooted

\* All nodes are in the lists they were in.
LEMMA SameTree ==
    ASSUME NEW d \in Disks, Sound(d), NEW e \in Disks, Tight(e), DOMAIN e.header = DOMAIN d.header,
           \A q \in DOMAIN d.header : Kids(e, q) = Kids(d, q),
           \A q \in DOMAIN d.header : WellNamed(e, q)
    PROVE  Sound(e)
<1>1. Rooted(e)
  <2>1. Rooted(d)
    BY DEF Sound
  <2> QED BY <2>1, AllRooted DEF Rooted
<1>2. ListsNodes(e)
  BY DEF Sound, ListsNodes
<1>3. OneParent(e)
  BY DEF Sound, OneParent
<1> QED BY <1>1, <1>2, <1>3 DEF Sound, Tight

\* n is in the list of np instead of that of p.
LEMMA OtherParent ==
    ASSUME NEW d \in Disks, Sound(d), NEW e \in Disks, Tight(e), DOMAIN e.header = DOMAIN d.header,
           Rooted(e), NEW p \in DOMAIN d.header, NEW np \in DOMAIN d.header, p # np,
           NEW n \in DOMAIN d.header \ {Root}, n \in Kids(d, p),
           Kids(e, p) = Kids(d, p) \ {n}, Kids(e, np) = Kids(d, np) \cup {n},
           \A q \in DOMAIN d.header \ {p, np} : Kids(e, q) = Kids(d, q),
           \A q \in DOMAIN d.header : WellNamed(e, q)
    PROVE  Sound(e)
<1>1. \A q \in DOMAIN d.header : Kids(d, q) \subseteq DOMAIN d.header \ {Root}
  BY DEF Sound, ListsNodes
<1>2. \A q \in DOMAIN d.header : n \in Kids(d, q) => q = p
  BY DEF Sound, OneParent
<1>3. ASSUME NEW q \in DOMAIN d.header, NEW x, x # n PROVE x \in Kids(e, q) <=> x \in Kids(d, q)
  BY <1>3
<1>4. \A q \in DOMAIN d.header : n \in Kids(e, q) <=> q = np
  BY <1>2
<1>5. ListsNodes(e)
  BY <1>1, <1>3 DEF ListsNodes
<1>6. OneParent(e)
  <2>1. ASSUME NEW x \in DOMAIN e.header \ {Root} PROVE \E q \in DOMAIN e.header : x \in Kids(e, q)
    <3>1. CASE x = n
      BY <1>4, <3>1
    <3>2. CASE x # n
      BY <1>3, <3>2 DEF Sound, OneParent
    <3> QED BY <3>1, <3>2
  <2>2. ASSUME NEW q \in DOMAIN e.header, NEW r \in DOMAIN e.header,
               NEW x \in Kids(e, q), x \in Kids(e, r)
        PROVE  q = r
    <3>1. CASE x = n
      BY <1>4, <2>2, <3>1
    <3>2. CASE x # n
      BY <1>3, <2>2, <3>2 DEF Sound, OneParent
    <3> QED BY <3>1, <3>2
  <2> QED BY <2>1, <2>2 DEF OneParent
<1> QED BY <1>5, <1>6 DEF Sound, Tight

\* The entry for the new parent.
LEMMA MoveAdds ==
    ASSUME NEW d \in Disks, Sound(d), NEW n \in DOMAIN d.header \ {Root}, NEW np \in DOMAIN d.header,
           NEW row, row = [name |-> d.header[n].name, node |-> n],
           NEW add, add = AddWrites(d, np, n, d.header[n].name)
    PROVE  /\ row \in Row /\ row.node = n /\ row.name = d.header[n].name
           /\ \E c : /\ Added(d, c, np, row) /\ Runs(d, add, c, AddStages(d, np, row))
                     /\ AllWritten(d, add) = c
<1>1. n \in Place /\ d.header[n].name \in Name
  BY DiskIs DEF Fits
<1>2. row \in Row /\ row.node = n /\ row.name = d.header[n].name
  BY <1>1 DEF Row
<1>3. PICK c : Added(d, c, np, row) /\ Runs(d, add, c, AddStages(d, np, row))
  BY <1>1, Adds DEF Sound, Tight
<1>4. AllWritten(d, add) = c
  BY <1>3, RunsAll
<1> QED BY <1>2, <1>3, <1>4

\* A move that breaks the tree leaves only nodes in the lists that are there.
LEMMA NodeMisplaced ==
    ASSUME NEW d \in Disks, Sound(d), NEW n \in DOMAIN d.header \ {Root},
           NEW p \in DOMAIN d.header, NEW np \in DOMAIN d.header, NEW m, DOMAIN d.header \subseteq 1 .. m,
           NEW add, add = AddWrites(d, np, n, d.header[n].name)
    PROVE  \E e : Runs(d, add \o RemoveWrites(AllWritten(d, add), p, n), e, Fit(m, Place))
<1> DEFINE G == Fit(m, Place)
<1>1. PICK row : row = [name |-> d.header[n].name, node |-> n]
  OBVIOUS
<1>2. row \in Row /\ row.node = n
  BY <1>1, MoveAdds
<1>3. PICK c : /\ Added(d, c, np, row) /\ Runs(d, add, c, AddStages(d, np, row))
               /\ AllWritten(d, add) = c
  BY <1>1, MoveAdds
<1>4. AddStages(d, np, row) \subseteq G
  BY <1>2, AddStagesFit
<1>5. Runs(d, add, c, G)
  BY <1>3, <1>4, RunsWider
<1>6. c \in Disks /\ Tight(c) /\ RowsThere(c) /\ DOMAIN c.header = DOMAIN d.header
  <2>1. c \in AddStages(d, np, row)
    BY <1>3, RunsEnds
  <2>2. RowsThere(d)
    BY SoundRows
  <2>3. c \in Disks /\ RowsThere(c) /\ DOMAIN c.header = DOMAIN d.header
    BY <1>2, <2>1, <2>2, AddStagesAre
  <2> QED BY <1>3, <2>3 DEF Added
<1>7. \E e : Runs(c, RemoveWrites(c, p, n), e, G)
  <2>1. CASE n \notin Kids(c, p)
    <3>1. RemoveWrites(c, p, n) = <<>>
      BY <1>6, <2>1, RemovesNothing
    <3>2. c \in G
      BY <1>5, RunsEnds
    <3>3. Runs(c, <<>>, c, G)
      BY <3>2, RunsNone
    <3> QED BY <3>1, <3>3
  <2>2. CASE n \in Kids(c, p)
    <3>1. PICK e : \E k \in 1 .. Len(Children(c, p)) :
                      Runs(c, RemoveWrites(c, p, n), e, RemoveStages(c, p, k))
      BY <1>6, <2>2, Removes
    <3>2. PICK k \in 1 .. Len(Children(c, p)) :
                   Runs(c, RemoveWrites(c, p, n), e, RemoveStages(c, p, k))
      BY <3>1
    <3>3. RemoveStages(c, p, k) \subseteq G
      <4> SUFFICES ASSUME NEW g \in RemoveStages(c, p, k) PROVE g \in G
        OBVIOUS
      <4>1. g \in Disks /\ DOMAIN g.header = DOMAIN c.header /\ RowsThere(g)
        BY <1>6, RemoveStagesAre
      <4>2. DOMAIN g.header \ Place = {}
        BY <1>6, <4>1, DiskIs
      <4> QED BY <1>6, <4>1, <4>2 DEF Fit
    <3> QED BY <3>2, <3>3, RunsWider
  <2> QED BY <2>1, <2>2
<1> HIDE DEF G
<1> QED BY <1>3, <1>5, <1>7, RunsOn DEF G

LEMMA RightlyKept ==
    ASSUME NEW d, NEW e, NEW rows, RightlyNamed(d, rows),
           \A x \in Nodes(rows) : e.header[x].name = d.header[x].name
    PROVE  RightlyNamed(e, rows)
BY DEF RightlyNamed, Nodes

\* The disk with the entry for the new parent.
LEMMA MoveAdded ==
    ASSUME NEW d \in Disks, Sound(d), NEW n \in DOMAIN d.header, NEW np \in DOMAIN d.header,
           NEW row \in Row, row.node = n, NEW c, Added(d, c, np, row)
    PROVE  /\ c \in Disks /\ Tight(c) /\ RowsThere(c) /\ DOMAIN c.header = DOMAIN d.header
           /\ \A q \in DOMAIN d.header : c.header[q].name = d.header[q].name
           /\ \A q \in DOMAIN d.header :
                 q # np => Children(c, q) = Children(d, q) /\ Kids(c, q) = Kids(d, q)
           /\ Children(c, np) = Append(Children(d, np), row) /\ Kids(c, np) = Kids(d, np) \cup {n}
<1>1. /\ c \in Disks /\ Tight(c) /\ SameBut(d, c, np)
      /\ Children(c, np) = Append(Children(d, np), row)
  BY DEF Added
<1>2. /\ DOMAIN c.header = DOMAIN d.header
      /\ \A q \in DOMAIN d.header : c.header[q].name = d.header[q].name
      /\ \A q \in DOMAIN d.header :
            q # np => Children(c, q) = Children(d, q) /\ Kids(c, q) = Kids(d, q)
      /\ Kids(d, np) = Nodes(Children(d, np)) /\ Kids(c, np) = Nodes(Children(c, np))
  BY <1>1, OtherRows, ZenonT(90)
<1>3. Children(d, np) \in Seq(Row)
  BY ChildrenAre
<1>4. RowsThere(c)
  <2>1. c \in AddStages(d, np, row)
    BY <1>1 DEF AddStages
  <2>2. RowsThere(d)
    BY SoundRows
  <2> QED BY <2>1, <2>2, AddStagesAre
<1>5. Nodes(Children(c, np)) = Nodes(Children(d, np)) \cup {n}
  BY <1>1, <1>3, RowAppended
<1> QED BY <1>1, <1>2, <1>4, <1>5

\* ADF_Move_Child to another parent.
LEMMA NodeMovedAway ==
    ASSUME NEW d \in Disks, Sound(d), NEW n \in DOMAIN d.header \ {Root},
           NEW p \in DOMAIN d.header, NEW np \in DOMAIN d.header, p # np,
           n \in Kids(d, p), np \notin Below(d, n),
           \A k \in DOMAIN Children(d, np) : Children(d, np)[k].name # d.header[n].name,
           NEW m, DOMAIN d.header \subseteq 1 .. m, NEW X,
           NEW add, add = AddWrites(d, np, n, d.header[n].name)
    PROVE  \E e : /\ Runs(d, add \o RemoveWrites(AllWritten(d, add), p, n), e, Fit(m, X))
                  /\ Sound(e)
<1> DEFINE G == Fit(m, X)
           rows == Children(d, p)
<1>1. PICK row : row = [name |-> d.header[n].name, node |-> n]
  OBVIOUS
<1>2. row \in Row /\ row.node = n /\ row.name = d.header[n].name
  BY <1>1, MoveAdds
<1>3. PICK c : /\ Added(d, c, np, row) /\ Runs(d, add, c, AddStages(d, np, row))
               /\ AllWritten(d, add) = c
  BY <1>1, MoveAdds
<1>4. Runs(d, add, c, G)
  <2>1. AddStages(d, np, row) \subseteq G
    BY <1>2, AddStagesFit
  <2> QED BY <1>3, <2>1, RunsWider
<1>5. /\ c \in Disks /\ Tight(c) /\ RowsThere(c) /\ DOMAIN c.header = DOMAIN d.header
      /\ \A q \in DOMAIN d.header : c.header[q].name = d.header[q].name
      /\ \A q \in DOMAIN d.header :
            q # np => Children(c, q) = Children(d, q) /\ Kids(c, q) = Kids(d, q)
      /\ Children(c, np) = Append(Children(d, np), row) /\ Kids(c, np) = Kids(d, np) \cup {n}
  BY <1>2, <1>3, MoveAdded
<1>6. /\ \A q \in DOMAIN d.header : Kids(d, q) \subseteq DOMAIN d.header \ {Root}
      /\ WellNamed(d, p) /\ WellNamed(d, np)
  BY DEF Sound, ListsNodes
<1>7. rows \in Seq(Row) /\ Children(c, p) = rows /\ Kids(d, p) = Nodes(rows)
  BY <1>5, ChildrenAre, KidsAreNodes
<1>8. PICK e : \E k \in 1 .. Len(Children(c, p)) :
                  /\ Children(c, p)[k].node = n /\ Removed(c, e, p, k)
                  /\ Runs(c, RemoveWrites(c, p, n), e, RemoveStages(c, p, k))
  <2>1. p \in DOMAIN c.header /\ n \in Kids(c, p)
    BY <1>5
  <2> QED BY <1>5, <2>1, Removes
<1>9. PICK k \in 1 .. Len(rows) : /\ rows[k].node = n /\ Removed(c, e, p, k)
                                  /\ Runs(c, RemoveWrites(c, p, n), e, RemoveStages(c, p, k))
  BY <1>7, <1>8
<1>10. ASSUME NEW g \in RemoveStages(c, p, k) PROVE g \in G
  <2>1. /\ g \in Disks /\ DOMAIN g.header = DOMAIN c.header /\ RowsThere(g)
        /\ \A q \in DOMAIN c.header : Kids(c, q) \subseteq Kids(g, q) \cup {n}
        /\ \A q \in DOMAIN c.header : q # p => Kids(g, q) = Kids(c, q)
    <3>1. p \in DOMAIN c.header /\ k \in 1 .. Len(Children(c, p)) /\ n = Children(c, p)[k].node
      BY <1>5, <1>7, <1>9
    <3> QED BY <1>5, <1>10, <3>1, RemoveStagesAre
  <2>2. n \in Kids(g, np)
    BY <1>5, <2>1
  <2>3. \A q \in DOMAIN d.header : Kids(d, q) \subseteq Kids(g, q) \cup {n}
    BY <1>5, <2>1
  <2>4. DOMAIN g.header \subseteq Below(g, Root)
    BY <1>5, <2>1, <2>2, <2>3, MoveRooted
  <2> QED BY <1>5, <2>1, <2>4 DEF Fit
<1>11. Runs(c, RemoveWrites(c, p, n), e, G)
  <2>1. RemoveStages(c, p, k) \subseteq G
    BY <1>10
  <2> QED BY <1>9, <2>1, RunsWider
<1>12. Rooted(e)
  <2>1. /\ e \in Disks /\ DOMAIN e.header = DOMAIN c.header
        /\ \A q \in DOMAIN c.header : Kids(c, q) \subseteq Kids(e, q) \cup {n}
        /\ \A q \in DOMAIN c.header : q # p => Kids(e, q) = Kids(c, q)
    <3>1. p \in DOMAIN c.header /\ k \in 1 .. Len(Children(c, p)) /\ n = Children(c, p)[k].node
      BY <1>5, <1>7, <1>9
    <3>2. e \in RemoveStages(c, p, k)
      BY <1>9, RunsEnds
    <3> QED BY <1>5, <3>1, <3>2, RemoveStagesAre
  <2>2. n \in Kids(e, np)
    BY <1>5, <2>1
  <2>3. \A q \in DOMAIN d.header : Kids(d, q) \subseteq Kids(e, q) \cup {n}
    BY <1>5, <2>1
  <2> QED BY <1>5, <2>1, <2>2, <2>3, MoveRooted DEF Rooted
<1>13. /\ e \in Disks /\ Tight(e) /\ SameBut(c, e, p) /\ Children(e, p) = RemoveAt(rows, k)
  BY <1>7, <1>9 DEF Removed
<1>14. /\ DOMAIN e.header = DOMAIN d.header
       /\ \A q \in DOMAIN d.header : e.header[q].name = d.header[q].name
       /\ \A q \in DOMAIN d.header :
             q # p => Children(e, q) = Children(c, q) /\ Kids(e, q) = Kids(c, q)
       /\ Kids(e, p) = Nodes(Children(e, p))
  <2>1. c \in Disks /\ e \in Disks /\ p \in DOMAIN c.header /\ SameBut(c, e, p)
    BY <1>5, <1>13
  <2>2. /\ DOMAIN e.header = DOMAIN c.header
        /\ \A q \in DOMAIN c.header : e.header[q].name = c.header[q].name
        /\ \A q \in DOMAIN c.header :
              q # p => Children(e, q) = Children(c, q) /\ Kids(e, q) = Kids(c, q)
        /\ Kids(e, p) = Nodes(Children(e, p))
    BY <2>1, OtherRows
  <2> QED BY <1>5, <2>2
<1>15. Kids(e, p) = Kids(d, p) \ {n}
  <2>1. \A j \in DOMAIN rows : rows[j].node = rows[k].node => j = k
    <3>1. k \in DOMAIN rows
      BY <1>7
    <3> QED BY <1>6, <3>1, NodesDiffer
  <2> HIDE DEF rows
  <2>2. Nodes(RemoveAt(rows, k)) = Nodes(rows) \ {n}
    BY <1>7, <1>9, <2>1, NodeLeft
  <2> QED BY <1>7, <1>13, <1>14, <2>2
<1>16. WellNamed(e, p)
  <2>1. RightlyNamed(d, rows) /\ Distinct(rows)
    BY <1>6, WellNamedIs
  <2> HIDE DEF rows
  <2>2. /\ RightlyNamed(d, RemoveAt(rows, k)) /\ Distinct(RemoveAt(rows, k))
        /\ Nodes(RemoveAt(rows, k)) \subseteq Nodes(rows)
    BY <1>7, <2>1, RowLeft
  <2>3. \A x \in Nodes(RemoveAt(rows, k)) : e.header[x].name = d.header[x].name
    BY <1>6, <1>7, <1>14, <2>2
  <2>4. RightlyNamed(e, RemoveAt(rows, k))
    BY <2>2, <2>3, RightlyKept
  <2> QED BY <1>13, <2>2, <2>4, WellNamedIs
<1>17. WellNamed(e, np)
  <2> DEFINE other == Children(d, np)
  <2>1. RightlyNamed(d, other) /\ Distinct(other) /\ other \in Seq(Row)
    BY <1>6, WellNamedIs, ChildrenAre
  <2>2. Children(e, np) = Append(other, row)
    BY <1>5, <1>14
  <2>3. \A i \in DOMAIN other : ~ Clash(other[i], row)
    <3>1. n \notin Kids(d, np)
      BY DEF Sound, OneParent
    <3>2. \A i \in DOMAIN other : other[i].node \in Kids(d, np)
      BY KidsAre
    <3> QED BY <1>2, <3>1, <3>2 DEF Clash
  <2> HIDE DEF other
  <2>4. /\ RightlyNamed(d, Append(other, row)) /\ Distinct(Append(other, row))
    BY <1>2, <2>1, <2>3, RowAppended
  <2>5. Nodes(Append(other, row)) = Nodes(other) \cup {n}
    BY <1>2, <2>1, RowAppended
  <2>6. \A x \in Nodes(Append(other, row)) : e.header[x].name = d.header[x].name
    <3>1. Nodes(other) = Kids(d, np)
      BY KidsAreNodes DEF other
    <3> QED BY <1>6, <1>14, <2>5, <3>1
  <2>7. RightlyNamed(e, Append(other, row))
    BY <2>4, <2>6, RightlyKept
  <2> QED BY <2>2, <2>4, <2>7, WellNamedIs
<1>18. ASSUME NEW q \in DOMAIN d.header PROVE WellNamed(e, q)
  <2>1. CASE q # p /\ q # np
    <3>1. Children(e, q) = Children(d, q)
      BY <1>5, <1>14, <2>1
    <3>2. \A x \in Kids(d, q) : e.header[x].name = d.header[x].name
      BY <1>6, <1>14
    <3> QED BY <3>1, <3>2, NamesKept
  <2> QED BY <1>16, <1>17, <2>1
<1>19. Sound(e)
  <2>1. Kids(e, np) = Kids(d, np) \cup {n}
    BY <1>5, <1>14
  <2>2. \A q \in DOMAIN d.header \ {p, np} : Kids(e, q) = Kids(d, q)
    BY <1>5, <1>14
  <2> QED BY <1>12, <1>13, <1>14, <1>15, <1>18, <2>1, <2>2, OtherParent
<1> HIDE DEF G
<1>20. Runs(d, add \o RemoveWrites(AllWritten(d, add), p, n), e, G)
  BY <1>3, <1>4, <1>11, RunsOn
<1> QED BY <1>19, <1>20 DEF G

\* ADF_Move_Child to the parent the node has: its entry moves to the end of the list.
LEMMA NodeMovedWithin ==
    ASSUME NEW d \in Disks, Sound(d), NEW n \in DOMAIN d.header \ {Root},
           NEW p \in DOMAIN d.header, n \in Kids(d, p),
           NEW m, DOMAIN d.header \subseteq 1 .. m, NEW X,
           NEW add, add = AddWrites(d, p, n, d.header[n].name)
    PROVE  \E e : /\ Runs(d, add \o RemoveWrites(AllWritten(d, add), p, n), e, Fit(m, X))
                  /\ Sound(e)
<1> DEFINE G == Fit(m, X)
           old == Children(d, p)
<1>1. PICK row : row = [name |-> d.header[n].name, node |-> n]
  OBVIOUS
<1>2. row \in Row /\ row.node = n /\ row.name = d.header[n].name
  BY <1>1, MoveAdds
<1>3. PICK c : /\ Added(d, c, p, row) /\ Runs(d, add, c, AddStages(d, p, row))
               /\ AllWritten(d, add) = c
  BY <1>1, MoveAdds
<1>4. Runs(d, add, c, G)
  <2>1. AddStages(d, p, row) \subseteq G
    BY <1>2, AddStagesFit
  <2> QED BY <1>3, <2>1, RunsWider
<1>5. /\ c \in Disks /\ Tight(c) /\ RowsThere(c) /\ DOMAIN c.header = DOMAIN d.header
      /\ \A q \in DOMAIN d.header : c.header[q].name = d.header[q].name
      /\ \A q \in DOMAIN d.header :
            q # p => Children(c, q) = Children(d, q) /\ Kids(c, q) = Kids(d, q)
      /\ Children(c, p) = Append(Children(d, p), row) /\ Kids(c, p) = Kids(d, p) \cup {n}
  BY <1>2, <1>3, MoveAdded
<1>6. /\ \A q \in DOMAIN d.header : Kids(d, q) \subseteq DOMAIN d.header \ {Root}
      /\ RightlyNamed(d, old) /\ Distinct(old)
  BY WellNamedIs DEF Sound, ListsNodes
<1>7. /\ \A q \in DOMAIN d.header : Kids(c, q) = Kids(d, q)
      /\ p \in DOMAIN c.header /\ n \in Kids(c, p)
  BY <1>5
<1>8. PICK e : \E k \in 1 .. Len(Children(c, p)) :
                  /\ Children(c, p)[k].node = n /\ Removed(c, e, p, k)
                  /\ Runs(c, RemoveWrites(c, p, n), e, RemoveStages(c, p, k))
  BY <1>5, <1>7, Removes
<1> DEFINE rows == Children(c, p)
           len == Len(old)
<1>9. PICK k \in 1 .. Len(rows) : /\ rows[k].node = n /\ Removed(c, e, p, k)
                                  /\ Runs(c, RemoveWrites(c, p, n), e, RemoveStages(c, p, k))
  BY <1>8
<1>10. /\ old \in Seq(Row) /\ len \in Nat /\ DOMAIN old = 1 .. len
  <2>1. old \in Seq(Row)
    BY ChildrenAre
  <2> QED BY <2>1
<1>11. /\ rows \in Seq(Row) /\ DOMAIN rows = 1 .. len + 1 /\ rows[len + 1] = row
       /\ \A j \in 1 .. len : rows[j] = old[j]
  <2>1. rows = Append(old, row)
    BY <1>5
  <2> HIDE DEF old, rows
  <2> QED BY <1>2, <1>10, <2>1
<1>12. k \in DOMAIN rows /\ n = rows[k].node
  BY <1>9, <1>11
<1>13. \E i \in 1 .. len : old[i].node = n
  <2>1. Kids(d, p) = Nodes(old)
    BY KidsAreNodes
  <2> QED BY <1>10, <2>1 DEF Nodes
<1> HIDE DEF old, rows, len
<1>14. \E j \in DOMAIN rows : j # k /\ rows[j].node = n
  <2>1. CASE k = len + 1
    <3>1. PICK i \in 1 .. len : old[i].node = n
      BY <1>13
    <3>2. i \in DOMAIN rows /\ i # k /\ rows[i].node = n
      BY <1>10, <1>11, <2>1, <3>1
    <3> QED BY <3>2
  <2>2. CASE k # len + 1
    <3>1. len + 1 \in DOMAIN rows
      BY <1>10, <1>11
    <3> QED BY <1>2, <1>11, <2>2, <3>1
  <2> QED BY <2>1, <2>2
<1>15. DistinctBut(rows, k)
  <2>1. ASSUME NEW i \in 1 .. len, NEW j \in 1 .. len, Clash(rows[i], rows[j]) PROVE i = j
    BY <1>6, <1>10, <1>11, <2>1 DEF Distinct
  <2>2. ASSUME NEW i \in 1 .. len, i # k, k # len + 1,
               Clash(rows[i], rows[len + 1]) \/ Clash(rows[len + 1], rows[i])
        PROVE  FALSE
    <3>1. k \in 1 .. len
      BY <1>10, <1>11, <1>12, <2>2
    <3>2. old[k].name = d.header[n].name
      BY <1>6, <1>10, <1>11, <1>12, <3>1 DEF RightlyNamed
    <3>3. Clash(rows[i], rows[k])
      BY <1>2, <1>11, <1>12, <2>2, <3>1, <3>2 DEF Clash
    <3> QED BY <2>1, <2>2, <3>1, <3>3
  <2> SUFFICES ASSUME NEW i \in DOMAIN rows, NEW j \in DOMAIN rows,
                      i # k, j # k, Clash(rows[i], rows[j])
               PROVE  i = j
    BY DEF DistinctBut
  <2>3. (i \in 1 .. len \/ i = len + 1) /\ (j \in 1 .. len \/ j = len + 1)
    BY <1>10, <1>11
  <2>4. CASE i \in 1 .. len /\ j \in 1 .. len
    BY <2>1, <2>4
  <2>5. CASE i \in 1 .. len /\ j = len + 1
    BY <2>2, <2>5
  <2>6. CASE i = len + 1 /\ j \in 1 .. len
    BY <2>2, <2>6
  <2> QED BY <2>3, <2>4, <2>5, <2>6
<1>16. k \in 1 .. Len(Children(c, p)) /\ n = Children(c, p)[k].node
  BY <1>9 DEF rows
<1>17. ASSUME NEW g \in RemoveStages(c, p, k) PROVE g \in G
  <2>1. /\ g \in Disks /\ DOMAIN g.header = DOMAIN c.header /\ RowsThere(g)
        /\ \A q \in DOMAIN c.header : q # p => Kids(g, q) = Kids(c, q)
        /\ (\E j \in DOMAIN Children(c, p) : j # k /\ Children(c, p)[j].node = n) =>
               Kids(c, p) \subseteq Kids(g, p)
    BY <1>5, <1>7, <1>16, <1>17, RemoveStagesAre, SMTT(60)
  <2>2. \A q \in DOMAIN d.header : Kids(d, q) \subseteq Kids(g, q)
    BY <1>5, <1>7, <1>14, <2>1 DEF rows
  <2>3. DOMAIN d.header \subseteq Below(g, Root)
    <3>1. Rooted(d)
      BY DEF Sound
    <3> QED BY <1>5, <2>1, <2>2, <3>1, AllRooted
  <2> QED BY <1>5, <2>1, <2>3 DEF Fit
<1>18. Runs(c, RemoveWrites(c, p, n), e, G)
  <2>1. RemoveStages(c, p, k) \subseteq G
    BY <1>17
  <2> QED BY <1>9, <2>1, RunsWider
<1>19. e \in Disks /\ Tight(e) /\ SameBut(c, e, p) /\ Children(e, p) = RemoveAt(rows, k)
  BY <1>9 DEF Removed, rows
<1>20. /\ DOMAIN e.header = DOMAIN d.header
       /\ \A q \in DOMAIN d.header : e.header[q].name = d.header[q].name
       /\ \A q \in DOMAIN d.header :
             q # p => Children(e, q) = Children(d, q) /\ Kids(e, q) = Kids(d, q)
       /\ Kids(e, p) = Nodes(Children(e, p)) /\ Kids(c, p) = Nodes(rows)
  <2>1. /\ DOMAIN e.header = DOMAIN c.header
        /\ \A q \in DOMAIN c.header : e.header[q].name = c.header[q].name
        /\ \A q \in DOMAIN c.header :
              q # p => Children(e, q) = Children(c, q) /\ Kids(e, q) = Kids(c, q)
        /\ Kids(e, p) = Nodes(Children(e, p)) /\ Kids(c, p) = Nodes(Children(c, p))
    <3>1. c \in Disks /\ e \in Disks /\ p \in DOMAIN c.header /\ SameBut(c, e, p)
      BY <1>5, <1>7, <1>19
    <3> QED BY <3>1, OtherRows
  <2> QED BY <1>5, <2>1 DEF rows
<1>21. Kids(e, p) = Kids(d, p)
  <2>1. Nodes(RemoveAt(rows, k)) = Nodes(rows)
    BY ZenonT(60), <1>9, <1>11, <1>12, <1>14, NodeLeft
  <2> QED BY <1>7, <1>19, <1>20, <2>1
<1>22. WellNamed(e, p)
  <2>1. RightlyNamed(d, rows)
    <3>1. rows = Append(old, row)
      BY <1>5 DEF rows, old
    <3> QED BY <1>2, <1>6, <1>10, <3>1, RowAppended
  <2>2. RightlyNamed(d, RemoveAt(rows, k))
    BY <1>9, <1>11, <2>1, RowLeft
  <2>3. \A x \in Nodes(RemoveAt(rows, k)) : e.header[x].name = d.header[x].name
    BY <1>6, <1>19, <1>20, <1>21
  <2>4. RightlyNamed(e, RemoveAt(rows, k))
    BY <2>2, <2>3, RightlyKept
  <2>5. Distinct(RemoveAt(rows, k))
    BY <1>9, <1>11, <1>15, RowsLeft
  <2> QED BY <1>19, <2>4, <2>5, WellNamedIs
<1>23. ASSUME NEW q \in DOMAIN d.header PROVE WellNamed(e, q)
  <2>1. CASE q # p
    <3>1. \A x \in Kids(d, q) : e.header[x].name = d.header[x].name
      BY <1>6, <1>20
    <3> QED BY <1>20, <2>1, <3>1, NamesKept
  <2> QED BY <1>22, <2>1
<1>24. Sound(e)
  <2>1. \A q \in DOMAIN d.header : Kids(e, q) = Kids(d, q)
    BY <1>20, <1>21
  <2> QED BY <1>19, <1>20, <1>23, <2>1, SameTree
<1> HIDE DEF G
<1>25. Runs(d, add \o RemoveWrites(AllWritten(d, add), p, n), e, G)
  BY <1>3, <1>4, <1>18, RunsOn
<1> QED BY <1>24, <1>25 DEF G

----------------------------------------------------------------------------
(* A node is given another name                                            *)

Renamed(h, name) == [h EXCEPT !.name = name]

\* ADF_Put_Name: the header, then the row.
LEMMA NodeRenamed ==
    ASSUME NEW d \in Disks, Sound(d), NEW n \in DOMAIN d.header \ {Root}, NEW p \in DOMAIN d.header,
           NEW name \in Name,
           \A j \in DOMAIN Children(d, p) : Children(d, p)[j].name = name => MayBeShared(name),
           NEW k \in 1 .. Len(Children(d, p)), Children(d, p)[k].node = n,
           NEW m, DOMAIN d.header \subseteq 1 .. m, NEW X
    PROVE  \E e : /\ Runs(d, <<WriteHeader(n, Renamed(d.header[n], name)),
                               WriteRow(TableOf(d, p), k, [name |-> name, node |-> n])>>, e, Fit(m, X))
                  /\ Sound(e)
<1> DEFINE h == Renamed(d.header[n], name)
           t == TableOf(d, p)
           row == [name |-> name, node |-> n]
           v == WriteHeader(n, h)
           w == WriteRow(t, k, row)
           G == Fit(m, X)
           rows == Children(d, p)
           num == d.header[p].num
<1>1. PICK c : c = Written(d, v)
  OBVIOUS
<1>2. PICK e : e = Written(c, w)
  OBVIOUS
<1>3. /\ n \in Place /\ Fits(n, d.header[n]) /\ num \in Nat /\ num <= d.header[p].entries
      /\ d.header[p].entries \in Nat
  BY DiskIs DEF Fits, Header
<1>4. /\ Fits(n, h) /\ h.name = name
      /\ h.num = d.header[n].num /\ h.entries = d.header[n].entries
  <2> DEFINE g == d.header[n]
  <2>1. Fits(n, g) /\ h = [g EXCEPT !.name = name]
    BY <1>3 DEF Renamed
  <2> HIDE DEF g, h
  <2>2. g \in Header /\ g = [name |-> g.name, num |-> g.num, entries |-> g.entries]
    BY <2>1 DEF Fits, Header
  <2>3. h = [name |-> name, num |-> g.num, entries |-> g.entries]
    BY <2>1, <2>2
  <2>4. h \in Header
    BY <2>2, <2>3 DEF Header
  <2> QED BY <2>1, <2>3, <2>4 DEF Fits, g
<1> HIDE DEF h
<1>5. c \in Disks /\ c.header = With(d.header, n, h) /\ c.table = d.table
  BY <1>1, <1>3, <1>4, HeaderWritten
<1>6. /\ DOMAIN c.header = DOMAIN d.header /\ c.header[n] = h
      /\ \A q \in DOMAIN d.header : q # n => c.header[q] = d.header[q]
  BY <1>5 DEF With
<1>7. ASSUME NEW q \in DOMAIN d.header
      PROVE  /\ Children(c, q) = Children(d, q) /\ Kids(c, q) = Kids(d, q)
             /\ TableOf(c, q) = TableOf(d, q) /\ c.header[q].num = d.header[q].num
             /\ c.header[q].entries = d.header[q].entries
  <2>1. c.header[q].num = d.header[q].num /\ c.header[q].entries = d.header[q].entries
    BY <1>4, <1>6
  <2>2. Alike(d, c, q)
    BY <1>5, <2>1 DEF Alike
  <2> QED BY <2>1, <2>2, SameChildren
<1>8. rows \in Seq(Row) /\ Len(rows) = num /\ k \in 1 .. num /\ DOMAIN rows = 1 .. num
  <2>1. Tight(d)
    BY SoundRows
  <2>2. rows \in Seq(Row) /\ Len(rows) = num
    BY <2>1, TightChildren
  <2> HIDE DEF rows, num
  <2> QED BY <2>2 DEF rows
<1>9. t \in DOMAIN c.table /\ k \in 1 .. t[2] /\ t = TableOf(c, p) /\ num = c.header[p].num
  <2>1. Tight(d)
    BY SoundRows
  <2>2. d.header[p].entries > 0
    BY <1>3, <1>8
  <2>3. t \in DOMAIN d.table
    BY <2>1, <2>2, TightChildren
  <2>4. k \in 1 .. t[2]
    BY <1>3, <1>8 DEF TableOf
  <2> QED BY <1>5, <1>7, <2>3, <2>4
<1>10. row \in Row /\ row.node = n /\ row.name = name
  BY <1>3 DEF Row
<1>11. /\ e \in Disks /\ e.header = c.header /\ DOMAIN e.table = DOMAIN c.table
       /\ \A x \in DOMAIN c.table : x # t => e.table[x] = c.table[x]
       /\ e.table[t] = [c.table[t] EXCEPT ![k] = row]
  <2> HIDE DEF t, row
  <2> QED BY <1>2, <1>5, <1>9, <1>10, RowWritten
<1>12. ASSUME NEW q \in DOMAIN d.header \ {p}
       PROVE  Children(e, q) = Children(d, q) /\ Kids(e, q) = Kids(d, q)
  <2>1. TableOf(c, q) # t
    BY DEF TableOf
  <2>2. Alike(c, e, q)
    <3> HIDE DEF t
    <3> QED BY <1>11, <2>1 DEF Alike
  <2> QED BY <1>7, <2>2, SameChildren
<1>13. /\ Children(e, p) \in Seq(Row) /\ Len(Children(e, p)) = num
       /\ Children(e, p)[k] = row
       /\ \A j \in 1 .. num : j # k => Children(e, p)[j] = rows[j]
  <2>1. p \in DOMAIN c.header /\ p \in DOMAIN e.header /\ t \in DOMAIN e.table
    BY <1>6, <1>9, <1>11
  <2>2. t = TableOf(e, p) /\ num = e.header[p].num
    BY <1>9, <1>11 DEF TableOf
  <2>3. Children(c, p) = rows
    BY <1>7
  <2>4. num <= t[2]
    BY <1>3 DEF TableOf
  <2> HIDE DEF t, row, rows, num
  <2>5. /\ Children(e, p) \in Seq(Row) /\ Len(Children(e, p)) = num
        /\ \A j \in 1 .. num : Children(e, p)[j] = e.table[t][j]
    <3>1. e \in Disks
      BY <1>11
    <3> QED BY <2>1, <2>2, <3>1, ChildrenOf
  <2>6. \A j \in 1 .. num : rows[j] = c.table[t][j]
    BY <1>5, <1>9, <2>1, <2>3, ChildrenOf
  <2>7. c.table[t] \in Seq(Row) /\ Len(c.table[t]) = t[2]
    BY <1>5, <1>9, DiskIs
  <2>8. e.table[t][k] = row /\ \A j \in 1 .. t[2] : j # k => e.table[t][j] = c.table[t][j]
    <3> DEFINE old == c.table[t]
               new == e.table[t]
               len == t[2]
    <3>1. old \in Seq(Row) /\ Len(old) = len /\ k \in 1 .. len /\ new = [old EXCEPT ![k] = row]
      BY <1>9, <1>11, <2>7
    <3> HIDE DEF old, new, len
    <3>2. new[k] = row /\ \A j \in 1 .. len : j # k => new[j] = old[j]
      BY <3>1
    <3> QED BY <3>2 DEF old, new, len
  <2>9. \A j \in 1 .. num : j \in 1 .. t[2]
    <3>1. t[2] \in Nat
      BY <1>3 DEF t, TableOf
    <3> QED BY <1>3, <2>4, <3>1 DEF num
  <2> QED BY <1>8, <2>5, <2>6, <2>8, <2>9
<1> HIDE DEF rows, row, num
<1>14. DOMAIN Children(e, p) = 1 .. num
  BY <1>13
<1>15. Kids(d, p) = Nodes(rows) /\ Kids(e, p) = Nodes(Children(e, p))
  <2>1. p \in DOMAIN e.header
    BY <1>6, <1>11
  <2> QED BY <1>11, <2>1, KidsAreNodes DEF rows
<1>16. \A j \in 1 .. num : Children(e, p)[j].node = rows[j].node
  <2>1. rows[k].node = n
    BY DEF rows
  <2> QED BY <1>10, <1>13, <2>1
<1>17. Kids(e, p) = Kids(d, p)
  BY <1>8, <1>14, <1>15, <1>16 DEF Nodes
<1>18. \A q \in DOMAIN d.header : Kids(e, q) = Kids(d, q)
  BY <1>12, <1>17
<1>19. /\ \A q \in DOMAIN d.header : Kids(d, q) \subseteq DOMAIN d.header \ {Root}
       /\ WellNamed(d, p) /\ n \in Kids(d, p)
  <2>1. n \in Kids(d, p)
    BY <1>8, <1>15 DEF Nodes, rows
  <2> QED BY <2>1 DEF Sound, ListsNodes
<1>20. \A q \in DOMAIN d.header : q # n => e.header[q].name = d.header[q].name
  BY <1>6, <1>11
<1>21. e.header[n].name = name
  BY <1>4, <1>6, <1>11
<1>22. WellNamed(e, p)
  <2>1. RightlyNamed(d, rows) /\ Distinct(rows)
    BY <1>19, WellNamedIs DEF rows
  <2>2. \A j \in 1 .. num : j # k => rows[j].node # n
    <3>1. rows[k].node = n
      BY DEF rows
    <3> QED BY <1>8, <1>19, <3>1, NodesDiffer DEF rows
  <2>3. ASSUME NEW j \in 1 .. num
        PROVE  Children(e, p)[j].name = e.header[Children(e, p)[j].node].name
    <3>1. CASE j = k
      BY <1>10, <1>13, <1>21, <3>1
    <3>2. CASE j # k
      <4>1. rows[j].node # n /\ rows[j].node \in DOMAIN d.header
        BY <1>8, <1>15, <1>19, <2>2, <3>2 DEF Nodes
      <4>2. rows[j].name = d.header[rows[j].node].name
        BY <1>8, <2>1 DEF RightlyNamed
      <4> QED BY <1>13, <1>20, <3>2, <4>1, <4>2
    <3> QED BY <3>1, <3>2
  <2>4. \A j \in 1 .. num : rows[j].name = name => MayBeShared(name)
    BY <1>8 DEF rows
  <2>5. ASSUME NEW i \in 1 .. num, NEW j \in 1 .. num, Clash(Children(e, p)[i], Children(e, p)[j])
        PROVE  i = j
    <3>1. \A l \in 1 .. num : \A o \in 1 .. num : Clash(rows[l], rows[o]) => l = o
      BY <1>8, <2>1 DEF Distinct
    <3>2. CASE rows[i].node = rows[j].node
      BY <3>1, <3>2 DEF Clash
    <3>3. CASE rows[i].node # rows[j].node
      <4>1. Children(e, p)[i].name = Children(e, p)[j].name /\ ~ MayBeShared(Children(e, p)[i].name)
        BY <1>16, <2>5, <3>3 DEF Clash
      <4>2. i # k /\ j # k
        BY <1>10, <1>13, <2>4, <3>3, <4>1
      <4> QED BY <1>13, <3>1, <4>1, <4>2 DEF Clash
    <3> QED BY <3>2, <3>3
  <2> QED BY <1>14, <2>3, <2>5 DEF WellNamed
<1>23. ASSUME NEW q \in DOMAIN d.header PROVE WellNamed(e, q)
  <2>1. CASE q # p
    <3>1. n \notin Kids(d, q)
      BY <1>19, <2>1 DEF Sound, OneParent
    <3>2. \A x \in Kids(d, q) : e.header[x].name = d.header[x].name
      BY <1>19, <1>20, <3>1
    <3> QED BY <1>12, <2>1, <3>2, NamesKept
  <2> QED BY <1>22, <2>1
<1>24. Tight(e)
  <2>1. TableNames(c) = TableNames(d)
    BY <1>6, <1>7 DEF TableNames
  <2>2. TableNames(e) = TableNames(c)
    BY <1>11 DEF TableNames, TableOf
  <2> QED BY <1>5, <1>11, <2>1, <2>2 DEF Tight, Sound
<1>25. Sound(e)
  <2>1. DOMAIN e.header = DOMAIN d.header
    BY <1>6, <1>11
  <2> QED BY <1>11, <1>18, <1>23, <1>24, <2>1, SameTree
<1>26. d \in G /\ c \in G /\ e \in G
  <2>1. RowsThere(c)
    <3>1. RowsThere(d)
      BY SoundRows
    <3> QED BY <1>6, <1>7, <3>1 DEF RowsThere
  <2>2. DOMAIN c.header \subseteq Below(c, Root)
    <3>1. Rooted(d)
      BY DEF Sound
    <3> QED BY <1>5, <1>6, <1>7, <3>1, AllRooted
  <2>3. c \in G
    BY <1>5, <1>6, <2>1, <2>2 DEF Fit
  <2>4. DOMAIN e.header \subseteq 1 .. m
    BY <1>6, <1>11
  <2> QED BY <1>11, <1>25, <2>3, <2>4, SoundFits
<1> HIDE DEF v, w, G
<1>27. Runs(d, <<v, w>>, e, G)
  BY <1>1, <1>2, <1>26, RunsTwo
<1> QED BY <1>25, <1>27 DEF v, w, G, row, h

----------------------------------------------------------------------------
(* A node without children is deleted                                      *)

\* What n lists and who lists n does not matter for the others, if n lists none.
LEMMA LeafMayGo ==
    ASSUME NEW d \in Disks, Sound(d), NEW n, Kids(d, n) = {}, NEW e \in Disks,
           DOMAIN d.header \ {n} \subseteq DOMAIN e.header,
           \A q \in DOMAIN d.header \ {n} : Kids(d, q) \subseteq Kids(e, q) \cup {n}
    PROVE  DOMAIN d.header \ {n} \subseteq Below(e, Root)
<1> DEFINE X == {n}
<1>1. Rooted(d)
  BY DEF Sound
<1>2. \A q \in DOMAIN d.header \ X :
          q \in DOMAIN e.header /\ Kids(d, q) \subseteq Kids(e, q) \cup X \cup {0}
  OBVIOUS
<1>3. \A q \in DOMAIN d.header \cap X : Kids(d, q) \subseteq X \cup {0}
  OBVIOUS
<1>4. DOMAIN d.header \ X \subseteq Below(e, Root)
  <2> HIDE DEF X
  <2> QED BY <1>1, <1>2, <1>3, RestIsRooted
<1> QED BY <1>4

\* The tree with a leaf less.
LEMMA OneNodeLess ==
    ASSUME NEW d \in Disks, Sound(d), NEW e \in Disks, Tight(e), NEW n \in DOMAIN d.header \ {Root},
           Kids(d, n) = {}, DOMAIN e.header = DOMAIN d.header \ {n},
           \A q \in DOMAIN e.header : Kids(e, q) = Kids(d, q) \ {n},
           \A q \in DOMAIN e.header : WellNamed(e, q)
    PROVE  Sound(e)
<1>1. \A q \in DOMAIN d.header : Kids(d, q) \subseteq DOMAIN d.header \ {Root}
  BY DEF Sound, ListsNodes
<1>2. ListsNodes(e)
  BY <1>1 DEF ListsNodes
<1>3. Rooted(e)
  BY LeafMayGo DEF Rooted
<1>4. OneParent(e)
  <2>1. ASSUME NEW x \in DOMAIN e.header \ {Root} PROVE \E q \in DOMAIN e.header : x \in Kids(e, q)
    <3>1. PICK q \in DOMAIN d.header : x \in Kids(d, q)
      BY DEF Sound, OneParent
    <3>2. q # n
      BY <3>1
    <3> QED BY <3>1, <3>2
  <2>2. ASSUME NEW q \in DOMAIN e.header, NEW r \in DOMAIN e.header,
               NEW x \in Kids(e, q), x \in Kids(e, r)
        PROVE  q = r
    <3>1. q \in DOMAIN d.header /\ r \in DOMAIN d.header /\ x \in Kids(d, q) /\ x \in Kids(d, r)
      BY <2>2
    <3> QED BY <3>1 DEF Sound, OneParent
  <2> QED BY <2>1, <2>2 DEF OneParent
<1> QED BY <1>2, <1>3, <1>4 DEF Sound, Tight

\* No list of c has n any more; else it is like d.
Unlisted(d, c, n) ==
    /\ c \in Disks /\ Tight(c) /\ RowsThere(c) /\ DOMAIN c.header = DOMAIN d.header
    /\ \A q \in DOMAIN d.header :
          Kids(c, q) = Kids(d, q) \ {n} /\ WellNamed(c, q) /\ TableOf(c, q) = TableOf(d, q)

\* The disk from whose list the leaf is gone.
LEMMA LeafUnlisted ==
    ASSUME NEW d \in Disks, Sound(d), NEW n \in DOMAIN d.header \ {Root}, NEW p \in DOMAIN d.header,
           n \in Kids(d, p), Kids(d, n) = {}, NEW m, DOMAIN d.header \subseteq 1 .. m, NEW X, n \in X
    PROVE  \E c : Runs(d, RemoveWrites(d, p, n), c, Fit(m, X)) /\ Unlisted(d, c, n)
<1> DEFINE rows == Children(d, p)
           G == Fit(m, X)
<1>1. /\ RowsThere(d) /\ Tight(d) /\ WellNamed(d, p)
      /\ \A q \in DOMAIN d.header : Kids(d, q) \subseteq DOMAIN d.header \ {Root}
      /\ \A q \in DOMAIN d.header : n \in Kids(d, q) => q = p
  BY SoundRows DEF Sound, ListsNodes, OneParent
<1>2. PICK c : \E k \in 1 .. Len(Children(d, p)) :
                  /\ Children(d, p)[k].node = n /\ Removed(d, c, p, k)
                  /\ Runs(d, RemoveWrites(d, p, n), c, RemoveStages(d, p, k))
  BY <1>1, Removes
<1>3. PICK k \in 1 .. Len(rows) : /\ rows[k].node = n /\ Removed(d, c, p, k)
                                  /\ Runs(d, RemoveWrites(d, p, n), c, RemoveStages(d, p, k))
  BY <1>2
<1>4. rows \in Seq(Row) /\ k \in DOMAIN rows
  BY ChildrenAre
<1>5. ASSUME NEW g \in RemoveStages(d, p, k)
      PROVE  g \in G /\ RowsThere(g)
  <2>1. /\ g \in Disks /\ DOMAIN g.header = DOMAIN d.header /\ RowsThere(g)
        /\ \A q \in DOMAIN d.header : Kids(d, q) \subseteq Kids(g, q) \cup {n}
    BY <1>1, <1>3, <1>5, RemoveStagesAre
  <2>2. DOMAIN d.header \ {n} \subseteq Below(g, Root)
    BY <2>1, LeafMayGo
  <2> QED BY <2>1, <2>2 DEF Fit
<1>6. Runs(d, RemoveWrites(d, p, n), c, G)
  <2>1. RemoveStages(d, p, k) \subseteq G
    BY <1>5
  <2> QED BY <1>3, <2>1, RunsWider
<1>7. /\ c \in Disks /\ SameBut(d, c, p) /\ Children(c, p) = RemoveAt(rows, k) /\ Tight(c)
      /\ c.header[p].entries = d.header[p].entries
  BY <1>3 DEF Removed
<1>8. /\ DOMAIN c.header = DOMAIN d.header
      /\ \A q \in DOMAIN d.header : c.header[q].name = d.header[q].name
      /\ \A q \in DOMAIN d.header : q # p =>
            /\ Children(c, q) = Children(d, q) /\ Kids(c, q) = Kids(d, q)
            /\ TableOf(c, q) = TableOf(d, q)
      /\ Kids(d, p) = Nodes(Children(d, p)) /\ Kids(c, p) = Nodes(Children(c, p))
  BY <1>7, OtherRows
<1>9. RowsThere(c)
  <2>1. c \in RemoveStages(d, p, k)
    BY <1>3, RunsEnds
  <2> QED BY <1>5, <2>1
<1>10. Kids(c, p) = Kids(d, p) \ {n}
  <2>1. \A j \in DOMAIN rows : rows[j].node = rows[k].node => j = k
    BY <1>1, <1>4, NodesDiffer
  <2> HIDE DEF rows
  <2>2. Nodes(RemoveAt(rows, k)) = Nodes(rows) \ {n}
    BY <1>3, <1>4, <2>1, NodeLeft
  <2> QED BY <1>7, <1>8, <2>2 DEF rows
<1>11. \A q \in DOMAIN d.header : Kids(c, q) = Kids(d, q) \ {n}
  BY <1>1, <1>8, <1>10
<1>12. TableOf(c, p) = TableOf(d, p)
  BY <1>7 DEF TableOf
<1>13. WellNamed(c, p)
  <2>1. RightlyNamed(d, rows) /\ Distinct(rows)
    BY <1>1, WellNamedIs
  <2> HIDE DEF rows
  <2>2. /\ RightlyNamed(d, RemoveAt(rows, k)) /\ Distinct(RemoveAt(rows, k))
        /\ Nodes(RemoveAt(rows, k)) \subseteq Nodes(rows)
    BY <1>3, <1>4, <2>1, RowLeft
  <2>3. \A x \in Nodes(RemoveAt(rows, k)) : c.header[x].name = d.header[x].name
    BY <1>1, <1>8, <2>2 DEF rows
  <2>4. RightlyNamed(c, RemoveAt(rows, k))
    BY <2>2, <2>3, RightlyKept
  <2> QED BY <1>7, <2>2, <2>4, WellNamedIs
<1>14. ASSUME NEW q \in DOMAIN d.header PROVE WellNamed(c, q)
  <2>1. CASE q # p
    <3>1. \A x \in Kids(d, q) : c.header[x].name = d.header[x].name
      BY <1>1, <1>8
    <3> QED BY <1>8, <2>1, <3>1, NamesKept
  <2> QED BY <1>13, <2>1
<1> HIDE DEF G
<1>15. Unlisted(d, c, n)
  BY <1>7, <1>8, <1>9, <1>11, <1>12, <1>14 DEF Unlisted
<1>16. Runs(d, RemoveWrites(d, p, n), c, G)
  BY <1>6
<1> QED BY <1>15, <1>16 DEF G

\* The tree e is the tree d without the node n.
LessOne(d, e, n) ==
    /\ e \in Disks /\ Sound(e) /\ DOMAIN e.header = DOMAIN d.header \ {n}
    /\ \A q \in DOMAIN e.header : Kids(e, q) = Kids(d, q) \ {n} /\ TableOf(e, q) = TableOf(d, q)

\* The writes of ADF_Delete for a node whose children are gone.
LEMMA LeafDeleted ==
    ASSUME NEW d \in Disks, Sound(d), NEW n \in DOMAIN d.header \ {Root}, NEW p \in DOMAIN d.header,
           n \in Kids(d, p), Kids(d, n) = {}, NEW m, DOMAIN d.header \subseteq 1 .. m,
           NEW X, n \in X, NEW t, t = TableOf(d, n),
           NEW ws, ws = RemoveWrites(d, p, n)
                        \o (IF t[2] > 0 THEN <<FreeTable(t)>> ELSE <<>>) \o <<FreeHeader(n)>>
    PROVE  \E e : Runs(d, ws, e, Fit(m, X)) /\ LessOne(d, e, n)
<1> DEFINE G == Fit(m, X)
<1>0. PICK c : Runs(d, RemoveWrites(d, p, n), c, G) /\ Unlisted(d, c, n)
  BY LeafUnlisted
<1>1. /\ Runs(d, RemoveWrites(d, p, n), c, G)
      /\ c \in Disks /\ Tight(c) /\ RowsThere(c) /\ DOMAIN c.header = DOMAIN d.header
      /\ \A q \in DOMAIN d.header :
            Kids(c, q) = Kids(d, q) \ {n} /\ WellNamed(c, q) /\ TableOf(c, q) = TableOf(d, q)
  BY <1>0 DEF Unlisted
<1>2. /\ \A q \in DOMAIN d.header : c.header[q].entries = d.header[q].entries
      /\ t[2] = c.header[n].entries /\ t[2] \in Nat
  <2>1. \A q \in DOMAIN d.header : TableOf(c, q) = TableOf(d, q)
    BY <1>1
  <2>2. \A q \in DOMAIN d.header : c.header[q].entries = d.header[q].entries
    BY <2>1 DEF TableOf
  <2> QED BY <2>2, DiskIs DEF TableOf, Fits, Header
<1>3. \E f : /\ Runs(c, IF t[2] > 0 THEN <<FreeTable(t)>> ELSE <<>>, f, G)
             /\ f \in Disks /\ f.header = c.header /\ DOMAIN f.table = DOMAIN c.table \ {t}
             /\ \A x \in DOMAIN f.table : f.table[x] = c.table[x]
  <2>1. c \in G
    BY <1>1, RunsEnds
  <2>2. CASE t[2] > 0
    <3>1. PICK f : f = Written(c, FreeTable(t))
      OBVIOUS
    <3>2. f \in Disks /\ f.header = c.header /\ f.table = Without(c.table, t)
      BY <1>1, <3>1, TableFreed
    <3>3. /\ DOMAIN f.table = DOMAIN c.table \ {t}
          /\ \A x \in DOMAIN f.table : f.table[x] = c.table[x]
      BY <3>2 DEF Without, Restrict
    <3>4. Torn(f)
      <4>1. n \in DOMAIN f.header /\ f.header[n].entries > 0 /\ TableOf(f, n) = t
        BY <1>1, <1>2, <2>2, <3>2 DEF TableOf
      <4> QED BY <3>3, <4>1 DEF Torn
    <3>5. RowsThere(f)
      <4>1. ASSUME NEW q \in DOMAIN f.header
            PROVE  Children(f, q) = Children(c, q) \/ Children(f, q) = <<>>
        <5>1. CASE TableOf(f, q) = t
          <6>1. TableOf(f, q) \notin DOMAIN f.table
            BY <3>3, <5>1
          <6> QED BY <6>1 DEF Children
        <5>2. CASE TableOf(f, q) # t
          <6>1. Alike(c, f, q)
            BY <3>2, <3>3, <5>2 DEF Alike, TableOf
          <6> QED BY <6>1, SameChildren
        <5> QED BY <5>1, <5>2
      <4>2. There(<<>>, DOMAIN f.header)
        BY DEF There
      <4> QED BY <1>1, <3>2, <4>1, <4>2 DEF RowsThere
    <3>6. f \in G
      BY <1>1, <3>2, <3>4, <3>5 DEF Fit
    <3>7. Runs(c, <<FreeTable(t)>>, f, G)
      BY <2>1, <3>1, <3>6, RunsOne
    <3> QED BY <2>2, <3>2, <3>3, <3>7
  <2>3. CASE t[2] = 0
    <3>1. t \notin DOMAIN c.table
      <4>1. TableOf(c, n) \notin DOMAIN c.table
        BY <1>1, <1>2, <2>3, TightChildren
      <4> QED BY <1>1, <4>1
    <3>2. Runs(c, <<>>, c, G)
      BY <2>1, RunsNone
    <3>3. DOMAIN c.table = DOMAIN c.table \ {t}
      BY <3>1
    <3> QED BY <1>1, <2>3, <3>2, <3>3
  <2> QED BY <1>2, <2>2, <2>3
<1>4. PICK f : /\ Runs(c, IF t[2] > 0 THEN <<FreeTable(t)>> ELSE <<>>, f, G)
               /\ f \in Disks /\ f.header = c.header /\ DOMAIN f.table = DOMAIN c.table \ {t}
               /\ \A x \in DOMAIN f.table : f.table[x] = c.table[x]
  BY <1>3
<1>5. PICK e : e = Written(f, FreeHeader(n))
  OBVIOUS
<1>6. e \in Disks /\ e.header = Without(f.header, n) /\ e.table = f.table
  BY <1>4, <1>5, HeaderFreed
<1>7. /\ DOMAIN e.header = DOMAIN d.header \ {n}
      /\ \A q \in DOMAIN e.header : e.header[q] = c.header[q]
  BY <1>1, <1>4, <1>6 DEF Without, Restrict
<1>8. ASSUME NEW q \in DOMAIN e.header
      PROVE  /\ Children(e, q) = Children(c, q) /\ Kids(e, q) = Kids(d, q) \ {n}
             /\ TableOf(e, q) = TableOf(d, q) /\ TableOf(e, q) # t
  <2>1. q # n /\ e.header[q] = c.header[q] /\ q \in DOMAIN d.header
    BY <1>7
  <2>2. TableOf(c, q) # t
    BY <1>1, <2>1 DEF TableOf
  <2>3. Alike(c, e, q)
    BY <1>4, <1>6, <2>1, <2>2 DEF Alike
  <2>4. Children(e, q) = Children(c, q) /\ Kids(e, q) = Kids(c, q) /\ TableOf(e, q) = TableOf(c, q)
    BY <2>3, SameChildren
  <2> QED BY <1>1, <2>1, <2>2, <2>4
<1>9. Tight(e)
  <2>1. DOMAIN e.table = DOMAIN c.table \ {t}
    BY <1>4, <1>6
  <2>2. DOMAIN c.table = TableNames(c)
    BY <1>1 DEF Tight
  <2>3. \A q \in DOMAIN e.header : TableOf(e, q) = TableOf(c, q) /\ TableOf(e, q) # t
    BY <1>1, <1>7, <1>8
  <2>4. TableOf(c, n) = t
    BY <1>1
  <2>5. DOMAIN c.header = DOMAIN e.header \cup {n}
    BY <1>1, <1>7
  <2>6. TableNames(e) = TableNames(c) \ {t}
    BY <1>7, <2>3, <2>4, <2>5 DEF TableNames
  <2> QED BY <2>1, <2>2, <2>6 DEF Tight
<1>10. ASSUME NEW q \in DOMAIN e.header PROVE WellNamed(e, q)
  <2>1. WellNamed(c, q) /\ q \in DOMAIN d.header
    BY <1>1, <1>7
  <2>2. Nodes(Children(c, q)) \subseteq DOMAIN e.header
    <3>1. Kids(c, q) = Nodes(Children(c, q)) /\ Kids(c, q) = Kids(d, q) \ {n}
      BY <1>1, <2>1, KidsAreNodes
    <3>2. Kids(d, q) \subseteq DOMAIN d.header
      BY <2>1 DEF Sound, ListsNodes
    <3> QED BY <1>7, <3>1, <3>2
  <2>3. RightlyNamed(e, Children(c, q)) /\ Distinct(Children(c, q))
    <3>1. RightlyNamed(c, Children(c, q)) /\ Distinct(Children(c, q))
      BY <2>1, WellNamedIs
    <3>2. \A x \in Nodes(Children(c, q)) : e.header[x].name = c.header[x].name
      BY <1>7, <2>2
    <3> QED BY <3>1, <3>2, RightlyKept
  <2> QED BY <1>8, <2>3, WellNamedIs
<1>11. Sound(e)
  BY <1>6, <1>7, <1>8, <1>9, <1>10, OneNodeLess
<1>12. Runs(f, <<FreeHeader(n)>>, e, G)
  <2>1. f \in G
    BY <1>4, RunsEnds
  <2>2. e \in G
    <3>1. DOMAIN e.header \subseteq 1 .. m
      BY <1>7
    <3> QED BY <1>6, <1>11, <3>1, SoundFits
  <2> QED BY <1>5, <2>1, <2>2, RunsOne
<1>13. Runs(d, (RemoveWrites(d, p, n)
                \o (IF t[2] > 0 THEN <<FreeTable(t)>> ELSE <<>>))
               \o <<FreeHeader(n)>>, e, G)
  <2> HIDE DEF G
  <2>1. Runs(d, RemoveWrites(d, p, n) \o (IF t[2] > 0 THEN <<FreeTable(t)>> ELSE <<>>), f, G)
    BY <1>1, <1>4, RunsOn
  <2> QED BY <1>12, <2>1, RunsOn
<1>14. Runs(d, ws, e, G)
  BY <1>13
<1> HIDE DEF G
<1>15. LessOne(d, e, n)
  BY <1>6, <1>7, <1>8, <1>11 DEF LessOne
<1> QED BY <1>14, <1>15 DEF G

----------------------------------------------------------------------------
(* The activations of ADF_Delete                                           *)

Activations ==
    [parent : Place, node : Place, next : Nat, table : Place \X Nat, children : Seq(Place \cup {0})]

\* The children an activation has not come to.
Waiting(a) == {a.children[k] : k \in a.next .. Len(a.children)}

\* Activation i of the stack s on the disk d, with the nodes dm to be deleted: of its
\* children those are left that are waiting, and the one under deletion.
OnNode(d, a, dm) ==
    /\ a.node \in DOMAIN d.header /\ a.node # Root /\ a.node \in dm
    /\ a.parent \in DOMAIN d.header /\ a.table = TableOf(d, a.node)
    /\ a.next \in 1 .. Len(a.children) + 1
    /\ \A k, m \in 1 .. Len(a.children) : a.children[k] = a.children[m] => k = m

Active(d, s, i, dm) ==
    /\ OnNode(d, s[i], dm)
    /\ i = Len(s) => Kids(d, s[i].node) = Waiting(s[i])
    /\ i # Len(s) => /\ Kids(d, s[i].node) = Waiting(s[i]) \cup {s[i + 1].node}
                     /\ s[i + 1].parent = s[i].node /\ s[i + 1].node \notin Waiting(s[i])

Stacked(d, s, dm) ==
    /\ \A x \in dm \cap DOMAIN d.header : Kids(d, x) \subseteq dm /\ s[1].node \notin Kids(d, x)
    /\ \A i \in 1 .. Len(s) : Active(d, s, i, dm)
    /\ \A i, j \in 1 .. Len(s) : s[i].node = s[j].node => i = j
    /\ s[1].parent \notin dm

\* A new activation has all children of its node before it.
LEMMA ActivationIs ==
    ASSUME Disk \in Disks, Sound(Disk), NEW p \in Place, NEW n \in DOMAIN header,
           NEW a, a = Activation(p, n)
    PROVE  /\ a \in Activations /\ a.parent = p /\ a.node = n /\ a.next = 1
           /\ a.table = TableOf(Disk, n) /\ Len(a.children) \in Nat
           /\ \A k, m \in 1 .. Len(a.children) : a.children[k] = a.children[m] => k = m
           /\ Waiting(a) = Kids(Disk, n)
<1> DEFINE rows == Children(Disk, n)
           nodes == [k \in DOMAIN rows |-> rows[k].node]
           len == Len(rows)
<1>1. Disk.header = header /\ n \in DOMAIN Disk.header /\ n \in Place
  <2>1. Disk.header = header
    BY DEF Disk
  <2> QED BY <2>1, DiskIs
<1>2. rows \in Seq(Row) /\ WellNamed(Disk, n)
  BY <1>1, ChildrenAre DEF Sound
<1>3. /\ nodes \in Seq(Place \cup {0}) /\ Len(nodes) = len /\ len \in Nat /\ DOMAIN rows = 1 .. len
      /\ \A k \in 1 .. len : nodes[k] = rows[k].node
  <2>1. \A row \in Row : row.node \in Place \cup {0}
    BY DEF Row, Blank
  <2> HIDE DEF rows
  <2>2. len \in Nat /\ DOMAIN rows = 1 .. len /\ \A k \in 1 .. len : rows[k] \in Row
    BY <1>2
  <2>3. \A k \in 1 .. len : rows[k].node \in Place \cup {0}
    BY <2>1, <2>2
  <2> HIDE DEF len
  <2> QED BY <2>2, <2>3
<1>4. a = [parent |-> p, node |-> n, next |-> 1, table |-> TableOf(Disk, n), children |-> nodes]
  BY DEF Activation
<1>5. TableOf(Disk, n) \in Place \X Nat
  BY <1>1, DiskIs DEF TableOf, Fits, Header
<1> HIDE DEF nodes, len
<1>6. a \in Activations
  BY <1>1, <1>3, <1>4, <1>5 DEF Activations
<1>7. /\ a.parent = p /\ a.node = n /\ a.next = 1 /\ a.table = TableOf(Disk, n)
      /\ a.children = nodes
  BY <1>4
<1>8. \A k, m \in 1 .. len : nodes[k] = nodes[m] => k = m
  BY <1>2, <1>3, NodesDiffer
<1>9. Waiting(a) = Kids(Disk, n)
  <2>1. Kids(Disk, n) = {rows[k].node : k \in DOMAIN rows}
    BY <1>1, KidsAre
  <2> QED BY <1>3, <1>7, <2>1 DEF Waiting
<1> QED BY <1>3, <1>6, <1>7, <1>8, <1>9

\* The first activation.
LEMMA StackBegun ==
    ASSUME Disk \in Disks, Sound(Disk), NEW p \in DOMAIN header, NEW n \in DOMAIN header \ {Root},
           p \notin Below(Disk, n), NEW a, a = Activation(p, n)
    PROVE  Stacked(Disk, <<a>>, Below(Disk, n))
<1>1. Disk.header = header
  BY DEF Disk
<1>2. n \in Place /\ p \in Place /\ 0 \notin DOMAIN header
  BY <1>1, DiskIs, RootIsPlace
<1>3. /\ a.parent = p /\ a.node = n /\ a.next = 1
      /\ a.table = TableOf(Disk, n) /\ Len(a.children) \in Nat
      /\ \A k, m \in 1 .. Len(a.children) : a.children[k] = a.children[m] => k = m
      /\ Waiting(a) = Kids(Disk, n)
  BY <1>2, ActivationIs
<1> DEFINE B == Below(Disk, n)
           s == <<a>>
<1>4. n \in B /\ Closed(Disk, B)
  BY <1>2, BelowIs
<1>5. \A x \in B \cap DOMAIN Disk.header : Kids(Disk, x) \subseteq B /\ n \notin Kids(Disk, x)
  <2>1. ASSUME NEW x \in B \cap DOMAIN Disk.header PROVE Kids(Disk, x) \subseteq B
    <3>1. Kids(Disk, x) \subseteq DOMAIN header
      BY <1>1 DEF Sound, ListsNodes
    <3> QED BY <1>2, <1>4, <3>1 DEF Closed
  <2>2. ASSUME NEW x \in B \cap DOMAIN Disk.header PROVE n \notin Kids(Disk, x)
    BY <1>1, NoCycle
  <2> QED BY <2>1, <2>2
<1>6. Len(s) = 1 /\ s[1] = a
  OBVIOUS
<1> HIDE DEF s, B
<1>7. Active(Disk, s, 1, B)
  BY <1>1, <1>3, <1>4, <1>6 DEF Active, OnNode
<1>8. \A i \in 1 .. Len(s) : Active(Disk, s, i, B)
  BY <1>6, <1>7
<1>9. \A i, j \in 1 .. Len(s) : s[i].node = s[j].node => i = j
  BY <1>6
<1> QED BY <1>3, <1>5, <1>6, <1>8, <1>9 DEF Stacked, s, B

\* The next child x of the last activation of s is taken up.
TakesUp(s, r, len, x) ==
    /\ s[len].next <= Len(s[len].children)
    /\ x = s[len].children[s[len].next]
    /\ r = Append([s EXCEPT ![len].next = @ + 1], Activation(s[len].node, x))

LEMMA StackGrows ==
    ASSUME Disk \in Disks, Sound(Disk), NEW dm, NEW s \in Seq(Activations), s # <<>>,
           Stacked(Disk, s, dm), NEW len, len = Len(s), NEW x, NEW r, TakesUp(s, r, len, x)
    PROVE  r \in Seq(Activations) /\ r # <<>> /\ Stacked(Disk, r, dm)
<1> DEFINE a == s[len]
           b == Activation(a.node, x)
           c == [a EXCEPT !.next = @ + 1]
           q == [s EXCEPT ![len].next = @ + 1]
<1>0. a.next <= Len(a.children) /\ x = a.children[a.next] /\ r = Append(q, b)
  BY DEF TakesUp
<1>1. len \in Nat \ {0} /\ len \in 1 .. len /\ a \in Activations
  <2>1. len \in Nat /\ len # 0
    <3> QED OBVIOUS
  <2>2. len \in Nat \ {0} /\ len \in 1 .. len
    BY <2>1
  <2> QED BY <2>2
<1>2. /\ a.parent \in Place /\ a.node \in Place /\ a.next \in Nat /\ a.table \in Place \X Nat
      /\ a.children \in Seq(Place \cup {0})
  <2> HIDE DEF a
  <2> QED BY <1>1 DEF Activations
<1>3. /\ c \in Activations /\ c.parent = a.parent /\ c.node = a.node /\ c.next = a.next + 1
      /\ c.table = a.table /\ c.children = a.children
  <2> HIDE DEF a
  <2>0. a = [parent |-> a.parent, node |-> a.node, next |-> a.next,
             table |-> a.table, children |-> a.children]
    BY <1>1 DEF Activations
  <2>1. c = [parent |-> a.parent, node |-> a.node, next |-> a.next + 1,
             table |-> a.table, children |-> a.children]
    BY <2>0
  <2>2. a.next + 1 \in Nat
    BY <1>2
  <2> HIDE DEF c
  <2> QED BY <1>2, <2>1, <2>2 DEF Activations
<1>4. Disk.header = header
  BY DEF Disk
<1>5. Active(Disk, s, len, dm) /\ \A i \in 1 .. len : Active(Disk, s, i, dm)
  BY <1>1 DEF Stacked
<1>6. /\ a.node \in DOMAIN header /\ a.node \in dm /\ Kids(Disk, a.node) = Waiting(a)
      /\ a.next \in 1 .. Len(a.children)
      /\ \A k, m \in 1 .. Len(a.children) : a.children[k] = a.children[m] => k = m
  <2>1. a.next \in 1 .. Len(a.children)
    BY <1>0, <1>2, <1>5 DEF Active, OnNode
  <2> QED BY <1>4, <1>5, <2>1 DEF Active, OnNode
<1>7. x \in Kids(Disk, a.node)
  BY <1>0, <1>2, <1>6 DEF Waiting
<1>8. x \in DOMAIN header /\ x # Root /\ x \in dm
  <2>1. x \in DOMAIN header /\ x # Root
    BY <1>4, <1>6, <1>7 DEF Sound, ListsNodes
  <2>2. Kids(Disk, a.node) \subseteq dm
    BY <1>4, <1>6 DEF Stacked
  <2> QED BY <1>7, <2>1, <2>2
<1>9. Waiting(a) = Waiting(c) \cup {x} /\ x \notin Waiting(c)
  <2> DEFINE k == a.next
             m == Len(a.children)
  <2>1. k \in 1 .. m /\ m \in Nat
    BY <1>2, <1>6
  <2>2. Waiting(c) = {a.children[i] : i \in k + 1 .. m} /\ Waiting(a) = {a.children[i] : i \in k .. m}
    BY <1>3 DEF Waiting
  <2>3. x = a.children[k]
    BY <1>0
  <2>4. \A i, j \in 1 .. m : a.children[i] = a.children[j] => i = j
    BY <1>6
  <2> HIDE DEF k, m, a, c
  <2>5. k .. m = (k + 1 .. m) \cup {k} /\ \A i \in k + 1 .. m : i # k /\ i \in 1 .. m
    BY <2>1
  <2>6. Waiting(a) = Waiting(c) \cup {x}
    BY <2>2, <2>3, <2>5, SMTT(60)
  <2>7. x \notin Waiting(c)
    BY <2>1, <2>2, <2>3, <2>4, <2>5
  <2> QED BY <2>6, <2>7
<1>10. /\ b \in Activations /\ b.parent = a.node /\ b.node = x /\ b.next = 1
       /\ b.table = TableOf(Disk, x) /\ Len(b.children) \in Nat
       /\ \A k, m \in 1 .. Len(b.children) : b.children[k] = b.children[m] => k = m
       /\ Waiting(b) = Kids(Disk, x)
  <2> HIDE DEF a
  <2> QED BY <1>2, <1>8, ActivationIs, SMTT(60)
<1>11. /\ r \in Seq(Activations) /\ Len(r) = len + 1 /\ r[len + 1] = b /\ r[len] = c
       /\ \A i \in 1 .. len : i # len => r[i] = s[i]
  <2>1. q = [s EXCEPT ![len] = c]
    OBVIOUS
  <2>2. r = Append(q, b)
    BY <1>0
  <2> HIDE DEF b, c, q
  <2>3. /\ q \in Seq(Activations) /\ Len(q) = len /\ q[len] = c
        /\ \A i \in 1 .. len : i # len => q[i] = s[i]
    BY <1>1, <1>3, <2>1, SMTT(60)
  <2> QED BY SMTT(60), <1>1, <1>10, <2>2, <2>3
<1> HIDE DEF a, b, c
<1>12. \A i \in 1 .. len : r[i].node = s[i].node /\ r[i].parent = s[i].parent
  BY <1>1, <1>3, <1>11 DEF a
<1>13. \A i \in 1 .. len : s[i].node # x
  <2> SUFFICES ASSUME NEW i \in 1 .. len, s[i].node = x PROVE FALSE
    OBVIOUS
  <2>1. CASE i = 1
    BY <1>4, <1>6, <1>7, <2>1 DEF Stacked
  <2>2. CASE i # 1
    <3>1. i - 1 \in 1 .. len /\ i - 1 # len /\ (i - 1) + 1 = i
      BY <1>1, <2>2
    <3>2. x \in Kids(Disk, s[i - 1].node) /\ s[i - 1].node \in DOMAIN header
      <4>1. Active(Disk, s, i - 1, dm)
        BY <1>5, <3>1
      <4>2. i - 1 # Len(s) /\ s[(i - 1) + 1].node = x
        BY <3>1
      <4>3. x \in Kids(Disk, s[i - 1].node) /\ s[i - 1].node \in DOMAIN Disk.header
        <5> DEFINE k == i - 1
        <5> HIDE DEF k
        <5> QED BY <4>1, <4>2 DEF Active, OnNode
      <4> QED BY <1>4, <4>3
    <3>3. s[i - 1].node = a.node
      BY <1>4, <1>6, <1>7, <3>2 DEF Sound, OneParent
    <3>4. \A k, m \in 1 .. len : s[k].node = s[m].node => k = m
      BY DEF Stacked
    <3> QED BY <1>1, <3>1, <3>3, <3>4 DEF a
  <2> QED BY <2>1, <2>2
<1>14. ASSUME NEW i \in 1 .. Len(r) PROVE Active(Disk, r, i, dm)
  <2>1. CASE i = len + 1
    <3>1. r[i] = b /\ i = Len(r)
      BY <1>11, <2>1
    <3>2. /\ b.node \in DOMAIN Disk.header /\ b.node # Root /\ b.node \in dm
          /\ b.parent \in DOMAIN Disk.header /\ b.table = TableOf(Disk, b.node)
      BY <1>4, <1>6, <1>8, <1>10
    <3>3. b.next \in 1 .. Len(b.children) + 1
      BY <1>10
    <3>4. OnNode(Disk, b, dm)
      BY <1>10, <3>2, <3>3, Zenon DEF OnNode
    <3>5. Kids(Disk, b.node) = Waiting(b)
      BY <1>10
    <3> QED BY <3>1, <3>4, <3>5, Zenon DEF Active
  <2>2. CASE i = len
    <3>1. r[i] = c /\ r[i + 1] = b /\ i # Len(r)
      BY <1>1, <1>11, <2>2
    <3>2. OnNode(Disk, a, dm)
      BY <1>5, Zenon DEF Active, a
    <3>3. /\ c.node \in DOMAIN Disk.header /\ c.node # Root /\ c.node \in dm
          /\ c.parent \in DOMAIN Disk.header /\ c.table = TableOf(Disk, c.node)
      BY <1>3, <3>2 DEF OnNode
    <3>4. c.next \in 1 .. Len(c.children) + 1
      BY SMTT(60), <1>2, <1>3, <1>6
    <3>5. \A k, m \in 1 .. Len(c.children) : c.children[k] = c.children[m] => k = m
      BY <1>3, <1>6
    <3>6. OnNode(Disk, c, dm)
      BY <3>3, <3>4, <3>5, Zenon DEF OnNode
    <3>7. /\ Kids(Disk, c.node) = Waiting(c) \cup {b.node}
          /\ b.parent = c.node /\ b.node \notin Waiting(c)
      BY <1>3, <1>6, <1>9, <1>10
    <3> QED BY <3>1, <3>6, <3>7, Zenon DEF Active
  <2>3. CASE i \in 1 .. len /\ i # len
    <3>1. r[i] = s[i] /\ i + 1 \in 1 .. len /\ i # Len(r) /\ i # Len(s)
      BY <1>1, <1>11, <2>3
    <3>2. r[i + 1].node = s[i + 1].node /\ r[i + 1].parent = s[i + 1].parent
      BY <1>12, <3>1
    <3>3. Active(Disk, s, i, dm)
      BY <1>5, <2>3
    <3> QED BY <3>1, <3>2, <3>3, Zenon DEF Active
  <2> QED BY <1>1, <1>11, <2>1, <2>2, <2>3
<1>15. \A i, j \in 1 .. Len(r) : r[i].node = r[j].node => i = j
  <2> SUFFICES ASSUME NEW i \in 1 .. Len(r), NEW j \in 1 .. Len(r), r[i].node = r[j].node
               PROVE  i = j
    OBVIOUS
  <2>1. (i \in 1 .. len \/ i = len + 1) /\ (j \in 1 .. len \/ j = len + 1)
    BY <1>1, <1>11
  <2>2. r[len + 1].node = x
    BY <1>10, <1>11
  <2>3. CASE i \in 1 .. len /\ j \in 1 .. len
    BY <1>12, <2>3 DEF Stacked
  <2>4. CASE i = len + 1 /\ j \in 1 .. len
    BY <1>12, <1>13, <2>2, <2>4
  <2>5. CASE i \in 1 .. len /\ j = len + 1
    BY <1>12, <1>13, <2>2, <2>5
  <2> QED BY <2>1, <2>3, <2>4, <2>5
<1>16. r[1].node = s[1].node /\ r[1].parent = s[1].parent
  BY <1>1, <1>12
<1>17. Stacked(Disk, r, dm)
  <2>1. /\ \A y \in dm \cap DOMAIN Disk.header :
              Kids(Disk, y) \subseteq dm /\ r[1].node \notin Kids(Disk, y)
        /\ r[1].parent \notin dm
    BY <1>16 DEF Stacked
  <2> QED BY <1>14, <1>15, <2>1, Zenon DEF Stacked
<1>18. r # <<>>
  BY <1>1, <1>11
<1> QED BY <1>11, <1>17, <1>18

LEMMA BeforeTheLast ==
    ASSUME NEW len \in Nat, NEW i \in 1 .. len - 1, i # len - 1
    PROVE  i # len /\ i + 1 \in 1 .. len - 1
OBVIOUS

\* The innermost activation has deleted its node, which is a child of the one before it.
LEMMA StackShrinks ==
    ASSUME NEW d \in Disks, Sound(d), NEW dm, NEW s \in Seq(Activations), NEW len, len = Len(s),
           len > 1, Stacked(d, s, dm), NEW n, n = s[len].node,
           NEW e, DOMAIN e.header = DOMAIN d.header \ {n},
           \A q \in DOMAIN e.header : Kids(e, q) = Kids(d, q) \ {n} /\ TableOf(e, q) = TableOf(d, q),
           NEW r, Len(r) = len - 1, \A i \in 1 .. len - 1 : r[i] = s[i]
    PROVE  Stacked(e, r, dm)
<1>1. /\ len \in Nat /\ len - 1 \in 1 .. len /\ len \in 1 .. len /\ 1 \in 1 .. len - 1
      /\ \A i \in 1 .. len - 1 : i \in 1 .. len /\ i # len
  OBVIOUS
<1>2. \A i \in 1 .. len : Active(d, s, i, dm)
  BY DEF Stacked
<1>3. /\ \A i, j \in 1 .. len : s[i].node = s[j].node => i = j
      /\ s[1].parent \notin dm
      /\ \A x \in dm \cap DOMAIN d.header : Kids(d, x) \subseteq dm /\ s[1].node \notin Kids(d, x)
  BY DEF Stacked
<1>4. \A i \in 1 .. len - 1 : s[i].node # n /\ s[i].node \in DOMAIN d.header /\ s[i].node \in dm
  BY <1>1, <1>2, <1>3 DEF Active, OnNode
<1>5. n \in dm /\ n \in DOMAIN d.header
  BY <1>1, <1>2 DEF Active, OnNode
<1>6. \A i \in 1 .. len - 1 : s[i].parent # n /\ s[i].parent \in DOMAIN d.header
  <2> SUFFICES ASSUME NEW i \in 1 .. len - 1
               PROVE  s[i].parent # n /\ s[i].parent \in DOMAIN d.header
    OBVIOUS
  <2>1. s[i].parent \in DOMAIN d.header
    BY <1>1, <1>2 DEF Active, OnNode
  <2>2. CASE i = 1
    BY <1>3, <1>5, <2>1, <2>2
  <2>3. CASE i # 1
    <3>1. i - 1 \in 1 .. len - 1 /\ (i - 1) + 1 = i
      BY <1>1, <2>3
    <3>2. Active(d, s, i - 1, dm) /\ i - 1 # len
      BY <1>1, <1>2, <3>1
    <3>3. s[i].parent = s[i - 1].node
      BY <3>1, <3>2 DEF Active, OnNode
    <3> QED BY <1>4, <2>1, <3>1, <3>3
  <2> QED BY <2>2, <2>3
<1>7. n \in Kids(d, s[len - 1].node) /\ Kids(d, s[len - 1].node) \ {n} = Waiting(s[len - 1])
  <2>1. Active(d, s, len - 1, dm) /\ len - 1 # len /\ (len - 1) + 1 = len
    BY <1>1, <1>2
  <2> QED BY <2>1 DEF Active, OnNode
<1>8. \A i \in 1 .. len - 1 : i # len - 1 => n \notin Kids(d, s[i].node)
  <2> SUFFICES ASSUME NEW i \in 1 .. len - 1, i # len - 1, n \in Kids(d, s[i].node) PROVE FALSE
    OBVIOUS
  <2>1. s[i].node = s[len - 1].node
    <3>1. s[i].node \in DOMAIN d.header /\ s[len - 1].node \in DOMAIN d.header
      BY <1>1, <1>2 DEF Active, OnNode
    <3> QED BY <1>7, <3>1 DEF Sound, OneParent
  <2> QED BY <1>1, <1>3, <2>1
<1>9. ASSUME NEW i \in 1 .. len - 1 PROVE Active(e, r, i, dm)
  <2>1. Active(d, s, i, dm) /\ r[i] = s[i] /\ s[i].node \in DOMAIN e.header /\ s[i].node # n
    BY <1>1, <1>2, <1>4
  <2>2. s[i].parent \in DOMAIN e.header
    BY <1>6
  <2>3. /\ Kids(e, s[i].node) = Kids(d, s[i].node) \ {n}
        /\ TableOf(e, s[i].node) = TableOf(d, s[i].node)
    BY <2>1
  <2>4. CASE i = len - 1
    <3>1. Kids(e, r[i].node) = Waiting(r[i]) /\ i = Len(r)
      BY <1>7, <2>1, <2>3, <2>4
    <3> QED BY <2>1, <2>2, <2>3, <3>1 DEF Active, OnNode
  <2>5. CASE i # len - 1
    <3>1. i # Len(r) /\ i # len /\ i + 1 \in 1 .. len - 1
      <4>1. i # Len(r)
        BY <2>5, Zenon
      <4>2. i # len /\ i + 1 \in 1 .. len - 1
        BY <1>1, <2>5, BeforeTheLast, Zenon
      <4> QED BY <4>1, <4>2, Zenon
    <3>2. r[i + 1] = s[i + 1] /\ Kids(e, s[i].node) = Kids(d, s[i].node)
      <4>1. r[i + 1] = s[i + 1]
        BY <3>1, Zenon
      <4>2. n \notin Kids(d, s[i].node)
        BY <1>8, <2>5, Zenon
      <4> QED BY <2>3, <4>1, <4>2, Zenon
    <3>3. OnNode(d, s[i], dm)
      BY <2>1, Zenon DEF Active
    <3>4. /\ Kids(d, s[i].node) = Waiting(s[i]) \cup {s[i + 1].node}
          /\ s[i + 1].parent = s[i].node /\ s[i + 1].node \notin Waiting(s[i])
      BY <2>1, <3>1, Zenon DEF Active
    <3>5. OnNode(e, s[i], dm)
      BY <2>1, <2>2, <2>3, <3>3, Zenon DEF OnNode
    <3>6. Kids(e, s[i].node) = Waiting(s[i]) \cup {r[i + 1].node}
      BY <3>2, <3>4
    <3>7. r[i + 1].parent = s[i].node /\ r[i + 1].node \notin Waiting(s[i])
      BY <3>2, <3>4
    <3> QED BY <2>1, <3>1, <3>5, <3>6, <3>7, Zenon DEF Active
  <2> QED BY <2>4, <2>5
<1>10. \A x \in dm \cap DOMAIN e.header : Kids(e, x) \subseteq dm /\ r[1].node \notin Kids(e, x)
  <2> SUFFICES ASSUME NEW x \in dm \cap DOMAIN e.header
               PROVE  Kids(e, x) \subseteq dm /\ r[1].node \notin Kids(e, x)
    OBVIOUS
  <2>1. x \in dm \cap DOMAIN d.header /\ Kids(e, x) = Kids(d, x) \ {n}
    OBVIOUS
  <2>2. r[1] = s[1]
    BY <1>1
  <2> QED BY <1>3, <2>1, <2>2
<1>11. \A i, j \in 1 .. len - 1 : r[i].node = r[j].node => i = j
  BY <1>1, <1>3, SMTT(60)
<1>12. r[1].parent \notin dm
  BY <1>1, <1>3
<1> QED BY <1>9, <1>10, <1>11, <1>12 DEF Stacked

----------------------------------------------------------------------------
(* The inductive invariant                                                 *)

\* The nodes that may be missing below the root while the call under way lasts.
Lost == IF misplaced THEN Place ELSE doomed

Typed ==
    /\ made \in Place /\ doomed \subseteq Place /\ misplaced \in BOOLEAN /\ stopped \in BOOLEAN
    /\ deleting \in Seq(Activations) /\ (misplaced => deleting = <<>>)

\* The writes still to be made lead to disk e, a tree with the deletions to come in order.
Ahead(e) ==
    /\ Runs(Disk, todo, e, Fit(made, Lost))
    /\ ~ misplaced => Sound(e)
    /\ ~ misplaced /\ deleting # <<>> => Stacked(e, deleting, doomed)

\* The writes to come take the disk to a tree, by disks a stopped call may leave behind.
Inv == Typed /\ \E e : Ahead(e)

LEMMA RunsSeq ==
    ASSUME NEW d, NEW ws, NEW e, NEW G, Runs(d, ws, e, G)
    PROVE  \E W : ws \in Seq(W)
BY DEF Runs

LEMMA DiskNow ==
    ASSUME Inv
    PROVE  Disk.header = header /\ Disk.table = table /\ Disk \in Fit(made, Lost) /\ Disk \in Disks
<1>1. PICK e : Runs(Disk, todo, e, Fit(made, Lost))
  BY DEF Inv, Ahead
<1>2. Disk \in Fit(made, Lost)
  BY <1>1, RunsEnds
<1>3. Disk.header = header /\ Disk.table = table
  BY DEF Disk
<1> QED BY <1>2, <1>3 DEF Fit

\* Between two steps of a call that leave nothing to write, and between calls.
LEMMA Settled ==
    ASSUME Inv, todo = <<>>, ~ misplaced
    PROVE  /\ Disk \in Disks /\ Sound(Disk) /\ DOMAIN header \subseteq 1 .. made
           /\ Disk.header = header /\ made \in Place /\ DOMAIN header \subseteq Place
           /\ deleting \in Seq(Activations)
           /\ deleting # <<>> => Stacked(Disk, deleting, doomed)
<1>1. PICK e : Ahead(e)
  BY DEF Inv
<1>2. e = Disk
  <2>1. Runs(Disk, todo, e, Fit(made, Lost))
    BY <1>1 DEF Ahead
  <2> QED BY <2>1, RunsEnds
<1>3. Disk.header = header /\ Disk \in Disks /\ DOMAIN Disk.header \subseteq 1 .. made
  BY DiskNow DEF Fit
<1>4. DOMAIN Disk.header \subseteq Place
  BY <1>3, DiskIs
<1> QED BY <1>1, <1>2, <1>3, <1>4 DEF Ahead, Inv, Typed

LEMMA InitHolds ==
    ASSUME Init
    PROVE  Inv
<1>1. Root \in Place /\ made \in Place /\ made = 1 /\ 1 = Root
  BY RootIsPlace DEF Init, Root
<1>2. Disk.header = header /\ Disk.table = table /\ Disk = [header |-> header, table |-> table]
  BY DEF Disk
<1>3. DOMAIN header = {Root} /\ header[Root] = NewNode(RootName)
  BY DEF Init
<1>4. DOMAIN table = {}
  BY DEF Init
<1>5. Fits(Root, NewNode(RootName))
  BY DEF Fits, NewNode, Header
<1>6. Disk \in Disks
  <2>1. header \in Headers
    <3>1. header \in [{Root} -> Header]
      BY <1>5 DEF Init, Fits
    <3> QED BY <1>1, <3>1 DEF Headers
  <2>2. table \in Tables
    <3>1. table \in [{} -> Seq(Row)]
      BY <1>4 DEF Init
    <3> QED BY <3>1 DEF Tables
  <2> QED BY <1>2, <1>3, <1>4, <1>5, <2>1, <2>2, IsDisk
<1>7. Children(Disk, Root) = <<>> /\ Kids(Disk, Root) = {}
  <2>1. Children(Disk, Root) = <<>>
    BY <1>2, <1>4 DEF Children
  <2> QED BY <1>2, <1>3, <1>6, <2>1, KidsAre
<1>8. Sound(Disk)
  <2>1. ListsNodes(Disk) /\ OneParent(Disk)
    BY <1>2, <1>3, <1>7 DEF ListsNodes, OneParent
  <2>2. Rooted(Disk)
    BY <1>1, <1>2, <1>3, <1>6, BelowIs DEF Rooted
  <2>3. \A p \in DOMAIN Disk.header : WellNamed(Disk, p)
    BY <1>2, <1>3, <1>7 DEF WellNamed
  <2>4. header[Root].entries = 0
    BY <1>3 DEF NewNode
  <2>5. TableNames(Disk) = {}
    BY <1>2, <1>3, <2>4 DEF TableNames
  <2> QED BY <1>2, <1>4, <2>1, <2>2, <2>3, <2>5 DEF Sound
<1>9. Disk \in Fit(made, Lost)
  <2>1. DOMAIN Disk.header \subseteq 1 .. made
    BY <1>1, <1>2, <1>3
  <2> QED BY <1>6, <1>8, <2>1, SoundFits
<1>10. Ahead(Disk)
  <2>1. Runs(Disk, <<>>, Disk, Fit(made, Lost))
    BY <1>9, RunsNone
  <2> QED BY <1>8, <2>1 DEF Ahead, Init
<1>11. Typed
  <2>1. deleting = <<>> /\ doomed = {} /\ misplaced = FALSE /\ stopped = FALSE
    BY DEF Init
  <2>2. deleting \in Seq(Activations)
    BY <2>1
  <2> QED BY <1>1, <2>1, <2>2 DEF Typed
<1> QED BY <1>10, <1>11 DEF Inv

LEMMA CreateKeeps ==
    ASSUME Inv, NEW p \in Place, NEW name \in Name, Create(p, name)
    PROVE  Inv'
<1> DEFINE n == made + 1
           ws == <<WriteHeader(n, NewNode(Trim[name]))>> \o AddWrites(Disk, p, n, Trim[name])
<1>1. todo = <<>> /\ deleting = <<>> /\ ~ misplaced /\ ~ stopped
  BY DEF Create, Idle
<1>2. /\ Disk \in Disks /\ Sound(Disk) /\ DOMAIN header \subseteq 1 .. made
      /\ Disk.header = header /\ made \in Place
  BY <1>1, Settled
<1>3. /\ made < MaxNode /\ p \in DOMAIN header /\ ~ HasChild(p, Trim[name])
      /\ made' = n /\ todo' = ws /\ doomed' = {n}
      /\ UNCHANGED <<header, table, deleting, misplaced, stopped>>
  BY DEF Create
<1>4. n \in Place /\ n \notin DOMAIN header /\ DOMAIN header \cup {n} \subseteq 1 .. n
  BY <1>2, <1>3, TreeAssumption DEF Place
<1>5. /\ Trim[name] \in Name
      /\ \A k \in DOMAIN Children(Disk, p) : Children(Disk, p)[k].name # Trim[name]
  BY <1>3, TrimAssumption DEF HasChild
<1> HIDE DEF n
<1>6. PICK e : Runs(Disk, ws, e, Fit(n, {n})) /\ Sound(e)
  BY <1>2, <1>3, <1>4, <1>5, NodeMade
<1> HIDE DEF ws
<1>7. Disk' = Disk
  BY <1>3 DEF Disk
<1>8. ~ misplaced' /\ deleting' = <<>> /\ Lost' = {n}
  BY <1>1, <1>3 DEF Lost
<1>9. Runs(Disk', todo', e, Fit(made', Lost'))
  BY <1>3, <1>6, <1>7, <1>8
<1>10. Ahead(e)'
  BY <1>6, <1>8, <1>9 DEF Ahead
<1>11. Typed'
  BY <1>3, <1>4 DEF Typed, Inv
<1> QED BY <1>10, <1>11 DEF Inv

LEMMA MoveKeeps ==
    ASSUME Inv, NEW p \in Place, NEW n \in Place, NEW np \in Place, Move(p, n, np)
    PROVE  Inv'
<1> DEFINE name == header[n].name
           add == AddWrites(Disk, np, n, name)
           ws == add \o RemoveWrites(AllWritten(Disk, add), p, n)
<1>1. todo = <<>> /\ deleting = <<>> /\ ~ misplaced /\ ~ stopped
  BY DEF Move, Idle
<1>2. /\ Disk \in Disks /\ Sound(Disk) /\ DOMAIN header \subseteq 1 .. made
      /\ Disk.header = header /\ made \in Place
  BY <1>1, Settled
<1>3. /\ {p, n, np} \subseteq DOMAIN header /\ n # Root /\ todo' = ws
      /\ misplaced' = (\/ misplaced \/ np \in Below(Disk, n)
                       \/ np # p /\ HasChild(np, name)
                       \/ \A row \in Range(Children(Disk, p)) : row.node # n)
      /\ UNCHANGED <<header, table, made, deleting, doomed, stopped>>
  BY DEF Move
<1>4. Disk' = Disk
  BY <1>3 DEF Disk
<1>5. misplaced' \in BOOLEAN
  BY <1>3
<1>6. Typed'
  BY <1>1, <1>3, <1>5 DEF Typed, Inv
<1>7. name = Disk.header[n].name /\ n \in DOMAIN Disk.header \ {Root}
      /\ p \in DOMAIN Disk.header /\ np \in DOMAIN Disk.header
      /\ DOMAIN Disk.header \subseteq 1 .. made
  BY <1>2, <1>3
<1>8. CASE misplaced'
  <2> HIDE DEF name
  <2>1. PICK e : Runs(Disk, ws, e, Fit(made, Place))
    BY <1>2, <1>7, NodeMisplaced
  <2> HIDE DEF add, ws
  <2>2. Lost' = Place
    BY <1>8 DEF Lost
  <2>3. Runs(Disk', todo', e, Fit(made', Lost'))
    BY <1>3, <1>4, <2>1, <2>2
  <2>4. Ahead(e)'
    BY <1>8, <2>3 DEF Ahead
  <2> QED BY <1>6, <2>4 DEF Inv
<1>9. CASE ~ misplaced'
  <2>1. /\ np \notin Below(Disk, n) /\ (np = p \/ ~ HasChild(np, name))
        /\ \E row \in Range(Children(Disk, p)) : row.node = n
    BY <1>3, <1>9
  <2>2. n \in Kids(Disk, p)
    BY <2>1 DEF Kids
  <2>3. \E e : Runs(Disk, ws, e, Fit(made, doomed)) /\ Sound(e)
    <3>1. CASE np = p
      <4> HIDE DEF name
      <4>1. add = AddWrites(Disk, p, n, Disk.header[n].name)
        BY <1>7, <3>1
      <4> QED BY <1>2, <1>7, <2>2, <4>1, NodeMovedWithin
    <3>2. CASE np # p
      <4>1. \A k \in DOMAIN Children(Disk, np) : Children(Disk, np)[k].name # name
        BY <2>1, <3>2 DEF HasChild
      <4> HIDE DEF name
      <4>2. \A k \in DOMAIN Children(Disk, np) : Children(Disk, np)[k].name # Disk.header[n].name
        BY <1>7, <4>1
      <4> QED BY <1>2, <1>7, <2>1, <2>2, <3>2, <4>2, NodeMovedAway
    <3> QED BY <3>1, <3>2
  <2> HIDE DEF ws
  <2>4. PICK e : Runs(Disk, ws, e, Fit(made, doomed)) /\ Sound(e)
    BY <2>3
  <2>5. Lost' = doomed
    BY <1>3, <1>9 DEF Lost
  <2>6. Runs(Disk', todo', e, Fit(made', Lost'))
    BY <1>3, <1>4, <2>4, <2>5
  <2>7. deleting' = <<>>
    BY <1>1, <1>3
  <2>8. Ahead(e)'
    BY <2>4, <2>6, <2>7 DEF Ahead
  <2> QED BY <1>6, <2>8 DEF Inv
<1> QED BY <1>8, <1>9

NamedRow(rows, name) == SelectInSeq(rows, LAMBDA row : row.name = name)

LEMMA FirstNamed ==
    ASSUME NEW rows \in Seq(Row), NEW name, NamedRow(rows, name) # 0
    PROVE  NamedRow(rows, name) \in 1 .. Len(rows)
<1> DEFINE I == {i \in 1 .. Len(rows) : rows[i].name = name}
<1>1. NamedRow(rows, name) = IF I # {} THEN Min(I) ELSE 0
  BY DEF NamedRow, SelectInSeq
<1>2. I \in SUBSET (1 .. Len(rows)) /\ I \in SUBSET Nat
  OBVIOUS
<1> HIDE DEF I
<1>3. I # {} /\ NamedRow(rows, name) = Min(I)
  BY <1>1
<1>4. Min(I) \in I
  <2>1. \E i \in I : \A j \in I : i <= j
    BY <1>2, <1>3, LeastElement
  <2> QED BY <2>1, Zenon DEF Min
<1> QED BY <1>2, <1>3, <1>4

LEMMA PutNameKeeps ==
    ASSUME Inv, NEW p \in Place, NEW n \in Place, NEW name \in Name, PutName(p, n, name)
    PROVE  Inv'
<1> DEFINE rows == Children(Disk, p)
           k == NamedRow(rows, header[n].name)
           ws == <<WriteHeader(n, Renamed(Disk.header[n], name)),
                   WriteRow(TableOf(Disk, p), k, [name |-> name, node |-> n])>>
<1>1. todo = <<>> /\ deleting = <<>> /\ ~ misplaced /\ ~ stopped
  BY DEF PutName, Idle
<1>2. /\ Disk \in Disks /\ Sound(Disk) /\ DOMAIN header \subseteq 1 .. made
      /\ Disk.header = header /\ made \in Place
  BY <1>1, Settled
<1>3. /\ {p, n} \subseteq DOMAIN header /\ n # Root
      /\ ~ HasChild(p, Trim[name]) /\ k # 0 /\ rows[k].node = n
      /\ todo' = <<WriteHeader(n, [header[n] EXCEPT !.name = name]),
                   WriteRow(TableOf(Disk, p), k, [name |-> name, node |-> n])>>
      /\ UNCHANGED <<header, table, made, deleting, doomed, misplaced, stopped>>
  BY DEF PutName, NamedRow
<1>4. [header[n] EXCEPT !.name = name] = Renamed(Disk.header[n], name)
  BY <1>2 DEF Renamed
<1>5. todo' = ws
  BY <1>3, <1>4
<1>6. \A j \in DOMAIN rows : rows[j].name = name => MayBeShared(name)
  BY <1>3 DEF HasChild, MayBeShared
<1>7. rows \in Seq(Row)
  BY <1>2, <1>3, ChildrenAre
<1> HIDE DEF rows
<1>8. k \in 1 .. Len(rows)
  BY <1>3, <1>7, FirstNamed
<1>9. /\ n \in DOMAIN Disk.header \ {Root} /\ p \in DOMAIN Disk.header
      /\ DOMAIN Disk.header \subseteq 1 .. made
  BY <1>2, <1>3
<1> HIDE DEF k
<1>10. PICK e : Runs(Disk, ws, e, Fit(made, doomed)) /\ Sound(e)
  BY <1>2, <1>3, <1>6, <1>8, <1>9, NodeRenamed DEF rows
<1> HIDE DEF ws
<1>11. Disk' = Disk
  BY <1>3 DEF Disk
<1>12. ~ misplaced' /\ deleting' = <<>> /\ Lost' = doomed
  BY <1>1, <1>3 DEF Lost
<1>13. Runs(Disk', todo', e, Fit(made', Lost'))
  BY <1>3, <1>5, <1>10, <1>11, <1>12
<1>14. Ahead(e)'
  BY <1>10, <1>12, <1>13 DEF Ahead
<1>15. Typed'
  BY <1>3 DEF Typed, Inv
<1> QED BY <1>14, <1>15 DEF Inv

LEMMA DeleteKeeps ==
    ASSUME Inv, NEW p \in Place, NEW n \in Place, Delete(p, n)
    PROVE  Inv'
<1> DEFINE a == Activation(p, n)
<1>1. todo = <<>> /\ deleting = <<>> /\ ~ misplaced /\ ~ stopped
  BY DEF Delete, Idle
<1>2. /\ Disk \in Disks /\ Sound(Disk) /\ DOMAIN header \subseteq 1 .. made
      /\ Disk.header = header /\ made \in Place
  BY <1>1, Settled
<1>3. /\ {p, n} \subseteq DOMAIN header /\ n # Root /\ p \notin Below(Disk, n)
      /\ deleting' = <<a>> /\ doomed' = Below(Disk, n)
      /\ UNCHANGED <<header, table, made, todo, misplaced, stopped>>
  BY DEF Delete
<1>4. a \in Activations
  BY <1>2, <1>3, ActivationIs
<1>5. Stacked(Disk, <<a>>, Below(Disk, n))
  BY <1>2, <1>3, StackBegun
<1> HIDE DEF a
<1>6. Disk' = Disk
  BY <1>3 DEF Disk
<1>7. ~ misplaced' /\ Lost' = Below(Disk, n) /\ todo' = <<>>
  BY <1>1, <1>3 DEF Lost
<1>8. Disk \in Fit(made, Below(Disk, n))
  BY <1>2, SoundFits
<1>9. Runs(Disk, <<>>, Disk, Fit(made, Below(Disk, n)))
  BY <1>8, RunsNone
<1>10. Runs(Disk', todo', Disk, Fit(made', Lost'))
  BY <1>3, <1>6, <1>7, <1>9
<1>11. \E e : Ahead(e)'
  BY <1>2, <1>3, <1>5, <1>7, <1>10 DEF Ahead
<1>12. deleting' \in Seq(Activations)
  BY <1>3, <1>4
<1>13. Below(Disk, n) \subseteq Place
  BY <1>2, BelowIs
<1>14. Typed'
  BY <1>3, <1>7, <1>12, <1>13 DEF Typed, Inv
<1> QED BY <1>11, <1>14 DEF Inv

LEMMA DeleteChildKeeps ==
    ASSUME Inv, DeleteChild
    PROVE  Inv'
<1> DEFINE len == Len(deleting)
           r == Append([deleting EXCEPT ![len].next = @ + 1],
                       Activation(deleting[len].node, deleting[len].children[deleting[len].next]))
<1>1. todo = <<>> /\ deleting # <<>> /\ ~ misplaced
  BY DEF DeleteChild, Inv, Typed
<1>2. /\ Disk \in Disks /\ Sound(Disk) /\ DOMAIN header \subseteq 1 .. made
      /\ Disk.header = header /\ made \in Place
      /\ deleting \in Seq(Activations) /\ Stacked(Disk, deleting, doomed)
  BY <1>1, Settled
<1>3. /\ deleting[len].next <= Len(deleting[len].children) /\ deleting' = r
      /\ UNCHANGED <<header, table, made, todo, doomed, misplaced, stopped>>
  BY DEF DeleteChild, Top, Last
<1>4. r \in Seq(Activations) /\ r # <<>> /\ Stacked(Disk, r, doomed)
  <2> DEFINE x == deleting[len].children[deleting[len].next]
  <2>1. TakesUp(deleting, r, len, x)
    BY <1>3 DEF TakesUp
  <2> HIDE DEF r, x
  <2> QED BY <1>1, <1>2, <2>1, StackGrows
<1> HIDE DEF r
<1>5. Disk' = Disk
  BY <1>3 DEF Disk
<1>6. Disk \in Fit(made, doomed)
  BY <1>2, SoundFits
<1>7. Runs(Disk, <<>>, Disk, Fit(made, doomed))
  BY <1>6, RunsNone
<1>8. ~ misplaced' /\ Lost' = doomed /\ todo' = <<>>
  BY <1>1, <1>3 DEF Lost
<1>9. Runs(Disk', todo', Disk, Fit(made', Lost'))
  BY <1>3, <1>5, <1>7, <1>8
<1>10. \E e : Ahead(e)'
  BY <1>2, <1>3, <1>4, <1>8, <1>9 DEF Ahead
<1>11. Typed'
  BY <1>3, <1>4, <1>8 DEF Typed, Inv
<1> QED BY <1>10, <1>11 DEF Inv

\* A deletion given up leaves the tree as it is.
LEMMA GivenUpKeeps ==
    ASSUME Inv, todo = <<>>, ~ misplaced, deleting' = <<>>, doomed' = {},
           UNCHANGED <<header, table, made, todo, misplaced, stopped>>
    PROVE  Inv'
<1>1. /\ Disk \in Disks /\ Sound(Disk) /\ DOMAIN header \subseteq 1 .. made
      /\ Disk.header = header /\ made \in Place
  BY Settled
<1>2. Disk \in Fit(made, {})
  BY <1>1, SoundFits
<1>3. Runs(Disk, <<>>, Disk, Fit(made, {}))
  BY <1>2, RunsNone
<1>4. Disk' = Disk /\ ~ misplaced' /\ Lost' = {} /\ todo' = <<>>
  BY DEF Disk, Lost
<1>5. Runs(Disk', todo', Disk, Fit(made', Lost'))
  BY <1>3, <1>4
<1>6. \E e : Ahead(e)'
  BY <1>1, <1>4, <1>5 DEF Ahead
<1>7. deleting' \in Seq(Activations)
  OBVIOUS
<1>8. Typed'
  BY <1>1, <1>4, <1>7 DEF Typed, Inv
<1> QED BY <1>6, <1>8 DEF Inv

LEMMA FrontIs ==
    ASSUME NEW S, NEW s \in Seq(S), s # <<>>
    PROVE  /\ Front(s) \in Seq(S) /\ Len(Front(s)) = Len(s) - 1
           /\ \A i \in 1 .. Len(s) - 1 : Front(s)[i] = s[i]
<1> DEFINE n == Len(s) - 1
<1>1. Front(s) = SubSeq(s, 1, n)
  BY DEF Front
<1>2. n \in Nat /\ n <= Len(s)
  OBVIOUS
<1> HIDE DEF n
<1>3. /\ SubSeq(s, 1, n) \in Seq(S) /\ Len(SubSeq(s, 1, n)) = n
      /\ \A i \in 1 .. n : SubSeq(s, 1, n)[i] = s[i]
  BY <1>2
<1> QED BY <1>1, <1>3 DEF n

LEMMA DeleteSelfKeeps ==
    ASSUME Inv, DeleteSelf
    PROVE  Inv'
<1> DEFINE len == Len(deleting)
           a == deleting[len]
           r == Front(deleting)
           ws == DeleteWrites(a.parent, a.node, a.table)
<1>1. todo = <<>> /\ deleting # <<>> /\ ~ misplaced
  BY DEF DeleteSelf, Inv, Typed
<1>2. /\ Disk \in Disks /\ Sound(Disk) /\ DOMAIN header \subseteq 1 .. made
      /\ Disk.header = header /\ made \in Place
      /\ deleting \in Seq(Activations) /\ Stacked(Disk, deleting, doomed)
  BY <1>1, Settled
<1>3. /\ a.next > Len(a.children)
      /\ IF RemoveWrites(Disk, a.parent, a.node) = <<>>
         THEN deleting' = <<>> /\ doomed' = {} /\ UNCHANGED todo
         ELSE deleting' = r /\ todo' = ws /\ UNCHANGED doomed
      /\ UNCHANGED <<header, table, made, misplaced, stopped>>
  BY DEF DeleteSelf, Top, Last
<1>4. len \in Nat /\ len \in 1 .. len /\ a \in Activations
  <2>1. len \in Nat /\ len # 0
    BY <1>1, <1>2
  <2>2. len \in 1 .. len
    BY <2>1
  <2> QED BY <1>2, <2>1, <2>2
<1>5. Active(Disk, deleting, len, doomed)
  BY <1>2, <1>4 DEF Stacked
<1>6. CASE RemoveWrites(Disk, a.parent, a.node) = <<>>
  <2>1. /\ deleting' = <<>> /\ doomed' = {}
        /\ UNCHANGED <<header, table, made, todo, misplaced, stopped>>
    BY <1>3, <1>6
  <2> QED BY <1>1, <2>1, GivenUpKeeps
<1>7. CASE RemoveWrites(Disk, a.parent, a.node) # <<>>
  <2>1. /\ deleting' = r /\ todo' = ws
        /\ UNCHANGED <<header, table, made, doomed, misplaced, stopped>>
    BY <1>3, <1>7
  <2>2. /\ a.node \in DOMAIN Disk.header \ {Root} /\ a.node \in doomed
        /\ a.parent \in DOMAIN Disk.header /\ a.table = TableOf(Disk, a.node)
        /\ Kids(Disk, a.node) = Waiting(a)
    BY <1>5 DEF Active, OnNode
  <2>3. a.node \in Kids(Disk, a.parent)
    BY <1>2, <1>7, <2>2, RemovesNothing
  <2>4. Kids(Disk, a.node) = {}
    <3>1. a.next \in Nat /\ Len(a.children) \in Nat
      <4> HIDE DEF a
      <4> QED BY <1>4 DEF Activations
    <3>2. a.next .. Len(a.children) = {}
      BY <1>3, <3>1
    <3> QED BY <2>2, <3>2 DEF Waiting
  <2>5. DOMAIN Disk.header \subseteq 1 .. made
    BY <1>2
  <2>6. PICK e : /\ Runs(Disk, ws, e, Fit(made, doomed))
                 /\ e \in Disks /\ Sound(e) /\ DOMAIN e.header = DOMAIN Disk.header \ {a.node}
                 /\ \A q \in DOMAIN e.header :
                       Kids(e, q) = Kids(Disk, q) \ {a.node} /\ TableOf(e, q) = TableOf(Disk, q)
    <3> DEFINE n == a.node
               p == a.parent
               t == a.table
    <3>1. ws = RemoveWrites(Disk, p, n)
               \o (IF t[2] > 0 THEN <<FreeTable(t)>> ELSE <<>>) \o <<FreeHeader(n)>>
      BY DEF DeleteWrites
    <3>2. /\ Disk \in Disks /\ Sound(Disk) /\ n \in DOMAIN Disk.header \ {Root}
          /\ p \in DOMAIN Disk.header /\ n \in Kids(Disk, p) /\ Kids(Disk, n) = {}
          /\ DOMAIN Disk.header \subseteq 1 .. made /\ n \in doomed /\ t = TableOf(Disk, n)
      BY <1>2, <2>2, <2>3, <2>4, <2>5
    <3> HIDE DEF n, p, t, ws
    <3>3. \E e : Runs(Disk, ws, e, Fit(made, doomed)) /\ LessOne(Disk, e, n)
      BY <3>1, <3>2, LeafDeleted
    <3> QED BY <3>3 DEF n, LessOne
  <2> HIDE DEF ws
  <2>7. /\ r \in Seq(Activations) /\ Len(r) = len - 1
        /\ \A i \in 1 .. len - 1 : r[i] = deleting[i]
    <3> HIDE DEF a
    <3> QED BY <1>1, <1>2, FrontIs
  <2>8. r # <<>> => Stacked(e, r, doomed)
    <3> SUFFICES ASSUME r # <<>> PROVE Stacked(e, r, doomed)
      OBVIOUS
    <3>1. len > 1
      BY <1>4, <2>7
    <3>2. /\ Disk \in Disks /\ Sound(Disk) /\ deleting \in Seq(Activations)
          /\ Stacked(Disk, deleting, doomed) /\ len > 1
          /\ DOMAIN e.header = DOMAIN Disk.header \ {a.node}
          /\ \A q \in DOMAIN e.header :
                Kids(e, q) = Kids(Disk, q) \ {a.node} /\ TableOf(e, q) = TableOf(Disk, q)
          /\ Len(r) = len - 1 /\ \A i \in 1 .. len - 1 : r[i] = deleting[i]
      BY <1>2, <2>6, <2>7, <3>1
    <3> HIDE DEF r
    <3> QED BY <3>2, StackShrinks
  <2> HIDE DEF r, a, len
  <2>9. Disk' = Disk
    BY <2>1 DEF Disk
  <2>10. ~ misplaced' /\ Lost' = doomed
    BY <1>1, <2>1 DEF Lost
  <2>11. Runs(Disk', todo', e, Fit(made', Lost'))
    BY <2>1, <2>6, <2>9, <2>10
  <2>12. Ahead(e)'
    BY <2>1, <2>6, <2>8, <2>10, <2>11 DEF Ahead
  <2>13. Typed'
    BY <2>1, <2>7, <2>10 DEF Typed, Inv
  <2> QED BY <2>12, <2>13 DEF Inv
<1> QED BY <1>6, <1>7

LEMMA WriteKeeps ==
    ASSUME Inv, Write
    PROVE  Inv'
<1>1. /\ todo # <<>> /\ header' = Written(Disk, Head(todo)).header
      /\ table' = Written(Disk, Head(todo)).table /\ todo' = Tail(todo)
      /\ doomed' = IF Len(todo) = 1 /\ deleting = <<>> THEN {} ELSE doomed
      /\ UNCHANGED <<made, deleting, misplaced, stopped>>
  BY DEF Write
<1>2. PICK e : Ahead(e)
  BY DEF Inv
<1>3. Runs(Disk, todo, e, Fit(made, Lost))
  BY <1>2 DEF Ahead
<1>4. PICK f : f = Written(Disk, Head(todo))
  OBVIOUS
<1>5. Runs(f, Tail(todo), e, Fit(made, Lost))
  BY <1>1, <1>3, <1>4, RunsHead
<1>6. f \in Fit(made, Lost)
  BY <1>5, RunsEnds
<1>7. f \in Disks
  BY <1>6 DEF Fit
<1>8. Disk' = f
  <2>1. f = [header |-> f.header, table |-> f.table]
    BY <1>7, DiskIs
  <2> QED BY <1>1, <1>4, <2>1 DEF Disk
<1>9. Typed'
  <2>1. doomed' \subseteq Place
    BY <1>1 DEF Inv, Typed
  <2> QED BY <1>1, <2>1 DEF Typed, Inv
<1>10. CASE Len(todo) = 1 /\ deleting = <<>> /\ ~ misplaced
  <2>1. todo' = <<>>
    <3>1. PICK W : todo \in Seq(W)
      BY <1>3, RunsSeq
    <3> QED BY <1>1, <1>10, <3>1
  <2>2. e = f
    BY <1>1, <1>5, <2>1, RunsEnds
  <2>3. Sound(f) /\ DOMAIN f.header \subseteq 1 .. made
    BY <1>2, <1>6, <1>10, <2>2 DEF Ahead, Fit
  <2>4. f \in Fit(made, {})
    BY <1>7, <2>3, SoundFits
  <2>5. Runs(f, <<>>, f, Fit(made, {}))
    BY <2>4, RunsNone
  <2>6. Lost' = {} /\ ~ misplaced' /\ deleting' = <<>>
    BY <1>1, <1>10 DEF Lost
  <2>7. Runs(Disk', todo', f, Fit(made', Lost'))
    BY <1>1, <1>8, <2>1, <2>5, <2>6
  <2>8. Ahead(f)'
    BY <2>3, <2>6, <2>7 DEF Ahead
  <2> QED BY <1>9, <2>8 DEF Inv
<1>11. CASE ~ (Len(todo) = 1 /\ deleting = <<>> /\ ~ misplaced)
  <2>1. Lost' = Lost /\ (~ misplaced => doomed' = doomed)
    BY <1>1, <1>11 DEF Lost
  <2>2. Runs(Disk', todo', e, Fit(made', Lost'))
    BY <1>1, <1>5, <1>8, <2>1
  <2>3. Ahead(e)'
    BY <1>1, <1>2, <2>1, <2>2 DEF Ahead
  <2> QED BY <1>9, <2>3 DEF Inv
<1> QED BY <1>10, <1>11

LEMMA StopKeeps ==
    ASSUME Inv, Stop
    PROVE  Inv'
<1>1. stopped' = TRUE /\ UNCHANGED <<header, table, made, todo, deleting, doomed, misplaced>>
  BY DEF Stop
<1>2. Disk' = Disk /\ Lost' = Lost
  BY <1>1 DEF Disk, Lost
<1>3. \A e : Ahead(e) => Ahead(e)'
  BY <1>1, <1>2 DEF Ahead
<1>4. Typed'
  BY <1>1 DEF Typed, Inv
<1> QED BY <1>3, <1>4 DEF Inv

LEMMA NextKeeps ==
    ASSUME Inv, [Next]_vars
    PROVE  Inv'
<1>1. CASE \E p \in Place, name \in Name : Create(p, name)
  BY <1>1, CreateKeeps
<1>2. CASE \E p \in Place, n \in Place, np \in Place : Move(p, n, np)
  BY <1>2, MoveKeeps
<1>3. CASE \E p \in Place, n \in Place, name \in Name : PutName(p, n, name)
  BY <1>3, PutNameKeeps
<1>4. CASE \E p \in Place, n \in Place : Delete(p, n)
  BY <1>4, DeleteKeeps
<1>5. CASE DeleteChild
  BY <1>5, DeleteChildKeeps
<1>6. CASE DeleteSelf
  BY <1>6, DeleteSelfKeeps
<1>7. CASE Write
  BY <1>7, WriteKeeps
<1>8. CASE Stop
  BY <1>8, StopKeeps
<1>9. CASE UNCHANGED vars
  <2>1. UNCHANGED <<header, table, made, todo, deleting, doomed, misplaced, stopped>>
    BY <1>9 DEF vars
  <2>2. Disk' = Disk /\ Lost' = Lost
    BY <2>1 DEF Disk, Lost
  <2>3. \A e : Ahead(e) => Ahead(e)'
    BY <2>1, <2>2 DEF Ahead
  <2>4. Typed'
    BY <2>1 DEF Typed, Inv
  <2> QED BY <2>3, <2>4 DEF Inv
<1> QED BY <1>1, <1>2, <1>3, <1>4, <1>5, <1>6, <1>7, <1>8, <1>9 DEF Next

\* Whatever call is under way and however far, the writes it has left lead to a tree.
THEOREM InvAlways == Spec => []Inv
<1>1. Init => Inv
  BY InitHolds
<1>2. Inv /\ [Next]_vars => Inv'
  BY NextKeeps
<1> QED BY <1>1, <1>2, PTL DEF Spec

----------------------------------------------------------------------------
(* What a program and a reader of the file may rely on                     *)

\* Headers and tables keep their types, and a table the size its place says, through
\* every write of every call: no row is written behind the end of a table, and no
\* header counts more children than its table has room for.
THEOREM TypesHold == Spec => []TypeOK
<1>1. Inv => TypeOK
  <2> SUFFICES ASSUME Inv PROVE TypeOK
    OBVIOUS
  <2>1. Disk.header = header /\ Disk.table = table /\ Disk \in Disks
    BY DiskNow
  <2>2. DOMAIN header \subseteq 1 .. made
    BY DiskNow DEF Fit
  <2>3. Root \in DOMAIN header /\ \A n \in DOMAIN header : Fits(n, header[n])
    BY <2>1, DiskIs
  <2>4. \A n \in DOMAIN header : header[n] \in Header /\ header[n].num <= header[n].entries
    BY <2>3 DEF Fits
  <2>5. \A t \in DOMAIN table : table[t] \in Seq(Row) /\ Len(table[t]) = t[2]
    BY <2>1, DiskIs
  <2> QED BY <2>2, <2>3, <2>4, <2>5 DEF Inv, Typed, TypeOK
<1> QED BY <1>1, InvAlways, PTL

\* Between calls the headers and the tables on disk are a tree: ADF_Create, ADF_Move_Child,
\* ADF_Put_Name and the recursion of ADF_Delete, each made of writes of single headers,
\* tables and rows, all end in one again.  Each node is in one list, once and under its own
\* name, and brothers have a name in common only if it begins with blanks, which
\* ADF_Put_Name stores but does not look for.
THEOREM TreeStaysSound == Spec => []TreeIsSound
<1>1. Inv => TreeIsSound
  <2> SUFFICES ASSUME Inv, Idle PROVE TreeIsSound
    BY DEF TreeIsSound
  <2>1. Disk \in Disks /\ Sound(Disk)
    BY Settled DEF Idle
  <2> QED BY <2>1, SoundIsTree
<1> QED BY <1>1, InvAlways, PTL

\* After every single write, and so wherever a call is stopped, a list names only nodes
\* whose headers are on disk.
THEOREM NoListDangles == Spec => []ListedIsThere
<1>1. Inv => ListedIsThere
  <2> SUFFICES ASSUME Inv, NEW p \in DOMAIN header, NEW row \in Range(Children(Disk, p)), row # Blank
               PROVE  row.node \in DOMAIN header
    BY DEF ListedIsThere
  <2>1. Disk.header = header /\ RowsThere(Disk) /\ Disk \in Disks
    BY DiskNow DEF Fit
  <2>2. There(Children(Disk, p), DOMAIN header)
    BY <2>1 DEF RowsThere
  <2>3. \E k \in DOMAIN Children(Disk, p) : row = Children(Disk, p)[k]
    BY DEF Range
  <2> QED BY <2>2, <2>3 DEF There
<1> QED BY <1>1, InvAlways, PTL

\* A call stopped between two writes leaves below the root every node it does not itself
\* delete or make, unless it was stopped while a full table is replaced.
THEOREM NoOtherNodeIsLost == Spec => []OthersAreKept
<1>1. Inv => OthersAreKept
  <2> SUFFICES ASSUME Inv, ~ misplaced PROVE OthersAreKept
    BY DEF OthersAreKept
  <2>1. Disk.header = header /\ Disk.table = table /\ Lost = doomed
    BY DiskNow DEF Lost
  <2>2. Torn(Disk) \/ DOMAIN header \ doomed \subseteq Below(Disk, Root)
    BY <2>1, DiskNow DEF Fit
  <2>3. Torn(Disk) => \E p \in DOMAIN header : Replacing(p)
    BY <2>1 DEF Torn, Replacing
  <2> QED BY <2>2, <2>3 DEF OthersAreKept
<1> QED BY <1>1, InvAlways, PTL
=============================================================================
