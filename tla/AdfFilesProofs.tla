---------------------------- MODULE AdfFilesProofs ----------------------------
(***************************************************************************)
(* Proofs about AdfFiles, for any files, links, databases and limits: the  *)
(* recursion of a close works on entries in use only, the counts are those *)
(* of the users, the link remembered holds, closing a database leaves what *)
(* the others need, and closing the last one leaves nothing.               *)
(***************************************************************************)
EXTENDS AdfFiles, FiniteSetTheorems, SequenceTheorems, WellFoundedInduction, TLAPS

----------------------------------------------------------------------------
(* The inductive invariant                                                 *)

\* Tables whose files list entries of the table, once each and not themselves.
\* A file that is given up lists none.
Table == {t \in Seq(Entry) :
             \A i \in DOMAIN t :
                /\ IsInjective(t[i].links) /\ i \notin Range(t[i].links)
                /\ Range(t[i].links) \subseteq DOMAIN t
                /\ t[i].in_use = 0 => t[i].links = <<>>}

\* A stack of activations on a table: each works on an entry in use, all but the
\* last on the link before `next`, whose file is the next one's.  An activation on a
\* file that is being closed further down has not come past the link that the lower
\* one is closing.
Stacks(t) == {s \in Seq([file : Nat \ {0}, next : Nat \ {0}]) :
    /\ \A p \in DOMAIN s :
          LET links == t[s[p].file].links IN
          /\ s[p].file \in InUse(t)
          /\ s[p].next <= Len(links) + 1
          /\ p < Len(s) => s[p].next > 1 /\ s[p + 1].file = links[s[p].next - 1]
    /\ \A p, q \in DOMAIN s :
          p < q /\ s[p].file = s[q].file =>
              \/ s[q].next < s[p].next
              \/ s[q].next = s[p].next /\ q < Len(s)}

\* Who counts as a user of entry i while a close goes on: databases, files that list
\* it and have not closed it yet, and the activations that are about to count it
\* down.
Databases(hd, i) == {h \in Handle : hd[h] = i}
Holders(t, s, i) ==
    {j \in InUse(t) : \E k \in DOMAIN t[j].links :
        /\ t[j].links[k] = i
        /\ \A p \in DOMAIN s : s[p].file = j => s[p].next <= k}
Activations(s, i) == {p \in DOMAIN s : s[p].file = i}
CountOf(t, i) == IF i \in DOMAIN t THEN t[i].in_use ELSE 0

Counted(t, s, hd, left) ==
    \A i \in Nat \ {0} :
        CountOf(t, i) = Cardinality(Databases(hd, i)) + Cardinality(Holders(t, s, i))
                        + Cardinality({i} \cap left) + Cardinality(Activations(s, i))

\* A file that is closed with its links has no user left.
LastUsers(t, s) ==
    \A p \in DOMAIN s : t[s[p].file].links = <<>> \/ t[s[p].file].in_use = 1

Inv ==
    /\ ADF_file \in Table
    /\ closing \in Stacks(ADF_file)
    /\ handle \in [Handle -> Nat] /\ torn \in BOOLEAN /\ overflow \in BOOLEAN
    /\ RememberedLinkHolds
    /\ ~ torn => Counted(ADF_file, closing, handle, stranded) /\ LastUsers(ADF_file, closing)

----------------------------------------------------------------------------
(* Sets of numbers                                                         *)

\* A set of numbers has a least one.
LEMMA LeastElement ==
    ASSUME NEW S \in SUBSET Nat, S # {}
    PROVE  \E n \in S : \A m \in S : n <= m
<1>1. PICK n \in S : \A m \in S : ~ (<<m, n>> \in OpToRel(<, Nat))
  BY WFMin, NatLessThanWellFounded, Zenon
<1>2. \A m \in S : ~ (m < n)
  BY <1>1, Zenon DEF OpToRel
<1> QED BY <1>2

\* A set of numbers that has 0 and with every number the next has all of them.
LEMMA AllNumbers ==
    ASSUME NEW S \in SUBSET Nat, 0 \in S, \A n \in S : n + 1 \in S
    PROVE  S = Nat
<1> SUFFICES ASSUME Nat \ S # {} PROVE FALSE
  OBVIOUS
<1>1. PICK n \in Nat \ S : \A m \in Nat \ S : n <= m
  BY LeastElement
<1>2. n # 0 /\ n - 1 \in Nat /\ n - 1 \in S
  BY <1>1
<1> QED BY <1>1, <1>2

----------------------------------------------------------------------------
(* The table                                                               *)

\* Entries of a table, by number.
LEMMA EntryIs ==
    ASSUME NEW t \in Table
    PROVE  /\ t \in Seq(Entry) /\ Len(t) \in Nat /\ DOMAIN t = 1 .. Len(t)
           /\ \A i \in DOMAIN t :
                 /\ t[i] \in Entry /\ t[i].in_use \in Nat
                 /\ t[i].name \in Files \cup {NoFile}
                 /\ t[i].links \in Seq(Nat \ {0})
                 /\ Len(t[i].links) \in Nat /\ DOMAIN t[i].links = 1 .. Len(t[i].links)
           /\ InUse(t) \subseteq DOMAIN t
           /\ InUse(t) \subseteq Nat \ {0}
<1>1. t \in Seq(Entry)
  BY DEF Table
<1>2. Len(t) \in Nat /\ DOMAIN t = 1 .. Len(t)
  BY <1>1, LenProperties
<1>3. ASSUME NEW i \in DOMAIN t
      PROVE  /\ t[i] \in Entry /\ t[i].in_use \in Nat
             /\ t[i].name \in Files \cup {NoFile}
             /\ t[i].links \in Seq(Nat \ {0})
             /\ Len(t[i].links) \in Nat /\ DOMAIN t[i].links = 1 .. Len(t[i].links)
  <2>1. t[i] \in Entry
    BY <1>1, <1>2, ElementOfSeq
  <2>2. t[i].in_use \in Nat /\ t[i].name \in Files \cup {NoFile} /\ t[i].links \in Seq(Nat \ {0})
    BY <2>1 DEF Entry
  <2> QED BY <2>1, <2>2, LenProperties
<1> QED BY <1>1, <1>2, <1>3 DEF InUse

\* What holds of an entry not in use.
LEMMA UnusedIs ==
    /\ Unused \in Entry /\ Unused.in_use = 0 /\ Unused.links = <<>> /\ Unused.name = NoFile
    /\ \A f \in Files \cup {NoFile} :
          /\ Opened(f) \in Entry /\ Opened(f).in_use = 1 /\ Opened(f).links = <<>>
          /\ Opened(f).name = f
    /\ Range(<<>>) = {} /\ IsInjective(<<>>)
<1>1. <<>> \in Seq(Nat \ {0}) /\ DOMAIN <<>> = {}
  OBVIOUS
<1> QED BY <1>1 DEF Unused, Opened, Entry, Range, IsInjective

\* Growing adds entries that are not in use, at least one if all are used.
LEMMA WithRoomIs ==
    ASSUME NEW t \in Table, NEW u, u = WithRoom(t)
    PROVE  /\ u \in Table /\ DOMAIN t \subseteq DOMAIN u
           /\ \A i \in DOMAIN u : u[i] = IF i \in DOMAIN t THEN t[i] ELSE Unused
           /\ InUse(u) = InUse(t) /\ InUse(u) # DOMAIN u
<1>1. CASE InUse(t) # DOMAIN t
  <2>1. u = t
    BY <1>1 DEF WithRoom
  <2> QED BY <1>1, <2>1
<1>2. CASE InUse(t) = DOMAIN t
  <2> DEFINE more == [k \in 1 .. FileInc |-> Unused]
  <2>0. FileInc \in Nat \ {0}
    BY FilesAssumption
  <2>1. more \in Seq(Entry) /\ Len(more) = FileInc /\ \A k \in 1 .. FileInc : more[k] = Unused
    <3>1. more \in [1 .. FileInc -> Entry]
      BY UnusedIs
    <3>2. more \in Seq(Entry)
      BY <2>0, <3>1, SeqDef
    <3>3. DOMAIN more = 1 .. FileInc /\ DOMAIN more = 1 .. Len(more) /\ Len(more) \in Nat
      BY <3>2, LenProperties
    <3>4. Len(more) = FileInc
      <4> HIDE DEF more
      <4> QED BY <2>0, <3>3
    <3> QED BY <3>2, <3>4
  <2>2. u = t \o more
    BY <1>2 DEF WithRoom
  <2> HIDE DEF more
  <2>3. /\ u \in Seq(Entry) /\ Len(u) = Len(t) + FileInc
        /\ \A i \in 1 .. Len(t) + FileInc : u[i] = IF i <= Len(t) THEN t[i] ELSE more[i - Len(t)]
    <3>1. t \in Seq(Entry)
      BY EntryIs
    <3> QED BY <2>1, <2>2, <3>1, ConcatProperties, ZenonT(90)
  <2>4. DOMAIN u = 1 .. Len(u) /\ DOMAIN t = 1 .. Len(t) /\ Len(t) \in Nat
    BY <2>3, EntryIs, LenProperties
  <2>5. \A i \in DOMAIN u : u[i] = IF i \in DOMAIN t THEN t[i] ELSE Unused
    <3>1. ASSUME NEW i \in DOMAIN u, i \notin DOMAIN t PROVE u[i] = Unused
      <4>1. i - Len(t) \in 1 .. FileInc /\ ~ (i <= Len(t)) /\ i \in 1 .. Len(t) + FileInc
        BY <2>0, <2>3, <2>4, <3>1
      <4> QED BY <2>1, <2>3, <4>1
    <3>2. ASSUME NEW i \in DOMAIN t PROVE u[i] = t[i]
      <4>1. i <= Len(t) /\ i \in 1 .. Len(t) + FileInc
        BY <2>0, <2>4, <3>2
      <4> QED BY <2>3, <4>1
    <3> QED BY <3>1, <3>2
  <2>6. DOMAIN t \subseteq DOMAIN u /\ Len(t) + 1 \in DOMAIN u /\ Len(t) + 1 \notin DOMAIN t
    BY <2>0, <2>3, <2>4
  <2>7. InUse(u) = InUse(t)
    BY <2>5, <2>6, UnusedIs DEF InUse
  <2>8. InUse(u) # DOMAIN u
    BY <2>6, <2>7, EntryIs
  <2>9. u \in Table
    <3>1. ASSUME NEW i \in DOMAIN u
          PROVE  /\ IsInjective(u[i].links) /\ i \notin Range(u[i].links)
                 /\ Range(u[i].links) \subseteq DOMAIN u
                 /\ u[i].in_use = 0 => u[i].links = <<>>
      <4>1. CASE i \in DOMAIN t
        BY <2>5, <2>6, <4>1 DEF Table
      <4>2. CASE i \notin DOMAIN t
        BY <2>5, <4>2, UnusedIs
      <4> QED BY <4>1, <4>2
    <3> QED BY <2>3, <3>1 DEF Table
  <2> QED BY <2>5, <2>6, <2>7, <2>8, <2>9
<1> QED BY <1>1, <1>2

\* The first free entry of a table is free.
LEMMA FirstFreeIsFree ==
    ASSUME NEW t \in Table, InUse(t) # DOMAIN t
    PROVE  FirstFree(t) \in DOMAIN t \ InUse(t)
<1> DEFINE free == DOMAIN t \ InUse(t)
<1>1. free \in SUBSET Nat /\ free # {}
  <2>1. DOMAIN t = 1 .. Len(t) /\ Len(t) \in Nat /\ InUse(t) \subseteq DOMAIN t
    BY EntryIs
  <2>2. \A n \in free : n \in Nat
    BY <2>1
  <2>3. \E n \in DOMAIN t : n \notin InUse(t)
    BY <2>1
  <2> QED BY <2>2, <2>3
<1>2. \E n \in free : \A m \in free : n <= m
  <2> HIDE DEF free
  <2> QED BY <1>1, LeastElement
<1> QED BY <1>2 DEF FirstFree

Put(t, i, e) == [t EXCEPT ![i] = e]
Listed(t, i, j) == [t EXCEPT ![i].links = Append(@, j)]
CountedUp(t, j) == [t EXCEPT ![j].in_use = @ + 1]

\* An entry of a table is replaced by one that lists entries of the table.
LEMMA ReplacedIs ==
    ASSUME NEW t \in Table, NEW i \in DOMAIN t, NEW e \in Entry,
           IsInjective(e.links), i \notin Range(e.links), Range(e.links) \subseteq DOMAIN t,
           e.in_use = 0 => e.links = <<>>,
           NEW u, u = Put(t, i, e)
    PROVE  /\ u \in Table /\ DOMAIN u = DOMAIN t /\ u[i] = e
           /\ \A j \in DOMAIN t : j # i => u[j] = t[j]
<1>1. /\ t \in Seq(Entry) /\ DOMAIN t = 1 .. Len(t)
  BY EntryIs
<1>2. /\ u \in Seq(Entry) /\ DOMAIN u = DOMAIN t
      /\ \A j \in DOMAIN t : u[j] = IF j = i THEN e ELSE t[j]
  BY <1>1, ExceptSeq DEF Put
<1> QED BY <1>2 DEF Table

\* A file is opened in an entry that was not in use.
LEMMA WithFileIs ==
    ASSUME NEW t \in Table, NEW f \in Files \cup {NoFile},
           NEW j, j = FirstFree(WithRoom(t)), NEW u, u = WithFile(t, f)
    PROVE  /\ u \in Table /\ DOMAIN t \subseteq DOMAIN u
           /\ j \in DOMAIN u /\ j \notin InUse(t) /\ u[j] = Opened(f)
           /\ \A i \in DOMAIN u : i # j => u[i] = IF i \in DOMAIN t THEN t[i] ELSE Unused
           /\ InUse(u) = InUse(t) \cup {j}
<1>1. PICK room : room = WithRoom(t)
  OBVIOUS
<1>2. /\ room \in Table /\ DOMAIN t \subseteq DOMAIN room
      /\ \A i \in DOMAIN room : room[i] = IF i \in DOMAIN t THEN t[i] ELSE Unused
      /\ InUse(room) = InUse(t) /\ InUse(room) # DOMAIN room
  BY <1>1, WithRoomIs
<1>3. j \in DOMAIN room /\ j \notin InUse(room)
  BY <1>1, <1>2, FirstFreeIsFree
<1>4. u = [room EXCEPT ![j] = Opened(f)]
  BY <1>1 DEF WithFile
<1>5. /\ u \in Table /\ DOMAIN u = DOMAIN room /\ u[j] = Opened(f)
      /\ \A i \in DOMAIN room : i # j => u[i] = room[i]
  <2>1. PICK e : e = Opened(f)
    OBVIOUS
  <2>2. /\ e \in Entry /\ ~ (e.in_use = 0) /\ IsInjective(e.links)
        /\ j \notin Range(e.links) /\ Range(e.links) \subseteq DOMAIN room
    BY <2>1, UnusedIs
  <2>3. u = Put(room, j, e)
    BY <1>4, <2>1 DEF Put
  <2> QED BY <1>2, <1>3, <2>1, <2>2, <2>3, ReplacedIs
<1>6. InUse(u) = InUse(room) \cup {j}
  BY <1>3, <1>5, UnusedIs DEF InUse
<1> QED BY <1>2, <1>3, <1>5, <1>6

----------------------------------------------------------------------------
(* Users                                                                   *)

Activity == [file : Nat \ {0}, next : Nat \ {0}]

\* The users of an entry are finitely many.
LEMMA UsersAreFinite ==
    ASSUME NEW t \in Table, NEW s \in Seq(Activity), NEW hd, NEW left, NEW i
    PROVE  /\ IsFiniteSet(Databases(hd, i)) /\ Cardinality(Databases(hd, i)) \in Nat
           /\ IsFiniteSet(Holders(t, s, i)) /\ Cardinality(Holders(t, s, i)) \in Nat
           /\ IsFiniteSet({i} \cap left) /\ Cardinality({i} \cap left) \in Nat
           /\ IsFiniteSet(Activations(s, i)) /\ Cardinality(Activations(s, i)) \in Nat
<1>1. IsFiniteSet(Databases(hd, i))
  BY FilesAssumption, FS_Subset DEF Databases
<1>2. IsFiniteSet(Holders(t, s, i))
  <2>1. IsFiniteSet(1 .. Len(t)) /\ DOMAIN t = 1 .. Len(t)
    BY EntryIs, FS_Interval
  <2> QED BY <2>1, FS_Subset, EntryIs DEF Holders
<1>3. IsFiniteSet({i} \cap left)
  BY FS_Singleton, FS_Subset
<1>4. IsFiniteSet(Activations(s, i))
  <2>1. IsFiniteSet(1 .. Len(s)) /\ DOMAIN s = 1 .. Len(s)
    BY LenProperties, FS_Interval
  <2> QED BY <2>1, FS_Subset DEF Activations
<1> QED BY <1>1, <1>2, <1>3, <1>4, FS_CardinalityType

\* A set with one more element.
LEMMA OneMore ==
    ASSUME NEW S, IsFiniteSet(S), NEW x, x \notin S, NEW T, T = S \cup {x}
    PROVE  Cardinality(T) = Cardinality(S) + 1 /\ Cardinality(S) \in Nat
BY FS_AddElement, FS_CardinalityType

\* A set with one element less.
LEMMA OneLess ==
    ASSUME NEW S, IsFiniteSet(S), NEW x \in S, NEW T, T = S \ {x}
    PROVE  Cardinality(T) = Cardinality(S) - 1
BY FS_RemoveElement

\* While nothing is being closed the files with links into an entry hold it.
LEMMA HoldersAtRest ==
    ASSUME NEW t, NEW i
    PROVE  Holders(t, <<>>, i) = {j \in InUse(t) : i \in Range(t[j].links)}
<1>1. DOMAIN <<>> = {}
  OBVIOUS
<1> QED BY <1>1 DEF Holders, Range

\* Nobody stands for an activation while nothing is being closed.
LEMMA NoActivations ==
    /\ <<>> \in Seq(Activity)
    /\ \A i : Activations(<<>>, i) = {} /\ Cardinality(Activations(<<>>, i)) = 0
<1>1. \A i : Activations(<<>>, i) = {}
  BY DEF Activations
<1> QED BY <1>1, FS_EmptySet

\* A file that is opened has one user in its entry, whose links nobody has closed.
LEMMA OpenedIsNew ==
    ASSUME NEW t \in Table, NEW f \in Files \cup {NoFile},
           NEW j, j = FirstFree(WithRoom(t)), NEW u, u = WithFile(t, f), NEW c
    PROVE  /\ CountOf(u, c) = IF c = j THEN 1 ELSE CountOf(t, c)
           /\ CountOf(t, j) = 0
           /\ Holders(u, <<>>, c) = Holders(t, <<>>, c)
<1>1. /\ u \in Table /\ DOMAIN t \subseteq DOMAIN u
      /\ j \in DOMAIN u /\ j \notin InUse(t) /\ u[j] = Opened(f)
      /\ \A i \in DOMAIN u : i # j => u[i] = IF i \in DOMAIN t THEN t[i] ELSE Unused
      /\ InUse(u) = InUse(t) \cup {j}
  BY WithFileIs
<1>2. CountOf(u, c) = IF c = j THEN 1 ELSE CountOf(t, c)
  BY <1>1, UnusedIs DEF CountOf
<1>3. CountOf(t, j) = 0
  BY <1>1, EntryIs DEF CountOf, InUse
<1>4. \A i \in InUse(t) : u[i].links = t[i].links
  BY <1>1, EntryIs
<1>5. Holders(u, <<>>, c) = Holders(t, <<>>, c)
  <2>1. c \notin Range(u[j].links)
    BY <1>1, UnusedIs
  <2>2. \A i : (i \in InUse(u) /\ c \in Range(u[i].links))
                  <=> (i \in InUse(t) /\ c \in Range(t[i].links))
    BY <1>1, <1>4, <2>1
  <2>3. {i \in InUse(u) : c \in Range(u[i].links)} = {i \in InUse(t) : c \in Range(t[i].links)}
    BY <2>2
  <2>4. Holders(u, <<>>, c) = {i \in InUse(u) : c \in Range(u[i].links)}
    BY HoldersAtRest, ZenonT(60)
  <2>5. Holders(t, <<>>, c) = {i \in InUse(t) : c \in Range(t[i].links)}
    BY HoldersAtRest, Zenon
  <2> QED BY <2>3, <2>4, <2>5, Zenon
<1> QED BY <1>2, <1>3, <1>5

\* So nobody else uses it yet.
LEMMA NobodyUsesFree ==
    ASSUME NEW t \in Table, NEW hd, NEW left, Counted(t, <<>>, hd, left),
           NEW j \in Nat \ {0}, CountOf(t, j) = 0
    PROVE  Databases(hd, j) = {} /\ Holders(t, <<>>, j) = {} /\ {j} \cap left = {}
<1>1. <<>> \in Seq(Activity)
  BY NoActivations
<1>2. /\ Cardinality(Databases(hd, j)) = 0 /\ Cardinality(Holders(t, <<>>, j)) = 0
      /\ Cardinality({j} \cap left) = 0
  <2>1. 0 = Cardinality(Databases(hd, j)) + Cardinality(Holders(t, <<>>, j))
            + Cardinality({j} \cap left) + Cardinality(Activations(<<>>, j))
    BY DEF Counted
  <2>2. /\ Cardinality(Databases(hd, j)) \in Nat /\ Cardinality(Holders(t, <<>>, j)) \in Nat
        /\ Cardinality({j} \cap left) \in Nat /\ Cardinality(Activations(<<>>, j)) \in Nat
    BY <1>1, UsersAreFinite
  <2> QED BY <2>1, <2>2
<1> QED BY <1>1, <1>2, UsersAreFinite, FS_EmptySet

----------------------------------------------------------------------------
(* Links                                                                   *)

\* A file lists one more entry.
LEMMA ListedIs ==
    ASSUME NEW t \in Table, NEW i \in InUse(t), NEW j \in DOMAIN t, i # j,
           j \notin Range(t[i].links), NEW u, u = Listed(t, i, j)
    PROVE  /\ u \in Table /\ DOMAIN u = DOMAIN t /\ InUse(u) = InUse(t)
           /\ u[i].in_use = t[i].in_use /\ u[i].name = t[i].name
           /\ Range(u[i].links) = Range(t[i].links) \cup {j}
           /\ \A m \in DOMAIN t : m # i => u[m] = t[m]
<1> DEFINE links == Append(t[i].links, j)
<1>0. /\ i \in DOMAIN t /\ t[i] \in Entry /\ t[i].in_use \in Nat /\ t[i].in_use > 0
      /\ t[i].name \in Files \cup {NoFile}
      /\ t[i].links \in Seq(Nat \ {0}) /\ Len(t[i].links) \in Nat
      /\ DOMAIN t[i].links = 1 .. Len(t[i].links)
      /\ j \in Nat \ {0}
  BY EntryIs DEF InUse
<1>1. /\ links \in Seq(Nat \ {0}) /\ DOMAIN links = 1 .. Len(t[i].links) + 1
      /\ \A k \in 1 .. Len(t[i].links) : links[k] = t[i].links[k]
      /\ links[Len(t[i].links) + 1] = j
  BY <1>0, AppendProperties, LenProperties
<1> HIDE DEF links
<1>2. Range(links) = Range(t[i].links) \cup {j}
  <2>1. \A k \in DOMAIN links : k \in DOMAIN t[i].links \/ k = Len(t[i].links) + 1
    BY <1>0, <1>1
  <2>2. \A x : x \in Range(links) => x \in Range(t[i].links) \cup {j}
    BY <1>0, <1>1, <2>1 DEF Range
  <2>3. \A x : x \in Range(t[i].links) \cup {j} => x \in Range(links)
    <3>1. \A k \in DOMAIN t[i].links : k \in DOMAIN links /\ links[k] = t[i].links[k]
      BY <1>0, <1>1, SMTT(60)
    <3>2. Len(t[i].links) + 1 \in DOMAIN links
      BY <1>0, <1>1
    <3> QED BY <1>1, <3>1, <3>2 DEF Range
  <2> QED BY <2>2, <2>3
<1>3. IsInjective(links)
  <2>1. IsInjective(t[i].links)
    BY <1>0 DEF Table
  <2>2. \A k \in DOMAIN t[i].links : t[i].links[k] # j
    BY DEF Range
  <2>3. \A k \in DOMAIN links : k \in DOMAIN t[i].links \/ k = Len(t[i].links) + 1
    BY <1>0, <1>1
  <2>4. ASSUME NEW k \in DOMAIN links, NEW m \in DOMAIN links, links[k] = links[m] PROVE k = m
    <3>1. CASE k \in DOMAIN t[i].links /\ m \in DOMAIN t[i].links
      BY <1>0, <1>1, <2>1, <2>4, <3>1 DEF IsInjective
    <3>2. CASE k \notin DOMAIN t[i].links \/ m \notin DOMAIN t[i].links
      BY <1>0, <1>1, <2>2, <2>3, <2>4, <3>2
    <3> QED BY <3>1, <3>2
  <2> QED BY <2>4 DEF IsInjective
<1> DEFINE e == [t[i] EXCEPT !.links = links]
<1>4. /\ e \in Entry /\ e.in_use = t[i].in_use /\ e.name = t[i].name /\ e.links = links
  BY <1>0, <1>1 DEF Entry
<1>5. u = Put(t, i, e)
  BY <1>0 DEF links, Put, Listed
<1> HIDE DEF e
<1>6. /\ IsInjective(e.links) /\ i \notin Range(e.links) /\ Range(e.links) \subseteq DOMAIN t
      /\ ~ (e.in_use = 0)
  BY <1>0, <1>2, <1>3, <1>4 DEF Table
<1>7. /\ u \in Table /\ DOMAIN u = DOMAIN t /\ u[i] = e
      /\ \A m \in DOMAIN t : m # i => u[m] = t[m]
  BY <1>0, <1>4, <1>5, <1>6, ReplacedIs
<1>8. InUse(u) = InUse(t)
  BY <1>4, <1>7 DEF InUse
<1> QED BY <1>2, <1>4, <1>7, <1>8

\* An entry has one more user.
LEMMA CountedUpIs ==
    ASSUME NEW t \in Table, NEW j \in InUse(t), NEW u, u = CountedUp(t, j)
    PROVE  /\ u \in Table /\ DOMAIN u = DOMAIN t /\ InUse(u) = InUse(t)
           /\ u[j].in_use = t[j].in_use + 1 /\ u[j].name = t[j].name
           /\ u[j].links = t[j].links
           /\ \A m \in DOMAIN t : m # j => u[m] = t[m]
<1>0. /\ j \in DOMAIN t /\ t[j] \in Entry /\ t[j].in_use \in Nat
      /\ t[j].name \in Files \cup {NoFile} /\ t[j].links \in Seq(Nat \ {0})
  BY EntryIs DEF InUse
<1> DEFINE e == [t[j] EXCEPT !.in_use = @ + 1]
<1>1. /\ e \in Entry /\ e.in_use = t[j].in_use + 1 /\ e.name = t[j].name /\ e.links = t[j].links
  BY <1>0 DEF Entry
<1>2. u = Put(t, j, e)
  BY DEF Put, CountedUp
<1> HIDE DEF e
<1>3. /\ IsInjective(e.links) /\ j \notin Range(e.links) /\ Range(e.links) \subseteq DOMAIN t
      /\ ~ (e.in_use = 0)
  BY <1>0, <1>1 DEF Table
<1>4. /\ u \in Table /\ DOMAIN u = DOMAIN t /\ u[j] = e
      /\ \A m \in DOMAIN t : m # j => u[m] = t[m]
  BY <1>0, <1>1, <1>2, <1>3, ReplacedIs
<1>5. InUse(u) = InUse(t)
  BY <1>0, <1>1, <1>4 DEF InUse
<1> QED BY <1>1, <1>4, <1>5

\* The table u is t with the link from i to j listed.
Lists(u, t, i, j) ==
    /\ DOMAIN u = DOMAIN t /\ InUse(u) = InUse(t)
    /\ \A m \in DOMAIN t : u[m].name = t[m].name
    /\ \A m \in DOMAIN t : \A c : c \in Range(u[m].links) <=>
          c \in Range(t[m].links) \/ (m = i /\ c = j)
CountsOneMore(u, t, j) ==
    u[j].in_use = t[j].in_use + 1 /\ \A m \in DOMAIN t : m # j => u[m].in_use = t[m].in_use
CountsTheSame(u, t) == \A m \in DOMAIN t : u[m].in_use = t[m].in_use

Found(t, i, j) == LinkAdd(t, i, j, TRUE)
Fresh(t, i, j) == LinkAdd(t, i, j, FALSE)

\* A link that is followed again changes nothing.
LEMMA ListedAgain ==
    ASSUME NEW t, NEW i, NEW j, i = j \/ j \in Range(t[i].links)
    PROVE  Found(t, i, j) = t
BY DEF Found, LinkAdd

\* A link listed first counts the file that lists it in the file it found open.
LEMMA FoundIs ==
    ASSUME NEW t \in Table, NEW i \in InUse(t), NEW j \in InUse(t),
           i # j, j \notin Range(t[i].links), NEW u, u = Found(t, i, j)
    PROVE  u \in Table /\ Lists(u, t, i, j) /\ CountsOneMore(u, t, j)
<1>1. PICK listed : listed = Listed(t, i, j)
  OBVIOUS
<1>0. j \in DOMAIN t /\ i \in DOMAIN t
  BY EntryIs
<1>2. /\ listed \in Table /\ DOMAIN listed = DOMAIN t /\ InUse(listed) = InUse(t)
      /\ listed[i].in_use = t[i].in_use /\ listed[i].name = t[i].name
      /\ Range(listed[i].links) = Range(t[i].links) \cup {j}
      /\ \A m \in DOMAIN t : m # i => listed[m] = t[m]
  BY <1>0, <1>1, ListedIs, SMTT(60)
<1>3. j \in InUse(listed) /\ u = CountedUp(listed, j)
  BY <1>1, <1>2 DEF Found, LinkAdd, Listed, CountedUp
<1>4. /\ u \in Table /\ DOMAIN u = DOMAIN listed /\ InUse(u) = InUse(listed)
      /\ u[j].in_use = listed[j].in_use + 1
      /\ u[j].name = listed[j].name /\ u[j].links = listed[j].links
      /\ \A m \in DOMAIN listed : m # j => u[m] = listed[m]
  BY <1>2, <1>3, CountedUpIs, SMTT(60)
<1> QED BY <1>0, <1>2, <1>4 DEF Lists, CountsOneMore

\* A link to a file that was opened for it is listed without counting again.
LEMMA FreshIs ==
    ASSUME NEW t \in Table, NEW i \in InUse(t), NEW j \in InUse(t),
           i # j, j \notin Range(t[i].links), NEW u, u = Fresh(t, i, j)
    PROVE  u \in Table /\ Lists(u, t, i, j) /\ CountsTheSame(u, t)
<1>0. j \in DOMAIN t /\ i \in DOMAIN t
  BY EntryIs
<1>1. u = Listed(t, i, j)
  BY DEF Fresh, LinkAdd, Listed
<1>2. /\ u \in Table /\ DOMAIN u = DOMAIN t /\ InUse(u) = InUse(t)
      /\ u[i].in_use = t[i].in_use /\ u[i].name = t[i].name
      /\ Range(u[i].links) = Range(t[i].links) \cup {j}
      /\ \A m \in DOMAIN t : m # i => u[m] = t[m]
  BY <1>0, <1>1, ListedIs, ZenonT(90)
<1> QED BY <1>0, <1>2 DEF Lists, CountsTheSame

HoldsToo(u, t, i, j, c) ==
    /\ c # j => Holders(u, <<>>, c) = Holders(t, <<>>, c)
    /\ c = j => Holders(u, <<>>, c) = Holders(t, <<>>, c) \cup {i}

\* Either way the file linked to has one holder more.
LEMMA OneMoreHolder ==
    ASSUME NEW t \in Table, NEW u, NEW i \in InUse(t), NEW j, Lists(u, t, i, j), NEW c
    PROVE  HoldsToo(u, t, i, j, c)
<1>1. \A m \in InUse(t) : m \in DOMAIN t
  BY EntryIs
<1>2. Holders(u, <<>>, c) = {m \in InUse(t) : c \in Range(u[m].links)}
  BY HoldersAtRest DEF Lists
<1>3. Holders(t, <<>>, c) = {m \in InUse(t) : c \in Range(t[m].links)}
  BY HoldersAtRest
<1>4. \A m \in InUse(t) :
         c \in Range(u[m].links) <=> (c \in Range(t[m].links) \/ (c = j /\ m = i))
  BY <1>1 DEF Lists
<1> QED BY <1>2, <1>3, <1>4 DEF HoldsToo

\* A file found open counts one user more, which is the file with the link.
LEMMA FoundIsCounted ==
    ASSUME NEW t \in Table, NEW i \in InUse(t), NEW j \in InUse(t),
           NEW u, u = Found(t, i, j),
           NEW hd, NEW left, Counted(t, <<>>, hd, left)
    PROVE  Counted(u, <<>>, hd, left)
<1>1. CASE i = j \/ j \in Range(t[i].links)
  BY <1>1, ListedAgain
<1>2. CASE i # j /\ j \notin Range(t[i].links)
  <2> SUFFICES ASSUME NEW c \in Nat \ {0}
               PROVE  CountOf(u, c) = Cardinality(Databases(hd, c)) + Cardinality(Holders(u, <<>>, c))
                                      + Cardinality({c} \cap left) + Cardinality(Activations(<<>>, c))
    BY DEF Counted
  <2>1. CountOf(t, c) = Cardinality(Databases(hd, c)) + Cardinality(Holders(t, <<>>, c))
                        + Cardinality({c} \cap left) + Cardinality(Activations(<<>>, c))
    BY DEF Counted
  <2>2. /\ Cardinality(Databases(hd, c)) \in Nat /\ Cardinality(Holders(t, <<>>, c)) \in Nat
        /\ IsFiniteSet(Holders(t, <<>>, c))
        /\ Cardinality({c} \cap left) \in Nat /\ Cardinality(Activations(<<>>, c)) \in Nat
    BY NoActivations, UsersAreFinite
  <2>3. u \in Table /\ Lists(u, t, i, j) /\ CountsOneMore(u, t, j)
    BY <1>2, FoundIs
  <2>4. j \in DOMAIN t
    BY EntryIs
  <2>5. /\ c # j => Holders(u, <<>>, c) = Holders(t, <<>>, c)
        /\ c = j => Holders(u, <<>>, c) = Holders(t, <<>>, c) \cup {i}
    <3>1. HoldsToo(u, t, i, j, c)
      BY <2>3, OneMoreHolder
    <3> QED BY <3>1 DEF HoldsToo
  <2>6. CASE c = j
    <3>1. i \notin Holders(t, <<>>, c)
      BY <1>2, <2>6, HoldersAtRest
    <3>2. Cardinality(Holders(u, <<>>, c)) = Cardinality(Holders(t, <<>>, c)) + 1
      BY <2>2, <2>5, <2>6, <3>1, OneMore
    <3>3. CountOf(u, c) = CountOf(t, c) + 1
      BY <2>3, <2>4, <2>6 DEF CountOf, Lists, CountsOneMore
    <3> QED BY <2>1, <2>2, <3>2, <3>3
  <2>7. CASE c # j
    <3>1. CountOf(u, c) = CountOf(t, c)
      BY <2>3, <2>7 DEF CountOf, Lists, CountsOneMore
    <3> QED BY <2>1, <2>5, <2>7, <3>1
  <2> QED BY <2>6, <2>7
<1> QED BY <1>1, <1>2

\* A file opened for a link has that link for its only user.
LEMMA OpenedForLinkIsCounted ==
    ASSUME NEW t \in Table, NEW i \in InUse(t), NEW f \in Files,
           NEW j, j = FirstFree(WithRoom(t)), NEW u, u = Fresh(WithFile(t, f), i, j),
           NEW hd, NEW left, Counted(t, <<>>, hd, left)
    PROVE  Counted(u, <<>>, hd, left)
<1>1. PICK w : w = WithFile(t, f)
  OBVIOUS
<1>2. /\ w \in Table /\ DOMAIN t \subseteq DOMAIN w
      /\ j \in DOMAIN w /\ j \notin InUse(t) /\ w[j] = Opened(f)
      /\ \A m \in DOMAIN w : m # j => w[m] = IF m \in DOMAIN t THEN t[m] ELSE Unused
      /\ InUse(w) = InUse(t) \cup {j}
  BY <1>1, WithFileIs
<1>3. \A c : /\ CountOf(w, c) = IF c = j THEN 1 ELSE CountOf(t, c)
             /\ CountOf(t, j) = 0
             /\ Holders(w, <<>>, c) = Holders(t, <<>>, c)
  BY <1>1, OpenedIsNew
<1>4. i # j /\ i \in InUse(w) /\ j \in InUse(w) /\ w[j].name = f /\ j \in Nat \ {0}
  BY <1>2, UnusedIs, EntryIs
<1>5. Databases(hd, j) = {} /\ Holders(t, <<>>, j) = {} /\ {j} \cap left = {}
  BY <1>3, <1>4, NobodyUsesFree
<1>6. j \notin Range(w[i].links)
  <2>1. i \notin Holders(w, <<>>, j)
    BY <1>3, <1>5
  <2> QED BY <1>4, <2>1, HoldersAtRest
<1>7. u = Fresh(w, i, j)
  BY <1>1
<1>8. u \in Table /\ Lists(u, w, i, j) /\ CountsTheSame(u, w)
  BY <1>2, <1>4, <1>6, <1>7, FreshIs
<1>10. ASSUME NEW c \in Nat \ {0}
       PROVE  CountOf(u, c) = Cardinality(Databases(hd, c)) + Cardinality(Holders(u, <<>>, c))
                              + Cardinality({c} \cap left) + Cardinality(Activations(<<>>, c))
  <2>1. /\ c # j => Holders(u, <<>>, c) = Holders(w, <<>>, c)
        /\ c = j => Holders(u, <<>>, c) = Holders(w, <<>>, c) \cup {i}
    <3>1. HoldsToo(u, w, i, j, c)
      BY <1>2, <1>4, <1>8, OneMoreHolder
    <3> QED BY <3>1 DEF HoldsToo
  <2>2. CountOf(u, c) = CountOf(w, c)
    BY <1>8 DEF CountOf, Lists, CountsTheSame
  <2>3. CASE c = j
    <3>1. Holders(u, <<>>, c) = {i}
      BY <1>3, <1>5, <2>1, <2>3
    <3>2. Cardinality(Holders(u, <<>>, c)) = 1
      BY <3>1, FS_Singleton
    <3>3. /\ Cardinality(Databases(hd, c)) = 0 /\ Cardinality({c} \cap left) = 0
          /\ Cardinality(Activations(<<>>, c)) = 0
      BY <1>5, <2>3, FS_EmptySet, NoActivations
    <3>4. CountOf(u, c) = 1
      BY <1>3, <2>2, <2>3
    <3> QED BY <3>2, <3>3, <3>4
  <2>4. CASE c # j
    <3>1. CountOf(u, c) = CountOf(t, c) /\ Holders(u, <<>>, c) = Holders(t, <<>>, c)
      BY <1>3, <2>1, <2>2, <2>4
    <3> QED BY <3>1 DEF Counted
  <2> QED BY <2>3, <2>4
<1> QED BY <1>10 DEF Counted

\* What is in use stays in use under its name.
Keeps(u, t) == \A m \in InUse(t) : m \in InUse(u) /\ u[m].name = t[m].name

\* That is all a link changes as far as names go.
LEMMA LinkedIs ==
    ASSUME NEW t \in Table, NEW i \in InUse(t), NEW j \in InUse(t),
           NEW u, u = Found(t, i, j) \/ u = Fresh(t, i, j)
    PROVE  u \in Table /\ Keeps(u, t)
<1>1. CASE i = j \/ j \in Range(t[i].links)
  <2>1. u = t
    BY <1>1 DEF Found, Fresh, LinkAdd
  <2> QED BY <2>1 DEF Keeps
<1>2. CASE i # j /\ j \notin Range(t[i].links)
  <2>1. u \in Table /\ Lists(u, t, i, j)
    BY <1>2, FoundIs, FreshIs
  <2> QED BY <2>1, EntryIs DEF Lists, Keeps
<1> QED BY <1>1, <1>2

\* A file that a link opens.
LEMMA OpenedForLinkIs ==
    ASSUME NEW t \in Table, NEW i \in InUse(t), NEW f \in Files,
           NEW j, j = FirstFree(WithRoom(t)), NEW u, u = Fresh(WithFile(t, f), i, j)
    PROVE  u \in Table /\ Keeps(u, t) /\ j \in InUse(u) /\ u[j].name = f
<1>1. PICK w : w = WithFile(t, f)
  OBVIOUS
<1>2. /\ w \in Table /\ DOMAIN t \subseteq DOMAIN w
      /\ j \in DOMAIN w /\ j \notin InUse(t) /\ w[j] = Opened(f)
      /\ \A m \in DOMAIN w : m # j => w[m] = IF m \in DOMAIN t THEN t[m] ELSE Unused
      /\ InUse(w) = InUse(t) \cup {j}
  BY <1>1, WithFileIs
<1>3. i \in InUse(w) /\ j \in InUse(w) /\ w[j].name = f
  BY <1>2, UnusedIs
<1>4. u \in Table /\ Keeps(u, w)
  BY <1>1, <1>2, <1>3, LinkedIs
<1>5. Keeps(u, t)
  <2>1. ASSUME NEW m \in InUse(t) PROVE m \in InUse(u) /\ u[m].name = t[m].name
    <3>1. m \in DOMAIN t /\ m # j /\ m \in DOMAIN w /\ m \in InUse(w) /\ w[m] = t[m]
      BY <1>2, EntryIs
    <3> QED BY <1>4, <3>1 DEF Keeps
  <2> QED BY <2>1 DEF Keeps
<1> QED BY <1>3, <1>4, <1>5 DEF Keeps

\* A table that grows has the same users.
LEMMA RoomIsCounted ==
    ASSUME NEW t \in Table, NEW u, u = WithRoom(t)
    PROVE  /\ u \in Table /\ Keeps(u, t) /\ InUse(u) = InUse(t)
           /\ \A hd, left : Counted(t, <<>>, hd, left) => Counted(u, <<>>, hd, left)
<1>1. /\ u \in Table /\ DOMAIN t \subseteq DOMAIN u
      /\ \A i \in DOMAIN u : u[i] = IF i \in DOMAIN t THEN t[i] ELSE Unused
      /\ InUse(u) = InUse(t)
  BY WithRoomIs
<1>2. \A m \in InUse(t) : u[m] = t[m]
  BY <1>1, EntryIs
<1>3. \A c : CountOf(u, c) = CountOf(t, c)
  BY <1>1, UnusedIs DEF CountOf
<1>4. \A c : Holders(u, <<>>, c) = Holders(t, <<>>, c)
  <2> SUFFICES ASSUME NEW c PROVE Holders(u, <<>>, c) = Holders(t, <<>>, c)
    OBVIOUS
  <2>1. {j \in InUse(u) : c \in Range(u[j].links)} = {j \in InUse(t) : c \in Range(t[j].links)}
    BY <1>1, <1>2
  <2>2. Holders(u, <<>>, c) = {j \in InUse(u) : c \in Range(u[j].links)}
    BY HoldersAtRest, ZenonT(60)
  <2>3. Holders(t, <<>>, c) = {j \in InUse(t) : c \in Range(t[j].links)}
    BY HoldersAtRest, Zenon
  <2> QED BY <2>1, <2>2, <2>3, Zenon
<1> QED BY <1>1, <1>2, <1>3, <1>4 DEF Keeps, Counted

\* The first entry of a name has that name.
LEMMA IndexFromNameIs ==
    ASSUME NEW t \in Table, NEW f, Named(t, f) # {}
    PROVE  IndexFromName(t, f) \in InUse(t) /\ t[IndexFromName(t, f)].name = f
<1>1. Named(t, f) \in SUBSET Nat
  BY EntryIs DEF Named
<1>2. \E n \in Named(t, f) : \A m \in Named(t, f) : n <= m
  BY <1>1, LeastElement
<1>3. IndexFromName(t, f) \in Named(t, f)
  BY <1>2 DEF IndexFromName
<1> QED BY <1>3 DEF Named

----------------------------------------------------------------------------
(* The chase of a link                                                     *)

\* A chase that began with the table t: it stands on a node of a file in use.
Underway(s, t) ==
    /\ s = At(s.table, s.file, s.node, s.state)
    /\ s.table \in Table /\ Keeps(s.table, t)
    /\ s.state \in {"walking", "done"} =>
          s.file \in InUse(s.table) /\ s.table[s.file].name \in Files /\ s.node \in Node

\* Where it stands, in terms of the names of files.
Place(s) == <<s.table[s.file].name, s.node>>

\* One turn follows a link, finds that it stands on none, or fails.
Moves(s, u) ==
    \/ s.state # "walking" /\ u = s
    \/ /\ s.state = "walking" /\ u.state = "walking"
       /\ Target[Place(s)] # Plain /\ Place(u) = Target[Place(s)]
    \/ s.state = "walking" /\ u.state = "done" /\ Target[Place(s)] = Plain /\ Place(u) = Place(s)
    \/ u.state = "failed"

\* The counts of one table are those of the users if those of the other are.
CountedLike(u, t) ==
    \A hd, left : Counted(t, <<>>, hd, left) => Counted(u, <<>>, hd, left)

\* Names kept are kept for good.
LEMMA KeepsAll ==
    ASSUME NEW t, NEW u, NEW w, Keeps(u, t), Keeps(w, u)
    PROVE  Keeps(w, t)
BY DEF Keeps

\* The link leads to a file of the table: the chase goes on there or fails.
LEMMA ArriveIs ==
    ASSUME NEW t, NEW s, Underway(s, t), s.state = "walking",
           NEW w \in Table, Keeps(w, s.table), NEW j \in InUse(w), w[j].name \in Files,
           Target[Place(s)] # Plain, NEW n, Target[Place(s)] = <<w[j].name, n>>,
           NEW u, u = Arrive(w, j, n)
    PROVE  Underway(u, t) /\ Moves(s, u) /\ u.table = w
<1>1. Keeps(w, t)
  BY KeepsAll DEF Underway
<1>2. /\ u = At(u.table, u.file, u.node, u.state)
      /\ u.table = w /\ u.file = j /\ u.node = n
      /\ u.state = IF n \in Node THEN "walking" ELSE "failed"
  BY DEF Arrive, At
<1>3. Place(u) = Target[Place(s)]
  BY <1>2 DEF Place
<1> QED BY <1>1, <1>2, <1>3 DEF Underway, Moves

\* The name of the file a chase is in, and where the node it stands on leads to.
From(s) == s.table[s.file].name
Leads(s) == Target[<<From(s), s.node>>]

\* A turn, case by case.
LEMMA TurnByCase ==
    ASSUME NEW s, NEW disk
    PROVE  /\ s.state # "walking" => Turn(s, disk) = s
           /\ s.state = "walking" /\ Leads(s) = Plain => Turn(s, disk) = [s EXCEPT !.state = "done"]
           /\ (s.state = "walking" /\ Leads(s) # Plain) =>
                 /\ Leads(s)[1] = From(s) => Turn(s, disk) = Arrive(s.table, s.file, Leads(s)[2])
                 /\ Leads(s)[1] # From(s) =>
                       /\ disk = "gone" => Turn(s, disk) = [s EXCEPT !.state = "failed"]
                       /\ disk # "gone" /\ Named(s.table, Leads(s)[1]) # {} =>
                             \A j : j = IndexFromName(s.table, Leads(s)[1]) =>
                                Turn(s, disk) = Arrive(Found(s.table, s.file, j), j, Leads(s)[2])
                       /\ disk = "there" /\ Named(s.table, Leads(s)[1]) = {} /\ MayOpen(s.table) =>
                             \A j : j = FirstFree(WithRoom(s.table)) =>
                                Turn(s, disk) = Arrive(Fresh(WithFile(s.table, Leads(s)[1]), s.file, j),
                                                       j, Leads(s)[2])
                       /\ disk # "gone" /\ Named(s.table, Leads(s)[1]) = {}
                          /\ ~ (disk = "there" /\ MayOpen(s.table)) =>
                             Turn(s, disk) = [s EXCEPT !.table = IF MayOpen(@) THEN WithRoom(@) ELSE @,
                                                       !.state = "failed"]
<1>1. "there" # "gone"
  OBVIOUS
<1> QED BY <1>1, ZenonT(60) DEF Turn, Leads, From, Found, Fresh

\* A turn of a chase keeps all this.
LEMMA TurnIs ==
    ASSUME NEW t, NEW s, Underway(s, t), NEW disk, NEW u, u = Turn(s, disk)
    PROVE  Underway(u, t) /\ Moves(s, u) /\ CountedLike(u.table, s.table)
<1> DEFINE from == From(s)
           to == Leads(s)
           i == s.file
<1>0. CountedLike(s.table, s.table)
  BY DEF CountedLike
<1>1. CASE s.state # "walking"
  <2>1. u = s
    BY <1>1, TurnByCase, ZenonT(60)
  <2> QED BY <1>0, <1>1, <2>1 DEF Moves
<1>2. CASE s.state = "walking" /\ to = Plain
  <2>1. u = [s EXCEPT !.state = "done"]
    BY <1>2, TurnByCase, Zenon
  <2>2. /\ u = At(u.table, u.file, u.node, u.state)
        /\ u.table = s.table /\ u.file = s.file /\ u.node = s.node /\ u.state = "done"
    BY <2>1 DEF Underway, At
  <2>3. Place(u) = Place(s) /\ Target[Place(s)] = Plain
    BY <1>2, <2>2, Zenon DEF Place, Leads, From
  <2> QED BY <1>0, <1>2, <2>2, <2>3 DEF Underway, Moves
<1>3. CASE s.state = "walking" /\ to # Plain
  <2>1. i \in InUse(s.table) /\ from \in Files /\ s.node \in Node /\ s.table \in Table
    BY <1>3 DEF Underway, From
  <2>2. to \in Files \X Nat /\ to = <<to[1], to[2]>> /\ to[1] \in Files
    <3>1. to = Target[<<from, s.node>>]
      BY DEF Leads
    <3> HIDE DEF to, from
    <3> QED BY <1>3, <2>1, <3>1, FilesAssumption
  <2>3. Target[Place(s)] = <<to[1], to[2]>> /\ Target[Place(s)] # Plain
    <3>1. Target[Place(s)] = to
      BY Zenon DEF Place, Leads, From
    <3> HIDE DEF to
    <3> QED BY <1>3, <2>2, <3>1
  <2>4. CASE to[1] = from
    <3>1. u = Arrive(s.table, i, to[2])
      BY <1>3, <2>4, TurnByCase, Zenon
    <3>2. Keeps(s.table, s.table)
      BY DEF Keeps
    <3>3. s.table[i].name = to[1]
      BY <2>4 DEF From
    <3> HIDE DEF to, i, from
    <3> QED BY <1>0, <1>3, <2>1, <2>2, <2>3, <3>1, <3>2, <3>3, ArriveIs
  <2>5. CASE to[1] # from /\ disk # "gone" /\ Named(s.table, to[1]) # {}
    <3>1. PICK j : j = IndexFromName(s.table, to[1])
      OBVIOUS
    <3>2. PICK w : w = Found(s.table, i, j)
      BY SMTT(60)
    <3>3. u = Arrive(w, j, to[2])
      BY <1>3, <2>5, <3>1, <3>2, TurnByCase, Zenon
    <3>4. j \in InUse(s.table) /\ s.table[j].name = to[1]
      <4> HIDE DEF to
      <4> QED BY <2>1, <2>5, <3>1, IndexFromNameIs
    <3>5. w \in Table /\ Keeps(w, s.table)
      BY <2>1, <3>2, <3>4, LinkedIs
    <3>6. j \in InUse(w) /\ w[j].name = to[1]
      BY <3>4, <3>5 DEF Keeps
    <3>7. CountedLike(w, s.table)
      BY <2>1, <3>2, <3>4, FoundIsCounted DEF CountedLike
    <3> HIDE DEF to, i, from
    <3> QED BY <1>3, <2>2, <2>3, <3>3, <3>5, <3>6, <3>7, ArriveIs
  <2>6. CASE /\ to[1] # from /\ disk = "there" /\ Named(s.table, to[1]) = {}
             /\ MayOpen(s.table)
    <3>1. PICK j : j = FirstFree(WithRoom(s.table))
      OBVIOUS
    <3>2. PICK w : w = Fresh(WithFile(s.table, to[1]), i, j)
      BY SMTT(60)
    <3>3. u = Arrive(w, j, to[2])
      BY <1>3, <2>6, <3>1, <3>2, TurnByCase, ZenonT(60)
    <3> HIDE DEF to, i, from
    <3>4. w \in Table /\ Keeps(w, s.table) /\ j \in InUse(w) /\ w[j].name = to[1]
      BY <2>1, <2>2, <3>1, <3>2, OpenedForLinkIs
    <3>5. CountedLike(w, s.table)
      BY <2>1, <2>2, <3>1, <3>2, OpenedForLinkIsCounted DEF CountedLike
    <3> QED BY <1>3, <2>2, <2>3, <3>3, <3>4, <3>5, ArriveIs
  <2>7. CASE \/ to[1] # from /\ disk = "gone"
             \/ to[1] # from /\ disk # "there" /\ Named(s.table, to[1]) = {}
             \/ to[1] # from /\ ~ MayOpen(s.table) /\ Named(s.table, to[1]) = {}
    <3>1. \/ u = [s EXCEPT !.state = "failed"]
          \/ u = [s EXCEPT !.table = IF MayOpen(@) THEN WithRoom(@) ELSE @, !.state = "failed"]
      BY <1>3, <2>7, TurnByCase, ZenonT(60)
    <3>2. /\ u = At(u.table, u.file, u.node, u.state) /\ u.state = "failed"
          /\ u.table = s.table \/ u.table = WithRoom(s.table)
      BY <3>1 DEF Underway, At
    <3>3. WithRoom(s.table) \in Table /\ Keeps(WithRoom(s.table), s.table)
          /\ CountedLike(WithRoom(s.table), s.table)
      BY <2>1, RoomIsCounted DEF CountedLike
    <3>4. u.table \in Table /\ Keeps(u.table, s.table) /\ CountedLike(u.table, s.table)
      BY <1>0, <2>1, <3>2, <3>3 DEF Keeps
    <3>5. Keeps(u.table, t)
      BY <3>4, KeepsAll DEF Underway
    <3> QED BY <3>2, <3>4, <3>5, SMTT(60) DEF Underway, Moves
  <2> QED BY <2>4, <2>5, <2>6, <2>7
<1> QED BY <1>1, <1>2, <1>3

\* The walk w is the sequence of its m turns from s on.
Turns(w, s, disk, m) == w = [k \in 0 .. m |-> IF k = 0 THEN s ELSE Turn(w[k - 1], disk)]

LEMMA TurnsExist ==
    ASSUME NEW s, NEW disk, NEW n \in Nat
    PROVE  \E w : Turns(w, s, disk, n)
<1> DEFINE S == {m \in Nat : \E w : Turns(w, s, disk, m)}
<1>1. 0 \in S
  <2>1. Turns([k \in 0 .. 0 |-> s], s, disk, 0)
    BY DEF Turns
  <2> QED BY <2>1
<1>2. ASSUME NEW m \in S PROVE m + 1 \in S
  <2>1. PICK w : Turns(w, s, disk, m)
    OBVIOUS
  <2>2. PICK v : v = [k \in 0 .. m + 1 |-> IF k = 0 THEN s ELSE Turn(w[k - 1], disk)]
    OBVIOUS
  <2>3. \A k \in 0 .. m : v[k] = w[k]
    <3>1. \A k \in 0 .. m : w[k] = IF k = 0 THEN s ELSE Turn(w[k - 1], disk)
      BY <2>1 DEF Turns
    <3> QED BY <2>2, <3>1
  <2>4. \A k \in 0 .. m + 1 : k # 0 => v[k - 1] = w[k - 1]
    BY <2>3
  <2>5. Turns(v, s, disk, m + 1)
    BY <2>2, <2>4 DEF Turns
  <2> QED BY <2>5
<1>3. S = Nat
  <2> HIDE DEF S
  <2>1. S \in SUBSET Nat
    BY DEF S
  <2> QED BY <1>1, <1>2, <2>1, AllNumbers
<1> QED BY <1>3

LEMMA WalkIs ==
    ASSUME NEW i, NEW n, NEW disk
    PROVE  \E walk : /\ Turns(walk, At(ADF_file, i, n, "walking"), disk, LinkDepth + 1)
                     /\ Walk(i, n, disk) = walk[LinkDepth + 1]
<1>1. LinkDepth + 1 \in Nat
  BY FilesAssumption
<1>2. \E walk : Turns(walk, At(ADF_file, i, n, "walking"), disk, LinkDepth + 1)
  BY <1>1, TurnsExist, Zenon
<1>3. \E walk : walk = [k \in 0 .. LinkDepth + 1 |->
                           IF k = 0 THEN At(ADF_file, i, n, "walking") ELSE Turn(walk[k - 1], disk)]
  BY <1>2, Zenon DEF Turns
<1> QED BY <1>3, Zenon DEF Walk, Turns

\* Where a chain of links by names leads, one link at a time.
Onwards(p) == IF p \in DOMAIN Target /\ Target[p] # Plain THEN Target[p] ELSE p

LEMMA PlacesExist ==
    ASSUME NEW p, NEW n \in Nat
    PROVE  \E on : on = [k \in 0 .. n |-> IF k = 0 THEN p ELSE Onwards(on[k - 1])]
<1> DEFINE Places(w, m) == w = [k \in 0 .. m |-> IF k = 0 THEN p ELSE Onwards(w[k - 1])]
           S == {m \in Nat : \E w : Places(w, m)}
<1>1. 0 \in S
  <2>1. Places([k \in 0 .. 0 |-> p], 0)
    OBVIOUS
  <2> QED BY <2>1
<1>2. ASSUME NEW m \in S PROVE m + 1 \in S
  <2>1. PICK w : Places(w, m)
    OBVIOUS
  <2>2. PICK v : v = [k \in 0 .. m + 1 |-> IF k = 0 THEN p ELSE Onwards(w[k - 1])]
    OBVIOUS
  <2>3. \A k \in 0 .. m : v[k] = w[k]
    <3>1. \A k \in 0 .. m : w[k] = IF k = 0 THEN p ELSE Onwards(w[k - 1])
      BY <2>1
    <3> QED BY <2>2, <3>1
  <2>4. \A k \in 0 .. m + 1 : k # 0 => v[k - 1] = w[k - 1]
    BY <2>3
  <2>5. Places(v, m + 1)
    BY <2>2, <2>4
  <2> QED BY <2>5
<1>3. S = Nat
  <2> HIDE DEF S
  <2>1. S \in SUBSET Nat
    BY DEF S
  <2> QED BY <1>1, <1>2, <2>1, AllNumbers
<1> QED BY <1>3

LEMMA LeadsToIs ==
    ASSUME NEW f, NEW n
    PROVE  \E on : /\ on = [k \in 0 .. LinkDepth |-> IF k = 0 THEN <<f, n>> ELSE Onwards(on[k - 1])]
                   /\ LeadsTo(f, n) = on[LinkDepth]
<1>1. LinkDepth \in Nat
  BY FilesAssumption
<1>2. \E on : on = [k \in 0 .. LinkDepth |-> IF k = 0 THEN <<f, n>> ELSE Onwards(on[k - 1])]
  BY <1>1, PlacesExist, Zenon
<1>3. \E on : on = [k \in 0 .. LinkDepth |->
                       IF k = 0 THEN <<f, n>>
                       ELSE IF on[k - 1] \in DOMAIN Target /\ Target[on[k - 1]] # Plain
                            THEN Target[on[k - 1]] ELSE on[k - 1]]
  BY <1>2, Zenon DEF Onwards
<1> QED BY <1>3, Zenon DEF LeadsTo, Onwards

\* A chain that has come to a node that is no link stays there.
LEMMA PlainStays ==
    ASSUME NEW on, NEW p, NEW N \in Nat,
           on = [k \in 0 .. N |-> IF k = 0 THEN p ELSE Onwards(on[k - 1])],
           NEW m \in 0 .. N, Target[on[m]] = Plain
    PROVE  on[N] = on[m]
<1> DEFINE S == {d \in Nat : m + d <= N => on[m + d] = on[m]}
<1>1. 0 \in S
  OBVIOUS
<1>2. ASSUME NEW d \in S PROVE d + 1 \in S
  <2> SUFFICES ASSUME m + (d + 1) <= N PROVE on[m + (d + 1)] = on[m]
    OBVIOUS
  <2>1. m + d \in 0 .. N /\ on[m + d] = on[m]
    BY <1>2
  <2>2. m + (d + 1) \in 0 .. N /\ m + (d + 1) # 0 /\ m + (d + 1) - 1 = m + d
    BY <2>1
  <2>3. on[m + (d + 1)] = Onwards(on[m + d])
    BY <2>2
  <2> QED BY <2>1, <2>3 DEF Onwards
<1>3. S = Nat
  <2> HIDE DEF S
  <2>1. S \in SUBSET Nat
    BY DEF S
  <2> QED BY <1>1, <1>2, <2>1, AllNumbers
<1>4. N - m \in S
  <2>1. N - m \in Nat
    OBVIOUS
  <2> HIDE DEF S
  <2> QED BY <1>3, <2>1
<1> QED BY <1>4

\* Where the chase of a node of a file in use ends: the files in use and the counts
\* are as they should be, and the place is the one the names lead to.
LEMMA WalkEnds ==
    ASSUME ADF_file \in Table, NEW i \in InUse(ADF_file), ADF_file[i].name # NoFile,
           NEW n \in Node, NEW disk, NEW end, end = Walk(i, n, disk)
    PROVE  /\ Underway(end, ADF_file) /\ CountedLike(end.table, ADF_file)
           /\ end.state = "done" => Place(end) = LeadsTo(ADF_file[i].name, n)
<1> DEFINE f == ADF_file[i].name
           start == At(ADF_file, i, n, "walking")
<1>1. PICK walk : Turns(walk, start, disk, LinkDepth + 1) /\ end = walk[LinkDepth + 1]
  BY WalkIs, Zenon
<1>2. PICK on : /\ on = [k \in 0 .. LinkDepth |-> IF k = 0 THEN <<f, n>> ELSE Onwards(on[k - 1])]
                /\ LeadsTo(f, n) = on[LinkDepth]
  BY LeadsToIs, Zenon
<1>3. LinkDepth \in Nat /\ i \in DOMAIN ADF_file /\ f \in Files
  BY FilesAssumption, EntryIs
<1>4. /\ walk[0] = start
      /\ \A k \in 0 .. LinkDepth : walk[k + 1] = Turn(walk[k], disk)
  <2>1. ASSUME NEW k \in 0 .. LinkDepth PROVE walk[k + 1] = Turn(walk[k], disk)
    <3>1. k + 1 \in 0 .. LinkDepth + 1 /\ k + 1 # 0 /\ (k + 1) - 1 = k
      BY <1>3
    <3> QED BY <1>1, <3>1 DEF Turns
  <2>2. 0 \in 0 .. LinkDepth + 1
    BY <1>3
  <2> QED BY <1>1, <2>1, <2>2 DEF Turns
<1>5. /\ on[0] = <<f, n>>
      /\ \A k \in 0 .. LinkDepth : k + 1 <= LinkDepth => on[k + 1] = Onwards(on[k])
  <2>1. ASSUME NEW k \in 0 .. LinkDepth, k + 1 <= LinkDepth PROVE on[k + 1] = Onwards(on[k])
    <3>1. k + 1 \in 0 .. LinkDepth /\ k + 1 # 0 /\ (k + 1) - 1 = k
      BY <1>3, <2>1
    <3> QED BY <1>2, <3>1
  <2>2. 0 \in 0 .. LinkDepth
    BY <1>3
  <2> QED BY <1>2, <2>1, <2>2
<1> DEFINE Good(k) ==
              /\ Underway(walk[k], ADF_file) /\ CountedLike(walk[k].table, ADF_file)
              /\ walk[k].state = "walking" /\ k <= LinkDepth => Place(walk[k]) = on[k]
              /\ walk[k].state = "done" => Place(walk[k]) = on[LinkDepth]
           S == {k \in Nat : k <= LinkDepth + 1 => Good(k)}
<1> HIDE DEF start, f
<1>6. 0 \in S
  <2>1. /\ start = At(start.table, start.file, start.node, start.state)
        /\ start.table = ADF_file /\ start.file = i /\ start.node = n /\ start.state = "walking"
    BY DEF start, At
  <2>2. Underway(start, ADF_file)
    BY <1>3, <2>1 DEF Underway, Keeps, f
  <2>3. CountedLike(start.table, ADF_file)
    BY <2>1 DEF CountedLike
  <2>4. Place(start) = on[0]
    BY <1>5, <2>1 DEF Place, f
  <2> QED BY <1>4, <2>1, <2>2, <2>3, <2>4
<1>7. ASSUME NEW k \in S PROVE k + 1 \in S
  <2> SUFFICES ASSUME k + 1 <= LinkDepth + 1 PROVE Good(k + 1)
    OBVIOUS
  <2>1. k \in 0 .. LinkDepth /\ Good(k)
    BY <1>3, <1>7
  <2>2. PICK s : s = walk[k]
    OBVIOUS
  <2>3. PICK u : u = walk[k + 1]
    OBVIOUS
  <2>4. u = Turn(s, disk) /\ Underway(s, ADF_file)
    BY <1>4, <2>1, <2>2, <2>3
  <2>5. Underway(u, ADF_file) /\ Moves(s, u) /\ CountedLike(u.table, s.table)
    BY <2>4, TurnIs
  <2>6. CountedLike(u.table, ADF_file)
    BY <2>1, <2>2, <2>5 DEF CountedLike
  <2>7. ASSUME u.state = "walking", k + 1 <= LinkDepth PROVE Place(u) = on[k + 1]
    <3>1. /\ s.state = "walking" /\ Target[Place(s)] # Plain /\ Place(u) = Target[Place(s)]
      BY <2>5, <2>7 DEF Moves
    <3>2. Place(s) = on[k]
      BY <2>1, <2>2, <3>1
    <3>3. Place(s) \in DOMAIN Target
      <4>1. s.table[s.file].name \in Files /\ s.node \in Node
        BY <2>4, <3>1 DEF Underway
      <4> QED BY <4>1, FilesAssumption DEF Place
    <3>4. on[k + 1] = Onwards(on[k])
      BY <1>5, <2>1, <2>7
    <3> QED BY <3>1, <3>2, <3>3, <3>4 DEF Onwards
  <2>8. ASSUME u.state = "done" PROVE Place(u) = on[LinkDepth]
    <3>1. CASE s.state = "done"
      BY <2>1, <2>2, <2>5, <2>8, <3>1 DEF Moves
    <3>2. CASE s.state # "done"
      <4>1. s.state = "walking" /\ Target[Place(s)] = Plain /\ Place(u) = Place(s)
        BY <2>5, <2>8, <3>2 DEF Moves
      <4>2. Place(s) = on[k]
        BY <2>1, <2>2, <4>1
      <4>3. on[LinkDepth] = on[k]
        BY <1>2, <1>3, <2>1, <4>1, <4>2, PlainStays, ZenonT(90)
      <4> QED BY <4>1, <4>2, <4>3
    <3> QED BY <3>1, <3>2
  <2> QED BY <2>3, <2>5, <2>6, <2>7, <2>8
<1>8. S = Nat
  <2> HIDE DEF S
  <2>1. S \in SUBSET Nat
    BY DEF S
  <2> QED BY <1>6, <1>7, <2>1, AllNumbers
<1>9. Good(LinkDepth + 1)
  <2>1. LinkDepth + 1 \in S
    BY <1>3, <1>8
  <2> QED BY <1>3, <2>1
<1> QED BY <1>1, <1>2, <1>9 DEF f

----------------------------------------------------------------------------
(* Steps while nothing is being closed                                     *)

\* The empty stack.
LEMMA NothingCloses ==
    ASSUME NEW t
    PROVE  <<>> \in Stacks(t) /\ LastUsers(t, <<>>)
<1>1. <<>> \in Seq([file : Nat \ {0}, next : Nat \ {0}]) /\ DOMAIN <<>> = {}
  OBVIOUS
<1> QED BY <1>1 DEF Stacks, LastUsers

\* The link remembered survives as long as what is in use stays in use.
LEMMA RememberedStays ==
    ASSUME RememberedLinkHolds, Keeps(ADF_file', ADF_file), last_link' = last_link
    PROVE  RememberedLinkHolds'
BY DEF RememberedLinkHolds, Keeps

\* What an operation between two closes has to show.
LEMMA AtRest ==
    ASSUME Inv, Idle, UNCHANGED <<closing, torn, overflow>>, ADF_file' \in Table,
           handle' \in [Handle -> Nat], RememberedLinkHolds',
           ~ torn /\ Counted(ADF_file, <<>>, handle, stranded)
              => Counted(ADF_file', <<>>, handle', stranded')
    PROVE  Inv'
<1>1. closing = <<>> /\ closing' = <<>>
  BY DEF Idle
<1>2. closing' \in Stacks(ADF_file') /\ LastUsers(ADF_file', closing')
  BY <1>1, NothingCloses
<1>3. ~ torn => Counted(ADF_file, <<>>, handle, stranded)
  BY <1>1 DEF Inv
<1> QED BY <1>1, <1>2, <1>3 DEF Inv

LEMMA OpenKeepsInv ==
    ASSUME Inv, NEW h \in Handle, NEW f \in Files, Open(h, f)
    PROVE  Inv'
<1>1. PICK j : j = FirstFree(WithRoom(ADF_file))
  OBVIOUS
<1>2. PICK u : u = ADF_file'
  OBVIOUS
<1>3. /\ Idle /\ handle[h] = 0 /\ u = WithFile(ADF_file, f) /\ handle' = [handle EXCEPT ![h] = j]
      /\ UNCHANGED <<last_link, closing, stranded, torn, overflow>>
  BY <1>1, <1>2 DEF Open
<1>4. ADF_file \in Table /\ handle \in [Handle -> Nat] /\ RememberedLinkHolds
  BY DEF Inv
<1>5. /\ u \in Table /\ DOMAIN ADF_file \subseteq DOMAIN u
      /\ j \in DOMAIN u /\ j \notin InUse(ADF_file)
      /\ \A i \in DOMAIN u : i # j => u[i] = IF i \in DOMAIN ADF_file THEN ADF_file[i] ELSE Unused
      /\ InUse(u) = InUse(ADF_file) \cup {j}
  BY <1>1, <1>3, <1>4, WithFileIs
<1>6. j \in Nat \ {0}
  BY <1>5, EntryIs
<1>7. Keeps(u, ADF_file)
  BY <1>4, <1>5, EntryIs DEF Keeps
<1>8. handle' \in [Handle -> Nat]
  BY <1>3, <1>4, <1>6
<1>9. ASSUME Counted(ADF_file, <<>>, handle, stranded)
      PROVE  Counted(u, <<>>, handle', stranded)
  <2> SUFFICES ASSUME NEW c \in Nat \ {0}
               PROVE  CountOf(u, c) = Cardinality(Databases(handle', c)) + Cardinality(Holders(u, <<>>, c))
                                      + Cardinality({c} \cap stranded) + Cardinality(Activations(<<>>, c))
    BY DEF Counted
  <2>1. /\ CountOf(u, c) = IF c = j THEN 1 ELSE CountOf(ADF_file, c)
        /\ CountOf(ADF_file, j) = 0
        /\ Holders(u, <<>>, c) = Holders(ADF_file, <<>>, c)
    BY <1>1, <1>3, <1>4, OpenedIsNew
  <2>2. CASE c = j
    <3>1. /\ Databases(handle, j) = {} /\ Holders(ADF_file, <<>>, j) = {} /\ {j} \cap stranded = {}
      BY <1>4, <1>6, <1>9, <2>1, NobodyUsesFree
    <3>2. Databases(handle', c) = {h}
      BY <1>3, <1>4, <2>2, <3>1 DEF Databases
    <3>3. Cardinality(Databases(handle', c)) = 1
      BY <3>2, FS_Singleton
    <3>4. /\ Cardinality(Holders(u, <<>>, c)) = 0 /\ Cardinality({c} \cap stranded) = 0
          /\ Cardinality(Activations(<<>>, c)) = 0
      BY <2>1, <2>2, <3>1, NoActivations, FS_EmptySet
    <3> QED BY <2>1, <2>2, <3>3, <3>4
  <2>3. CASE c # j
    <3>1. Databases(handle', c) = Databases(handle, c)
      BY <1>3, <1>4, <2>3 DEF Databases
    <3>2. CountOf(ADF_file, c) =
             Cardinality(Databases(handle, c)) + Cardinality(Holders(ADF_file, <<>>, c))
             + Cardinality({c} \cap stranded) + Cardinality(Activations(<<>>, c))
      BY <1>9 DEF Counted
    <3> QED BY <2>1, <2>3, <3>1, <3>2
  <2> QED BY <2>2, <2>3
<1>10. RememberedLinkHolds'
  BY <1>2, <1>3, <1>4, <1>7, RememberedStays
<1> QED BY <1>2, <1>3, <1>5, <1>8, <1>9, <1>10, AtRest

LEMMA OpenFailsKeepsInv ==
    ASSUME Inv, OpenFails
    PROVE  Inv'
<1>1. /\ Idle /\ ADF_file' = WithRoom(ADF_file)
      /\ UNCHANGED <<handle, last_link, closing, stranded, torn, overflow>>
  BY DEF OpenFails
<1>2. ADF_file \in Table /\ handle \in [Handle -> Nat] /\ RememberedLinkHolds
  BY DEF Inv
<1>3. /\ ADF_file' \in Table /\ Keeps(ADF_file', ADF_file)
      /\ \A hd, left : Counted(ADF_file, <<>>, hd, left) => Counted(ADF_file', <<>>, hd, left)
  BY <1>1, <1>2, RoomIsCounted
<1>4. RememberedLinkHolds'
  BY <1>1, <1>2, <1>3, RememberedStays
<1> QED BY <1>1, <1>2, <1>3, <1>4, AtRest

LEMMA CreateFailsKeepsInv ==
    ASSUME Inv, CreateFails
    PROVE  Inv'
<1>1. PICK j : j = FirstFree(WithRoom(ADF_file))
  OBVIOUS
<1>2. PICK u : u = ADF_file'
  OBVIOUS
<1>3. /\ Idle /\ stranded = {} /\ u = WithFile(ADF_file, NoFile) /\ stranded' = {j}
      /\ UNCHANGED <<handle, last_link, closing, torn, overflow>>
  BY <1>1, <1>2 DEF CreateFails
<1>4. ADF_file \in Table /\ handle \in [Handle -> Nat] /\ RememberedLinkHolds
  BY DEF Inv
<1>5. /\ u \in Table /\ DOMAIN ADF_file \subseteq DOMAIN u
      /\ j \in DOMAIN u /\ j \notin InUse(ADF_file)
      /\ \A i \in DOMAIN u : i # j => u[i] = IF i \in DOMAIN ADF_file THEN ADF_file[i] ELSE Unused
      /\ InUse(u) = InUse(ADF_file) \cup {j}
  BY <1>1, <1>3, <1>4, WithFileIs
<1>6. j \in Nat \ {0}
  BY <1>5, EntryIs
<1>7. Keeps(u, ADF_file)
  BY <1>4, <1>5, EntryIs DEF Keeps
<1>8. ASSUME Counted(ADF_file, <<>>, handle, stranded)
      PROVE  Counted(u, <<>>, handle, stranded')
  <2> SUFFICES ASSUME NEW c \in Nat \ {0}
               PROVE  CountOf(u, c) = Cardinality(Databases(handle, c)) + Cardinality(Holders(u, <<>>, c))
                                      + Cardinality({c} \cap stranded') + Cardinality(Activations(<<>>, c))
    BY DEF Counted
  <2>1. /\ CountOf(u, c) = IF c = j THEN 1 ELSE CountOf(ADF_file, c)
        /\ CountOf(ADF_file, j) = 0
        /\ Holders(u, <<>>, c) = Holders(ADF_file, <<>>, c)
    BY <1>1, <1>3, <1>4, OpenedIsNew
  <2>2. CASE c = j
    <3>1. Databases(handle, j) = {} /\ Holders(ADF_file, <<>>, j) = {}
      BY <1>4, <1>6, <1>8, <2>1, NobodyUsesFree
    <3>2. {c} \cap stranded' = {j}
      BY <1>3, <2>2
    <3>3. Cardinality({c} \cap stranded') = 1
      BY <3>2, FS_Singleton
    <3>4. /\ Cardinality(Holders(u, <<>>, c)) = 0 /\ Cardinality(Databases(handle, c)) = 0
          /\ Cardinality(Activations(<<>>, c)) = 0
      BY <2>1, <2>2, <3>1, NoActivations, FS_EmptySet
    <3> QED BY <2>1, <2>2, <3>3, <3>4
  <2>3. CASE c # j
    <3>1. {c} \cap stranded' = {c} \cap stranded
      BY <1>3, <2>3
    <3>2. CountOf(ADF_file, c) =
             Cardinality(Databases(handle, c)) + Cardinality(Holders(ADF_file, <<>>, c))
             + Cardinality({c} \cap stranded) + Cardinality(Activations(<<>>, c))
      BY <1>8 DEF Counted
    <3> QED BY <2>1, <2>3, <3>1, <3>2
  <2> QED BY <2>2, <2>3
<1>9. RememberedLinkHolds'
  BY <1>2, <1>3, <1>4, <1>7, RememberedStays
<1> QED BY <1>2, <1>3, <1>4, <1>5, <1>8, <1>9, AtRest

LEMMA ChaseKeepsInv ==
    ASSUME Inv, NEW i, NEW n \in Node, NEW disk, Chase(i, n, disk)
    PROVE  Inv'
<1>1. PICK end : end = Walk(i, n, disk)
  OBVIOUS
<1>2. /\ Idle /\ i \in InUse(ADF_file) /\ ADF_file[i].name # NoFile
      /\ ADF_file' = end.table
      /\ last_link' =
            IF end.state = "done" /\ <<end.file, end.node>> # <<i, n>>
            THEN {[link |-> <<i, n>>, node |-> <<end.file, end.node>>]} ELSE last_link
      /\ UNCHANGED <<handle, closing, stranded, torn, overflow>>
  BY <1>1, Zenon DEF Chase
<1>3. ADF_file \in Table /\ handle \in [Handle -> Nat] /\ RememberedLinkHolds
  BY DEF Inv
<1>4. /\ Underway(end, ADF_file) /\ CountedLike(end.table, ADF_file)
      /\ end.state = "done" => Place(end) = LeadsTo(ADF_file[i].name, n)
  BY <1>1, <1>2, <1>3, WalkEnds
<1>5. ADF_file' \in Table /\ Keeps(ADF_file', ADF_file)
  BY <1>2, <1>4 DEF Underway
<1>6. CASE end.state = "done" /\ <<end.file, end.node>> # <<i, n>>
  <2>1. /\ i \in InUse(ADF_file') /\ ADF_file'[i].name = ADF_file[i].name
        /\ end.file \in InUse(ADF_file')
    BY <1>2, <1>4, <1>5, <1>6 DEF Underway, Keeps
  <2>2. <<ADF_file'[end.file].name, end.node>> = LeadsTo(ADF_file'[i].name, n)
    BY <1>2, <1>4, <1>6, <2>1 DEF Place
  <2>3. PICK last : last = [link |-> <<i, n>>, node |-> <<end.file, end.node>>]
    OBVIOUS
  <2>4. /\ last_link' = {last}
        /\ last.link[1] = i /\ last.link[2] = n
        /\ last.node[1] = end.file /\ last.node[2] = end.node
    BY <1>2, <1>6, <2>3
  <2> QED
    <3>1. /\ {last.link[1], last.node[1]} \subseteq InUse(ADF_file')
          /\ <<ADF_file'[last.node[1]].name, last.node[2]>>
                = LeadsTo(ADF_file'[last.link[1]].name, last.link[2])
      BY <2>1, <2>2, <2>4
    <3>2. RememberedLinkHolds'
      BY <2>4, <3>1 DEF RememberedLinkHolds
    <3> QED BY <1>2, <1>3, <1>4, <1>5, <3>2, AtRest DEF CountedLike
<1>7. CASE ~ (end.state = "done" /\ <<end.file, end.node>> # <<i, n>>)
  <2>1. last_link' = last_link
    BY <1>2, <1>7
  <2>2. RememberedLinkHolds'
    BY <1>3, <1>5, <2>1, RememberedStays
  <2> QED BY <1>2, <1>3, <1>4, <1>5, <2>2, AtRest DEF CountedLike
<1> QED BY <1>6, <1>7

----------------------------------------------------------------------------
(* The stack of a close                                                    *)

\* What each activation of a stack s on the table t is about.
At1(t, s, p) ==
    LET links == t[s[p].file].links IN
    /\ s[p].file \in InUse(t) /\ s[p].file \in Nat \ {0}
    /\ s[p].next \in Nat \ {0} /\ s[p].next \in 1 .. Len(links) + 1
    /\ p < Len(s) => s[p].next > 1 /\ s[p + 1].file = links[s[p].next - 1]

\* What two activations of one file are about.
At2(s, p, q) ==
    p < q /\ s[p].file = s[q].file =>
        s[q].next < s[p].next \/ (s[q].next = s[p].next /\ q < Len(s))

LEMMA StackIs ==
    ASSUME NEW t \in Table, NEW s \in Stacks(t)
    PROVE  /\ s \in Seq(Activity) /\ Len(s) \in Nat /\ DOMAIN s = 1 .. Len(s)
           /\ \A p \in DOMAIN s : At1(t, s, p)
           /\ \A p, q \in DOMAIN s : At2(s, p, q)
<1>1. s \in Seq(Activity) /\ Len(s) \in Nat /\ DOMAIN s = 1 .. Len(s)
  BY LenProperties DEF Stacks, Activity
<1>2. ASSUME NEW p \in DOMAIN s PROVE At1(t, s, p)
  <2>1. s[p] \in Activity
    BY <1>1, ElementOfSeq
  <2>2. s[p].file \in Nat \ {0} /\ s[p].next \in Nat \ {0}
    BY <2>1 DEF Activity
  <2>3. s[p].file \in InUse(t) /\ s[p].next <= Len(t[s[p].file].links) + 1
    BY DEF Stacks
  <2>4. Len(t[s[p].file].links) \in Nat
    BY <2>3, EntryIs
  <2>5. p < Len(s) => s[p].next > 1 /\ s[p + 1].file = t[s[p].file].links[s[p].next - 1]
    BY DEF Stacks
  <2> QED BY <2>2, <2>3, <2>4, <2>5 DEF At1
<1>3. \A p, q \in DOMAIN s : At2(s, p, q)
  BY DEF Stacks, At2
<1> QED BY <1>1, <1>2, <1>3

LEMMA IsStack ==
    ASSUME NEW t, NEW s \in Seq(Activity), \A p \in DOMAIN s : At1(t, s, p),
           \A p, q \in DOMAIN s : At2(s, p, q)
    PROVE  s \in Stacks(t)
<1>1. \A p \in DOMAIN s :
         LET links == t[s[p].file].links IN
         /\ s[p].file \in InUse(t)
         /\ s[p].next <= Len(links) + 1
         /\ p < Len(s) => s[p].next > 1 /\ s[p + 1].file = links[s[p].next - 1]
  BY SMTT(60) DEF At1
<1>2. \A p, q \in DOMAIN s :
         p < q /\ s[p].file = s[q].file =>
             \/ s[q].next < s[p].next
             \/ s[q].next = s[p].next /\ q < Len(s)
  BY DEF At2
<1> QED BY <1>1, <1>2 DEF Stacks, Activity

\* A file that is closed for its only user has no other one.
LEMMA OnlyUser ==
    ASSUME NEW t \in Table, NEW s \in Seq(Activity), NEW hd, NEW left,
           Counted(t, s, hd, left), NEW p \in DOMAIN s, NEW e \in Nat \ {0}, s[p].file = e,
           CountOf(t, e) = 1
    PROVE  /\ Databases(hd, e) = {} /\ Holders(t, s, e) = {} /\ {e} \cap left = {}
           /\ \A q \in DOMAIN s : s[q].file = e => q = p
<1>1. /\ IsFiniteSet(Databases(hd, e)) /\ Cardinality(Databases(hd, e)) \in Nat
      /\ IsFiniteSet(Holders(t, s, e)) /\ Cardinality(Holders(t, s, e)) \in Nat
      /\ IsFiniteSet({e} \cap left) /\ Cardinality({e} \cap left) \in Nat
      /\ IsFiniteSet(Activations(s, e)) /\ Cardinality(Activations(s, e)) \in Nat
  BY UsersAreFinite
<1>2. p \in Activations(s, e)
  BY DEF Activations
<1>3. Cardinality(Activations(s, e)) # 0
  BY <1>1, <1>2, FS_EmptySet
<1>4. 1 = Cardinality(Databases(hd, e)) + Cardinality(Holders(t, s, e))
          + Cardinality({e} \cap left) + Cardinality(Activations(s, e))
  BY DEF Counted
<1>5. /\ Cardinality(Databases(hd, e)) = 0 /\ Cardinality(Holders(t, s, e)) = 0
      /\ Cardinality({e} \cap left) = 0 /\ Cardinality(Activations(s, e)) = 1
  BY <1>1, <1>3, <1>4
<1>6. Databases(hd, e) = {} /\ Holders(t, s, e) = {} /\ {e} \cap left = {}
  BY <1>1, <1>5, FS_EmptySet
<1>7. PICK x : Activations(s, e) = {x}
  BY <1>1, <1>5, FS_Singleton
<1>8. \A q \in DOMAIN s : s[q].file = e => q = p
  BY <1>2, <1>7 DEF Activations
<1> QED BY <1>6, <1>8

\* A stack of one activation, which has closed no link yet.
LEMMA FirstActivation ==
    ASSUME NEW t \in Table, NEW e \in InUse(t), NEW s, s = <<Activation(e)>>
    PROVE  /\ s \in Stacks(t) /\ s \in Seq(Activity) /\ DOMAIN s = {1}
           /\ s[1].file = e /\ s[1].next = 1
<1>1. e \in Nat \ {0} /\ e \in DOMAIN t /\ Len(t[e].links) \in Nat
  BY EntryIs
<1>2. Activation(e) \in Activity /\ Activation(e).file = e /\ Activation(e).next = 1
  BY <1>1 DEF Activation, Activity
<1>3. s \in Seq(Activity) /\ Len(s) = 1 /\ DOMAIN s = {1} /\ s[1] = Activation(e)
  BY <1>2
<1>4. At1(t, s, 1)
  BY <1>1, <1>2, <1>3 DEF At1
<1>5. At2(s, 1, 1)
  BY DEF At2
<1>6. s \in Stacks(t)
  BY <1>3, <1>4, <1>5, IsStack
<1> QED BY <1>2, <1>3, <1>6

\* It stands for one user of its file.
LEMMA FirstUsers ==
    ASSUME NEW t \in Table, NEW e, NEW s, DOMAIN s = {1}, s[1].file = e, s[1].next = 1, NEW c
    PROVE  /\ Holders(t, s, c) = Holders(t, <<>>, c)
           /\ c = e => Activations(s, c) = {1}
           /\ c # e => Activations(s, c) = {}
<1>1. \A j \in InUse(t) : \A k \in DOMAIN t[j].links : \A p \in DOMAIN s : s[p].next <= k
  BY EntryIs
<1>2. DOMAIN <<>> = {}
  OBVIOUS
<1>3. Holders(t, s, c) = Holders(t, <<>>, c)
  BY <1>1, <1>2 DEF Holders
<1> QED BY <1>3 DEF Activations

\* A count of 1 is one of a file in use.
LEMMA NotTornIsLast ==
    ASSUME NEW t \in Table, NEW e \in InUse(t), ~ (t[e].in_use > 1 /\ t[e].links # <<>>)
    PROVE  t[e].links = <<>> \/ t[e].in_use = 1
BY EntryIs DEF InUse

LEMMA CloseKeepsInv ==
    ASSUME Inv, NEW h \in Handle, Close(h)
    PROVE  Inv'
<1>1. PICK e : e = handle[h]
  OBVIOUS
<1>2. /\ Idle /\ e # 0 /\ handle' = [handle EXCEPT ![h] = 0]
      /\ UNCHANGED <<ADF_file, last_link, stranded, overflow>>
  BY <1>1 DEF Close
<1>3. /\ ADF_file \in Table /\ handle \in [Handle -> Nat] /\ RememberedLinkHolds
      /\ closing = <<>> /\ closing \in Stacks(ADF_file) /\ torn \in BOOLEAN /\ overflow \in BOOLEAN
      /\ ~ torn => Counted(ADF_file, <<>>, handle, stranded)
  BY <1>2 DEF Inv, Idle
<1>4. handle' \in [Handle -> Nat] /\ e \in Nat \ {0}
  BY <1>1, <1>2, <1>3
<1>5. RememberedLinkHolds'
  BY <1>2, <1>3 DEF RememberedLinkHolds
<1>6. CASE e \notin InUse(ADF_file)
  <2>1. UNCHANGED <<closing, torn>>
    BY <1>1, <1>6 DEF Close
  <2>2. ASSUME ~ torn PROVE FALSE
    <3>1. CountOf(ADF_file, e) = 0
      BY <1>3, <1>6, EntryIs DEF CountOf, InUse
    <3>2. Databases(handle, e) = {}
      BY <1>3, <1>4, <2>2, <3>1, NobodyUsesFree
    <3> QED BY <1>1, <3>2 DEF Databases
  <2> QED BY <1>2, <1>3, <1>4, <1>5, <2>1, <2>2 DEF Inv
<1>7. CASE e \in InUse(ADF_file)
  <2>1. PICK s : s = <<Activation(e)>>
    OBVIOUS
  <2>2. closing' = s /\ torn' = (torn \/ Shared(e))
    BY <1>1, <1>7, <2>1 DEF Close
  <2>3. /\ s \in Stacks(ADF_file) /\ s \in Seq(Activity) /\ DOMAIN s = {1}
        /\ s[1].file = e /\ s[1].next = 1
    BY <1>3, <1>7, <2>1, FirstActivation
  <2>4. ASSUME ~ torn' PROVE Counted(ADF_file, s, handle', stranded) /\ LastUsers(ADF_file, s)
    <3>1. ~ torn /\ ~ Shared(e)
      BY <2>2, <2>4
    <3>2. LastUsers(ADF_file, s)
      BY <1>3, <1>7, <2>3, <3>1, NotTornIsLast DEF LastUsers, Shared
    <3>3. ASSUME NEW c \in Nat \ {0}
          PROVE  CountOf(ADF_file, c) =
                    Cardinality(Databases(handle', c)) + Cardinality(Holders(ADF_file, s, c))
                    + Cardinality({c} \cap stranded) + Cardinality(Activations(s, c))
      <4>1. CountOf(ADF_file, c) =
               Cardinality(Databases(handle, c)) + Cardinality(Holders(ADF_file, <<>>, c))
               + Cardinality({c} \cap stranded) + Cardinality(Activations(<<>>, c))
        BY <1>3, <3>1 DEF Counted
      <4>2. Cardinality(Activations(<<>>, c)) = 0
        BY NoActivations
      <4>3. /\ Holders(ADF_file, s, c) = Holders(ADF_file, <<>>, c)
            /\ c = e => Activations(s, c) = {1}
            /\ c # e => Activations(s, c) = {}
        BY SMTT(60), <1>3, <2>3, FirstUsers
      <4>4. /\ IsFiniteSet(Databases(handle, c)) /\ Cardinality(Databases(handle, c)) \in Nat
            /\ Cardinality(Holders(ADF_file, <<>>, c)) \in Nat /\ Cardinality({c} \cap stranded) \in Nat
        BY <1>3, NoActivations, UsersAreFinite
      <4>5. CASE c = e
        <5>1. Databases(handle', c) = Databases(handle, c) \ {h} /\ h \in Databases(handle, c)
          BY <1>1, <1>2, <1>3, <4>5 DEF Databases
        <5>2. Cardinality(Databases(handle', c)) = Cardinality(Databases(handle, c)) - 1
          BY <4>4, <5>1, FS_RemoveElement
        <5>3. Cardinality(Activations(s, c)) = 1
          BY <4>5, <4>3, FS_Singleton
        <5>4. Cardinality(Holders(ADF_file, s, c)) = Cardinality(Holders(ADF_file, <<>>, c))
          BY <4>3
        <5> QED BY <4>1, <4>2, <4>4, <5>2, <5>3, <5>4
      <4>6. CASE c # e
        <5>1. Databases(handle', c) = Databases(handle, c)
          BY <1>1, <1>2, <1>3, <4>6 DEF Databases
        <5>2. Cardinality(Activations(s, c)) = 0
          BY <4>6, <4>3, FS_EmptySet
        <5>3. Cardinality(Holders(ADF_file, s, c)) = Cardinality(Holders(ADF_file, <<>>, c))
          BY <4>3
        <5> QED BY <4>1, <4>2, <4>4, <5>1, <5>2, <5>3
      <4> QED BY <4>5, <4>6
    <3> QED BY <3>2, <3>3 DEF Counted
  <2>5. torn' \in BOOLEAN
    BY <1>3, <2>2 DEF Shared
  <2> QED BY <1>2, <1>3, <1>4, <1>5, <2>2, <2>3, <2>4, <2>5 DEF Inv
<1> QED BY <1>6, <1>7

\* The last activation comes past a link.
Advance(s) == [s EXCEPT ![Len(s)].next = @ + 1]

LEMMA AdvanceIs ==
    ASSUME NEW s \in Seq(Activity), s # <<>>, NEW a, a = Advance(s)
    PROVE  /\ a \in Seq(Activity) /\ Len(a) = Len(s) /\ Len(s) \in Nat \ {0}
           /\ DOMAIN a = 1 .. Len(s) /\ DOMAIN s = 1 .. Len(s)
           /\ \A p \in DOMAIN s : p # Len(s) => a[p] = s[p]
           /\ \A p \in DOMAIN s : a[p].file = s[p].file
           /\ a[Len(s)].next = s[Len(s)].next + 1
<1>1. Len(s) \in Nat \ {0} /\ DOMAIN s = 1 .. Len(s) /\ Len(s) \in DOMAIN s
  BY LenProperties, EmptySeq
<1>2. s[Len(s)] \in Activity
  BY <1>1, ElementOfSeq
<1> DEFINE e == [s[Len(s)] EXCEPT !.next = @ + 1]
<1>3. e \in Activity /\ e.file = s[Len(s)].file /\ e.next = s[Len(s)].next + 1
  BY <1>2 DEF Activity
<1>4. a = [s EXCEPT ![Len(s)] = e]
  BY DEF Advance
<1> HIDE DEF e
<1>5. /\ a \in Seq(Activity) /\ Len(a) = Len(s)
      /\ \A p \in 1 .. Len(s) : a[p] = IF p = Len(s) THEN e ELSE s[p]
  BY <1>1, <1>3, <1>4, ExceptSeq
<1>6. DOMAIN a = 1 .. Len(s)
  BY <1>5, LenProperties
<1> QED BY <1>1, <1>3, <1>5, <1>6, ZenonT(60)

\* A link whose file is closed already is passed.
LEMMA PassedIsStack ==
    ASSUME NEW t \in Table, NEW s \in Stacks(t), s # <<>>, NEW e, e = s[Len(s)].file,
           NEW x, x = s[Len(s)].next, x <= Len(t[e].links), t[e].links[x] \notin InUse(t)
    PROVE  Advance(s) \in Stacks(t)
<1>1. PICK a : a = Advance(s)
  OBVIOUS
<1>2. /\ s \in Seq(Activity) /\ \A p \in DOMAIN s : At1(t, s, p)
      /\ \A p, q \in DOMAIN s : At2(s, p, q)
  BY StackIs
<1>3. /\ a \in Seq(Activity) /\ Len(a) = Len(s) /\ Len(s) \in Nat \ {0}
      /\ DOMAIN a = 1 .. Len(s) /\ DOMAIN s = 1 .. Len(s)
      /\ \A p \in DOMAIN s : p # Len(s) => a[p] = s[p]
      /\ \A p \in DOMAIN s : a[p].file = s[p].file
      /\ a[Len(s)].next = s[Len(s)].next + 1
  BY <1>1, <1>2, AdvanceIs
<1>4. ASSUME NEW p \in DOMAIN a PROVE At1(t, a, p)
  <2>1. At1(t, s, p)
    BY <1>2, <1>3
  <2>2. CASE p = Len(s)
    <3>1. /\ a[p].file = e /\ a[p].next = x + 1 /\ e \in InUse(t) /\ e \in Nat \ {0}
          /\ x \in 1 .. Len(t[e].links) + 1 /\ Len(t[e].links) \in Nat
      BY <1>3, <2>1, <2>2, EntryIs DEF At1
    <3>2. x + 1 \in 1 .. Len(t[e].links) + 1
      BY SMTT(60), <3>1
    <3> QED BY <1>3, <2>2, <3>1, <3>2 DEF At1
  <2>3. CASE p # Len(s)
    <3>1. a[p] = s[p] /\ p + 1 \in DOMAIN s /\ a[p + 1].file = s[p + 1].file
      BY <1>3, <2>3
    <3> QED BY <1>3, <2>1, <3>1 DEF At1
  <2> QED BY <2>2, <2>3
<1>5. ASSUME NEW p \in DOMAIN a, NEW q \in DOMAIN a PROVE At2(a, p, q)
  <2> SUFFICES ASSUME p < q, a[p].file = a[q].file
               PROVE  a[q].next < a[p].next \/ (a[q].next = a[p].next /\ q < Len(a))
    BY DEF At2
  <2>1. p # Len(s) /\ a[p] = s[p] /\ s[p].file = s[q].file /\ p + 1 \in DOMAIN s
    BY <1>3
  <2>2. s[q].next < s[p].next \/ (s[q].next = s[p].next /\ q < Len(s))
    BY <1>2, <1>3, <2>1 DEF At2
  <2>3. CASE q # Len(s)
    BY <1>3, <2>1, <2>2, <2>3
  <2>4. CASE q = Len(s)
    <3>1. At1(t, s, p) /\ At1(t, s, p + 1) /\ At1(t, s, q)
      BY <1>2, <1>3, <2>1
    <3>2. s[p].file = e /\ x < s[p].next /\ x \in Nat /\ s[p].next \in Nat
      BY <1>3, <2>1, <2>2, <2>4, <3>1 DEF At1
    <3>3. s[p + 1].file = t[e].links[s[p].next - 1] /\ s[p + 1].file \in InUse(t)
      BY <1>3, <2>1, <3>1, <3>2 DEF At1
    <3>4. s[p].next # x + 1
      BY <3>2, <3>3, SMTT(60)
    <3> QED BY <1>3, <2>1, <2>4, <3>2, <3>4
  <2> QED BY <2>3, <2>4
<1> QED BY <1>1, <1>3, <1>4, <1>5, IsStack

\* The last activation has come to link x of file e, which leads to child.
Closes(t, s, e, x, child) ==
    /\ s[Len(s)].file = e /\ s[Len(s)].next = x
    /\ x <= Len(t[e].links) /\ t[e].links[x] = child

\* The stack u is s after that link, with an activation for child.
Pushed(u, s, x, child) ==
    /\ Len(s) \in Nat \ {0} /\ DOMAIN s = 1 .. Len(s) /\ DOMAIN u = 1 .. Len(s) + 1
    /\ \A p \in DOMAIN s : u[p].file = s[p].file
    /\ \A p \in DOMAIN s : p # Len(s) => u[p].next = s[p].next
    /\ u[Len(s)].next = x + 1
    /\ u[Len(s) + 1].file = child /\ u[Len(s) + 1].next = 1

\* The file of a link is closed in an activation of its own.
LEMMA PushedIsStack ==
    ASSUME NEW t \in Table, NEW s \in Stacks(t), s # <<>>, NEW e, NEW x,
           NEW child \in InUse(t), Closes(t, s, e, x, child),
           NEW u, u = Append(Advance(s), Activation(child))
    PROVE  u \in Stacks(t) /\ u \in Seq(Activity) /\ Pushed(u, s, x, child)
<1>1. PICK a : a = Advance(s)
  OBVIOUS
<1>2. /\ s \in Seq(Activity) /\ \A p \in DOMAIN s : At1(t, s, p)
      /\ \A p, q \in DOMAIN s : At2(s, p, q)
  BY StackIs
<1>3. /\ a \in Seq(Activity) /\ Len(a) = Len(s) /\ Len(s) \in Nat \ {0}
      /\ DOMAIN a = 1 .. Len(s) /\ DOMAIN s = 1 .. Len(s)
      /\ \A p \in DOMAIN s : p # Len(s) => a[p] = s[p]
      /\ \A p \in DOMAIN s : a[p].file = s[p].file
      /\ a[Len(s)].next = s[Len(s)].next + 1
  BY <1>1, <1>2, AdvanceIs
<1>4. child \in Nat \ {0} /\ child \in DOMAIN t /\ Len(t[child].links) \in Nat
  BY EntryIs
<1>5. Activation(child) \in Activity /\ Activation(child).file = child /\ Activation(child).next = 1
  BY <1>4 DEF Activation, Activity
<1>6. /\ u \in Seq(Activity) /\ Len(u) = Len(s) + 1
      /\ \A p \in 1 .. Len(s) : u[p] = a[p]
      /\ u[Len(s) + 1] = Activation(child)
  BY <1>1, <1>3, <1>5, AppendProperties
<1>7. DOMAIN u = 1 .. Len(s) + 1
  BY <1>6, LenProperties, SMTT(60)
<1>8. /\ \A p \in DOMAIN s : u[p].file = s[p].file
      /\ \A p \in DOMAIN s : p # Len(s) => u[p].next = s[p].next
      /\ u[Len(s)].next = x + 1
      /\ u[Len(s) + 1].file = child /\ u[Len(s) + 1].next = 1
  <2>1. \A p \in DOMAIN s : u[p] = a[p]
    BY <1>3, <1>6
  <2>2. Len(s) \in DOMAIN s
    BY <1>3, SMTT(60)
  <2>3. u[Len(s)].next = x + 1
    BY <1>3, <2>1, <2>2, ZenonT(60) DEF Closes
  <2>4. u[Len(s) + 1].file = child /\ u[Len(s) + 1].next = 1
    BY <1>5, <1>6
  <2> QED BY <1>3, <2>1, <2>3, <2>4, ZenonT(60)
<1>9. ASSUME NEW p \in DOMAIN u PROVE At1(t, u, p)
  <2>1. CASE p = Len(s) + 1
    <3>1. u[p].file = child /\ u[p].next = 1
      BY <1>8, <2>1
    <3>2. ~ (p < Len(u))
      BY <1>3, <1>6, <2>1
    <3>3. 1 \in 1 .. Len(t[child].links) + 1
      BY <1>4
    <3> QED BY <1>4, <3>1, <3>2, <3>3 DEF At1
  <2>2. CASE p = Len(s)
    <3>1. At1(t, s, p)
      BY <1>2, <1>3, <2>2
    <3>2. u[p].file = e /\ u[p].next = x + 1
      <4>1. p \in DOMAIN s /\ s[p].file = e
        BY <1>3, <2>2 DEF Closes
      <4> QED BY <1>8, <2>2, <4>1
    <3>3. e \in InUse(t) /\ e \in Nat \ {0} /\ x \in Nat \ {0}
      BY <2>2, <3>1 DEF At1, Closes
    <3>4. /\ u[p].file = e /\ u[p].next = x + 1 /\ e \in InUse(t) /\ e \in Nat \ {0}
          /\ x \in Nat \ {0} /\ Len(t[e].links) \in Nat
      BY <3>2, <3>3, EntryIs
    <3>5. /\ x + 1 \in 1 .. Len(t[e].links) + 1 /\ x + 1 > 1 /\ (x + 1) - 1 = x
      BY <3>4 DEF Closes
    <3>6. u[p + 1].file = t[e].links[(x + 1) - 1]
      <4>1. u[p + 1].file = child
        BY <1>8, <2>2
      <4> QED BY <3>5, <4>1 DEF Closes
    <3> QED BY <3>4, <3>5, <3>6 DEF At1
  <2>3. CASE p \in 1 .. Len(s) /\ p # Len(s)
    <3>1. At1(t, s, p) /\ p < Len(s) /\ p + 1 \in DOMAIN s
      BY SMTT(60), <1>2, <1>3, <2>3
    <3>2. u[p].file = s[p].file /\ u[p].next = s[p].next /\ u[p + 1].file = s[p + 1].file
      BY <1>3, <1>8, <2>3, <3>1, ZenonT(60)
    <3> QED BY <3>1, <3>2 DEF At1
  <2> QED BY <1>3, <1>7, <2>1, <2>2, <2>3
<1>10. ASSUME NEW p \in DOMAIN u, NEW q \in DOMAIN u PROVE At2(u, p, q)
  <2> SUFFICES ASSUME p < q, u[p].file = u[q].file
               PROVE  u[q].next < u[p].next \/ (u[q].next = u[p].next /\ q < Len(u))
    BY DEF At2
  <2>0. p \in DOMAIN s /\ p \in Nat /\ q \in Nat /\ At1(t, s, p) /\ s[p].next \in Nat
    <3>1. p \in DOMAIN s /\ p \in Nat /\ q \in Nat
      BY <1>3, <1>7
    <3> QED BY <1>2, <3>1 DEF At1
  <2>1. CASE q = Len(s) + 1
    <3>1. u[p].next > 1
      <4>1. At1(t, u, p) /\ p < Len(u)
        BY <1>6, <1>9, <2>1
      <4> QED BY <4>1 DEF At1
    <3> QED BY <1>8, <2>1, <3>1
  <2>2. CASE q # Len(s) + 1
    <3>1. q \in DOMAIN s /\ p # Len(s) /\ q < Len(u)
      BY <1>3, <1>6, <1>7, <2>0, <2>2
    <3>2. u[p].next = s[p].next /\ s[p].file = s[q].file
      BY <1>8, <2>0, <3>1
    <3>3. s[q].next < s[p].next \/ (s[q].next = s[p].next /\ q < Len(s))
      BY <1>2, <2>0, <3>1, <3>2 DEF At2
    <3>4. At1(t, s, q)
      BY <1>2, <3>1
    <3>5. s[q].next \in Nat
      BY <3>4 DEF At1
    <3>6. CASE q = Len(s)
      <4>1. s[q].next < s[p].next /\ u[q].next = s[q].next + 1
        <5>1. ~ (q < Len(s))
          BY <2>0, <3>6
        <5>2. s[q].next = x
          BY <3>6 DEF Closes
        <5>3. u[q].next = x + 1
          BY <1>8, <3>6
        <5> QED BY <3>3, <5>1, <5>2, <5>3
      <4> QED BY <2>0, <3>1, <3>2, <3>5, <4>1
    <3>7. CASE q # Len(s)
      BY <1>8, <3>1, <3>2, <3>3, <3>7
    <3> QED BY <3>6, <3>7
  <2> QED BY <2>1, <2>2
<1> QED BY <1>3, <1>6, <1>7, <1>8, <1>9, <1>10, IsStack, ZenonT(60) DEF Pushed

\* While the counts are those of the users, the file of the next link is in use: the
\* file that lists it waits for it to be closed.
LEMMA NextIsInUse ==
    ASSUME NEW t \in Table, NEW s \in Stacks(t), s # <<>>, NEW hd, NEW left,
           Counted(t, s, hd, left), LastUsers(t, s),
           NEW e, NEW x, NEW child, Closes(t, s, e, x, child)
    PROVE  /\ e \in InUse(t) /\ x \in DOMAIN t[e].links /\ e # child
           /\ \A q \in DOMAIN s : s[q].file = e => q = Len(s)
           /\ e \in Holders(t, s, child) /\ child \in InUse(t)
<1>1. /\ s \in Seq(Activity) /\ Len(s) \in Nat /\ DOMAIN s = 1 .. Len(s)
      /\ \A p \in DOMAIN s : At1(t, s, p)
  BY StackIs
<1>2. Len(s) \in DOMAIN s
  BY <1>1, EmptySeq
<1>3. At1(t, s, Len(s)) /\ s[Len(s)].file = e /\ s[Len(s)].next = x /\ x <= Len(t[e].links)
  BY <1>1, <1>2 DEF Closes
<1>4. e \in InUse(t) /\ e \in Nat \ {0} /\ x \in Nat \ {0}
  BY <1>3 DEF At1
<1>5. /\ e \in DOMAIN t /\ t[e].links \in Seq(Nat \ {0}) /\ Len(t[e].links) \in Nat
      /\ DOMAIN t[e].links = 1 .. Len(t[e].links)
  BY <1>4, EntryIs
<1>6. x \in DOMAIN t[e].links
  BY <1>3, <1>4, <1>5
<1>7. t[e].links # <<>>
  BY <1>6
<1>8. CountOf(t, e) = 1
  BY <1>2, <1>3, <1>5, <1>7 DEF LastUsers, CountOf
<1>9. \A q \in DOMAIN s : s[q].file = e => q = Len(s)
  BY <1>1, <1>2, <1>3, <1>4, <1>8, OnlyUser
<1>10. t[e].links[x] = child /\ child \in Nat \ {0} /\ child \in Range(t[e].links)
  BY <1>5, <1>6, ElementOfSeq DEF Closes, Range
<1>11. e # child
  BY <1>5, <1>10 DEF Table
<1>12. e \in Holders(t, s, child)
  BY <1>1, <1>3, <1>4, <1>6, <1>9, <1>10 DEF Holders
<1>13. child \in InUse(t)
  <2>1. CountOf(t, child) = Cardinality(Databases(hd, child)) + Cardinality(Holders(t, s, child))
                            + Cardinality({child} \cap left) + Cardinality(Activations(s, child))
    BY <1>10 DEF Counted
  <2>2. /\ IsFiniteSet(Holders(t, s, child)) /\ Cardinality(Holders(t, s, child)) \in Nat
        /\ Cardinality(Databases(hd, child)) \in Nat /\ Cardinality({child} \cap left) \in Nat
        /\ Cardinality(Activations(s, child)) \in Nat
    BY <1>1, UsersAreFinite
  <2>3. Cardinality(Holders(t, s, child)) # 0
    BY <1>12, <2>2, FS_EmptySet
  <2>4. CountOf(t, child) > 0
    BY <2>1, <2>2, <2>3
  <2> QED BY <2>4 DEF CountOf, InUse
<1> QED BY <1>4, <1>6, <1>9, <1>11, <1>12, <1>13

\* The activation takes the place of the file that waited.
LEMMA PushedIsCounted ==
    ASSUME NEW t \in Table, NEW s \in Stacks(t), s # <<>>, NEW hd, NEW left,
           Counted(t, s, hd, left), LastUsers(t, s),
           NEW e, NEW x, NEW child \in InUse(t), Closes(t, s, e, x, child),
           NEW u \in Seq(Activity), Pushed(u, s, x, child)
    PROVE  Counted(t, u, hd, left)
<1>1. /\ e \in InUse(t) /\ x \in DOMAIN t[e].links /\ e # child
      /\ \A q \in DOMAIN s : s[q].file = e => q = Len(s)
      /\ e \in Holders(t, s, child)
  BY NextIsInUse
<1>2. /\ Len(s) \in Nat \ {0} /\ DOMAIN s = 1 .. Len(s) /\ DOMAIN u = 1 .. Len(s) + 1
      /\ \A p \in DOMAIN s : u[p].file = s[p].file
      /\ \A p \in DOMAIN s : p # Len(s) => u[p].next = s[p].next
      /\ u[Len(s)].next = x + 1
      /\ u[Len(s) + 1].file = child /\ u[Len(s) + 1].next = 1
  BY DEF Pushed
<1>3. s \in Seq(Activity) /\ s[Len(s)].file = e /\ s[Len(s)].next = x /\ t[e].links[x] = child
  BY StackIs DEF Closes
<1>4. \A p \in DOMAIN u : p \in DOMAIN s \/ p = Len(s) + 1
  BY <1>2
<1>5. DOMAIN s \subseteq DOMAIN u /\ Len(s) \in DOMAIN s /\ Len(s) + 1 \in DOMAIN u
      /\ Len(s) + 1 \notin DOMAIN s
  BY <1>2
<1>6. ASSUME NEW j \in InUse(t), NEW c, j # e PROVE j \in Holders(t, u, c) <=> j \in Holders(t, s, c)
  <2> SUFFICES ASSUME NEW k \in DOMAIN t[j].links
               PROVE  (\A p \in DOMAIN u : u[p].file = j => u[p].next <= k)
                         <=> (\A p \in DOMAIN s : s[p].file = j => s[p].next <= k)
    BY DEF Holders
  <2>1. 1 <= k
    BY EntryIs
  <2>2. \A p \in DOMAIN s : s[p].file = j => u[p].file = j /\ u[p].next = s[p].next
    BY <1>2, <1>3, <1>6
  <2>3. \A p \in DOMAIN s : u[p].file = j => s[p].file = j
    BY <1>2
  <2> QED BY <1>2, <1>4, <1>5, <2>1, <2>2, <2>3
<1>7. ASSUME NEW c PROVE e \in Holders(t, u, c) <=> (e \in Holders(t, s, c) /\ c # child)
  <2>1. \A k \in DOMAIN t[e].links :
           (\A p \in DOMAIN s : s[p].file = e => s[p].next <= k) <=> x <= k
    BY <1>1, <1>3, <1>5
  <2>2. \A k \in DOMAIN t[e].links :
           (\A p \in DOMAIN u : u[p].file = e => u[p].next <= k) <=> x + 1 <= k
    <3>1. \A p \in DOMAIN u : u[p].file = e <=> p = Len(s)
      BY <1>1, <1>2, <1>3, <1>4, <1>5
    <3> QED BY <1>2, <1>5, <3>1
  <2>3. \A k \in DOMAIN t[e].links : k \in Nat /\ x \in Nat
    BY <1>1, EntryIs, SMTT(60)
  <2>4. \A k \in DOMAIN t[e].links : t[e].links[k] = child <=> k = x
    <3>1. IsInjective(t[e].links)
      BY <1>1, EntryIs DEF Table
    <3> QED BY <1>1, <1>3, <3>1 DEF IsInjective
  <2>5. e \in Holders(t, s, c) <=> \E k \in DOMAIN t[e].links : t[e].links[k] = c /\ x <= k
    BY <1>1, <2>1 DEF Holders
  <2>6. e \in Holders(t, u, c) <=> \E k \in DOMAIN t[e].links : t[e].links[k] = c /\ x + 1 <= k
    BY <1>1, <2>2 DEF Holders
  <2> QED BY <1>1, <1>3, <2>3, <2>4, <2>5, <2>6
<1>8. \A c : Holders(t, u, c) \subseteq InUse(t) /\ Holders(t, s, c) \subseteq InUse(t)
  BY DEF Holders
<1> SUFFICES ASSUME NEW c \in Nat \ {0}
             PROVE  CountOf(t, c) = Cardinality(Databases(hd, c)) + Cardinality(Holders(t, u, c))
                                    + Cardinality({c} \cap left) + Cardinality(Activations(u, c))
  BY DEF Counted
<1>9. CountOf(t, c) = Cardinality(Databases(hd, c)) + Cardinality(Holders(t, s, c))
                      + Cardinality({c} \cap left) + Cardinality(Activations(s, c))
  BY DEF Counted
<1>10. /\ IsFiniteSet(Holders(t, s, c)) /\ Cardinality(Holders(t, s, c)) \in Nat
       /\ Cardinality(Databases(hd, c)) \in Nat /\ Cardinality({c} \cap left) \in Nat
       /\ IsFiniteSet(Activations(s, c)) /\ Cardinality(Activations(s, c)) \in Nat
  BY <1>3, UsersAreFinite
<1>11. CASE c = child
  <2>1. \A j : j \in Holders(t, u, c) <=> (j \in Holders(t, s, c) /\ j # e)
    BY <1>6, <1>7, <1>8, <1>11
  <2>2. Holders(t, u, c) = Holders(t, s, c) \ {e} /\ e \in Holders(t, s, c)
    BY <1>1, <1>11, <2>1
  <2>3. Cardinality(Holders(t, u, c)) = Cardinality(Holders(t, s, c)) - 1
    BY <1>10, <2>2, OneLess
  <2>4. Activations(u, c) = Activations(s, c) \cup {Len(s) + 1}
    BY <1>2, <1>4, <1>5, <1>11 DEF Activations
  <2>5. Len(s) + 1 \notin Activations(s, c)
    BY <1>5 DEF Activations
  <2>6. Cardinality(Activations(u, c)) = Cardinality(Activations(s, c)) + 1
    BY <1>10, <2>4, <2>5, OneMore
  <2> QED BY <1>9, <1>10, <2>3, <2>6
<1>12. CASE c # child
  <2>1. \A j : j \in Holders(t, u, c) <=> j \in Holders(t, s, c)
    BY <1>6, <1>7, <1>8, <1>12
  <2>2. Holders(t, u, c) = Holders(t, s, c)
    BY <2>1
  <2>3. Activations(u, c) = Activations(s, c)
    BY <1>2, <1>4, <1>5, <1>12 DEF Activations
  <2> QED BY <1>9, <2>2, <2>3
<1> QED BY <1>11, <1>12

LEMMA CloseLinkKeepsInv ==
    ASSUME Inv, CloseLink
    PROVE  Inv'
<1>1. PICK e : e = Top.file
  OBVIOUS
<1>2. PICK x : x = Top.next
  OBVIOUS
<1>3. PICK child : child = ADF_file[e].links[x]
  OBVIOUS
<1>4. PICK a : a = Advance(closing)
  OBVIOUS
<1>5. /\ closing # <<>> /\ UNCHANGED <<ADF_file, handle, last_link, stranded>>
      /\ \/ /\ child \notin InUse(ADF_file) /\ closing' = a /\ UNCHANGED <<torn, overflow>>
         \/ /\ child \in InUse(ADF_file) /\ overflow' = TRUE /\ UNCHANGED <<closing, torn>>
         \/ /\ child \in InUse(ADF_file) /\ closing' = Append(a, Activation(child))
            /\ torn' = (torn \/ Shared(child)) /\ UNCHANGED overflow
  BY <1>1, <1>2, <1>3, <1>4 DEF CloseLink, Advance, TopLinks
<1>6. /\ ADF_file \in Table /\ closing \in Stacks(ADF_file) /\ handle \in [Handle -> Nat]
      /\ torn \in BOOLEAN /\ overflow \in BOOLEAN /\ RememberedLinkHolds
      /\ ~ torn => Counted(ADF_file, closing, handle, stranded) /\ LastUsers(ADF_file, closing)
  BY DEF Inv
<1>7. RememberedLinkHolds'
  BY <1>5, <1>6 DEF RememberedLinkHolds
<1>8. closing \in Seq(Activity) /\ Len(closing) \in DOMAIN closing /\ At1(ADF_file, closing, Len(closing))
  <2>1. /\ closing \in Seq(Activity) /\ Len(closing) \in Nat /\ DOMAIN closing = 1 .. Len(closing)
        /\ \A p \in DOMAIN closing : At1(ADF_file, closing, p)
    BY <1>6, StackIs
  <2>2. Len(closing) \in DOMAIN closing
    BY <1>5, <2>1, EmptySeq
  <2> QED BY <2>1, <2>2
<1>9. closing[Len(closing)].file = e /\ closing[Len(closing)].next = x
  BY <1>1, <1>2 DEF Top, Last
<1>10. e \in InUse(ADF_file) /\ x \in Nat \ {0}
  BY <1>8, <1>9 DEF At1
<1>11. Closes(ADF_file, closing, e, x, child)
  <2>1. ~ (x > Len(ADF_file[e].links))
    BY <1>1, <1>2 DEF CloseLink, AllClosed, TopLinks
  <2>2. Len(ADF_file[e].links) \in Nat
    BY <1>6, <1>10, EntryIs
  <2>3. x <= Len(ADF_file[e].links)
    BY <1>10, <2>1, <2>2
  <2> QED BY <1>3, <1>9, <2>3 DEF Closes
<1>12. CASE child \notin InUse(ADF_file)
  <2>1. closing' = a /\ UNCHANGED <<torn, overflow>>
    BY <1>5, <1>12
  <2>2. torn
    BY <1>5, <1>6, <1>11, <1>12, NextIsInUse
  <2>3. a \in Stacks(ADF_file)
    BY <1>4, <1>5, <1>6, <1>11, <1>12, PassedIsStack DEF Closes
  <2> QED BY <1>5, <1>6, <1>7, <2>1, <2>2, <2>3 DEF Inv
<1>13. CASE child \in InUse(ADF_file) /\ overflow' = TRUE /\ UNCHANGED <<closing, torn>>
  BY <1>5, <1>6, <1>7, <1>13 DEF Inv
<1>14. CASE /\ child \in InUse(ADF_file) /\ closing' = Append(a, Activation(child))
            /\ torn' = (torn \/ Shared(child)) /\ UNCHANGED overflow
  <2>1. PICK u : u = closing'
    OBVIOUS
  <2>2. u \in Stacks(ADF_file) /\ u \in Seq(Activity) /\ Pushed(u, closing, x, child)
    BY <1>4, <1>5, <1>6, <1>11, <1>14, <2>1, PushedIsStack
  <2>3. ASSUME ~ torn' PROVE Counted(ADF_file, u, handle, stranded) /\ LastUsers(ADF_file, u)
    <3>1. ~ torn /\ ~ Shared(child)
      BY <1>14, <2>3
    <3>2. Counted(ADF_file, u, handle, stranded)
      BY <1>5, <1>6, <1>11, <1>14, <2>2, <3>1, PushedIsCounted
    <3>3. ADF_file[child].links = <<>> \/ ADF_file[child].in_use = 1
      BY <1>6, <1>14, <3>1, NotTornIsLast DEF Shared
    <3>4. \A p \in DOMAIN u : p \in DOMAIN closing \/ p = Len(closing) + 1
      BY <2>2 DEF Pushed
    <3>5. LastUsers(ADF_file, u)
      <4>1. ASSUME NEW p \in DOMAIN u
            PROVE  ADF_file[u[p].file].links = <<>> \/ ADF_file[u[p].file].in_use = 1
        <5>1. CASE p \in DOMAIN closing
          <6>1. u[p].file = closing[p].file
            BY <2>2, <5>1 DEF Pushed
          <6> QED BY <1>6, <3>1, <5>1, <6>1 DEF LastUsers
        <5>2. CASE p = Len(closing) + 1
          <6>1. u[p].file = child
            BY <2>2, <5>2 DEF Pushed
          <6> QED BY <3>3, <6>1
        <5> QED BY <3>4, <5>1, <5>2
      <4> QED BY <4>1 DEF LastUsers
    <3> QED BY <3>2, <3>5
  <2>4. torn' \in BOOLEAN
    BY <1>6, <1>14 DEF Shared
  <2> QED BY <1>5, <1>6, <1>7, <1>14, <2>1, <2>2, <2>3, <2>4 DEF Inv
<1> QED BY <1>5, <1>12, <1>13, <1>14

\* A table without a file in use is freed, which changes no file in use.
LEMMA FreedIs ==
    ASSUME NEW u \in Table, NEW w, w = FreedIfIdle(u)
    PROVE  /\ w \in Table /\ InUse(w) = InUse(u)
           /\ \A i \in InUse(u) : w[i] = u[i]
<1>1. CASE InUse(u) # {}
  BY <1>1 DEF FreedIfIdle
<1>2. CASE InUse(u) = {}
  <2>1. w = <<>>
    BY <1>2 DEF FreedIfIdle
  <2>2. DOMAIN <<>> = {} /\ <<>> \in Seq(Entry)
    OBVIOUS
  <2> QED BY <1>2, <2>1, <2>2 DEF Table, InUse
<1> QED BY <1>1, <1>2

\* The last activation of s, on file e, has come past all its links.
Finished(t, s, e) ==
    s # <<>> /\ s[Len(s)].file = e /\ s[Len(s)].next = Len(t[e].links) + 1

\* The table w is t as far as files other than e are concerned.
Others(w, t, e) ==
    /\ InUse(w) \subseteq InUse(t)
    /\ \A i \in InUse(t) : i # e => i \in InUse(w) /\ w[i] = t[i]

\* Its file is closed in no other activation: that one would have to be past the link
\* that leads here.
LEMMA FinishedOnce ==
    ASSUME NEW t \in Table, NEW s \in Stacks(t), NEW e, Finished(t, s, e)
    PROVE  /\ e \in InUse(t) /\ e \in Nat \ {0} /\ Len(s) \in DOMAIN s
           /\ \A p \in DOMAIN s : s[p].file = e => p = Len(s)
<1>1. /\ s \in Seq(Activity) /\ Len(s) \in Nat /\ DOMAIN s = 1 .. Len(s)
      /\ \A p \in DOMAIN s : At1(t, s, p)
      /\ \A p, q \in DOMAIN s : At2(s, p, q)
  BY StackIs
<1>2. Len(s) \in DOMAIN s
  BY <1>1, EmptySeq DEF Finished
<1>3. s[Len(s)].file = e /\ s[Len(s)].next = Len(t[e].links) + 1
  BY DEF Finished
<1>4. e \in InUse(t) /\ e \in Nat \ {0}
  BY <1>1, <1>2, <1>3 DEF At1
<1>5. Len(t[e].links) \in Nat
  BY <1>4, EntryIs
<1>6. ASSUME NEW p \in DOMAIN s, s[p].file = e, p # Len(s) PROVE FALSE
  <2>1. p < Len(s)
    BY <1>1, <1>6
  <2>2. At2(s, p, Len(s)) /\ At1(t, s, p)
    BY <1>1, <1>2
  <2>3. s[Len(s)].next < s[p].next
    BY <1>1, <1>3, <1>6, <2>1, <2>2 DEF At2
  <2>4. s[p].next \in Nat /\ s[p].next <= Len(t[e].links) + 1
    BY <1>6, <2>2 DEF At1
  <2> QED BY <1>3, <1>5, <2>3, <2>4
<1> QED BY <1>2, <1>4, <1>6

LEMMA FrontIs ==
    ASSUME NEW s \in Seq(Activity), s # <<>>
    PROVE  /\ Front(s) \in Seq(Activity) /\ Len(s) \in Nat \ {0} /\ DOMAIN s = 1 .. Len(s)
           /\ Len(Front(s)) = Len(s) - 1 /\ DOMAIN Front(s) = 1 .. Len(s) - 1
           /\ \A p \in DOMAIN Front(s) : Front(s)[p] = s[p]
<1>1. Len(s) \in Nat \ {0} /\ DOMAIN s = 1 .. Len(s)
  BY LenProperties, EmptySeq
<1>2. Front(s) = SubSeq(s, 1, Len(s) - 1)
  BY DEF Front
<1>3. \A i \in 1 .. Len(s) - 1 : s[i] \in Activity
  BY <1>1, ElementOfSeq
<1>4. PICK f : f = SubSeq(s, 1, Len(s) - 1)
  OBVIOUS
<1>5. PICK n : n = Len(s) - 1
  OBVIOUS
<1>6. n \in Nat /\ n + 1 = Len(s)
  BY <1>1, <1>5
<1>7. /\ f \in Seq(Activity)
      /\ Len(f) = IF 1 <= n THEN n - 1 + 1 ELSE 0
      /\ \A i \in 1 .. n - 1 + 1 : f[i] = s[1 + i - 1]
  BY <1>3, <1>4, <1>5, <1>6, SubSeqProperties
<1>8. Len(f) = Len(s) - 1
  <2>1. Len(f) = n
    BY <1>7, <1>6
  <2> QED BY <1>5, <2>1
<1>9. DOMAIN f = 1 .. Len(s) - 1
  BY <1>7, <1>8, LenProperties
<1>10. \A p \in 1 .. Len(s) - 1 : f[p] = s[p]
  <2>1. \A p \in 1 .. Len(s) - 1 : p \in 1 .. n - 1 + 1 /\ 1 + p - 1 = p
    BY <1>5, <1>6
  <2> QED BY <1>7, <2>1
<1> QED BY <1>1, <1>2, <1>4, <1>7, <1>8, <1>9, <1>10

\* The stack without it.
LEMMA PoppedIsStack ==
    ASSUME NEW t \in Table, NEW s \in Stacks(t), NEW e, Finished(t, s, e),
           NEW w \in Table, Others(w, t, e)
    PROVE  Front(s) \in Stacks(w)
<1>1. PICK f : f = Front(s)
  OBVIOUS
<1>2. /\ s \in Seq(Activity) /\ \A p \in DOMAIN s : At1(t, s, p)
      /\ \A p, q \in DOMAIN s : At2(s, p, q)
  BY StackIs
<1>3. s # <<>> /\ s[Len(s)].file = e
  BY DEF Finished
<1>4. /\ f \in Seq(Activity) /\ Len(s) \in Nat \ {0} /\ DOMAIN s = 1 .. Len(s)
      /\ Len(f) = Len(s) - 1 /\ DOMAIN f = 1 .. Len(s) - 1
      /\ \A p \in DOMAIN f : f[p] = s[p]
  BY <1>1, <1>2, <1>3, FrontIs
<1>5. \A p \in DOMAIN s : s[p].file = e => p = Len(s)
  BY FinishedOnce
<1>6. \A p \in DOMAIN f : p \in DOMAIN s /\ p # Len(s) /\ p + 1 \in DOMAIN s /\ p < Len(s)
  BY <1>4
<1>7. ASSUME NEW p \in DOMAIN f PROVE At1(w, f, p)
  <2>1. At1(t, s, p) /\ f[p] = s[p]
    BY <1>2, <1>4, <1>6
  <2>2. s[p].file # e
    BY <1>5, <1>6
  <2>3. s[p].file \in InUse(w) /\ w[s[p].file] = t[s[p].file]
    BY <2>1, <2>2 DEF At1, Others
  <2>4. p < Len(f) => f[p + 1] = s[p + 1] /\ p < Len(s)
    BY <1>4
  <2> QED BY <2>1, <2>3, <2>4 DEF At1
<1>8. ASSUME NEW p \in DOMAIN f, NEW q \in DOMAIN f PROVE At2(f, p, q)
  <2> SUFFICES ASSUME p < q, f[p].file = f[q].file
               PROVE  f[q].next < f[p].next \/ (f[q].next = f[p].next /\ q < Len(f))
    BY DEF At2
  <2>1. f[p] = s[p] /\ f[q] = s[q] /\ At1(t, s, p) /\ At1(t, s, q) /\ At2(s, p, q)
    BY <1>2, <1>4, <1>6
  <2>2. s[q].next < s[p].next \/ s[q].next = s[p].next
    BY <2>1 DEF At2
  <2>3. ASSUME s[q].next = s[p].next, ~ (q < Len(f)) PROVE FALSE
    <3>1. q + 1 = Len(s) /\ p + 1 # Len(s) /\ p + 1 \in DOMAIN s /\ p < Len(s) /\ q < Len(s)
      BY <1>4, <2>3
    <3>2. s[q + 1].file = s[p + 1].file
      BY <2>1, <2>3, <3>1 DEF At1
    <3> QED BY <1>3, <1>5, <3>1, <3>2
  <2> QED BY <2>1, <2>2, <2>3
<1> QED BY <1>1, <1>4, <1>7, <1>8, IsStack

\* Without links left nobody else's count depends on it.
LEMMA PoppedHolders ==
    ASSUME NEW t \in Table, NEW s \in Stacks(t), NEW e, Finished(t, s, e),
           NEW w \in Table, Others(w, t, e), e \in InUse(w) => w[e].links = <<>>, NEW c
    PROVE  Holders(w, Front(s), c) = Holders(t, s, c)
<1>1. PICK f : f = Front(s)
  OBVIOUS
<1>2. s # <<>> /\ s[Len(s)].file = e /\ s[Len(s)].next = Len(t[e].links) + 1
  BY DEF Finished
<1>3. /\ Len(s) \in Nat \ {0} /\ DOMAIN s = 1 .. Len(s) /\ DOMAIN f = 1 .. Len(s) - 1
      /\ \A p \in DOMAIN f : f[p] = s[p]
  BY <1>1, <1>2, StackIs, FrontIs
<1>4. \A p \in DOMAIN s : p \in DOMAIN f \/ p = Len(s)
  BY <1>3
<1>5. DOMAIN f \subseteq DOMAIN s /\ Len(s) \in DOMAIN s
  BY <1>3
<1>6. e \notin Holders(t, s, c)
  <2>1. e \in InUse(t)
    BY FinishedOnce
  <2>2. \A k \in DOMAIN t[e].links : ~ (Len(t[e].links) + 1 <= k)
    BY <2>1, EntryIs
  <2> QED BY <1>2, <1>5, <2>2 DEF Holders
<1>7. e \notin Holders(w, f, c)
  <2>1. DOMAIN <<>> = {}
    OBVIOUS
  <2> QED BY <2>1 DEF Holders
<1>8. ASSUME NEW j, j # e PROVE j \in Holders(w, f, c) <=> j \in Holders(t, s, c)
  <2>1. j \in InUse(w) <=> j \in InUse(t)
    BY <1>8 DEF Others
  <2>2. j \in InUse(t) => w[j] = t[j]
    BY <1>8 DEF Others
  <2>3. \A k : (\A p \in DOMAIN f : f[p].file = j => f[p].next <= k)
                   <=> (\A p \in DOMAIN s : s[p].file = j => s[p].next <= k)
    BY <1>2, <1>3, <1>4, <1>5, <1>8
  <2> QED BY <2>1, <2>2, <2>3 DEF Holders
<1>9. \A j : j \in Holders(w, f, c) <=> j \in Holders(t, s, c)
  BY <1>6, <1>7, <1>8
<1>10. Holders(w, f, c) = Holders(t, s, c)
  BY <1>9
<1> QED BY <1>1, <1>10

\* One user less of file e, of which `left` are left.
LessUsed(t, e, left) ==
    FreedIfIdle([t EXCEPT ![e] = IF left = 0 THEN Unused ELSE [@ EXCEPT !.in_use = left]])

\* The last user gives the entry up.
LeftWith(w, t, e, left) ==
    /\ left = 0 => e \notin InUse(w)
    /\ left # 0 => /\ e \in InUse(w) /\ w[e].in_use = left
                   /\ w[e].name = t[e].name /\ w[e].links = t[e].links

LEMMA LessUsedIs ==
    ASSUME NEW t \in Table, NEW e \in InUse(t), NEW left, left = t[e].in_use - 1,
           NEW w, w = LessUsed(t, e, left)
    PROVE  w \in Table /\ Others(w, t, e) /\ left \in Nat /\ LeftWith(w, t, e, left)
<1>1. /\ e \in DOMAIN t /\ t[e] \in Entry /\ t[e].in_use \in Nat /\ t[e].in_use > 0
      /\ t[e].name \in Files \cup {NoFile} /\ t[e].links \in Seq(Nat \ {0})
      /\ InUse(t) \subseteq DOMAIN t
  BY EntryIs DEF InUse
<1>2. left \in Nat
  BY <1>1
<1>3. PICK x : x = IF left = 0 THEN Unused ELSE [t[e] EXCEPT !.in_use = left]
  OBVIOUS
<1>4. /\ x \in Entry /\ x.in_use = left
      /\ x.links = IF left = 0 THEN <<>> ELSE t[e].links
      /\ left # 0 => x.name = t[e].name
  <2>1. CASE left = 0
    BY <1>3, <2>1, UnusedIs
  <2>2. CASE left # 0
    <3>1. x = [t[e] EXCEPT !.in_use = left]
      BY <1>3, <2>2
    <3> QED BY <1>1, <1>2, <2>2, <3>1 DEF Entry
  <2> QED BY <2>1, <2>2
<1>5. PICK v : v = Put(t, e, x)
  OBVIOUS
<1>6. w = FreedIfIdle(v)
  BY <1>3, <1>5 DEF LessUsed, Put
<1>7. /\ IsInjective(x.links) /\ e \notin Range(x.links) /\ Range(x.links) \subseteq DOMAIN t
      /\ x.in_use = 0 => x.links = <<>>
  <2>1. CASE left = 0
    BY <1>4, <2>1, UnusedIs
  <2>2. CASE left # 0
    BY <1>1, <1>4, <2>2 DEF Table
  <2> QED BY <2>1, <2>2
<1>8. /\ v \in Table /\ DOMAIN v = DOMAIN t /\ v[e] = x
      /\ \A j \in DOMAIN t : j # e => v[j] = t[j]
  BY <1>1, <1>4, <1>5, <1>7, ReplacedIs
<1>9. /\ \A j : j # e => (j \in InUse(v) <=> j \in InUse(t))
      /\ e \in InUse(v) <=> left # 0
  BY <1>1, <1>2, <1>4, <1>8 DEF InUse
<1>10. /\ w \in Table /\ InUse(w) = InUse(v)
       /\ \A i \in InUse(v) : w[i] = v[i]
  BY <1>6, <1>8, FreedIs
<1>11. Others(w, t, e)
  BY <1>1, <1>8, <1>9, <1>10 DEF Others
<1>12. ASSUME left # 0
       PROVE  /\ e \in InUse(w) /\ w[e].in_use = left
              /\ w[e].name = t[e].name /\ w[e].links = t[e].links
  BY <1>4, <1>8, <1>9, <1>10, <1>12
<1> QED BY <1>2, <1>9, <1>10, <1>11, <1>12 DEF LeftWith

\* What is not in use has no count.
LEMMA NotInUse ==
    ASSUME NEW t \in Table, NEW c, c \notin InUse(t)
    PROVE  CountOf(t, c) = 0
BY EntryIs DEF CountOf, InUse

\* The counts after an activation has counted its file down.
LEMMA PoppedIsCounted ==
    ASSUME NEW t \in Table, NEW s \in Stacks(t), NEW hd, NEW stranding,
           Counted(t, s, hd, stranding), LastUsers(t, s),
           NEW e, Finished(t, s, e), NEW w, w = LessUsed(t, e, t[e].in_use - 1)
    PROVE  Counted(w, Front(s), hd, stranding) /\ LastUsers(w, Front(s))
<1>1. PICK f : f = Front(s)
  OBVIOUS
<1>2. PICK left : left = t[e].in_use - 1
  OBVIOUS
<1>3. /\ e \in InUse(t) /\ e \in Nat \ {0} /\ Len(s) \in DOMAIN s
      /\ \A p \in DOMAIN s : s[p].file = e => p = Len(s)
  BY FinishedOnce
<1>4. /\ w \in Table /\ Others(w, t, e) /\ left \in Nat
      /\ left = 0 => e \notin InUse(w)
      /\ left # 0 => /\ e \in InUse(w) /\ w[e].in_use = left
                     /\ w[e].name = t[e].name /\ w[e].links = t[e].links
  <2>1. w \in Table /\ Others(w, t, e) /\ left \in Nat /\ LeftWith(w, t, e, left)
    BY <1>2, <1>3, LessUsedIs
  <2> QED BY <2>1 DEF LeftWith
<1>5. s \in Seq(Activity) /\ s # <<>> /\ s[Len(s)].file = e
  BY StackIs DEF Finished
<1>6. /\ f \in Seq(Activity) /\ DOMAIN s = 1 .. Len(s) /\ Len(s) \in Nat
      /\ DOMAIN f = 1 .. Len(s) - 1
      /\ \A p \in DOMAIN f : f[p] = s[p]
  BY <1>1, <1>5, FrontIs
<1>7. \A p : p \in DOMAIN f <=> (p \in DOMAIN s /\ p # Len(s))
  BY <1>6
<1>8. e \in InUse(w) => w[e].links = <<>>
  <2>1. t[e].links = <<>> \/ t[e].in_use = 1
    BY <1>3, <1>5 DEF LastUsers
  <2>2. t[e].in_use = 1 => left = 0
    BY <1>2
  <2> QED BY <1>4, <2>1, <2>2
<1>9. LastUsers(w, f)
  <2>1. ASSUME NEW p \in DOMAIN f PROVE w[f[p].file].links = <<>> \/ w[f[p].file].in_use = 1
    <3>1. p \in DOMAIN s /\ f[p] = s[p] /\ s[p].file # e
      BY <1>3, <1>6, <1>7, <2>1
    <3>2. At1(t, s, p)
      BY <3>1, StackIs
    <3>3. w[s[p].file] = t[s[p].file]
      BY <1>4, <3>1, <3>2 DEF At1, Others
    <3>4. t[s[p].file].links = <<>> \/ t[s[p].file].in_use = 1
      BY <3>1 DEF LastUsers
    <3> QED BY <3>1, <3>3, <3>4
  <2> QED BY <2>1 DEF LastUsers
<1>10. ASSUME NEW c \in Nat \ {0}
       PROVE  CountOf(w, c) = Cardinality(Databases(hd, c)) + Cardinality(Holders(w, f, c))
                              + Cardinality({c} \cap stranding) + Cardinality(Activations(f, c))
  <2>1. CountOf(t, c) = Cardinality(Databases(hd, c)) + Cardinality(Holders(t, s, c))
                        + Cardinality({c} \cap stranding) + Cardinality(Activations(s, c))
    BY DEF Counted
  <2>2. Holders(w, f, c) = Holders(t, s, c)
    BY <1>1, <1>4, <1>8, PoppedHolders
  <2>3. /\ Cardinality(Databases(hd, c)) \in Nat /\ Cardinality(Holders(t, s, c)) \in Nat
        /\ Cardinality({c} \cap stranding) \in Nat
        /\ IsFiniteSet(Activations(s, c)) /\ Cardinality(Activations(s, c)) \in Nat
    BY <1>5, UsersAreFinite
  <2>4. CASE c = e
    <3>1. Activations(f, c) = Activations(s, c) \ {Len(s)} /\ Len(s) \in Activations(s, c)
      BY <1>3, <1>5, <1>6, <1>7, <2>4 DEF Activations
    <3>2. Cardinality(Activations(f, c)) = Cardinality(Activations(s, c)) - 1
      BY <2>3, <3>1, OneLess
    <3>3. CountOf(t, c) = t[e].in_use /\ t[e].in_use \in Nat
      BY <1>3, <2>4, EntryIs DEF CountOf
    <3>4. CountOf(w, c) = left
      <4>1. CASE left = 0
        BY <1>4, <2>4, <4>1, NotInUse
      <4>2. CASE left # 0
        BY <1>4, <2>4, <4>2, EntryIs DEF CountOf
      <4> QED BY <4>1, <4>2
    <3>5. Cardinality(Holders(w, f, c)) = Cardinality(Holders(t, s, c))
      BY <2>2
    <3> QED BY <1>2, <2>1, <2>3, <3>2, <3>3, <3>4, <3>5
  <2>5. CASE c # e
    <3>1. Activations(f, c) = Activations(s, c)
      BY <1>3, <1>5, <1>6, <1>7, <2>5 DEF Activations
    <3>2. CountOf(w, c) = CountOf(t, c)
      <4>1. CASE c \in InUse(t)
        BY <1>4, <2>5, <4>1, EntryIs DEF CountOf, Others
      <4>2. CASE c \notin InUse(t)
        BY <1>4, <4>2, NotInUse DEF Others
      <4> QED BY <4>1, <4>2
    <3> QED BY <2>1, <2>2, <3>1, <3>2
  <2> QED BY <2>4, <2>5
<1>11. Counted(w, f, hd, stranding)
  BY <1>10 DEF Counted
<1> QED BY <1>1, <1>9, <1>11

LEMMA CloseSelfKeepsInv ==
    ASSUME Inv, CloseSelf
    PROVE  Inv'
<1>1. PICK e : e = Top.file
  OBVIOUS
<1>2. PICK left : left = ADF_file[e].in_use - 1
  OBVIOUS
<1>3. /\ closing # <<>> /\ AllClosed
      /\ ADF_file' = LessUsed(ADF_file, e, left) /\ last_link' = Remembered(left)
      /\ closing' = Front(closing) /\ UNCHANGED <<handle, stranded, torn, overflow>>
  BY <1>1, <1>2 DEF CloseSelf, LessUsed, UsersLeft
<1>4. /\ ADF_file \in Table /\ closing \in Stacks(ADF_file) /\ handle \in [Handle -> Nat]
      /\ torn \in BOOLEAN /\ overflow \in BOOLEAN /\ RememberedLinkHolds
      /\ ~ torn => Counted(ADF_file, closing, handle, stranded) /\ LastUsers(ADF_file, closing)
  BY DEF Inv
<1>5. Finished(ADF_file, closing, e)
  <2>1. closing[Len(closing)].file = e /\ closing[Len(closing)].next = Top.next
    BY <1>1 DEF Top, Last
  <2>2. Top.next > Len(ADF_file[e].links)
    BY <1>1, <1>3 DEF AllClosed, TopLinks
  <2>3. Len(closing) \in DOMAIN closing
    BY <1>3, <1>4, StackIs, EmptySeq
  <2>4. At1(ADF_file, closing, Len(closing))
    BY <1>4, <2>3, StackIs
  <2>5. /\ e \in InUse(ADF_file) /\ Top.next \in Nat
        /\ Top.next <= Len(ADF_file[e].links) + 1
    BY <2>1, <2>4 DEF At1
  <2>6. Len(ADF_file[e].links) \in Nat
    BY <1>4, <2>5, EntryIs
  <2>7. Top.next = Len(ADF_file[e].links) + 1
    BY <2>2, <2>5, <2>6
  <2> QED BY <1>3, <2>1, <2>7 DEF Finished
<1>6. e \in InUse(ADF_file)
  BY <1>4, <1>5, FinishedOnce
<1>7. PICK w : w = ADF_file'
  OBVIOUS
<1>8. /\ w \in Table /\ Others(w, ADF_file, e) /\ left \in Nat
      /\ left = 0 => e \notin InUse(w)
      /\ left # 0 => /\ e \in InUse(w) /\ w[e].in_use = left
                     /\ w[e].name = ADF_file[e].name /\ w[e].links = ADF_file[e].links
  <2>1. /\ w \in Table /\ Others(w, ADF_file, e) /\ left \in Nat
        /\ LeftWith(w, ADF_file, e, left)
    BY <1>2, <1>3, <1>4, <1>6, <1>7, LessUsedIs
  <2> QED BY <2>1 DEF LeftWith
<1>9. closing' \in Stacks(w)
  BY <1>3, <1>4, <1>5, <1>8, PoppedIsStack
<1>10. RememberedLinkHolds'
  <2>1. CASE left = 0
    BY <1>3, <2>1 DEF Remembered, RememberedLinkHolds
  <2>2. CASE left # 0
    <3>1. Keeps(ADF_file', ADF_file)
      BY <1>7, <1>8, <2>2 DEF Keeps, Others
    <3>2. last_link' = last_link
      BY <1>3, <2>2 DEF Remembered
    <3> QED BY <1>4, <3>1, <3>2, RememberedStays
  <2> QED BY <2>1, <2>2
<1>11. ASSUME ~ torn
       PROVE  Counted(w, closing', handle, stranded) /\ LastUsers(w, closing')
  BY <1>2, <1>3, <1>4, <1>5, <1>7, <1>11, PoppedIsCounted
<1> QED BY <1>3, <1>4, <1>7, <1>8, <1>9, <1>10, <1>11 DEF Inv

----------------------------------------------------------------------------
(* The theorems                                                            *)

LEMMA InitHasInv ==
    ASSUME Init
    PROVE  Inv
<1>1. /\ ADF_file = <<>> /\ closing = <<>> /\ stranded = {} /\ handle = [h \in Handle |-> 0]
      /\ last_link = {} /\ torn = FALSE /\ overflow = FALSE
  BY DEF Init
<1>2. DOMAIN <<>> = {} /\ <<>> \in Seq(Entry) /\ InUse(<<>>) = {}
  BY DEF InUse
<1>3. ADF_file \in Table
  BY <1>1, <1>2 DEF Table
<1>4. ASSUME NEW c \in Nat \ {0}
      PROVE  CountOf(<<>>, c) = Cardinality(Databases(handle, c)) + Cardinality(Holders(<<>>, <<>>, c))
                                + Cardinality({c} \cap {}) + Cardinality(Activations(<<>>, c))
  <2>1. Databases(handle, c) = {} /\ Holders(<<>>, <<>>, c) = {} /\ {c} \cap {} = {}
    BY <1>1, <1>2 DEF Databases, Holders
  <2>2. Cardinality(Databases(handle, c)) = 0 /\ Cardinality(Holders(<<>>, <<>>, c)) = 0
        /\ Cardinality({c} \cap {}) = 0 /\ Cardinality(Activations(<<>>, c)) = 0
    BY <2>1, FS_EmptySet, NoActivations
  <2>3. CountOf(<<>>, c) = 0
    BY <1>2 DEF CountOf
  <2> QED BY <2>2, <2>3
<1>5. Counted(ADF_file, closing, handle, stranded)
  BY <1>1, <1>4 DEF Counted
<1>6. closing \in Stacks(ADF_file) /\ LastUsers(ADF_file, closing)
  BY <1>1, NothingCloses
<1> QED BY <1>1, <1>3, <1>5, <1>6 DEF Inv, RememberedLinkHolds

LEMMA NextKeepsInv ==
    ASSUME Inv, [Next]_vars
    PROVE  Inv'
<1>1. CASE \E h \in Handle, f \in Files : Open(h, f)
  BY <1>1, OpenKeepsInv
<1>2. CASE OpenFails
  BY <1>2, OpenFailsKeepsInv
<1>3. CASE CreateFails
  BY <1>3, CreateFailsKeepsInv
<1>4. CASE \E i \in DOMAIN ADF_file, n \in Node, disk \in {"there", "gone", "refused"} :
              Chase(i, n, disk)
  BY <1>4, ChaseKeepsInv
<1>5. CASE \E h \in Handle : Close(h)
  BY <1>5, CloseKeepsInv
<1>6. CASE CloseLink
  BY <1>6, CloseLinkKeepsInv
<1>7. CASE CloseSelf
  BY <1>7, CloseSelfKeepsInv
<1>8. CASE UNCHANGED vars
  BY <1>8 DEF vars, Inv, RememberedLinkHolds
<1> QED BY <1>1, <1>2, <1>3, <1>4, <1>5, <1>6, <1>7, <1>8 DEF Next

\* The table and the stack of a close are well formed, and what they count is what is
\* there, in every state of every program.
THEOREM TableIsSound == Spec => []Inv
<1>1. Init => Inv
  BY InitHasInv
<1>2. Inv /\ [Next]_vars => Inv'
  BY NextKeepsInv
<1> QED BY <1>1, <1>2, PTL DEF Spec

\* The types of the table of open files (ADF_file) and of the recursion of ADFI_close_file:
\* a file lists the files it links to once each and never itself.
THEOREM FilesAreTyped == Spec => []TypeOK
<1>1. Inv => TypeOK
  <2> SUFFICES ASSUME Inv PROVE TypeOK
    OBVIOUS
  <2>1. /\ ADF_file \in Table /\ closing \in Stacks(ADF_file) /\ handle \in [Handle -> Nat]
        /\ torn \in BOOLEAN /\ overflow \in BOOLEAN
    BY DEF Inv
  <2>2. /\ ADF_file \in Seq(Entry)
        /\ \A i \in DOMAIN ADF_file :
              IsInjective(ADF_file[i].links) /\ i \notin Range(ADF_file[i].links)
    BY <2>1 DEF Table
  <2>3. closing \in Seq([file : DOMAIN ADF_file, next : Nat \ {0}])
    <3>1. /\ closing \in Seq(Activity) /\ Len(closing) \in Nat /\ DOMAIN closing = 1 .. Len(closing)
          /\ \A p \in DOMAIN closing : At1(ADF_file, closing, p)
      BY <2>1, StackIs
    <3>2. ASSUME NEW p \in 1 .. Len(closing)
          PROVE  closing[p] \in [file : DOMAIN ADF_file, next : Nat \ {0}]
      <4>1. closing[p] \in Activity /\ closing[p].file \in InUse(ADF_file)
        BY <3>1, ElementOfSeq DEF At1
      <4> QED BY <2>1, <4>1, EntryIs DEF Activity
    <3>3. closing \in [1 .. Len(closing) -> [file : DOMAIN ADF_file, next : Nat \ {0}]]
      <4>1. closing = [p \in 1 .. Len(closing) |-> closing[p]]
        BY <3>1
      <4> QED BY <3>2, <4>1
    <3>4. \A S : closing \in [1 .. Len(closing) -> S] => closing \in Seq(S)
      BY <3>1, SeqDef
    <3> QED BY <3>3, <3>4, Zenon
  <2> QED BY <2>1, <2>2, <2>3 DEF TypeOK
<1> QED BY <1>1, TableIsSound, PTL

\* in_use of an entry is the number of databases and files that need it (ADFI_open_file,
\* ADFI_add_link_file_index and ADFI_close_file), until a file is closed under other users.
THEOREM CountsAreRight == Spec => []CountsAreUsers
<1>1. Inv => CountsAreUsers
  <2> SUFFICES ASSUME Inv, closing = <<>>, ~ torn, NEW i \in DOMAIN ADF_file
               PROVE  ADF_file[i].in_use = Users(i)
    BY DEF CountsAreUsers
  <2>1. ADF_file \in Table /\ Counted(ADF_file, <<>>, handle, stranded)
    BY DEF Inv
  <2>2. i \in Nat \ {0} /\ CountOf(ADF_file, i) = ADF_file[i].in_use
    BY <2>1, EntryIs DEF CountOf
  <2>3. ADF_file[i].in_use =
           Cardinality(Databases(handle, i)) + Cardinality(Holders(ADF_file, <<>>, i))
           + Cardinality({i} \cap stranded) + Cardinality(Activations(<<>>, i))
    BY <2>1, <2>2 DEF Counted
  <2>4. /\ Cardinality(Activations(<<>>, i)) = 0
        /\ Cardinality(Databases(handle, i)) \in Nat /\ Cardinality({i} \cap stranded) \in Nat
        /\ Cardinality(Holders(ADF_file, <<>>, i)) \in Nat
    BY <2>1, NoActivations, UsersAreFinite
  <2>5. Holders(ADF_file, <<>>, i) = {j \in InUse(ADF_file) : i \in Range(ADF_file[j].links)}
    BY HoldersAtRest
  <2>6. Databases(handle, i) = {h \in Handle : handle[h] = i}
    BY DEF Databases
  <2>7. Users(i) = Cardinality(Databases(handle, i)) + Cardinality(Holders(ADF_file, <<>>, i))
                   + Cardinality({i} \cap stranded)
    BY <2>5, <2>6 DEF Users
  <2> QED BY <2>3, <2>4, <2>7
<1> QED BY <1>1, TableIsSound, PTL

\* The link remembered by ADFI_chase_link is one between files that are open, and it leads
\* where the names in the files lead, although entries are given to other files.
THEOREM RememberedLinkIsRight == Spec => []RememberedLinkHolds
<1>1. Inv => RememberedLinkHolds
  BY DEF Inv
<1> QED BY <1>1, TableIsSound, PTL

----------------------------------------------------------------------------
(* What open databases need                                                *)

Held == {handle[h] : h \in Handle} \ {0}
Further(R) == R \cup UNION {Range(ADF_file[i].links) : i \in R \cap DOMAIN ADF_file}
Reached(w, m) == w = [k \in 0 .. m |-> IF k = 0 THEN Held ELSE Further(w[k - 1])]

LEMMA ReachedExists ==
    ASSUME NEW n \in Nat
    PROVE  \E w : Reached(w, n)
<1> DEFINE S == {m \in Nat : \E w : Reached(w, m)}
<1>1. 0 \in S
  <2>1. Reached([k \in 0 .. 0 |-> Held], 0)
    BY DEF Reached
  <2> QED BY <2>1
<1>2. ASSUME NEW m \in S PROVE m + 1 \in S
  <2>1. PICK w : Reached(w, m)
    OBVIOUS
  <2>2. PICK v : v = [k \in 0 .. m + 1 |-> IF k = 0 THEN Held ELSE Further(w[k - 1])]
    OBVIOUS
  <2>3. \A k \in 0 .. m : v[k] = w[k]
    <3>1. \A k \in 0 .. m : w[k] = IF k = 0 THEN Held ELSE Further(w[k - 1])
      BY <2>1 DEF Reached
    <3> QED BY <2>2, <3>1
  <2>4. \A k \in 0 .. m + 1 : k # 0 => v[k - 1] = w[k - 1]
    BY <2>3
  <2>5. Reached(v, m + 1)
    BY <2>2, <2>4 DEF Reached
  <2> QED BY <2>5
<1>3. S = Nat
  <2> HIDE DEF S
  <2>1. S \in SUBSET Nat
    BY DEF S
  <2> QED BY <1>1, <1>2, <2>1, AllNumbers
<1> QED BY <1>3

LEMMA NeededIs ==
    ASSUME Len(ADF_file) \in Nat
    PROVE  \E w : Reached(w, Len(ADF_file)) /\ Needed = w[Len(ADF_file)]
<1>1. \E w : Reached(w, Len(ADF_file))
  BY ReachedExists, Zenon
<1>2. \E w : w = [k \in 0 .. Len(ADF_file) |->
                     IF k = 0 THEN {handle[h] : h \in Handle} \ {0}
                     ELSE w[k - 1] \cup
                          UNION {Range(ADF_file[i].links) : i \in w[k - 1] \cap DOMAIN ADF_file}]
  BY <1>1, Zenon DEF Reached, Held, Further
<1> QED BY <1>2, Zenon DEF Needed, Reached, Held, Further

\* What holds of the entries held, and of what the files it holds of list, holds of all
\* that is needed.
LEMMA AllNeeded ==
    ASSUME NEW P, Len(ADF_file) \in Nat, Held \subseteq P,
           \A i \in P \cap DOMAIN ADF_file : Range(ADF_file[i].links) \subseteq P
    PROVE  Needed \subseteq P
<1>1. PICK w : Reached(w, Len(ADF_file)) /\ Needed = w[Len(ADF_file)]
  BY NeededIs, Zenon
<1>2. \A k \in 0 .. Len(ADF_file) : w[k] = IF k = 0 THEN Held ELSE Further(w[k - 1])
  BY <1>1 DEF Reached
<1> DEFINE S == {k \in Nat : k <= Len(ADF_file) => w[k] \subseteq P}
<1>3. 0 \in S
  BY <1>2
<1>4. ASSUME NEW k \in S PROVE k + 1 \in S
  <2> SUFFICES ASSUME k + 1 <= Len(ADF_file) PROVE w[k + 1] \subseteq P
    OBVIOUS
  <2>1. w[k] \subseteq P
    BY <1>4
  <2>2. k + 1 \in 0 .. Len(ADF_file) /\ k + 1 # 0 /\ (k + 1) - 1 = k
    OBVIOUS
  <2>3. w[k + 1] = Further(w[k])
    BY <1>2, <2>2
  <2> QED BY <2>1, <2>3 DEF Further
<1>5. S = Nat
  <2> HIDE DEF S
  <2>1. S \in SUBSET Nat
    BY DEF S
  <2> QED BY <1>3, <1>4, <2>1, AllNumbers
<1>6. Len(ADF_file) \in S
  BY <1>5
<1> QED BY <1>1, <1>6

\* A file that is being closed for its only user is not among it: whoever would need it
\* through a link is being closed for its only user too.
LEMMA NotNeeded ==
    ASSUME Inv, ~ torn, NEW p \in DOMAIN closing, ADF_file[closing[p].file].in_use = 1
    PROVE  closing[p].file \notin Needed
<1>1. /\ ADF_file \in Table /\ closing \in Stacks(ADF_file) /\ handle \in [Handle -> Nat]
      /\ Counted(ADF_file, closing, handle, stranded) /\ LastUsers(ADF_file, closing)
  BY DEF Inv
<1>2. /\ closing \in Seq(Activity)
      /\ \A q \in DOMAIN closing : closing[q].file \in InUse(ADF_file) /\ closing[q].file \in Nat \ {0}
  BY <1>1, StackIs DEF At1
<1> DEFINE Dying(i) == i \in Nat \ {0} /\ CountOf(ADF_file, i) = 1
                       /\ \E q \in DOMAIN closing : closing[q].file = i
           P == {i \in Nat : ~ Dying(i)}
<1>3. Dying(closing[p].file)
  BY <1>1, <1>2, EntryIs DEF CountOf
<1>4. \A i \in Nat : Dying(i) =>
         Databases(handle, i) = {} /\ Holders(ADF_file, closing, i) = {}
  <2> SUFFICES ASSUME NEW i \in Nat \ {0}, CountOf(ADF_file, i) = 1,
                      NEW q \in DOMAIN closing, closing[q].file = i
               PROVE  Databases(handle, i) = {} /\ Holders(ADF_file, closing, i) = {}
    OBVIOUS
  <2> QED BY <1>1, <1>2, OnlyUser
<1>5. Held \subseteq P
  <2>1. ASSUME NEW h \in Handle, Dying(handle[h]) PROVE FALSE
    BY <1>1, <1>4, <2>1 DEF Databases
  <2> QED BY <1>1, <2>1 DEF Held
<1>6. ASSUME NEW i \in P \cap DOMAIN ADF_file PROVE Range(ADF_file[i].links) \subseteq P
  <2> SUFFICES ASSUME NEW k \in DOMAIN ADF_file[i].links, Dying(ADF_file[i].links[k]) PROVE FALSE
    <3>1. \A k \in DOMAIN ADF_file[i].links : ADF_file[i].links[k] \in Nat
      BY <1>1, EntryIs, ElementOfSeq
    <3> QED BY <3>1 DEF Range
  <2>1. ADF_file[i].links # <<>>
    OBVIOUS
  <2>2. i \in InUse(ADF_file)
    BY <1>1, <2>1, EntryIs DEF Table, InUse
  <2>3. ADF_file[i].links[k] \in Nat
    BY <1>1, EntryIs, ElementOfSeq
  <2>4. i \notin Holders(ADF_file, closing, ADF_file[i].links[k])
    BY <1>4, <2>3
  <2>5. PICK q \in DOMAIN closing : closing[q].file = i
    BY <2>2, <2>4 DEF Holders
  <2>6. ADF_file[i].in_use = 1
    BY <1>1, <2>1, <2>5 DEF LastUsers
  <2>7. Dying(i)
    BY <1>1, <1>2, <2>5, <2>6, EntryIs DEF CountOf
  <2> QED BY <2>7
<1>7. Len(ADF_file) \in Nat
  BY <1>1, EntryIs
<1>8. Needed \subseteq P
  <2> HIDE DEF P
  <2> QED BY <1>5, <1>6, <1>7, AllNeeded
<1> QED BY <1>3, <1>8

\* ADFI_close_file gives up no entry that an open database needs, itself or through links,
\* until a file is closed under other users.
THEOREM NeededFilesStayOpen == Spec => NeededStaysOpen
<1>1. Inv /\ [Next]_vars => [\A i \in Needed : Released(i) => torn]_vars
  <2> SUFFICES ASSUME Inv, Next, NEW i \in Needed, Released(i), ~ torn PROVE FALSE
    OBVIOUS
  <2>1. i \in InUse(ADF_file) /\ i \notin InUse(ADF_file') /\ ADF_file \in Table
    BY DEF Released, InUse, Inv
  <2>2. ~ Keeps(ADF_file', ADF_file)
    BY <2>1 DEF Keeps
  <2>3. CASE \E h \in Handle, f \in Files : Open(h, f)
    <3>1. PICK f \in Files : ADF_file' = WithFile(ADF_file, f)
      BY <2>3 DEF Open
    <3> QED BY <2>1, <3>1, WithFileIs
  <2>4. CASE OpenFails
    <3>1. ADF_file' = WithRoom(ADF_file)
      BY <2>4 DEF OpenFails
    <3> QED BY <2>1, <3>1, WithRoomIs
  <2>5. CASE CreateFails
    <3>1. ADF_file' = WithFile(ADF_file, NoFile)
      BY <2>5 DEF CreateFails
    <3> QED BY <2>1, <3>1, WithFileIs
  <2>6. CASE \E k \in DOMAIN ADF_file, n \in Node, disk \in {"there", "gone", "refused"} :
                Chase(k, n, disk)
    <3>1. PICK k \in DOMAIN ADF_file, n \in Node, disk \in {"there", "gone", "refused"} :
             Chase(k, n, disk)
      BY <2>6
    <3>2. PICK end : end = Walk(k, n, disk)
      OBVIOUS
    <3>3. k \in InUse(ADF_file) /\ ADF_file[k].name # NoFile /\ ADF_file' = end.table
      BY <3>1, <3>2, Zenon DEF Chase
    <3>4. Underway(end, ADF_file)
      BY <2>1, <3>2, <3>3, WalkEnds
    <3> QED BY <2>2, <3>3, <3>4 DEF Underway
  <2>7. CASE (\E h \in Handle : Close(h)) \/ CloseLink
    BY <2>1, <2>7 DEF Close, CloseLink
  <2>8. CASE CloseSelf
    <3>1. PICK e : e = Top.file
      OBVIOUS
    <3>2. PICK left : left = ADF_file[e].in_use - 1
      OBVIOUS
    <3>3. closing # <<>> /\ ADF_file' = LessUsed(ADF_file, e, left)
      BY <2>8, <3>1, <3>2 DEF CloseSelf, LessUsed, UsersLeft
    <3>4. /\ closing \in Seq(Activity) /\ Len(closing) \in Nat /\ DOMAIN closing = 1 .. Len(closing)
          /\ \A p \in DOMAIN closing : At1(ADF_file, closing, p)
      BY StackIs DEF Inv
    <3>5. Len(closing) \in DOMAIN closing /\ closing[Len(closing)].file = e
      BY <3>1, <3>3, <3>4, EmptySeq DEF Top, Last
    <3>6. e \in InUse(ADF_file)
      BY <3>4, <3>5 DEF At1
    <3>7. PICK w : w = ADF_file'
      OBVIOUS
    <3>8. Others(w, ADF_file, e) /\ LeftWith(w, ADF_file, e, left)
      BY <2>1, <3>2, <3>3, <3>6, <3>7, LessUsedIs
    <3>9. i = e /\ left = 0
      BY <2>1, <3>7, <3>8 DEF Others, LeftWith
    <3>10. ADF_file[e].in_use = 1
      BY <2>1, <3>2, <3>6, <3>9, EntryIs
    <3> QED BY <3>5, <3>9, <3>10, NotNeeded
  <2> QED BY <2>3, <2>4, <2>5, <2>6, <2>7, <2>8 DEF Next
<1> QED BY <1>1, TableIsSound, PTL DEF Spec, NeededStaysOpen

----------------------------------------------------------------------------
(* What is left when all is closed                                         *)

\* No entry counts more users than there are.
UsersOf(t, s, hd, left, i) ==
    Cardinality(Databases(hd, i)) + Cardinality(Holders(t, s, i))
    + Cardinality({i} \cap left) + Cardinality(Activations(s, i))
CountedAtMost(t, s, hd, left) ==
    \A i \in InUse(t) : CountOf(t, i) <= UsersOf(t, s, hd, left, i)

\* Used directly: not only by files with links into it.
Used(s, hd, left, i) == Databases(hd, i) # {} \/ i \in left \/ Activations(s, i) # {}

\* A set of entries that holds with every entry the files that hold that one.
Closed(t, s, S) == S # {} /\ S \subseteq InUse(t) /\ \A i \in S : Holders(t, s, i) \subseteq S

\* Every entry in use is used directly or through files that are: followed backwards,
\* its holders lead to one that is.
Rooted(t, s, hd, left) == \A S : Closed(t, s, S) => \E i \in S : Used(s, hd, left, i)

Whole(t, s, hd, left) == CountedAtMost(t, s, hd, left) /\ Rooted(t, s, hd, left)

\* A table of no more entries than there is memory for.
Fits(t) == DOMAIN t \subseteq 1 .. MaxTable

\* The users of an entry, counted.
LEMMA UsersAreNumbers ==
    ASSUME NEW t \in Table, NEW s \in Seq(Activity), NEW hd, NEW left, NEW i
    PROVE  /\ UsersOf(t, s, hd, left, i) \in Nat
           /\ UsersOf(t, s, hd, left, i) = 0 =>
                 Holders(t, s, i) = {} /\ ~ Used(s, hd, left, i)
           /\ Holders(t, s, i) = {} /\ ~ Used(s, hd, left, i) => UsersOf(t, s, hd, left, i) = 0
<1>1. /\ IsFiniteSet(Databases(hd, i)) /\ Cardinality(Databases(hd, i)) \in Nat
      /\ IsFiniteSet(Holders(t, s, i)) /\ Cardinality(Holders(t, s, i)) \in Nat
      /\ IsFiniteSet({i} \cap left) /\ Cardinality({i} \cap left) \in Nat
      /\ IsFiniteSet(Activations(s, i)) /\ Cardinality(Activations(s, i)) \in Nat
  BY UsersAreFinite
<1>2. UsersOf(t, s, hd, left, i) \in Nat
  BY <1>1 DEF UsersOf
<1>3. UsersOf(t, s, hd, left, i) = 0 <=>
         /\ Cardinality(Databases(hd, i)) = 0 /\ Cardinality(Holders(t, s, i)) = 0
         /\ Cardinality({i} \cap left) = 0 /\ Cardinality(Activations(s, i)) = 0
  BY <1>1 DEF UsersOf
<1>4. UsersOf(t, s, hd, left, i) = 0 <=>
         Databases(hd, i) = {} /\ Holders(t, s, i) = {} /\ {i} \cap left = {} /\ Activations(s, i) = {}
  BY <1>1, <1>3, FS_EmptySet
<1>5. {i} \cap left = {} <=> i \notin left
  OBVIOUS
<1> QED BY <1>2, <1>4, <1>5 DEF Used

\* What an entry used in one state and in the next needs.
LEMMA MoreUsers ==
    ASSUME NEW t \in Table, NEW s \in Seq(Activity), NEW hd, NEW left, NEW i,
           NEW u \in Table, NEW r \in Seq(Activity), NEW gd, NEW right,
           Databases(hd, i) \subseteq Databases(gd, i), Holders(t, s, i) \subseteq Holders(u, r, i),
           {i} \cap left \subseteq {i} \cap right, Activations(s, i) \subseteq Activations(r, i)
    PROVE  UsersOf(t, s, hd, left, i) <= UsersOf(u, r, gd, right, i)
<1>1. /\ Cardinality(Databases(hd, i)) \in Nat /\ Cardinality(Holders(t, s, i)) \in Nat
      /\ Cardinality({i} \cap left) \in Nat /\ Cardinality(Activations(s, i)) \in Nat
  BY UsersAreFinite
<1>2. /\ IsFiniteSet(Databases(gd, i)) /\ Cardinality(Databases(gd, i)) \in Nat
      /\ IsFiniteSet(Holders(u, r, i)) /\ Cardinality(Holders(u, r, i)) \in Nat
      /\ IsFiniteSet({i} \cap right) /\ Cardinality({i} \cap right) \in Nat
      /\ IsFiniteSet(Activations(r, i)) /\ Cardinality(Activations(r, i)) \in Nat
  BY UsersAreFinite
<1>3. /\ Cardinality(Databases(hd, i)) <= Cardinality(Databases(gd, i))
      /\ Cardinality(Holders(t, s, i)) <= Cardinality(Holders(u, r, i))
      /\ Cardinality({i} \cap left) <= Cardinality({i} \cap right)
      /\ Cardinality(Activations(s, i)) <= Cardinality(Activations(r, i))
  BY <1>2, FS_Subset
<1> QED BY SMTT(60), <1>1, <1>2, <1>3 DEF UsersOf

\* What the users of a database, a link, a close more or less need in turn.
LEMMA AnyUser ==
    ASSUME NEW t \in Table, NEW s \in Seq(Activity), NEW hd, NEW left, NEW i,
           Used(s, hd, left, i) \/ Holders(t, s, i) # {}
    PROVE  UsersOf(t, s, hd, left, i) >= 1
<1>1. UsersOf(t, s, hd, left, i) \in Nat /\ UsersOf(t, s, hd, left, i) # 0
  BY UsersAreNumbers
<1> QED BY <1>1

\* A file is opened for a user of its own.
LEMMA OpenedIsWhole ==
    ASSUME NEW t \in Table, NEW f \in Files \cup {NoFile},
           NEW j, j = FirstFree(WithRoom(t)), NEW u, u = WithFile(t, f),
           NEW hd, NEW left, Whole(t, <<>>, hd, left),
           NEW gd, NEW right, Used(<<>>, gd, right, j), left \subseteq right,
           \A i \in InUse(t) : Databases(hd, i) \subseteq Databases(gd, i)
    PROVE  Whole(u, <<>>, gd, right)
<1>1. u \in Table /\ InUse(u) = InUse(t) \cup {j} /\ j \notin InUse(t) /\ <<>> \in Seq(Activity)
  BY WithFileIs, NoActivations
<1>2. \A c : CountOf(u, c) = (IF c = j THEN 1 ELSE CountOf(t, c))
             /\ Holders(u, <<>>, c) = Holders(t, <<>>, c)
  BY OpenedIsNew
<1>3. ASSUME NEW c \in InUse(u) PROVE CountOf(u, c) <= UsersOf(u, <<>>, gd, right, c)
  <2>1. CASE c = j
    <3>1. UsersOf(u, <<>>, gd, right, c) >= 1 /\ UsersOf(u, <<>>, gd, right, c) \in Nat
      BY <1>1, <2>1, AnyUser, UsersAreNumbers
    <3>2. CountOf(u, c) = 1
      BY <1>2, <2>1
    <3> QED BY <3>1, <3>2
  <2>2. CASE c # j
    <3>1. c \in InUse(t) /\ CountOf(u, c) = CountOf(t, c) /\ CountOf(t, c) \in Nat
      BY <1>1, <1>2, <2>2, EntryIs DEF CountOf
    <3>2. CountOf(t, c) <= UsersOf(t, <<>>, hd, left, c)
      BY <3>1 DEF Whole, CountedAtMost
    <3>3. /\ Databases(hd, c) \subseteq Databases(gd, c)
          /\ Holders(t, <<>>, c) \subseteq Holders(u, <<>>, c)
          /\ {c} \cap left \subseteq {c} \cap right
      BY <1>2, <3>1
    <3>4. UsersOf(t, <<>>, hd, left, c) <= UsersOf(u, <<>>, gd, right, c)
      BY <1>1, <3>3, MoreUsers
    <3>5. UsersOf(t, <<>>, hd, left, c) \in Nat /\ UsersOf(u, <<>>, gd, right, c) \in Nat
      BY <1>1, UsersAreNumbers
    <3> QED BY <3>1, <3>2, <3>4, <3>5
  <2> QED BY <2>1, <2>2
<1>4. ASSUME NEW S, Closed(u, <<>>, S) PROVE \E i \in S : Used(<<>>, gd, right, i)
  <2>1. CASE j \in S
    BY <2>1
  <2>2. CASE j \notin S
    <3>1. Closed(t, <<>>, S)
      BY <1>1, <1>2, <1>4, <2>2 DEF Closed
    <3>2. PICK i \in S : Used(<<>>, hd, left, i)
      BY <3>1 DEF Whole, Rooted
    <3>3. i \in InUse(t)
      BY <3>1 DEF Closed
    <3>4. Used(<<>>, gd, right, i)
      BY <3>2, <3>3 DEF Used
    <3> QED BY <3>4
  <2> QED BY <2>1, <2>2
<1> QED BY <1>3, <1>4 DEF Whole, CountedAtMost, Rooted

\* The same entries with the same counts and at least the same holders.
LEMMA MoreHolders ==
    ASSUME NEW t \in Table, NEW u \in Table, NEW hd, NEW left, Whole(t, <<>>, hd, left),
           InUse(u) = InUse(t), \A c : CountOf(u, c) = CountOf(t, c),
           \A c : Holders(t, <<>>, c) \subseteq Holders(u, <<>>, c)
    PROVE  Whole(u, <<>>, hd, left)
<1>1. ASSUME NEW c \in InUse(u) PROVE CountOf(u, c) <= UsersOf(u, <<>>, hd, left, c)
  <2>1. CountOf(t, c) <= UsersOf(t, <<>>, hd, left, c) /\ CountOf(t, c) \in Nat
    BY <1>1, EntryIs DEF Whole, CountedAtMost, CountOf
  <2>2. UsersOf(t, <<>>, hd, left, c) <= UsersOf(u, <<>>, hd, left, c)
    BY MoreUsers, NoActivations
  <2>3. UsersOf(t, <<>>, hd, left, c) \in Nat /\ UsersOf(u, <<>>, hd, left, c) \in Nat
    BY UsersAreNumbers, NoActivations
  <2> QED BY <2>1, <2>2, <2>3
<1>2. \A S : Closed(u, <<>>, S) => Closed(t, <<>>, S)
  BY DEF Closed
<1> QED BY <1>1, <1>2 DEF Whole, CountedAtMost, Rooted

LEMMA RoomIsWhole ==
    ASSUME NEW t \in Table, NEW hd, NEW left, Whole(t, <<>>, hd, left)
    PROVE  Whole(WithRoom(t), <<>>, hd, left)
<1>1. PICK u : u = WithRoom(t)
  OBVIOUS
<1>2. /\ u \in Table /\ DOMAIN t \subseteq DOMAIN u
      /\ \A i \in DOMAIN u : u[i] = IF i \in DOMAIN t THEN t[i] ELSE Unused
      /\ InUse(u) = InUse(t)
  BY <1>1, WithRoomIs
<1>3. \A m \in InUse(t) : u[m] = t[m]
  BY <1>2, EntryIs
<1>4. \A c : CountOf(u, c) = CountOf(t, c)
  BY <1>2, UnusedIs DEF CountOf
<1>5. \A c : Holders(u, <<>>, c) = Holders(t, <<>>, c)
  BY <1>2, <1>3 DEF Holders
<1>6. Whole(u, <<>>, hd, left)
  BY <1>2, <1>4, <1>5, MoreHolders
<1> QED BY <1>1, <1>6

\* A file found open has one user more, the file with the link.
LEMMA FoundIsWhole ==
    ASSUME NEW t \in Table, NEW i \in InUse(t), NEW j \in InUse(t),
           NEW hd, NEW left, Whole(t, <<>>, hd, left)
    PROVE  Whole(Found(t, i, j), <<>>, hd, left)
<1>1. PICK u : u = Found(t, i, j)
  OBVIOUS
<1>2. CASE i = j \/ j \in Range(t[i].links)
  <2>1. Found(t, i, j) = t
    BY <1>2, ListedAgain
  <2> QED BY <2>1
<1>3. CASE i # j /\ j \notin Range(t[i].links)
  <2>1. u \in Table /\ Lists(u, t, i, j) /\ CountsOneMore(u, t, j)
    BY <1>1, <1>3, FoundIs
  <2>2. InUse(u) = InUse(t) /\ j \in DOMAIN t
    BY <2>1, EntryIs DEF Lists
  <2>3. \A c : HoldsToo(u, t, i, j, c)
    BY <2>1, OneMoreHolder
  <2>4. \A c : /\ c # j => Holders(u, <<>>, c) = Holders(t, <<>>, c)
               /\ c = j => Holders(u, <<>>, c) = Holders(t, <<>>, c) \cup {i}
    BY <2>3 DEF HoldsToo
  <2>5. ASSUME NEW c \in InUse(u) PROVE CountOf(u, c) <= UsersOf(u, <<>>, hd, left, c)
    <3>1. /\ CountOf(t, c) <= UsersOf(t, <<>>, hd, left, c) /\ CountOf(t, c) \in Nat
      BY <2>2, <2>5, EntryIs DEF Whole, CountedAtMost, CountOf
    <3>2. UsersOf(t, <<>>, hd, left, c) \in Nat /\ UsersOf(u, <<>>, hd, left, c) \in Nat
      BY <2>1, UsersAreNumbers, NoActivations
    <3>3. CASE c # j
      <4>1. CountOf(u, c) = CountOf(t, c)
        BY <2>1, <3>3 DEF CountOf, Lists, CountsOneMore
      <4>2. UsersOf(u, <<>>, hd, left, c) = UsersOf(t, <<>>, hd, left, c)
        BY <2>4, <3>3 DEF UsersOf
      <4> QED BY <3>1, <4>1, <4>2
    <3>4. CASE c = j
      <4>1. CountOf(u, c) = CountOf(t, c) + 1
        BY <2>1, <2>2, <3>4 DEF CountOf, Lists, CountsOneMore
      <4>2. i \notin Holders(t, <<>>, c)
        BY <1>3, <3>4, HoldersAtRest
      <4>3. /\ IsFiniteSet(Holders(t, <<>>, c)) /\ Cardinality(Holders(t, <<>>, c)) \in Nat
            /\ Cardinality(Databases(hd, c)) \in Nat /\ Cardinality({c} \cap left) \in Nat
            /\ Cardinality(Activations(<<>>, c)) \in Nat
        BY NoActivations, UsersAreFinite
      <4>4. Cardinality(Holders(u, <<>>, c)) = Cardinality(Holders(t, <<>>, c)) + 1
        BY <2>4, <3>4, <4>2, <4>3, OneMore
      <4>5. UsersOf(u, <<>>, hd, left, c) = UsersOf(t, <<>>, hd, left, c) + 1
        BY <4>3, <4>4 DEF UsersOf
      <4> QED BY <3>1, <3>2, <4>1, <4>5
    <3> QED BY <3>3, <3>4
  <2>6. \A S : Closed(u, <<>>, S) => Closed(t, <<>>, S)
    <3>1. \A c : Holders(t, <<>>, c) \subseteq Holders(u, <<>>, c)
      BY <2>4
    <3> QED BY <2>2, <3>1 DEF Closed
  <2>7. Whole(u, <<>>, hd, left)
    BY <2>5, <2>6 DEF Whole, CountedAtMost, Rooted
  <2> QED BY <1>1, <2>7
<1> QED BY <1>2, <1>3

\* A file opened for a link is used by the file with the link.
LEMMA OpenedForLinkIsWhole ==
    ASSUME NEW t \in Table, NEW i \in InUse(t), NEW f \in Files,
           NEW j, j = FirstFree(WithRoom(t)),
           NEW hd, NEW left, Whole(t, <<>>, hd, left)
    PROVE  Whole(Fresh(WithFile(t, f), i, j), <<>>, hd, left)
<1>1. PICK w : w = WithFile(t, f)
  OBVIOUS
<1>2. PICK u : u = Fresh(w, i, j)
  OBVIOUS
<1>3. w \in Table /\ InUse(w) = InUse(t) \cup {j} /\ j \notin InUse(t) /\ <<>> \in Seq(Activity)
  BY <1>1, WithFileIs, NoActivations
<1>4. \A c : CountOf(w, c) = (IF c = j THEN 1 ELSE CountOf(t, c))
             /\ Holders(w, <<>>, c) = Holders(t, <<>>, c)
  BY <1>1, OpenedIsNew
<1>5. i \in InUse(w) /\ j \in InUse(w) /\ i # j
  BY <1>3
<1>6. /\ u \in Table /\ InUse(u) = InUse(w) /\ \A c : CountOf(u, c) = CountOf(w, c)
      /\ \A c : c # j => Holders(u, <<>>, c) = Holders(w, <<>>, c)
      /\ i \in Holders(u, <<>>, j)
  <2>1. CASE j \in Range(w[i].links)
    <3>1. u = w
      BY <1>2, <2>1 DEF Fresh, LinkAdd
    <3>2. i \in Holders(w, <<>>, j)
      BY <1>5, <2>1, HoldersAtRest
    <3> QED BY <1>3, <3>1, <3>2
  <2>2. CASE j \notin Range(w[i].links)
    <3>1. u \in Table /\ Lists(u, w, i, j) /\ CountsTheSame(u, w)
      BY <1>2, <1>3, <1>5, <2>2, FreshIs
    <3>2. \A c : HoldsToo(u, w, i, j, c)
      BY <1>3, <1>5, <3>1, OneMoreHolder
    <3>3. \A c : CountOf(u, c) = CountOf(w, c)
      BY <3>1 DEF CountOf, Lists, CountsTheSame
    <3> QED BY <3>1, <3>2, <3>3 DEF Lists, HoldsToo
  <2> QED BY <2>1, <2>2
<1>7. ASSUME NEW c \in InUse(u) PROVE CountOf(u, c) <= UsersOf(u, <<>>, hd, left, c)
  <2>1. CASE c = j
    <3>1. UsersOf(u, <<>>, hd, left, c) >= 1 /\ UsersOf(u, <<>>, hd, left, c) \in Nat
      BY <1>3, <1>6, <2>1, AnyUser, UsersAreNumbers
    <3>2. CountOf(u, c) = 1
      BY <1>4, <1>6, <2>1
    <3> QED BY <3>1, <3>2
  <2>2. CASE c # j
    <3>1. CountOf(u, c) = CountOf(t, c) /\ Holders(u, <<>>, c) = Holders(t, <<>>, c) /\ c \in InUse(t)
      BY <1>3, <1>4, <1>6, <1>7, <2>2
    <3>2. CountOf(t, c) <= UsersOf(t, <<>>, hd, left, c)
      BY <3>1 DEF Whole, CountedAtMost
    <3>3. UsersOf(u, <<>>, hd, left, c) = UsersOf(t, <<>>, hd, left, c)
      BY <3>1 DEF UsersOf
    <3> QED BY <3>1, <3>2, <3>3
  <2> QED BY <2>1, <2>2
<1>8. ASSUME NEW S, Closed(u, <<>>, S) PROVE \E c \in S : Used(<<>>, hd, left, c)
  <2>1. PICK T : T = S \ {j}
    OBVIOUS
  <2>2. j \in S => i \in S
    BY <1>6, <1>8 DEF Closed
  <2>3. T # {} /\ T \subseteq InUse(t)
    BY <1>3, <1>5, <1>6, <1>8, <2>1, <2>2 DEF Closed
  <2>4. ASSUME NEW c \in T PROVE Holders(t, <<>>, c) \subseteq T
    <3>1. Holders(t, <<>>, c) = Holders(u, <<>>, c)
      BY <1>4, <1>6, <2>1
    <3>2. Holders(u, <<>>, c) \subseteq S
      BY <1>8, <2>1 DEF Closed
    <3>3. j \notin Holders(t, <<>>, c)
      BY <1>3 DEF Holders
    <3> QED BY <2>1, <3>1, <3>2, <3>3
  <2>5. Closed(t, <<>>, T)
    BY <2>3, <2>4 DEF Closed
  <2> QED BY <2>1, <2>5 DEF Whole, Rooted
<1>9. Whole(u, <<>>, hd, left)
  BY <1>7, <1>8 DEF Whole, CountedAtMost, Rooted
<1> QED BY <1>1, <1>2, <1>9

\* A property of tables that growing, opening a file for a link and finding one open keep
\* is kept by the chase of a link.
LEMMA WalkStays ==
    ASSUME ADF_file \in Table, NEW i \in InUse(ADF_file), ADF_file[i].name # NoFile,
           NEW n \in Node, NEW disk, NEW P, ADF_file \in P,
           \A t \in P \cap Table : MayOpen(t) => WithRoom(t) \in P,
           \A t \in P \cap Table : \A k, m \in InUse(t) : Found(t, k, m) \in P,
           \A t \in P \cap Table : \A f \in Files : \A k \in InUse(t) :
              MayOpen(t) => Fresh(WithFile(t, f), k, FirstFree(WithRoom(t))) \in P
    PROVE  Walk(i, n, disk).table \in P
<1> DEFINE start == At(ADF_file, i, n, "walking")
<1>1. PICK walk : Turns(walk, start, disk, LinkDepth + 1) /\ Walk(i, n, disk) = walk[LinkDepth + 1]
  BY WalkIs, Zenon
<1>2. LinkDepth \in Nat
  BY FilesAssumption
<1>3. /\ walk[0] = start
      /\ \A k \in 0 .. LinkDepth : walk[k + 1] = Turn(walk[k], disk)
  <2>1. ASSUME NEW k \in 0 .. LinkDepth PROVE walk[k + 1] = Turn(walk[k], disk)
    <3>1. k + 1 \in 0 .. LinkDepth + 1 /\ k + 1 # 0 /\ (k + 1) - 1 = k
      BY <1>2
    <3> QED BY <1>1, <3>1 DEF Turns
  <2>2. 0 \in 0 .. LinkDepth + 1
    BY <1>2
  <2> QED BY <1>1, <2>1, <2>2 DEF Turns
<1>4. Underway(start, ADF_file) /\ start.table = ADF_file
  <2>1. /\ start = At(start.table, start.file, start.node, start.state)
        /\ start.table = ADF_file /\ start.file = i /\ start.node = n /\ start.state = "walking"
    BY DEF At
  <2> HIDE DEF start
  <2>2. ADF_file[i].name \in Files
    BY EntryIs
  <2> QED BY <2>1, <2>2 DEF Underway, Keeps
<1> HIDE DEF start
<1> DEFINE S == {k \in Nat : k <= LinkDepth + 1 => Underway(walk[k], ADF_file) /\ walk[k].table \in P}
<1>5. 0 \in S
  BY <1>3, <1>4
<1>6. ASSUME NEW s, Underway(s, ADF_file), s.table \in P PROVE Turn(s, disk).table \in P
  <2> DEFINE from == From(s)
             to == Leads(s)
             k == s.file
  <2>1. s = At(s.table, s.file, s.node, s.state) /\ s.table \in P \cap Table
    BY <1>6 DEF Underway
  <2>2. CASE s.state # "walking"
    BY <1>6, <2>2, TurnByCase, ZenonT(60)
  <2>3. CASE s.state = "walking" /\ to = Plain
    <3>1. Turn(s, disk) = [s EXCEPT !.state = "done"]
      BY <2>3, TurnByCase, Zenon
    <3>2. [s EXCEPT !.state = "done"].table = s.table
      BY <2>1 DEF At
    <3> QED BY <1>6, <3>1, <3>2
  <2>4. CASE s.state = "walking" /\ to # Plain
    <3>1. k \in InUse(s.table) /\ from \in Files /\ s.node \in Node
      BY <1>6, <2>4 DEF Underway, From
    <3>2. to[1] \in Files
      <4>1. to = Target[<<from, s.node>>]
        BY DEF Leads
      <4> HIDE DEF to, from
      <4> QED BY <2>4, <3>1, <4>1, FilesAssumption
    <3>3. \A w, m, p : Arrive(w, m, p).table = w
      BY DEF Arrive, At
    <3>4. CASE to[1] = from
      <4>1. Turn(s, disk) = Arrive(s.table, k, to[2])
        BY <2>4, <3>4, TurnByCase, Zenon
      <4> QED BY <1>6, <3>3, <4>1
    <3>5. CASE to[1] # from /\ disk # "gone" /\ Named(s.table, to[1]) # {}
      <4>1. PICK m : m = IndexFromName(s.table, to[1])
        OBVIOUS
      <4>2. Turn(s, disk) = Arrive(Found(s.table, k, m), m, to[2])
        BY <2>4, <3>5, <4>1, TurnByCase, ZenonT(60)
      <4>3. m \in InUse(s.table)
        BY <2>1, <3>5, <4>1, IndexFromNameIs
      <4>4. Found(s.table, k, m) \in P
        BY <2>1, <3>1, <4>3
      <4> HIDE DEF to, from, k
      <4> QED BY <3>3, <4>2, <4>4
    <3>6. CASE /\ to[1] # from /\ disk = "there" /\ Named(s.table, to[1]) = {}
               /\ MayOpen(s.table)
      <4>1. PICK m : m = FirstFree(WithRoom(s.table))
        OBVIOUS
      <4>2. Turn(s, disk) = Arrive(Fresh(WithFile(s.table, to[1]), k, m), m, to[2])
        BY <2>4, <3>6, <4>1, TurnByCase, Zenon
      <4>3. Fresh(WithFile(s.table, to[1]), k, m) \in P
        BY <2>1, <3>1, <3>2, <3>6, <4>1
      <4> HIDE DEF to, from, k
      <4> QED BY <3>3, <4>2, <4>3
    <3>7. CASE \/ to[1] # from /\ disk = "gone"
               \/ to[1] # from /\ disk # "there" /\ Named(s.table, to[1]) = {}
               \/ to[1] # from /\ ~ MayOpen(s.table) /\ Named(s.table, to[1]) = {}
      <4>1. \/ Turn(s, disk) = [s EXCEPT !.state = "failed"]
            \/ Turn(s, disk) = [s EXCEPT !.table = IF MayOpen(@) THEN WithRoom(@) ELSE @, !.state = "failed"]
        BY <2>4, <3>7, TurnByCase, ZenonT(60)
      <4>2. PICK u : u = Turn(s, disk)
        OBVIOUS
      <4>3. u.table = s.table \/ u.table = IF MayOpen(s.table) THEN WithRoom(s.table) ELSE s.table
        BY <2>1, <4>1, <4>2 DEF At
      <4>4. u.table \in P
        BY <2>1, <4>3
      <4> QED BY <4>2, <4>4, SMTT(60)
    <3> QED BY <3>4, <3>5, <3>6, <3>7
  <2> QED BY <2>2, <2>3, <2>4
<1>7. ASSUME NEW k \in S PROVE k + 1 \in S
  <2> SUFFICES ASSUME k + 1 <= LinkDepth + 1
               PROVE  Underway(walk[k + 1], ADF_file) /\ walk[k + 1].table \in P
    OBVIOUS
  <2>1. k \in 0 .. LinkDepth /\ Underway(walk[k], ADF_file) /\ walk[k].table \in P
    BY <1>2, <1>7
  <2>2. PICK s : s = walk[k]
    OBVIOUS
  <2>3. PICK u : u = Turn(s, disk)
    OBVIOUS
  <2>4. Underway(u, ADF_file)
    BY <2>1, <2>2, <2>3, TurnIs
  <2>5. u.table \in P
    BY <1>6, <2>1, <2>2, <2>3
  <2>6. walk[k + 1] = u
    BY <1>3, <2>1, <2>2, <2>3
  <2> QED BY <2>4, <2>5, <2>6
<1>8. S = Nat
  <2> HIDE DEF S
  <2>1. S \in SUBSET Nat
    BY DEF S
  <2> QED BY <1>5, <1>7, <2>1, AllNumbers
<1>9. LinkDepth + 1 \in S
  BY <1>2, <1>8
<1>10. walk[LinkDepth + 1].table \in P
  BY <1>2, <1>9
<1> QED BY <1>1, <1>10

\* A close begins: the activation takes the place of the database.
LEMMA FirstIsWhole ==
    ASSUME NEW t \in Table, NEW hd \in [Handle -> Nat], NEW left, Whole(t, <<>>, hd, left),
           NEW h \in Handle, NEW e \in InUse(t), hd[h] = e,
           NEW s, s = <<Activation(e)>>, NEW gd, gd = [hd EXCEPT ![h] = 0]
    PROVE  Whole(t, s, gd, left)
<1>1. /\ s \in Seq(Activity) /\ DOMAIN s = {1} /\ s[1].file = e /\ s[1].next = 1
      /\ <<>> \in Seq(Activity)
  BY FirstActivation, NoActivations
<1>2. \A c : /\ Holders(t, s, c) = Holders(t, <<>>, c)
             /\ c = e => Activations(s, c) = {1}
             /\ c # e => Activations(s, c) = {}
  BY <1>1, FirstUsers
<1>3. \A c : Activations(<<>>, c) = {} /\ Cardinality(Activations(<<>>, c)) = 0
  BY NoActivations
<1>4. \A c \in InUse(t) : c \in Nat \ {0}
  BY EntryIs
<1>5. \A c \in InUse(t) : c # e => Databases(gd, c) = Databases(hd, c)
  BY <1>4 DEF Databases
<1>6. ASSUME NEW c \in InUse(t) PROVE UsersOf(t, s, gd, left, c) = UsersOf(t, <<>>, hd, left, c)
  <2>1. CASE c = e
    <3>1. Databases(gd, c) = Databases(hd, c) \ {h} /\ h \in Databases(hd, c)
      BY <1>4, <2>1 DEF Databases
    <3>2. IsFiniteSet(Databases(hd, c)) /\ Cardinality(Databases(hd, c)) \in Nat
      BY <1>1, UsersAreFinite
    <3>3. Cardinality(Databases(gd, c)) = Cardinality(Databases(hd, c)) - 1
      BY <3>1, <3>2, OneLess
    <3>4. Cardinality(Activations(s, c)) = 1
      BY <1>2, <2>1, FS_Singleton
    <3>5. Cardinality(Activations(<<>>, c)) = 0 /\ Cardinality(Holders(t, s, c)) = Cardinality(Holders(t, <<>>, c))
      BY <1>2, <1>3
    <3>6. Cardinality(Holders(t, <<>>, c)) \in Nat /\ Cardinality({c} \cap left) \in Nat
      BY <1>1, UsersAreFinite
    <3> QED BY <3>2, <3>3, <3>4, <3>5, <3>6 DEF UsersOf
  <2>2. CASE c # e
    <3>1. Activations(s, c) = Activations(<<>>, c)
      BY <1>2, <1>3, <2>2
    <3> QED BY <1>2, <1>5, <2>2, <3>1 DEF UsersOf
  <2> QED BY <2>1, <2>2
<1>7. CountedAtMost(t, s, gd, left)
  BY <1>6 DEF CountedAtMost, Whole
<1>8. ASSUME NEW S, Closed(t, s, S) PROVE \E i \in S : Used(s, gd, left, i)
  <2>1. CASE e \in S
    BY <1>2, <2>1 DEF Used
  <2>2. CASE e \notin S
    <3>1. Closed(t, <<>>, S)
      BY <1>2, <1>8 DEF Closed
    <3>2. PICK i \in S : Used(<<>>, hd, left, i)
      BY <3>1 DEF Whole, Rooted
    <3>3. i \in InUse(t) /\ i # e
      BY <2>2, <3>1 DEF Closed
    <3>4. Used(s, gd, left, i)
      BY <1>3, <1>5, <3>2, <3>3 DEF Used
    <3> QED BY <3>4
  <2> QED BY <2>1, <2>2
<1> QED BY <1>7, <1>8 DEF Whole, Rooted

\* The close of a database that is gone already.
LEMMA GoneIsWhole ==
    ASSUME NEW t \in Table, NEW s, NEW hd \in [Handle -> Nat], NEW left, Whole(t, s, hd, left),
           NEW h \in Handle, hd[h] \notin InUse(t), NEW gd, gd = [hd EXCEPT ![h] = 0]
    PROVE  Whole(t, s, gd, left)
<1>1. \A c \in InUse(t) : c \in Nat \ {0}
  BY EntryIs
<1>2. \A c \in InUse(t) : Databases(gd, c) = Databases(hd, c)
  BY <1>1 DEF Databases
<1>3. CountedAtMost(t, s, gd, left)
  BY <1>2 DEF Whole, CountedAtMost, UsersOf
<1>4. ASSUME NEW S, Closed(t, s, S) PROVE \E i \in S : Used(s, gd, left, i)
  <2>1. PICK i \in S : Used(s, hd, left, i)
    BY <1>4 DEF Whole, Rooted
  <2>2. Used(s, gd, left, i)
    BY <1>2, <1>4, <2>1 DEF Used, Closed
  <2> QED BY <2>2
<1> QED BY <1>3, <1>4 DEF Whole, Rooted

\* The stack v is s with its last activation past link x, and maybe with more of them that
\* are past none.
Past(v, s, x) ==
    /\ DOMAIN s \subseteq DOMAIN v /\ Len(s) \in DOMAIN s
    /\ \A p \in DOMAIN s : v[p].file = s[p].file
    /\ \A p \in DOMAIN s : p # Len(s) => v[p].next = s[p].next
    /\ v[Len(s)].next = x + 1
    /\ \A p \in DOMAIN v : p \notin DOMAIN s => v[p].next = 1

\* Only the entry that link leads to loses a holder.
LEMMA PastHolders ==
    ASSUME NEW t \in Table, NEW s \in Stacks(t), NEW e, NEW x, NEW child,
           Closes(t, s, e, x, child), NEW v, Past(v, s, x), NEW c
    PROVE  /\ c # child => Holders(t, v, c) = Holders(t, s, c)
           /\ Holders(t, s, c) \ {e} \subseteq Holders(t, v, c)
<1>1. /\ DOMAIN s \subseteq DOMAIN v /\ Len(s) \in DOMAIN s
      /\ \A p \in DOMAIN s : v[p].file = s[p].file
      /\ \A p \in DOMAIN s : p # Len(s) => v[p].next = s[p].next
      /\ v[Len(s)].next = x + 1
      /\ \A p \in DOMAIN v : p \notin DOMAIN s => v[p].next = 1
  BY DEF Past
<1>2. s[Len(s)].file = e /\ s[Len(s)].next = x /\ t[e].links[x] = child
  BY DEF Closes
<1>3. x \in Nat
  <2>1. At1(t, s, Len(s))
    BY <1>1, StackIs
  <2> QED BY <1>2, <2>1 DEF At1
<1>4. \A j \in InUse(t) : \A k \in DOMAIN t[j].links : k \in Nat /\ k >= 1
  BY EntryIs
<1>5. ASSUME NEW j \in InUse(t), NEW k \in DOMAIN t[j].links,
             \A p \in DOMAIN s : s[p].file = j => s[p].next <= k,
             j # e \/ k # x
      PROVE  \A p \in DOMAIN v : v[p].file = j => v[p].next <= k
  <2> SUFFICES ASSUME NEW p \in DOMAIN v, v[p].file = j PROVE v[p].next <= k
    OBVIOUS
  <2>1. CASE p \notin DOMAIN s
    BY <1>1, <1>4, <2>1
  <2>2. CASE p \in DOMAIN s /\ p # Len(s)
    BY <1>1, <1>5, <2>2
  <2>3. CASE p = Len(s)
    <3>1. j = e /\ x <= k /\ k # x
      BY <1>1, <1>2, <1>5, <2>3
    <3>2. x + 1 <= k
      BY <1>3, <1>4, <3>1
    <3> QED BY <1>1, <2>3, <3>2
  <2> QED BY <2>1, <2>2, <2>3
<1>6. ASSUME NEW j \in InUse(t), NEW k \in DOMAIN t[j].links,
             \A p \in DOMAIN v : v[p].file = j => v[p].next <= k
      PROVE  \A p \in DOMAIN s : s[p].file = j => s[p].next <= k
  <2> SUFFICES ASSUME NEW p \in DOMAIN s, s[p].file = j PROVE s[p].next <= k
    OBVIOUS
  <2>1. v[p].next <= k
    BY <1>1, <1>6
  <2>2. CASE p # Len(s)
    BY <1>1, <2>1, <2>2
  <2>3. CASE p = Len(s)
    <3>1. x + 1 <= k
      BY <1>1, <2>1, <2>3
    <3>2. x <= k
      BY <1>3, <1>4, <3>1
    <3> QED BY <1>2, <2>3, <3>2
  <2> QED BY <2>2, <2>3
<1>7. ASSUME NEW j \in Holders(t, s, c), j # e \/ c # child PROVE j \in Holders(t, v, c)
  <2>1. j \in InUse(t)
    BY DEF Holders
  <2>2. PICK k \in DOMAIN t[j].links :
           t[j].links[k] = c /\ \A p \in DOMAIN s : s[p].file = j => s[p].next <= k
    BY DEF Holders
  <2>3. j # e \/ k # x
    BY <1>2, <1>7, <2>2
  <2>4. \A p \in DOMAIN v : v[p].file = j => v[p].next <= k
    BY <1>5, <2>1, <2>2, <2>3
  <2> QED BY <2>1, <2>2, <2>4 DEF Holders
<1>8. ASSUME NEW j \in Holders(t, v, c) PROVE j \in Holders(t, s, c)
  <2>1. j \in InUse(t)
    BY DEF Holders
  <2>2. PICK k \in DOMAIN t[j].links :
           t[j].links[k] = c /\ \A p \in DOMAIN v : v[p].file = j => v[p].next <= k
    BY DEF Holders
  <2>3. \A p \in DOMAIN s : s[p].file = j => s[p].next <= k
    BY <1>6, <2>1, <2>2
  <2> QED BY <2>1, <2>2, <2>3 DEF Holders
<1> QED BY <1>7, <1>8

\* A link whose file is closed already.
LEMMA PassedIsWhole ==
    ASSUME NEW t \in Table, NEW s \in Stacks(t), NEW hd, NEW left, Whole(t, s, hd, left),
           NEW e, NEW x, NEW child, Closes(t, s, e, x, child), child \notin InUse(t),
           NEW a, Past(a, s, x), DOMAIN a = DOMAIN s
    PROVE  Whole(t, a, hd, left)
<1>1. \A c \in InUse(t) : Holders(t, a, c) = Holders(t, s, c)
  BY PastHolders
<1>2. \A c : Activations(a, c) = Activations(s, c)
  BY DEF Past, Activations
<1>3. CountedAtMost(t, a, hd, left)
  BY <1>1, <1>2 DEF Whole, CountedAtMost, UsersOf
<1>4. ASSUME NEW S, Closed(t, a, S) PROVE \E i \in S : Used(a, hd, left, i)
  <2>1. Closed(t, s, S)
    BY <1>1, <1>4 DEF Closed
  <2>2. PICK i \in S : Used(s, hd, left, i)
    BY <2>1 DEF Whole, Rooted
  <2>3. Used(a, hd, left, i)
    BY <1>2, <2>2 DEF Used
  <2> QED BY <2>3
<1> QED BY <1>3, <1>4 DEF Whole, Rooted

\* A link whose file is closed in an activation of its own.
LEMMA PushedIsWhole ==
    ASSUME NEW t \in Table, NEW s \in Stacks(t), NEW hd, NEW left, Whole(t, s, hd, left),
           NEW e, NEW x, NEW child \in InUse(t), Closes(t, s, e, x, child),
           NEW u \in Seq(Activity), Pushed(u, s, x, child)
    PROVE  Whole(t, u, hd, left)
<1>1. /\ Len(s) \in Nat \ {0} /\ DOMAIN s = 1 .. Len(s) /\ DOMAIN u = 1 .. Len(s) + 1
      /\ \A p \in DOMAIN s : u[p].file = s[p].file
      /\ \A p \in DOMAIN s : p # Len(s) => u[p].next = s[p].next
      /\ u[Len(s)].next = x + 1
      /\ u[Len(s) + 1].file = child /\ u[Len(s) + 1].next = 1
  BY DEF Pushed
<1>2. /\ \A p \in DOMAIN u : p \in DOMAIN s \/ p = Len(s) + 1
      /\ DOMAIN s \subseteq DOMAIN u /\ Len(s) \in DOMAIN s
      /\ Len(s) + 1 \in DOMAIN u /\ Len(s) + 1 \notin DOMAIN s
  BY <1>1
<1>3. Past(u, s, x)
  BY <1>1, <1>2 DEF Past
<1>4. s \in Seq(Activity)
  BY StackIs
<1>5. \A c : /\ c # child => Holders(t, u, c) = Holders(t, s, c)
             /\ Holders(t, s, c) \ {e} \subseteq Holders(t, u, c)
  BY <1>3, PastHolders
<1>6. \A c : /\ c # child => Activations(u, c) = Activations(s, c)
             /\ c = child => Activations(u, c) = Activations(s, c) \cup {Len(s) + 1}
  BY <1>1, <1>2 DEF Activations
<1>7. ASSUME NEW c \in InUse(t) PROVE CountOf(t, c) <= UsersOf(t, u, hd, left, c)
  <2>1. CountOf(t, c) <= UsersOf(t, s, hd, left, c)
    BY DEF Whole, CountedAtMost
  <2>2. CASE c # child
    <3>1. UsersOf(t, u, hd, left, c) = UsersOf(t, s, hd, left, c)
      BY <1>5, <1>6, <2>2 DEF UsersOf
    <3> QED BY <2>1, <3>1
  <2>3. CASE c = child
    <3>1. /\ IsFiniteSet(Holders(t, s, c)) /\ Cardinality(Holders(t, s, c)) \in Nat
          /\ Cardinality(Databases(hd, c)) \in Nat /\ Cardinality({c} \cap left) \in Nat
          /\ IsFiniteSet(Activations(s, c)) /\ Cardinality(Activations(s, c)) \in Nat
      BY <1>4, UsersAreFinite
    <3>2. IsFiniteSet(Holders(t, u, c)) /\ Cardinality(Holders(t, u, c)) \in Nat
      BY UsersAreFinite
    <3>3. Cardinality(Activations(u, c)) = Cardinality(Activations(s, c)) + 1
      <4>1. Len(s) + 1 \notin Activations(s, c)
        BY <1>2 DEF Activations
      <4> QED BY <1>6, <2>3, <3>1, <4>1, OneMore
    <3>4. Cardinality(Holders(t, s, c)) <= Cardinality(Holders(t, u, c)) + 1
      <4>1. CASE e \in Holders(t, s, c)
        <5>1. PICK H : H = Holders(t, s, c) \ {e}
          OBVIOUS
        <5>2. Cardinality(H) = Cardinality(Holders(t, s, c)) - 1
          BY <3>1, <4>1, <5>1, OneLess
        <5>3. Cardinality(H) <= Cardinality(Holders(t, u, c))
          BY <1>5, <3>2, <5>1, FS_Subset
        <5> QED BY <3>1, <3>2, <5>2, <5>3
      <4>2. CASE e \notin Holders(t, s, c)
        <5>1. Holders(t, s, c) \subseteq Holders(t, u, c)
          BY <1>5, <4>2
        <5>2. Cardinality(Holders(t, s, c)) <= Cardinality(Holders(t, u, c))
          BY <3>2, <5>1, FS_Subset
        <5> QED BY <3>1, <3>2, <5>2
      <4> QED BY <4>1, <4>2
    <3>5. UsersOf(t, s, hd, left, c) <= UsersOf(t, u, hd, left, c)
      BY <3>1, <3>2, <3>3, <3>4 DEF UsersOf
    <3>6. CountOf(t, c) \in Nat
      BY EntryIs DEF CountOf
    <3>7. UsersOf(t, s, hd, left, c) \in Nat /\ UsersOf(t, u, hd, left, c) \in Nat
      BY <1>4, UsersAreNumbers
    <3> QED BY <2>1, <3>5, <3>6, <3>7
  <2> QED BY <2>2, <2>3
<1>8. ASSUME NEW S, Closed(t, u, S) PROVE \E i \in S : Used(u, hd, left, i)
  <2>1. CASE child \in S
    <3>1. Activations(u, child) # {}
      BY <1>6
    <3> QED BY <2>1, <3>1 DEF Used
  <2>2. CASE child \notin S
    <3>1. Closed(t, s, S)
      BY <1>5, <1>8, <2>2 DEF Closed
    <3>2. PICK i \in S : Used(s, hd, left, i)
      BY <3>1 DEF Whole, Rooted
    <3>3. Used(u, hd, left, i)
      BY <1>6, <2>2, <3>2 DEF Used
    <3> QED BY <3>3
  <2> QED BY <2>1, <2>2
<1> QED BY <1>7, <1>8 DEF Whole, CountedAtMost, Rooted

\* A file past all its links is counted down.
LEMMA PoppedIsWhole ==
    ASSUME NEW t \in Table, NEW s \in Stacks(t), NEW hd, NEW left, Whole(t, s, hd, left),
           NEW e, Finished(t, s, e), NEW w, w = LessUsed(t, e, t[e].in_use - 1)
    PROVE  Whole(w, Front(s), hd, left)
<1>1. PICK f : f = Front(s)
  OBVIOUS
<1>2. PICK n : n = t[e].in_use - 1
  OBVIOUS
<1>3. /\ e \in InUse(t) /\ Len(s) \in DOMAIN s
      /\ \A p \in DOMAIN s : s[p].file = e => p = Len(s)
  BY FinishedOnce
<1>4. /\ w \in Table /\ Others(w, t, e) /\ n \in Nat /\ LeftWith(w, t, e, n)
  BY <1>2, <1>3, LessUsedIs
<1>5. s \in Seq(Activity) /\ s # <<>> /\ s[Len(s)].file = e /\ s[Len(s)].next = Len(t[e].links) + 1
  BY StackIs DEF Finished
<1>6. /\ f \in Seq(Activity) /\ DOMAIN s = 1 .. Len(s) /\ Len(s) \in Nat
      /\ DOMAIN f = 1 .. Len(s) - 1
      /\ \A p \in DOMAIN f : f[p] = s[p]
  BY <1>1, <1>5, FrontIs
<1>7. \A p : p \in DOMAIN f <=> (p \in DOMAIN s /\ p # Len(s))
  BY <1>6
<1>8. \A c : e \notin Holders(t, s, c)
  <2>1. \A k \in DOMAIN t[e].links : ~ (Len(t[e].links) + 1 <= k)
    BY <1>3, EntryIs
  <2> QED BY <1>3, <1>5, <2>1 DEF Holders
<1>9. ASSUME NEW c, NEW j, j # e PROVE j \in Holders(w, f, c) <=> j \in Holders(t, s, c)
  <2>1. j \in InUse(w) <=> j \in InUse(t)
    BY <1>4, <1>9 DEF Others
  <2>2. j \in InUse(t) => w[j] = t[j]
    BY <1>4, <1>9 DEF Others
  <2>3. \A k : (\A p \in DOMAIN f : f[p].file = j => f[p].next <= k)
                   <=> (\A p \in DOMAIN s : s[p].file = j => s[p].next <= k)
    BY <1>3, <1>5, <1>6, <1>7, <1>9
  <2> QED BY <2>1, <2>2, <2>3 DEF Holders
<1>10. \A c : Holders(t, s, c) = Holders(w, f, c) \ {e}
  BY <1>8, <1>9
<1>11. e \notin Holders(w, f, e)
  <2>1. ASSUME e \in Holders(w, f, e) PROVE FALSE
    <3>1. e \in DOMAIN w /\ e \in Range(w[e].links)
      BY <1>4, <2>1, EntryIs DEF Holders, Range
    <3> QED BY <1>4, <3>1 DEF Table
  <2> QED BY <2>1
<1>12. \A c : /\ c # e => Activations(f, c) = Activations(s, c)
              /\ c = e => Activations(f, c) = Activations(s, c) \ {Len(s)} /\ Len(s) \in Activations(s, c)
  BY <1>3, <1>5, <1>6, <1>7 DEF Activations
<1>13. ASSUME NEW c \in InUse(w) PROVE CountOf(w, c) <= UsersOf(w, f, hd, left, c)
  <2>0. UsersOf(t, s, hd, left, c) \in Nat /\ UsersOf(w, f, hd, left, c) \in Nat
    BY <1>4, <1>5, <1>6, UsersAreNumbers
  <2>1. CASE c # e
    <3>1. c \in InUse(t) /\ w[c] = t[c]
      BY <1>4, <1>13, <2>1 DEF Others
    <3>2. CountOf(w, c) = CountOf(t, c) /\ CountOf(t, c) \in Nat
      BY <1>4, <1>13, <3>1, EntryIs DEF CountOf
    <3>3. CountOf(t, c) <= UsersOf(t, s, hd, left, c)
      BY <3>1 DEF Whole, CountedAtMost
    <3>4. UsersOf(t, s, hd, left, c) <= UsersOf(w, f, hd, left, c)
      <4>1. Holders(t, s, c) \subseteq Holders(w, f, c) /\ Activations(s, c) \subseteq Activations(f, c)
        BY <1>10, <1>12, <2>1
      <4> QED BY <1>4, <1>5, <1>6, <4>1, MoreUsers
    <3> QED BY <2>0, <3>2, <3>3, <3>4
  <2>2. CASE c = e
    <3>1. Holders(t, s, c) = Holders(w, f, c)
      BY <1>10, <1>11, <2>2
    <3>2. /\ IsFiniteSet(Activations(s, c)) /\ Cardinality(Activations(s, c)) \in Nat
          /\ Cardinality(Databases(hd, c)) \in Nat /\ Cardinality({c} \cap left) \in Nat
          /\ Cardinality(Holders(t, s, c)) \in Nat
      BY <1>5, UsersAreFinite
    <3>3. Cardinality(Activations(f, c)) = Cardinality(Activations(s, c)) - 1
      BY <1>12, <2>2, <3>2, OneLess
    <3>4. Cardinality(Holders(t, s, c)) = Cardinality(Holders(w, f, c))
      BY <3>1
    <3>5. UsersOf(w, f, hd, left, c) = UsersOf(t, s, hd, left, c) - 1
      BY <3>2, <3>3, <3>4 DEF UsersOf
    <3>6. CountOf(t, c) <= UsersOf(t, s, hd, left, c)
      BY <1>3, <2>2 DEF Whole, CountedAtMost
    <3>7. CountOf(t, c) = t[e].in_use /\ t[e].in_use \in Nat
      BY <1>3, <2>2, EntryIs DEF CountOf
    <3>8. CountOf(w, c) = n
      <4>1. n # 0
        BY <1>4, <1>13, <2>2 DEF LeftWith
      <4> QED BY <1>4, <1>13, <2>2, <4>1, EntryIs DEF CountOf, LeftWith
    <3> QED BY <1>2, <2>0, <3>5, <3>6, <3>7, <3>8
  <2> QED BY <2>1, <2>2
<1>14. ASSUME NEW S, Closed(w, f, S) PROVE \E i \in S : Used(f, hd, left, i)
  <2>1. PICK T : T = S \ {e}
    OBVIOUS
  <2>2. CASE T = {}
    <3>1. e \in S /\ S \subseteq {e} /\ e \in InUse(w) /\ Holders(w, f, e) \subseteq S
      BY <1>14, <2>1, <2>2 DEF Closed
    <3>2. Holders(w, f, e) = {}
      BY <1>11, <3>1
    <3>3. CountOf(w, e) <= UsersOf(w, f, hd, left, e) /\ CountOf(w, e) \in Nat /\ CountOf(w, e) > 0
      BY <1>4, <1>13, <3>1, EntryIs DEF CountOf, InUse
    <3>4. UsersOf(w, f, hd, left, e) # 0
      <4>1. UsersOf(w, f, hd, left, e) \in Nat
        BY <1>4, <1>6, UsersAreNumbers
      <4> QED BY <3>3, <4>1
    <3>5. Used(f, hd, left, e)
      BY <1>4, <1>6, <3>2, <3>4, UsersAreNumbers
    <3> QED BY <3>1, <3>5
  <2>3. CASE T # {}
    <3>1. T \subseteq InUse(t)
      BY <1>4, <1>14, <2>1 DEF Closed, Others
    <3>2. \A c \in T : Holders(t, s, c) \subseteq T
      BY <1>10, <1>14, <2>1 DEF Closed
    <3>3. Closed(t, s, T)
      BY <2>3, <3>1, <3>2 DEF Closed
    <3>4. PICK i \in T : Used(s, hd, left, i)
      BY <3>3 DEF Whole, Rooted
    <3>5. i # e /\ i \in S
      BY <2>1
    <3>6. Used(f, hd, left, i)
      BY <1>12, <3>4, <3>5 DEF Used
    <3> QED BY <3>5, <3>6
  <2> QED BY <2>2, <2>3
<1>15. Whole(w, f, hd, left)
  BY <1>13, <1>14 DEF Whole, CountedAtMost, Rooted
<1> QED BY <1>1, <1>15

\* Tables that fit keep fitting.
LEMMA TablesFit ==
    ASSUME NEW t \in Table, Fits(t)
    PROVE  /\ MayOpen(t) => Fits(WithRoom(t))
           /\ \A f : MayOpen(t) => Fits(WithFile(t, f))
           /\ \A i, j \in InUse(t) : Fits(Found(t, i, j))
           /\ \A f \in Files, i \in InUse(t) :
                 MayOpen(t) => Fits(Fresh(WithFile(t, f), i, FirstFree(WithRoom(t))))
           /\ \A e \in InUse(t) : Fits(LessUsed(t, e, t[e].in_use - 1))
<1>1. ASSUME MayOpen(t) PROVE Fits(WithRoom(t))
  <2>1. PICK u : u = WithRoom(t)
    OBVIOUS
  <2>2. u \in Table
    BY <2>1, WithRoomIs
  <2>3. Len(u) <= MaxTable
    BY <1>1, <2>1 DEF MayOpen
  <2>4. DOMAIN u = 1 .. Len(u) /\ Len(u) \in Nat /\ MaxTable \in Nat
    BY <2>2, EntryIs, FilesAssumption
  <2>5. DOMAIN u \subseteq 1 .. MaxTable
    BY <2>3, <2>4
  <2> QED BY <2>1, <2>5 DEF Fits
<1>2. ASSUME MayOpen(t), NEW f PROVE Fits(WithFile(t, f))
  <2>1. DOMAIN WithFile(t, f) = DOMAIN WithRoom(t)
    BY DEF WithFile
  <2> QED BY <1>1, <1>2, <2>1 DEF Fits
<1>3. ASSUME NEW i \in InUse(t), NEW j \in InUse(t) PROVE Fits(Found(t, i, j))
  <2>1. CASE i = j \/ j \in Range(t[i].links)
    <3>1. Found(t, i, j) = t
      BY <2>1, ListedAgain
    <3> QED BY <3>1
  <2>2. CASE i # j /\ j \notin Range(t[i].links)
    <3>1. PICK u : u = Found(t, i, j)
      OBVIOUS
    <3>2. DOMAIN u = DOMAIN t
      BY <2>2, <3>1, FoundIs DEF Lists
    <3> QED BY <3>1, <3>2 DEF Fits
  <2> QED BY <2>1, <2>2
<1>4. ASSUME NEW f \in Files, NEW i \in InUse(t), MayOpen(t)
      PROVE  Fits(Fresh(WithFile(t, f), i, FirstFree(WithRoom(t))))
  <2>1. PICK j : j = FirstFree(WithRoom(t))
    OBVIOUS
  <2>2. PICK w : w = WithFile(t, f)
    OBVIOUS
  <2>3. PICK u : u = Fresh(w, i, j)
    OBVIOUS
  <2>4. w \in Table /\ InUse(w) = InUse(t) \cup {j} /\ j \notin InUse(t)
    BY <2>1, <2>2, WithFileIs
  <2>5. CASE j \in Range(w[i].links)
    <3>1. u = w
      BY <2>3, <2>5 DEF Fresh, LinkAdd
    <3> QED BY <1>2, <1>4, <2>1, <2>2, <2>3, <3>1
  <2>6. CASE j \notin Range(w[i].links)
    <3>1. i \in InUse(w) /\ j \in InUse(w) /\ i # j
      BY <2>4
    <3>2. Lists(u, w, i, j)
      BY <2>3, <2>4, <2>6, <3>1, FreshIs
    <3>3. DOMAIN u = DOMAIN w
      BY <3>2 DEF Lists
    <3> QED BY <1>2, <1>4, <2>1, <2>2, <2>3, <3>3 DEF Fits
  <2> QED BY <2>5, <2>6
<1>5. ASSUME NEW e \in InUse(t) PROVE Fits(LessUsed(t, e, t[e].in_use - 1))
  <2>1. DOMAIN LessUsed(t, e, t[e].in_use - 1) = DOMAIN t \/ LessUsed(t, e, t[e].in_use - 1) = <<>>
    BY DEF LessUsed, FreedIfIdle
  <2>2. DOMAIN <<>> = {}
    OBVIOUS
  <2> QED BY <2>1, <2>2 DEF Fits
<1> QED BY <1>1, <1>2, <1>3, <1>4, <1>5

\* While the counts are those of the users, the files on the stack of a close are
\* different ones, and the file of the next link is yet another.
LEMMA StackIsShort ==
    ASSUME NEW t \in Table, NEW s \in Stacks(t), s # <<>>, NEW hd, NEW left,
           Counted(t, s, hd, left), LastUsers(t, s),
           NEW e, NEW x, NEW child, Closes(t, s, e, x, child)
    PROVE  ~ (DOMAIN t \subseteq 1 .. Len(s))
<1>1. /\ s \in Seq(Activity) /\ Len(s) \in Nat /\ DOMAIN s = 1 .. Len(s)
      /\ \A p \in DOMAIN s : At1(t, s, p)
  BY StackIs
<1>2. /\ x \in DOMAIN t[e].links /\ e \in Holders(t, s, child) /\ child \in InUse(t)
  BY NextIsInUse
<1>3. s[Len(s)].file = e
  BY DEF Closes
<1>4. ASSUME NEW p \in DOMAIN s
      PROVE  /\ s[p].file \in InUse(t) /\ s[p].file \in Nat \ {0} /\ CountOf(t, s[p].file) = 1
  <2>1. s[p].file \in InUse(t) /\ s[p].file \in Nat \ {0} /\ At1(t, s, p)
    BY <1>1 DEF At1
  <2>2. t[s[p].file].links # <<>>
    <3>1. CASE p = Len(s)
      BY <1>2, <1>3, <3>1
    <3>2. CASE p # Len(s)
      <4>1. p < Len(s)
        BY <1>1, <3>2
      <4>2. s[p].next > 1 /\ s[p].next \in 1 .. Len(t[s[p].file].links) + 1
        BY <2>1, <4>1 DEF At1
      <4>3. Len(t[s[p].file].links) # 0
        BY <4>2
      <4>4. Len(<<>>) = 0
        OBVIOUS
      <4> QED BY <4>3, <4>4
    <3> QED BY <3>1, <3>2
  <2>3. t[s[p].file].in_use = 1
    BY <2>2 DEF LastUsers
  <2> QED BY <2>1, <2>3, EntryIs DEF CountOf
<1>5. ASSUME NEW p \in DOMAIN s
      PROVE  /\ s[p].file # child
             /\ \A q \in DOMAIN s : s[q].file = s[p].file => q = p
  <2>1. PICK i : i = s[p].file
    OBVIOUS
  <2>2. Holders(t, s, i) = {} /\ \A q \in DOMAIN s : s[q].file = i => q = p
    BY <1>1, <1>4, <2>1, OnlyUser
  <2> QED BY <1>2, <2>1, <2>2
<1>6. PICK N : N = Len(s)
  OBVIOUS
<1>7. PICK T : T = InUse(t) \ {child}
  OBVIOUS
<1>8. PICK f : f = [p \in 1 .. N |-> s[p].file]
  OBVIOUS
<1>9. f \in Injection(1 .. N, T)
  <2>1. \A p \in 1 .. N : p \in DOMAIN s /\ f[p] = s[p].file
    BY <1>1, <1>6, <1>8
  <2>2. \A p \in 1 .. N : f[p] \in T
    BY <1>4, <1>5, <1>7, <2>1
  <2>3. f \in [1 .. N -> T]
    BY <1>8, <2>2
  <2>4. \A p, q \in 1 .. N : f[p] = f[q] => p = q
    BY <1>5, <2>1
  <2> QED BY <2>3, <2>4 DEF Injection, IsInjective
<1> SUFFICES ASSUME DOMAIN t \subseteq 1 .. N PROVE FALSE
  BY <1>6
<1>10. /\ IsFiniteSet(1 .. N) /\ Cardinality(1 .. N) = N /\ N \in Nat
  BY <1>1, <1>6, FS_Interval
<1>11. /\ IsFiniteSet(InUse(t)) /\ Cardinality(InUse(t)) <= N /\ Cardinality(InUse(t)) \in Nat
  <2>1. InUse(t) \subseteq 1 .. N
    BY EntryIs
  <2>2. IsFiniteSet(InUse(t)) /\ Cardinality(InUse(t)) <= Cardinality(1 .. N)
    BY <1>10, <2>1, FS_Subset
  <2> QED BY <1>10, <2>2, FS_CardinalityType
<1>12. IsFiniteSet(T) /\ Cardinality(T) = Cardinality(InUse(t)) - 1
  <2>1. IsFiniteSet(T)
    BY <1>7, <1>11, FS_Subset
  <2> QED BY <1>2, <1>7, <1>11, <2>1, OneLess
<1>13. Cardinality(1 .. N) <= Cardinality(T)
  BY <1>9, <1>12, FS_Injection
<1> QED BY <1>10, <1>11, <1>12, <1>13

\* What is in use is used, and a close that disturbs no other user ends.
WholeInv ==
    /\ Whole(ADF_file, closing, handle, stranded)
    /\ Fits(ADF_file)
    /\ overflow /\ MaxTable <= StackLimit => torn

LEMMA OpenKeepsWhole ==
    ASSUME Inv, WholeInv, NEW h \in Handle, NEW f \in Files, Open(h, f)
    PROVE  WholeInv'
<1>1. PICK j : j = FirstFree(WithRoom(ADF_file))
  OBVIOUS
<1>2. /\ closing = <<>> /\ handle[h] = 0 /\ MayOpen(ADF_file)
      /\ ADF_file' = WithFile(ADF_file, f) /\ handle' = [handle EXCEPT ![h] = j]
      /\ UNCHANGED <<closing, stranded, torn, overflow>>
  BY <1>1 DEF Open, Idle
<1>3. ADF_file \in Table /\ handle \in [Handle -> Nat]
  BY DEF Inv
<1>4. \A i \in InUse(ADF_file) : Databases(handle, i) \subseteq Databases(handle', i)
  <2>1. \A i \in InUse(ADF_file) : i # 0
    BY <1>3, EntryIs
  <2> QED BY <1>2, <1>3, <2>1 DEF Databases
<1>5. Used(<<>>, handle', stranded, j)
  BY <1>2, <1>3 DEF Used, Databases
<1>6. Whole(ADF_file', <<>>, handle', stranded)
  BY <1>1, <1>2, <1>3, <1>4, <1>5, OpenedIsWhole DEF WholeInv
<1>7. Fits(ADF_file')
  BY <1>2, <1>3, TablesFit DEF WholeInv
<1> QED BY <1>2, <1>6, <1>7 DEF WholeInv

LEMMA OpenFailsKeepsWhole ==
    ASSUME Inv, WholeInv, OpenFails
    PROVE  WholeInv'
<1>1. /\ closing = <<>> /\ MayOpen(ADF_file) /\ ADF_file' = WithRoom(ADF_file)
      /\ UNCHANGED <<handle, closing, stranded, torn, overflow>>
  BY DEF OpenFails, Idle
<1>2. ADF_file \in Table
  BY DEF Inv
<1>3. Whole(ADF_file', closing', handle', stranded')
  BY <1>1, <1>2, RoomIsWhole DEF WholeInv
<1>4. Fits(ADF_file')
  BY <1>1, <1>2, TablesFit DEF WholeInv
<1> QED BY <1>1, <1>3, <1>4 DEF WholeInv

LEMMA CreateFailsKeepsWhole ==
    ASSUME Inv, WholeInv, CreateFails
    PROVE  WholeInv'
<1>1. PICK j : j = FirstFree(WithRoom(ADF_file))
  OBVIOUS
<1>2. /\ closing = <<>> /\ stranded = {} /\ MayOpen(ADF_file)
      /\ ADF_file' = WithFile(ADF_file, NoFile) /\ stranded' = {j}
      /\ UNCHANGED <<handle, closing, torn, overflow>>
  BY <1>1 DEF CreateFails, Idle
<1>3. ADF_file \in Table
  BY DEF Inv
<1>4. Used(<<>>, handle, stranded', j)
  BY <1>2 DEF Used
<1>5. Whole(ADF_file', <<>>, handle, stranded')
  BY <1>1, <1>2, <1>3, <1>4, OpenedIsWhole DEF WholeInv
<1>6. Fits(ADF_file')
  BY <1>2, <1>3, TablesFit DEF WholeInv
<1> QED BY <1>2, <1>5, <1>6 DEF WholeInv

LEMMA ChaseKeepsWhole ==
    ASSUME Inv, WholeInv, NEW i, NEW n \in Node, NEW disk, Chase(i, n, disk)
    PROVE  WholeInv'
<1>1. /\ closing = <<>> /\ i \in InUse(ADF_file) /\ ADF_file[i].name # NoFile
      /\ ADF_file' = Walk(i, n, disk).table
      /\ UNCHANGED <<handle, closing, stranded, torn, overflow>>
  BY Zenon DEF Chase, Idle
<1>2. ADF_file \in Table
  BY DEF Inv
<1>3. PICK P : P = {t \in Table : Whole(t, <<>>, handle, stranded) /\ Fits(t)}
  OBVIOUS
<1>4. ADF_file \in P
  BY <1>1, <1>2, <1>3 DEF WholeInv
<1>5. ASSUME NEW t \in Table, Whole(t, <<>>, handle, stranded), Fits(t), MayOpen(t)
      PROVE  WithRoom(t) \in P
  <2>1. WithRoom(t) \in Table
    BY WithRoomIs
  <2> QED BY <1>3, <1>5, <2>1, RoomIsWhole, TablesFit
<1>6. ASSUME NEW t \in Table, Whole(t, <<>>, handle, stranded), Fits(t),
             NEW k \in InUse(t), NEW m \in InUse(t)
      PROVE  Found(t, k, m) \in P
  <2>1. Found(t, k, m) \in Table
    BY LinkedIs
  <2>2. Whole(Found(t, k, m), <<>>, handle, stranded)
    BY <1>6, FoundIsWhole
  <2> QED BY <1>3, <1>6, <2>1, <2>2, TablesFit
<1>7. ASSUME NEW t \in Table, Whole(t, <<>>, handle, stranded), Fits(t),
             NEW f \in Files, NEW k \in InUse(t), MayOpen(t)
      PROVE  Fresh(WithFile(t, f), k, FirstFree(WithRoom(t))) \in P
  <2>1. PICK m : m = FirstFree(WithRoom(t))
    OBVIOUS
  <2>2. PICK u : u = Fresh(WithFile(t, f), k, m)
    OBVIOUS
  <2>3. u \in Table
    BY <2>1, <2>2, OpenedForLinkIs
  <2>4. Whole(u, <<>>, handle, stranded)
    BY <1>7, <2>1, <2>2, OpenedForLinkIsWhole
  <2>5. Fits(u)
    BY <1>7, <2>1, <2>2, TablesFit
  <2> QED BY <1>3, <2>1, <2>2, <2>3, <2>4, <2>5
<1>8. /\ \A t \in P \cap Table : MayOpen(t) => WithRoom(t) \in P
      /\ \A t \in P \cap Table : \A k, m \in InUse(t) : Found(t, k, m) \in P
      /\ \A t \in P \cap Table : \A f \in Files : \A k \in InUse(t) :
            MayOpen(t) => Fresh(WithFile(t, f), k, FirstFree(WithRoom(t))) \in P
  BY <1>3, <1>5, <1>6, <1>7
<1>9. Walk(i, n, disk).table \in P
  BY <1>1, <1>2, <1>4, <1>8, WalkStays
<1> QED BY <1>1, <1>3, <1>9 DEF WholeInv

LEMMA CloseKeepsWhole ==
    ASSUME Inv, WholeInv, NEW h \in Handle, Close(h)
    PROVE  WholeInv'
<1>1. PICK e : e = handle[h]
  OBVIOUS
<1>2. /\ closing = <<>> /\ ~ overflow /\ handle' = [handle EXCEPT ![h] = 0]
      /\ UNCHANGED <<ADF_file, last_link, stranded, overflow>>
  BY <1>1 DEF Close, Idle
<1>3. ADF_file \in Table /\ handle \in [Handle -> Nat] /\ Whole(ADF_file, <<>>, handle, stranded)
  BY <1>2 DEF Inv, WholeInv
<1>4. CASE e \notin InUse(ADF_file)
  <2>1. closing' = closing
    BY <1>1, <1>4 DEF Close
  <2>2. Whole(ADF_file, <<>>, handle', stranded)
    BY <1>1, <1>2, <1>3, <1>4, GoneIsWhole
  <2> QED BY <1>2, <2>1, <2>2 DEF WholeInv
<1>5. CASE e \in InUse(ADF_file)
  <2>1. closing' = <<Activation(e)>>
    BY <1>1, <1>5 DEF Close
  <2>2. Whole(ADF_file, closing', handle', stranded)
    BY <1>1, <1>2, <1>3, <1>5, <2>1, FirstIsWhole
  <2> QED BY <1>2, <2>2 DEF WholeInv
<1> QED BY <1>4, <1>5

LEMMA CloseLinkKeepsWhole ==
    ASSUME Inv, WholeInv, CloseLink
    PROVE  WholeInv'
<1>1. PICK e : e = Top.file
  OBVIOUS
<1>2. PICK x : x = Top.next
  OBVIOUS
<1>3. PICK child : child = ADF_file[e].links[x]
  OBVIOUS
<1>4. PICK a : a = Advance(closing)
  OBVIOUS
<1>5. /\ closing # <<>> /\ ~ overflow /\ UNCHANGED <<ADF_file, handle, last_link, stranded>>
      /\ \/ /\ child \notin InUse(ADF_file) /\ closing' = a /\ UNCHANGED <<torn, overflow>>
         \/ /\ child \in InUse(ADF_file) /\ Len(closing) = StackLimit
            /\ overflow' = TRUE /\ UNCHANGED <<closing, torn>>
         \/ /\ child \in InUse(ADF_file) /\ closing' = Append(a, Activation(child))
            /\ UNCHANGED overflow
  BY <1>1, <1>2, <1>3, <1>4 DEF CloseLink, Advance, TopLinks
<1>6. /\ ADF_file \in Table /\ closing \in Stacks(ADF_file)
      /\ ~ torn => Counted(ADF_file, closing, handle, stranded) /\ LastUsers(ADF_file, closing)
  BY DEF Inv
<1>7. /\ closing \in Seq(Activity) /\ Len(closing) \in DOMAIN closing /\ At1(ADF_file, closing, Len(closing))
  <2>1. /\ closing \in Seq(Activity) /\ Len(closing) \in Nat /\ DOMAIN closing = 1 .. Len(closing)
        /\ \A p \in DOMAIN closing : At1(ADF_file, closing, p)
    BY <1>6, StackIs
  <2>2. Len(closing) \in DOMAIN closing
    BY <1>5, <2>1, EmptySeq
  <2> QED BY <2>1, <2>2
<1>8. closing[Len(closing)].file = e /\ closing[Len(closing)].next = x
  BY <1>1, <1>2 DEF Top, Last
<1>9. Closes(ADF_file, closing, e, x, child)
  <2>1. ~ (x > Len(ADF_file[e].links))
    BY <1>1, <1>2 DEF CloseLink, AllClosed, TopLinks
  <2>2. e \in InUse(ADF_file) /\ x \in Nat \ {0}
    BY <1>7, <1>8 DEF At1
  <2>3. Len(ADF_file[e].links) \in Nat
    BY <1>6, <2>2, EntryIs
  <2>4. x <= Len(ADF_file[e].links)
    BY <2>1, <2>2, <2>3
  <2> QED BY <1>3, <1>8, <2>4 DEF Closes
<1>10. CASE child \notin InUse(ADF_file) /\ closing' = a /\ UNCHANGED <<torn, overflow>>
  <2>1. /\ DOMAIN a = DOMAIN closing /\ Past(a, closing, x)
    <3>1. /\ DOMAIN a = 1 .. Len(closing) /\ DOMAIN closing = 1 .. Len(closing)
          /\ \A p \in DOMAIN closing : p # Len(closing) => a[p] = closing[p]
          /\ \A p \in DOMAIN closing : a[p].file = closing[p].file
          /\ a[Len(closing)].next = closing[Len(closing)].next + 1
      BY <1>4, <1>5, <1>7, AdvanceIs
    <3> QED BY <1>7, <1>8, <3>1 DEF Past
  <2>2. Whole(ADF_file, a, handle, stranded)
    BY <1>6, <1>9, <1>10, <2>1, PassedIsWhole DEF WholeInv
  <2> QED BY <1>5, <1>10, <2>2 DEF WholeInv
<1>11. CASE /\ child \in InUse(ADF_file) /\ Len(closing) = StackLimit
            /\ overflow' = TRUE /\ UNCHANGED <<closing, torn>>
  <2>1. ASSUME MaxTable <= StackLimit, ~ torn PROVE FALSE
    <3>1. ~ (DOMAIN ADF_file \subseteq 1 .. Len(closing))
      BY <1>5, <1>6, <1>9, <2>1, StackIsShort
    <3>2. 1 .. MaxTable \subseteq 1 .. StackLimit
      BY <2>1, FilesAssumption
    <3> QED BY <1>11, <3>1, <3>2 DEF WholeInv, Fits
  <2> QED BY <1>5, <1>11, <2>1 DEF WholeInv, Inv
<1>12. CASE /\ child \in InUse(ADF_file) /\ closing' = Append(a, Activation(child))
            /\ UNCHANGED overflow
  <2>1. PICK u : u = closing'
    OBVIOUS
  <2>2. u \in Seq(Activity) /\ Pushed(u, closing, x, child)
    BY <1>4, <1>5, <1>6, <1>9, <1>12, <2>1, PushedIsStack
  <2>3. Whole(ADF_file, u, handle, stranded)
    BY <1>6, <1>9, <1>12, <2>2, PushedIsWhole DEF WholeInv
  <2> QED BY <1>5, <1>12, <2>1, <2>3 DEF WholeInv
<1> QED BY <1>5, <1>10, <1>11, <1>12

LEMMA CloseSelfKeepsWhole ==
    ASSUME Inv, WholeInv, CloseSelf
    PROVE  WholeInv'
<1>1. PICK e : e = Top.file
  OBVIOUS
<1>2. /\ closing # <<>> /\ AllClosed
      /\ ADF_file' = LessUsed(ADF_file, e, ADF_file[e].in_use - 1)
      /\ closing' = Front(closing) /\ UNCHANGED <<handle, stranded, torn, overflow>>
  BY <1>1 DEF CloseSelf, LessUsed, UsersLeft
<1>3. ADF_file \in Table /\ closing \in Stacks(ADF_file)
  BY DEF Inv
<1>4. Finished(ADF_file, closing, e)
  <2>1. closing[Len(closing)].file = e /\ closing[Len(closing)].next = Top.next
    BY <1>1 DEF Top, Last
  <2>2. Top.next > Len(ADF_file[e].links)
    BY <1>1, <1>2 DEF AllClosed, TopLinks
  <2>3. Len(closing) \in DOMAIN closing
    BY <1>2, <1>3, StackIs, EmptySeq
  <2>4. At1(ADF_file, closing, Len(closing))
    BY <1>3, <2>3, StackIs
  <2>5. /\ e \in InUse(ADF_file) /\ Top.next \in Nat
        /\ Top.next <= Len(ADF_file[e].links) + 1
    BY <2>1, <2>4 DEF At1
  <2>6. Len(ADF_file[e].links) \in Nat
    BY <1>3, <2>5, EntryIs
  <2>7. Top.next = Len(ADF_file[e].links) + 1
    BY <2>2, <2>5, <2>6
  <2> QED BY <1>2, <2>1, <2>7 DEF Finished
<1>5. e \in InUse(ADF_file)
  BY <1>3, <1>4, FinishedOnce
<1>6. Whole(ADF_file', closing', handle, stranded)
  BY <1>2, <1>3, <1>4, PoppedIsWhole DEF WholeInv
<1>7. Fits(ADF_file')
  BY <1>2, <1>3, <1>5, TablesFit DEF WholeInv
<1> QED BY <1>2, <1>6, <1>7 DEF WholeInv

LEMMA InitIsWhole ==
    ASSUME Init
    PROVE  WholeInv
<1>1. ADF_file = <<>> /\ overflow = FALSE
  BY DEF Init
<1>2. DOMAIN <<>> = {} /\ InUse(<<>>) = {}
  BY DEF InUse
<1>3. Whole(ADF_file, closing, handle, stranded)
  BY <1>1, <1>2 DEF Whole, CountedAtMost, Rooted, Closed
<1> QED BY <1>1, <1>2, <1>3 DEF WholeInv, Fits

\* ADFI_close_file leaves nothing behind.  Whatever files link to each other, also in a
\* circle, and whatever was closed under other users: once the program has closed its
\* databases no entry is in use, unless a creation failed; and with a stack that has room
\* for an activation for each entry of the table, the recursion can lead it round only
\* after a file was closed under other users.
THEOREM ClosesComplete ==
    ASSUME MaxTable <= StackLimit
    PROVE  Spec => []ClosingCompletes
<1>1. Init => WholeInv
  BY InitIsWhole
<1>2. Inv /\ WholeInv /\ [Next]_vars => WholeInv'
  <2> SUFFICES ASSUME Inv, WholeInv, [Next]_vars PROVE WholeInv'
    OBVIOUS
  <2>1. CASE \E h \in Handle, f \in Files : Open(h, f)
    BY <2>1, OpenKeepsWhole
  <2>2. CASE OpenFails
    BY <2>2, OpenFailsKeepsWhole
  <2>3. CASE CreateFails
    BY <2>3, CreateFailsKeepsWhole
  <2>4. CASE \E i \in DOMAIN ADF_file, n \in Node, disk \in {"there", "gone", "refused"} :
                Chase(i, n, disk)
    BY <2>4, ChaseKeepsWhole
  <2>5. CASE \E h \in Handle : Close(h)
    BY <2>5, CloseKeepsWhole
  <2>6. CASE CloseLink
    BY <2>6, CloseLinkKeepsWhole
  <2>7. CASE CloseSelf
    BY <2>7, CloseSelfKeepsWhole
  <2>8. CASE UNCHANGED vars
    BY <2>8 DEF vars, WholeInv
  <2> QED BY <2>1, <2>2, <2>3, <2>4, <2>5, <2>6, <2>7, <2>8 DEF Next
<1>3. Inv /\ WholeInv => ClosingCompletes
  <2> SUFFICES ASSUME Inv, WholeInv, closing = <<>>, stranded = {},
                      \A h \in Handle : handle[h] = 0
               PROVE  InUse(ADF_file) = {}
    BY DEF ClosingCompletes, WholeInv
  <2>1. ADF_file \in Table /\ Rooted(ADF_file, <<>>, handle, {})
    BY DEF Inv, WholeInv, Whole
  <2>2. \A i \in InUse(ADF_file) : ~ Used(<<>>, handle, {}, i)
    <3>1. \A i \in InUse(ADF_file) : i # 0
      BY <2>1, EntryIs
    <3> QED BY <3>1, NoActivations DEF Used, Databases
  <2>3. InUse(ADF_file) # {} => Closed(ADF_file, <<>>, InUse(ADF_file))
    BY DEF Closed, Holders
  <2> QED BY <2>1, <2>2, <2>3 DEF Rooted
<1> QED BY <1>1, <1>2, <1>3, TableIsSound, PTL DEF Spec
=============================================================================
