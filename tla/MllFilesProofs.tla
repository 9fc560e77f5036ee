--------------------------- MODULE MllFilesProofs ---------------------------
(***************************************************************************)
(* Proofs about the cgio file table and the open files of the mid-level    *)
(* library over it, for any number of initial slots, any files, databases  *)
(* and file types: the bookkeeping of the cgio table is exact and          *)
(* implements the handles of HandleTable; the counts of both are exact     *)
(* under the library's calls, and a file loses its database only by a      *)
(* rewrite that failed.                                                    *)
(***************************************************************************)
EXTENDS MllFiles, FiniteSetTheorems, SequenceTheorems, WellFoundedInduction, TLAPS

----------------------------------------------------------------------------
(* The file table of cgio                                                  *)

\* The search of cgio_open_file ends at a free slot or one past the table.
LEMMA FirstFreeIsFree ==
    ASSUME NEW table \in Seq(Slot)
    PROVE  /\ FirstFree(table) \in 1 .. Len(table) + 1
           /\ FirstFree(table) \notin LiveIn(table)
           /\ \A m \in 1 .. FirstFree(table) - 1 : m \in LiveIn(table)
<1> DEFINE Free == {n \in 1 .. Len(table) + 1 :
                        n \in DOMAIN table => table[n].type = NONE}
<1>1. Len(table) \in Nat /\ DOMAIN table = 1 .. Len(table)
  BY LenProperties
<1>2. Len(table) + 1 \in Free
  BY <1>1
<1>0. Free \subseteq Nat /\ Free # {}
  BY <1>1, <1>2
<1>3. PICK n \in Free : \A m \in Free : ~ (<<m, n>> \in OpToRel(<, Nat))
  <2> HIDE DEF Free
  <2> QED BY <1>0, WFMin, NatLessThanWellFounded, Zenon
<1>4. \A m \in Free : ~ (m < n)
  <2> HIDE DEF Free
  <2> QED BY <1>0, <1>3, Zenon DEF OpToRel
<1>5. \A m \in 1 .. n - 1 : table[m].type # NONE
  BY <1>1, <1>4
<1>6. /\ FirstFree(table) \in 1 .. Len(table) + 1
      /\ FirstFree(table) \in DOMAIN table => table[FirstFree(table)].type = NONE
      /\ \A m \in 1 .. FirstFree(table) - 1 : table[m].type # NONE
  BY <1>1, <1>5 DEF FirstFree
<1> QED BY <1>1, <1>6 DEF LiveIn

\* Storing a file in the slot found adds that slot to the live ones and
\* disturbs no other.
LEMMA StoreAddsOne ==
    ASSUME NEW table \in Seq(Slot),
           NEW slot \in Slot, slot.type # NONE
    PROVE  LET n == FirstFree(table)
               t == Store(table, n, slot)
           IN  /\ t \in Seq(Slot)
               /\ t # <<>>
               /\ n \notin LiveIn(table)
               /\ n \in Nat \ {0}
               /\ LiveIn(t) = LiveIn(table) \cup {n}
               /\ t[n] = slot
               /\ \A m \in LiveIn(table) : t[m] = table[m]
<1> DEFINE n == FirstFree(table)
           t == Store(table, n, slot)
<1>1. Len(table) \in Nat /\ DOMAIN table = 1 .. Len(table)
  BY LenProperties
<1>2. n \in 1 .. Len(table) + 1 /\ n \notin LiveIn(table)
  BY FirstFreeIsFree
<1>3. CASE n \in DOMAIN table
  BY <1>1, <1>2, <1>3 DEF Store, LiveIn
<1>4. CASE n \notin DOMAIN table
  <2>0. n = Len(table) + 1
    <3> HIDE DEF n
    <3> QED BY <1>1, <1>2, <1>4
  <2>1. n = Len(table) + 1 /\ t = Append(table, slot)
    BY <2>0, <1>4, Zenon DEF Store
  <2>2. t \in Seq(Slot) /\ Len(t) = Len(table) + 1
    BY <2>1
  <2>3. \A m \in 1 .. Len(table) : t[m] = table[m]
    BY <1>1, <2>1
  <2>4. t[n] = slot
    BY <1>1, <2>1
  <2>5. DOMAIN t = 1 .. Len(table) + 1
    BY <2>2, LenProperties
  <2>6. LiveIn(t) = LiveIn(table) \cup {n}
    BY <1>1, <2>1, <2>3, <2>4, <2>5 DEF LiveIn
  <2> QED BY <1>1, <1>2, <2>1, <2>2, <2>3, <2>4, <2>5, <2>6 DEF LiveIn
<1> QED BY <1>3, <1>4

\* Closing slots takes exactly those from the live ones.
LEMMA FreedRemoves ==
    ASSUME NEW table \in Seq(Slot), NEW closed, RootId # {}
    PROVE  LET t == Freed(table, closed)
           IN  /\ t \in Seq(Slot)
               /\ Len(t) = Len(table)
               /\ LiveIn(t) = LiveIn(table) \ closed
               /\ \A m \in LiveIn(t) : t[m] = table[m]
<1> DEFINE t == Freed(table, closed)
<1>1. Len(table) \in Nat /\ DOMAIN table = 1 .. Len(table)
  BY LenProperties
<1>2. FreeSlot \in Slot /\ FreeSlot.type = NONE
  BY DEF FreeSlot, Slot, Mode, READ
<1>3. \A m \in 1 .. Len(table) : t[m] \in Slot
  BY <1>1, <1>2 DEF Freed
<1>4. t \in Seq(Slot) /\ Len(t) = Len(table) /\ DOMAIN t = 1 .. Len(table)
  <2>1. t \in [1 .. Len(table) -> Slot]
    BY <1>1, <1>3 DEF Freed
  <2> QED BY <1>1, <2>1
<1> QED BY <1>1, <1>2, <1>4 DEF Freed, LiveIn

LEMMA LiveIsFinite ==
    ASSUME NEW table \in Seq(Slot)
    PROVE  IsFiniteSet(LiveIn(table)) /\ LiveIn(table) \subseteq Nat \ {0}
<1>1. Len(table) \in Nat /\ DOMAIN table = 1 .. Len(table)
  BY LenProperties
<1>2. IsFiniteSet(1 .. Len(table))
  BY <1>1, FS_Interval
<1> QED BY <1>1, <1>2, FS_Subset DEF LiveIn

\* The table an open works on: a fresh one has no live slot.
LEMMA TableIsSound ==
    ASSUME iolist \in Seq(Slot), RootId # {}
    PROVE  Table \in Seq(Slot) /\ LiveIn(Table) = Live
                               /\ \A m \in Live : Table[m] = iolist[m]
<1>1. FreeSlot \in Slot /\ FreeSlot.type = NONE
  BY DEF FreeSlot, Slot, Mode, READ
<1>2. [n \in 1 .. InitialSlots |-> FreeSlot] \in Seq(Slot)
  BY <1>1, InitialSlotsAssumption
<1>3. LiveIn([n \in 1 .. InitialSlots |-> FreeSlot]) = {}
  BY <1>1 DEF LiveIn
<1>4. LiveIn(<<>>) = {}
  BY DEF LiveIn
<1> QED BY <1>2, <1>3, <1>4 DEF Table, Live

----------------------------------------------------------------------------
(***************************************************************************)
(* Every operation makes some table t and then keeps it, or frees it when  *)
(* no slot of it is live.  Rooted says that the slots of t and the root    *)
(* ids b open below account for each other, up to the abandoned ones a.    *)
(***************************************************************************)
RootsOf(t) == {t[n].rootid : n \in LiveIn(t)}

Rooted(t, b, a) ==
    /\ \A m, n \in LiveIn(t) : t[m].rootid = t[n].rootid => m = n
    /\ b = RootsOf(t) \cup a
    /\ RootsOf(t) \cap a = {}

\* The inductive invariant: the four invariants of the runs, which together
\* are inductive.
Inv == CgioTypeOK /\ OpenCountIsLive /\ TableFreedWhenIdle /\ EveryRootHasOneSlot

LEMMA SettledTable ==
    ASSUME NEW t \in Seq(Slot), t # <<>>,
           iolist' = IF num_open' = 0 THEN <<>> ELSE t,
           num_open' = Cardinality(LiveIn(t)),
           backend' \subseteq RootId,
           Rooted(t, backend', abandoned')
    PROVE  Inv' /\ Live' = LiveIn(t) /\ \A n \in Live' : iolist'[n] = t[n]
<1>1. IsFiniteSet(LiveIn(t)) /\ Cardinality(LiveIn(t)) \in Nat
  BY LiveIsFinite, FS_CardinalityType
<1>2. LiveIn(<<>>) = {}
  BY DEF LiveIn
<1>3. num_open' = 0 => LiveIn(t) = {}
  BY <1>1, FS_EmptySet
<1>4. Live' = LiveIn(t)
  BY <1>2, <1>3 DEF Live
<1>5. iolist' \in Seq(Slot)
  OBVIOUS
<1>6. \A n \in Live' : iolist'[n] = t[n]
  BY <1>3, <1>4
<1>7. CgioTypeOK'
  BY <1>1, <1>5 DEF CgioTypeOK, Rooted
<1>8. OpenCountIsLive' /\ TableFreedWhenIdle'
  BY <1>4 DEF OpenCountIsLive, TableFreedWhenIdle
<1>9. EveryRootHasOneSlot'
  BY <1>4, <1>6 DEF EveryRootHasOneSlot, Rooted, RootsOf
<1> QED BY <1>4, <1>6, <1>7, <1>8, <1>9 DEF Inv

LEMMA InitEstablishesInv == CgioInit => Inv
<1> SUFFICES ASSUME CgioInit PROVE Inv
  OBVIOUS
<1>1. Live = {}
  BY DEF CgioInit, Live, LiveIn
<1> QED BY <1>1, FS_EmptySet
        DEF CgioInit, Inv, CgioTypeOK, OpenCountIsLive, TableFreedWhenIdle,
            EveryRootHasOneSlot

\* An open: the slot it takes was free and its root id was not open.
LEMMA OpenFileKeepsInv ==
    ASSUME Inv, NEW r \in RootId, NEW type \in FileType, NEW mode \in Mode,
           OpenFile(r, type, mode)
    PROVE  /\ Inv'
           /\ LET n == FirstFree(Table)
              IN  n \notin Live /\ Live' = Live \cup {n} /\ iolist'[n].rootid = r
           /\ \A m \in Live : iolist'[m] = iolist[m]
<1> DEFINE n == FirstFree(Table)
           slot == [type |-> type, mode |-> mode, rootid |-> r]
           t == Store(Table, n, slot)
<1>1. Table \in Seq(Slot) /\ LiveIn(Table) = Live /\ \A m \in Live : Table[m] = iolist[m]
  BY TableIsSound DEF Inv, CgioTypeOK
<1>2. slot \in Slot /\ slot.type # NONE /\ slot.rootid = r
  BY FileTypeAssumption DEF Slot
<1> HIDE DEF slot
<1>3. /\ t \in Seq(Slot) /\ t # <<>>
      /\ n \notin Live
      /\ LiveIn(t) = Live \cup {n}
      /\ t[n] = slot
      /\ \A m \in Live : t[m] = iolist[m]
  BY <1>1, <1>2, StoreAddsOne
<1>4. iolist' = t /\ num_open' = num_open + 1 /\ backend' = backend \cup {r}
      /\ abandoned' = abandoned /\ r \notin backend
  BY DEF OpenFile, slot
<1> HIDE DEF t, n
<1>5. IsFiniteSet(Live) /\ num_open \in Nat /\ num_open = Cardinality(Live)
  BY LiveIsFinite DEF Inv, CgioTypeOK, OpenCountIsLive, Live
<1>6. num_open' = Cardinality(LiveIn(t)) /\ num_open' # 0
  <2>1. Cardinality(Live \cup {n}) = Cardinality(Live) + 1
    BY <1>3, <1>5, FS_AddElement
  <2> QED BY <1>3, <1>4, <1>5, <2>1
<1>7. Rooted(t, backend', abandoned')
  BY <1>2, <1>3, <1>4 DEF Rooted, RootsOf, Inv, EveryRootHasOneSlot
<1>8. backend' \subseteq RootId
  BY <1>4 DEF Inv, CgioTypeOK
<1>9. Inv' /\ Live' = LiveIn(t) /\ \A m \in Live' : iolist'[m] = t[m]
  BY <1>3, <1>4, <1>6, <1>7, <1>8, SettledTable
<1> QED BY <1>2, <1>3, <1>9 DEF n

LEMMA CloseFileKeepsInv ==
    ASSUME Inv, NEW n \in Live, CloseFile(n)
    PROVE  /\ Inv'
           /\ Live' = Live \ {n}
           /\ \A m \in Live' : iolist'[m] = iolist[m]
<1> DEFINE t == Freed(iolist, {n})
<1>1. iolist \in Seq(Slot) /\ n \in DOMAIN iolist /\ iolist # <<>> /\ Len(iolist) \in Nat
  BY LenProperties DEF Inv, CgioTypeOK, Live, LiveIn
<1>2. iolist[n].rootid \in RootId
  <2>1. iolist[n] \in Slot
    BY <1>1
  <2> QED BY <2>1 DEF Slot
<1>3. /\ t \in Seq(Slot) /\ t # <<>>
      /\ LiveIn(t) = Live \ {n}
      /\ \A m \in LiveIn(t) : t[m] = iolist[m]
  <2>1. RootId # {}
    BY <1>2
  <2>2. /\ t \in Seq(Slot) /\ Len(t) = Len(iolist)
        /\ LiveIn(t) = LiveIn(iolist) \ {n}
        /\ \A m \in LiveIn(t) : t[m] = iolist[m]
    BY <1>1, <2>1, FreedRemoves
  <2>3. t # <<>>
    BY <1>1, <2>2, EmptySeq
  <2> QED BY <2>2, <2>3 DEF Live
<1>4. /\ iolist' = IF num_open' = 0 THEN <<>> ELSE t
      /\ num_open' = num_open - 1 /\ backend' = backend \ {iolist[n].rootid}
      /\ abandoned' = abandoned
  BY DEF CloseFile
<1> HIDE DEF t
<1>5. IsFiniteSet(Live) /\ num_open \in Nat /\ num_open = Cardinality(Live)
  BY LiveIsFinite DEF Inv, CgioTypeOK, OpenCountIsLive, Live
<1>6. num_open' = Cardinality(LiveIn(t))
  BY <1>3, <1>4, <1>5, FS_RemoveElement
<1>7. Rooted(t, backend', abandoned')
  BY <1>3, <1>4 DEF Rooted, RootsOf, Inv, EveryRootHasOneSlot
<1>8. backend' \subseteq RootId
  BY <1>4 DEF Inv, CgioTypeOK
<1>9. Inv' /\ Live' = LiveIn(t) /\ \A m \in Live' : iolist'[m] = t[m]
  BY <1>3, <1>4, <1>6, <1>7, <1>8, SettledTable
<1> QED BY <1>3, <1>9

\* A rewrite: the temporary file takes a free slot beside n, and then any of
\* the two slots is freed.
LEMMA CompressFileKeepsInv ==
    ASSUME Inv, NEW n \in Live, NEW r \in RootId, NEW closed,
           CompressFile(n, r, closed)
    PROVE  /\ Inv'
           /\ LET temp == FirstFree(iolist)
              IN  /\ temp \notin Live
                  /\ closed \subseteq {n, temp}
                  /\ Live' = (Live \cup {temp}) \ closed
                  /\ temp \in Live' => iolist'[temp].rootid = r
           /\ \A m \in Live' \cap Live : iolist'[m] = iolist[m]
<1> DEFINE temp == FirstFree(iolist)
           copy == [type |-> iolist[n].type, mode |-> WRITE, rootid |-> r]
           both == Store(iolist, temp, copy)
           t == Freed(both, closed)
<1>1. iolist \in Seq(Slot) /\ n \in DOMAIN iolist /\ iolist[n].type # NONE
  BY DEF Inv, CgioTypeOK, Live, LiveIn
<1>2. copy \in Slot /\ copy.type # NONE /\ copy.rootid = r
  <2>1. iolist[n] \in Slot
    BY <1>1
  <2> QED BY <1>1, <2>1 DEF Slot, Mode, WRITE
<1> HIDE DEF copy
<1>3. /\ both \in Seq(Slot) /\ both # <<>>
      /\ temp \notin Live
      /\ LiveIn(both) = Live \cup {temp}
      /\ both[temp] = copy
      /\ \A m \in Live : both[m] = iolist[m]
  BY <1>1, <1>2, StoreAddsOne DEF Live
<1>4. /\ closed \subseteq {n, temp}
      /\ num_open' = num_open + 1 - Cardinality(closed)
      /\ iolist' = IF num_open' = 0 THEN <<>> ELSE t
      /\ backend' = (backend \cup {r}) \ {both[m].rootid : m \in closed}
      /\ abandoned' = abandoned /\ r \notin backend
  BY DEF CompressFile, copy
<1> HIDE DEF both, temp
<1>5. /\ t \in Seq(Slot) /\ t # <<>>
      /\ LiveIn(t) = (Live \cup {temp}) \ closed
      /\ \A m \in LiveIn(t) : t[m] = both[m]
  <2>1. /\ t \in Seq(Slot) /\ Len(t) = Len(both)
        /\ LiveIn(t) = LiveIn(both) \ closed
        /\ \A m \in LiveIn(t) : t[m] = both[m]
    BY <1>3, FreedRemoves
  <2>2. t # <<>>
    BY <1>3, <2>1, EmptySeq
  <2> QED BY <1>3, <2>1, <2>2
<1> HIDE DEF t
<1>6. IsFiniteSet(Live) /\ num_open \in Nat /\ num_open = Cardinality(Live)
  BY LiveIsFinite DEF Inv, CgioTypeOK, OpenCountIsLive, Live
<1>7. num_open' = Cardinality(LiveIn(t))
  <2>1. /\ IsFiniteSet(Live \cup {temp})
        /\ Cardinality(Live \cup {temp}) = num_open + 1
    BY <1>3, <1>6, FS_AddElement
  <2>2. closed \subseteq Live \cup {temp}
    BY <1>4
  <2>3. /\ IsFiniteSet(closed)
        /\ IsFiniteSet((Live \cup {temp}) \ closed)
        /\ Cardinality(closed) \in Nat
        /\ Cardinality((Live \cup {temp}) \ closed) \in Nat
    BY <2>1, <2>2, FS_Subset, FS_CardinalityType
  <2> DEFINE rest == (Live \cup {temp}) \ closed
  <2>4. /\ closed \cup rest = Live \cup {temp}
        /\ closed \cap rest = {}
    BY <2>2
  <2>5. Cardinality(closed \cup rest) =
            Cardinality(closed) + Cardinality(rest) - Cardinality(closed \cap rest)
    BY <2>3, FS_Union
  <2> HIDE DEF rest
  <2>6. num_open + 1 = Cardinality(closed) + Cardinality(rest)
    <3>1. Cardinality(closed \cap rest) = 0
      BY <2>4, FS_EmptySet
    <3>2. num_open + 1 = Cardinality(closed) + Cardinality(rest) - 0
      BY <2>1, <2>4, <2>5, <3>1
    <3>3. Cardinality(closed) \in Nat /\ Cardinality(rest) \in Nat
      BY <2>3 DEF rest
    <3> QED BY <3>2, <3>3
  <2>7. num_open' = Cardinality(rest)
    BY <1>4, <1>6, <2>3, <2>6 DEF rest
  <2> QED BY <1>5, <2>7 DEF rest
<1>8. Rooted(t, backend', abandoned')
  BY <1>2, <1>3, <1>4, <1>5, SMTT(60) DEF Rooted, RootsOf, Inv, EveryRootHasOneSlot
<1>9. backend' \subseteq RootId
  BY <1>4 DEF Inv, CgioTypeOK
<1>10. Inv' /\ Live' = LiveIn(t) /\ \A m \in Live' : iolist'[m] = t[m]
  BY <1>4, <1>5, <1>7, <1>8, <1>9, SettledTable
<1> QED BY <1>2, <1>3, <1>4, <1>5, <1>10 DEF temp

LEMMA CleanupKeepsInv ==
    ASSUME Inv, NEW refused, Cleanup(refused)
    PROVE  Inv' /\ Live' = {}
<1>1. Live' = {} /\ iolist' = <<>> /\ num_open' = 0
  BY DEF Cleanup, Live, LiveIn
<1>2. Cardinality(Live') = 0
  BY <1>1, FS_EmptySet
<1>3. backend' = abandoned'
  <2>1. backend = {iolist[n].rootid : n \in Live} \cup abandoned
    BY DEF Inv, EveryRootHasOneSlot
  <2>2. \A m, n \in Live : iolist[m].rootid = iolist[n].rootid => m = n
    BY DEF Inv, EveryRootHasOneSlot
  <2>3. {iolist[n].rootid : n \in Live} \cap abandoned = {}
    BY DEF Inv, EveryRootHasOneSlot
  <2> QED BY <2>1, <2>2, <2>3 DEF Cleanup
<1>4. backend' \subseteq RootId
  BY DEF Cleanup, Inv, CgioTypeOK
<1>5. CgioTypeOK'
  BY <1>1, <1>3, <1>4 DEF CgioTypeOK
<1> QED BY <1>1, <1>2, <1>3, <1>5
        DEF Inv, OpenCountIsLive, TableFreedWhenIdle, EveryRootHasOneSlot

LEMMA NextKeepsInv == Inv /\ [CgioNext]_cgioVars => Inv'
<1> SUFFICES ASSUME Inv, [CgioNext]_cgioVars PROVE Inv'
  OBVIOUS
<1>1. CASE \E r \in RootId, type \in FileType, mode \in Mode : OpenFile(r, type, mode)
  BY <1>1, OpenFileKeepsInv
<1>2. CASE \E n \in Live : CloseFile(n)
  BY <1>2, CloseFileKeepsInv
<1>3. CASE \E n \in Live, r \in RootId, closed \in SUBSET (1 .. Len(iolist) + 1) :
              CompressFile(n, r, closed)
  BY <1>3, CompressFileKeepsInv
<1>4. CASE \E refused \in SUBSET Live : Cleanup(refused)
  BY <1>4, CleanupKeepsInv
<1>5. CASE UNCHANGED cgioVars
  BY <1>5 DEF cgioVars, Inv, CgioTypeOK, OpenCountIsLive, TableFreedWhenIdle,
              EveryRootHasOneSlot, Live, LiveIn
<1> QED BY <1>1, <1>2, <1>3, <1>4, <1>5 DEF CgioNext

\* The bookkeeping of cgns_io.c is exact in every reachable state: num_open
\* counts the slots in use, the table is freed exactly when none is, and every
\* database open below has one slot.
THEOREM TableIsExact ==
    CgioSpec => [](CgioTypeOK /\ OpenCountIsLive /\ TableFreedWhenIdle
                              /\ EveryRootHasOneSlot)
<1>1. CgioInit => Inv
  BY InitEstablishesInv
<1>2. Inv /\ [CgioNext]_cgioVars => Inv'
  BY NextKeepsInv
<1>3. Inv => CgioTypeOK /\ OpenCountIsLive /\ TableFreedWhenIdle /\ EveryRootHasOneSlot
  BY DEF Inv
<1> QED BY <1>1, <1>2, <1>3, PTL DEF CgioSpec

----------------------------------------------------------------------------
HandleMap == [n \in Live |-> iolist[n].rootid]

LEMMA StepIsHandleStep ==
    ASSUME Inv, [CgioNext]_cgioVars
    PROVE  [Handles!Next]_HandleMap
<1>1. ASSUME NEW r \in RootId, NEW type \in FileType, NEW mode \in Mode,
             OpenFile(r, type, mode)
      PROVE  Handles!Next
  <2> DEFINE n == FirstFree(Table)
  <2>1. n \notin Live /\ Live' = Live \cup {n} /\ iolist'[n].rootid = r
        /\ \A m \in Live : iolist'[m] = iolist[m]
    BY <1>1, OpenFileKeepsInv
  <2> HIDE DEF n
  <2>2. Handles!Open(n, r)
    BY <2>1 DEF Handles!Open
  <2>3. n \in Live'
    BY <2>1
  <2> QED BY <2>2, <2>3 DEF Handles!Next
<1>2. ASSUME NEW n \in Live, CloseFile(n)
      PROVE  Handles!Next
  <2>1. Live' = Live \ {n} /\ \A m \in Live' : iolist'[m] = iolist[m]
    BY <1>2, CloseFileKeepsInv
  <2>2. Handles!Close(n)
    BY <2>1 DEF Handles!Close
  <2> QED BY <2>2 DEF Handles!Next
<1>3. ASSUME NEW n \in Live, NEW r \in RootId, NEW closed,
             CompressFile(n, r, closed)
      PROVE  Handles!Next \/ UNCHANGED HandleMap
  <2> DEFINE temp == FirstFree(iolist)
  <2>1. /\ temp \notin Live
        /\ closed \subseteq {n, temp}
        /\ Live' = (Live \cup {temp}) \ closed
        /\ temp \in Live' => iolist'[temp].rootid = r
        /\ \A m \in Live' \cap Live : iolist'[m] = iolist[m]
    BY <1>3, CompressFileKeepsInv
  <2> HIDE DEF temp
  <2>2. CASE n \in closed /\ temp \in closed
    <3>1. Live' = Live \ {n} /\ \A m \in Live' : iolist'[m] = iolist[m]
      BY <2>1, <2>2
    <3>2. Handles!Close(n)
      BY <3>1 DEF Handles!Close
    <3> QED BY <3>2 DEF Handles!Next
  <2>3. CASE n \in closed /\ temp \notin closed
    <3>1. Live' = (Live \cup {temp}) \ {n} /\ temp \in Live'
      BY <2>1, <2>3
    <3>2. Handles!CloseAndLeak(n, temp, r)
      BY <2>1, <3>1 DEF Handles!CloseAndLeak
    <3> QED BY <3>1, <3>2 DEF Handles!Next
  <2>4. CASE n \notin closed /\ temp \in closed
    <3>1. Live' = Live
      BY <2>1, <2>4
    <3> QED BY <2>1, <3>1 DEF HandleMap
  <2>5. CASE n \notin closed /\ temp \notin closed
    <3>1. Live' = Live \cup {temp} /\ temp \in Live'
      BY <2>1, <2>5
    <3>2. Handles!Open(temp, r)
      BY <2>1, <3>1 DEF Handles!Open
    <3> QED BY <3>1, <3>2 DEF Handles!Next
  <2> QED BY <2>2, <2>3, <2>4, <2>5
<1>4. ASSUME NEW refused, Cleanup(refused)
      PROVE  Handles!Next
  <2>1. Live' = {}
    BY <1>4, CleanupKeepsInv
  <2>2. Handles!CloseAll
    BY <2>1 DEF Handles!CloseAll
  <2> QED BY <2>2 DEF Handles!Next
<1>5. CASE UNCHANGED cgioVars
  BY <1>5 DEF cgioVars, HandleMap, Live, LiveIn
<1> QED BY <1>1, <1>2, <1>3, <1>4, <1>5 DEF CgioNext

\* The cgio table gives out handles as HandleTable promises: never one that is
\* in use, and a handle keeps naming its file until that file is closed.
THEOREM TableImplementsHandles == CgioSpec => ImplementsHandleTable
<1>1. CgioInit => Handles!Init
  BY DEF CgioInit, Handles!Init, Live, LiveIn
<1>2. Inv /\ [CgioNext]_cgioVars => [Handles!Next]_HandleMap
  BY StepIsHandleStep
<1>3. CgioInit => Inv
  BY InitEstablishesInv
<1>4. Inv /\ [CgioNext]_cgioVars => Inv'
  BY NextKeepsInv
<1> QED BY <1>1, <1>2, <1>3, <1>4, PTL
        DEF CgioSpec, ImplementsHandleTable, Handles!Spec, HandleMap

----------------------------------------------------------------------------
(* The files of the library                                                *)

\* Files are opened on databases of their own; none shares one with another,
\* closed or not.
RootsDiffer ==
    \A i, j \in DOMAIN cgns_files : cgns_files[i].rootid = cgns_files[j].rootid => i = j

\* The inductive invariant.
FilesInv == Inv /\ TypeOK /\ OpenCountsFiles /\ RootsDiffer

\* The slots in use stay as they are.
Undisturbed == \A n \in Live : n \in Live' /\ iolist'[n] = iolist[n]

----------------------------------------------------------------------------
(* The table under the calls of the library                                *)

\* A slot that is stored free changes no slot in use.
LEMMA StoreFreeSlot ==
    ASSUME NEW table \in Seq(Slot), RootId # {}
    PROVE  LET t == Store(table, FirstFree(table), FreeSlot)
           IN  /\ t \in Seq(Slot)
               /\ t # <<>>
               /\ LiveIn(t) = LiveIn(table)
               /\ \A m \in LiveIn(table) : t[m] = table[m]
<1> DEFINE n == FirstFree(table)
           t == Store(table, n, FreeSlot)
<1>1. Len(table) \in Nat /\ DOMAIN table = 1 .. Len(table)
  BY LenProperties
<1>2. n \in 1 .. Len(table) + 1 /\ n \notin LiveIn(table)
  BY FirstFreeIsFree
<1>3. FreeSlot \in Slot /\ FreeSlot.type = NONE
  BY DEF FreeSlot, Slot, Mode, READ
<1>4. CASE n \in DOMAIN table
  <2>1. t = [table EXCEPT ![n] = FreeSlot]
    BY <1>4 DEF Store
  <2> HIDE DEF n, t
  <2>2. t \in Seq(Slot) /\ DOMAIN t = 1 .. Len(table) /\ Len(table) # 0
    BY <1>1, <1>3, <1>4, <2>1
  <2>3. t[n] = FreeSlot /\ \A m \in 1 .. Len(table) : m # n => t[m] = table[m]
    BY <1>1, <1>4, <2>1
  <2>4. LiveIn(t) = LiveIn(table) /\ \A m \in LiveIn(table) : t[m] = table[m]
    BY <1>1, <1>2, <1>3, <2>2, <2>3 DEF LiveIn
  <2> QED BY <2>2, <2>4 DEF t, n
<1>5. CASE n \notin DOMAIN table
  <2>0. n = Len(table) + 1
    <3> HIDE DEF n
    <3> QED BY <1>1, <1>2, <1>5
  <2>1. t = Append(table, FreeSlot) /\ n = Len(table) + 1
    BY <2>0, <1>5, Zenon DEF Store
  <2>2. t \in Seq(Slot) /\ Len(t) = Len(table) + 1
    BY <1>3, <2>1
  <2>3. DOMAIN t = 1 .. Len(table) + 1
    BY <2>2, LenProperties
  <2>4. (\A m \in 1 .. Len(table) : t[m] = table[m]) /\ t[Len(table) + 1] = FreeSlot
    BY <1>1, <1>3, <2>1
  <2> QED BY <1>1, <1>3, <2>2, <2>3, <2>4 DEF LiveIn
<1> QED BY <1>4, <1>5

\* A database that is opened and closed by one call leaves the table as it was,
\* up to a free slot.
LEMMA OpenAndCloseKeepsInv ==
    ASSUME Inv, OpenAndClose, RootId # {}
    PROVE  Inv' /\ Live' = Live /\ Undisturbed
<1>1. iolist \in Seq(Slot)
  BY DEF Inv, CgioTypeOK
<1>2. CASE num_open = 0
  <2>1. iolist' = iolist /\ UNCHANGED <<num_open, backend, abandoned>>
    BY <1>2 DEF OpenAndClose, Inv, TableFreedWhenIdle
  <2> QED BY <2>1 DEF Inv, CgioTypeOK, OpenCountIsLive, TableFreedWhenIdle,
                      EveryRootHasOneSlot, Live, LiveIn, Undisturbed
<1>3. CASE num_open # 0
  <2> DEFINE t == Store(iolist, FirstFree(iolist), FreeSlot)
  <2>1. iolist' = t /\ UNCHANGED <<num_open, backend, abandoned>>
    BY <1>3 DEF OpenAndClose
  <2>2. t \in Seq(Slot) /\ t # <<>> /\ LiveIn(t) = Live /\ \A m \in Live : t[m] = iolist[m]
    BY <1>1, StoreFreeSlot DEF Live
  <2> HIDE DEF t
  <2>3. Live' = Live
    BY <2>1, <2>2 DEF Live
  <2>4. CgioTypeOK' /\ OpenCountIsLive' /\ TableFreedWhenIdle'
    BY <1>3, <2>1, <2>2, <2>3
       DEF Inv, CgioTypeOK, OpenCountIsLive, TableFreedWhenIdle
  <2>5. EveryRootHasOneSlot'
    BY <2>1, <2>2, <2>3 DEF Inv, EveryRootHasOneSlot
  <2> QED BY <2>1, <2>2, <2>3, <2>4, <2>5 DEF Inv, Undisturbed
<1> QED BY <1>2, <1>3

LEMMA OpenFileIsUndisturbed ==
    ASSUME Inv, NEW r \in RootId, NEW type \in FileType, NEW mode \in Mode,
           OpenFile(r, type, mode)
    PROVE  Inv' /\ Undisturbed
BY OpenFileKeepsInv DEF Undisturbed

LEMMA UnchangedTable ==
    ASSUME Inv, UNCHANGED cgioVars
    PROVE  Inv' /\ Undisturbed
BY DEF cgioVars, Inv, CgioTypeOK, OpenCountIsLive, TableFreedWhenIdle,
       EveryRootHasOneSlot, Live, LiveIn, Undisturbed

----------------------------------------------------------------------------
(* What the calls do to the files                                          *)

LEMMA NewRootIsFree ==
    ASSUME FreeRoots # {}
    PROVE  /\ NewRoot \in RootId /\ NewRoot \notin backend
           /\ \A i \in DOMAIN cgns_files : cgns_files[i].rootid # NewRoot
BY DEF NewRoot, FreeRoots

\* The type a file is opened as is a type.
LEMMA TypesOfOpens ==
    ASSUME TypeOK, NEW name \in FileName, NEW m \in Mode
    PROVE  /\ m = WRITE => FileTypeFor(m) \in FileType
           /\ FileTypeFor(m) \in FileType \cup {NONE}
           /\ disk[name] # Absent => OpensAs(name) \in FileType
<1>1. disk[name] # Absent => disk[name] \in [type : FileType, cgns : BOOLEAN]
  BY DEF TypeOK
<1> QED BY <1>1, MllAssumption DEF TypeOK, FileTypeFor, OpensAs, DefaultType

LEMMA OpenNowIsFinite ==
    ASSUME cgns_files \in Seq(CgnsFile)
    PROVE  /\ IsFiniteSet(OpenNow)
           /\ DOMAIN cgns_files = 1 .. Len(cgns_files) /\ Len(cgns_files) \in Nat
<1>1. Len(cgns_files) \in Nat /\ DOMAIN cgns_files = 1 .. Len(cgns_files)
  BY LenProperties
<1>2. IsFiniteSet(1 .. Len(cgns_files))
  BY <1>1, FS_Interval
<1> QED BY <1>1, <1>2, FS_Subset DEF OpenNow

\* Nothing of the files that the invariant speaks of changes.
LEMMA SameFiles ==
    ASSUME FilesInv, UNCHANGED <<cgns_files, n_open>>
    PROVE  OpenCountsFiles' /\ RootsDiffer'
BY DEF FilesInv, OpenCountsFiles, RootsDiffer, OpenNow

\* A file that is listed is counted, and its database is new.
LEMMA OpenKeepsFilesInv ==
    ASSUME FilesInv, NEW name \in FileName, NEW m \in Mode, NEW complete \in BOOLEAN,
           Open(name, m, complete)
    PROVE  FilesInv' /\ Undisturbed
<1> DEFINE type == IF m = WRITE THEN FileTypeFor(m) ELSE OpensAs(name)
           file == [mode |-> m, cgio |-> FirstFree(Table), rootid |-> NewRoot, deleted |-> 0]
<1>1. NewRoot \in RootId /\ \A i \in DOMAIN cgns_files : cgns_files[i].rootid # NewRoot
  BY NewRootIsFree DEF Open
<1>2. type \in FileType /\ FileTypeFor(m) \in FileType \cup {NONE}
  BY TypesOfOpens DEF Open, FilesInv
<1>3. OpenFile(NewRoot, type, m)
  BY DEF Open
<1>4. Inv' /\ Undisturbed
  BY <1>1, <1>2, <1>3, OpenFileIsUndisturbed DEF FilesInv
<1>5. FirstFree(Table) \in Nat \ {0}
  <2>1. Table \in Seq(Slot)
    BY <1>1, TableIsSound DEF FilesInv, Inv, CgioTypeOK
  <2> QED BY <2>1, FirstFreeIsFree, LenProperties
<1>6. file \in CgnsFile /\ file.rootid = NewRoot /\ file.mode # CLOSED
  BY <1>1, <1>5 DEF CgnsFile, MaxDeleted, Mode, CLOSED, READ, WRITE, MODIFY
<1>7. n_open' = n_open + 1 /\ cgns_files' = Append(cgns_files, file)
  BY DEF Open
<1>8. disk' \in [FileName -> {Absent} \cup [type : FileType, cgns : BOOLEAN]]
  BY <1>2 DEF Open, FilesInv, TypeOK
<1>9. cgns_filetype' \in FileType \cup {NONE} /\ cgns_compress' = cgns_compress
  BY <1>2 DEF Open
<1> HIDE DEF file
<1>10. /\ cgns_files \in Seq(CgnsFile)
       /\ DOMAIN cgns_files = 1 .. Len(cgns_files) /\ Len(cgns_files) \in Nat
       /\ IsFiniteSet(OpenNow) /\ n_open \in Nat /\ n_open = Cardinality(OpenNow)
  BY OpenNowIsFinite DEF FilesInv, TypeOK, OpenCountsFiles
<1>11. /\ cgns_files' \in Seq(CgnsFile)
       /\ DOMAIN cgns_files' = 1 .. Len(cgns_files) + 1
       /\ \A i \in 1 .. Len(cgns_files) : cgns_files'[i] = cgns_files[i]
       /\ cgns_files'[Len(cgns_files) + 1] = file
  <2>1. cgns_files' \in Seq(CgnsFile) /\ Len(cgns_files') = Len(cgns_files) + 1
    BY <1>6, <1>7, <1>10
  <2>2. DOMAIN cgns_files' = 1 .. Len(cgns_files) + 1
    BY <2>1, LenProperties
  <2> QED BY <1>6, <1>7, <1>10, <2>1, <2>2
<1>12. OpenNow' = OpenNow \cup {Len(cgns_files) + 1} /\ Len(cgns_files) + 1 \notin OpenNow
  BY <1>6, <1>10, <1>11 DEF OpenNow
<1>13. OpenCountsFiles'
  <2>1. n_open' = Cardinality(OpenNow')
    BY <1>7, <1>10, <1>12, FS_AddElement
  <2>2. cgns_files' # <<>> /\ n_open' # 0
    BY <1>7, <1>10, <1>11
  <2> QED BY <2>1, <2>2 DEF OpenCountsFiles
<1>14. RootsDiffer'
  BY <1>1, <1>6, <1>10, <1>11 DEF RootsDiffer, FilesInv
<1>15. TypeOK'
  BY <1>4, <1>7, <1>8, <1>9, <1>10, <1>11 DEF TypeOK, Inv, FilesInv
<1> QED BY <1>4, <1>13, <1>14, <1>15 DEF FilesInv

\* A file that is closed is counted no more, and the others stay.
LEMMA ForgetKeepsCounts ==
    ASSUME FilesInv, NEW i, IsOpen(i), Forget(i)
    PROVE  /\ cgns_files' \in Seq(CgnsFile) /\ n_open' \in Nat
           /\ OpenCountsFiles' /\ RootsDiffer'
           /\ i \notin OpenNow'
           /\ \A j \in OpenNow' : j \in OpenNow /\ cgns_files'[j] = cgns_files[j]
<1>1. /\ cgns_files \in Seq(CgnsFile)
      /\ DOMAIN cgns_files = 1 .. Len(cgns_files) /\ Len(cgns_files) \in Nat
      /\ IsFiniteSet(OpenNow) /\ n_open \in Nat /\ n_open = Cardinality(OpenNow)
  BY OpenNowIsFinite DEF FilesInv, TypeOK, OpenCountsFiles
<1>2. i \in OpenNow /\ i \in DOMAIN cgns_files
  BY DEF IsOpen, OpenNow
<1>3. n_open' = Cardinality(OpenNow \ {i}) /\ n_open' \in Nat
  <2>1. n_open' = n_open - 1
    BY DEF Forget
  <2>2. Cardinality(OpenNow \ {i}) = Cardinality(OpenNow) - 1
    BY <1>1, <1>2, FS_RemoveElement
  <2>3. IsFiniteSet(OpenNow \ {i})
    BY <1>1, FS_RemoveElement
  <2>4. Cardinality(OpenNow \ {i}) \in Nat
    BY <2>3, FS_CardinalityType
  <2> QED BY <1>1, <2>1, <2>2, <2>4
<1>4. CASE n_open' = 0
  <2>1. cgns_files' = <<>>
    BY <1>4 DEF Forget
  <2>2. OpenNow' = {}
    BY <2>1 DEF OpenNow
  <2>3. Cardinality(OpenNow') = 0
    BY <2>2, FS_EmptySet
  <2> QED BY <1>4, <2>1, <2>2, <2>3 DEF OpenCountsFiles, RootsDiffer
<1>5. CASE n_open' # 0
  <2>1. cgns_files' = [cgns_files EXCEPT ![i].mode = CLOSED]
    BY <1>5 DEF Forget
  <2>2. cgns_files[i] \in CgnsFile
    BY <1>1, <1>2
  <2>3. /\ cgns_files'[i] \in CgnsFile
        /\ cgns_files'[i].mode = CLOSED /\ cgns_files'[i].rootid = cgns_files[i].rootid
    BY <1>2, <2>1, <2>2 DEF CgnsFile
  <2>4. /\ DOMAIN cgns_files' = DOMAIN cgns_files
        /\ \A j \in DOMAIN cgns_files : j # i => cgns_files'[j] = cgns_files[j]
    BY <2>1
  <2>5. cgns_files' \in Seq(CgnsFile) /\ cgns_files' # <<>>
    <3>1. cgns_files' \in [1 .. Len(cgns_files) -> CgnsFile]
      BY <1>1, <1>2, <2>1, <2>3, <2>4
    <3> QED BY <1>1, <1>2, <3>1
  <2>6. OpenNow' = OpenNow \ {i}
    BY <2>3, <2>4 DEF OpenNow
  <2>7. RootsDiffer'
    BY <1>2, <2>3, <2>4 DEF FilesInv, RootsDiffer
  <2>8. OpenCountsFiles'
    BY <1>3, <1>5, <2>5, <2>6 DEF OpenCountsFiles
  <2>9. \A j \in OpenNow' : j \in OpenNow /\ cgns_files'[j] = cgns_files[j]
    BY <2>4, <2>6 DEF OpenNow
  <2> QED BY <1>3, <2>5, <2>6, <2>7, <2>8, <2>9
<1> QED BY <1>4, <1>5

\* A node that is deleted counts for the next close only.
LEMMA DeleteNodeKeepsFilesInv ==
    ASSUME FilesInv, NEW i, DeleteNode(i)
    PROVE  /\ FilesInv' /\ Undisturbed
           /\ OpenNow' = OpenNow
           /\ \A j \in OpenNow : /\ cgns_files'[j].cgio = cgns_files[j].cgio
                                 /\ cgns_files'[j].rootid = cgns_files[j].rootid
<1>1. /\ cgns_files \in Seq(CgnsFile)
      /\ DOMAIN cgns_files = 1 .. Len(cgns_files) /\ Len(cgns_files) \in Nat
  BY OpenNowIsFinite DEF FilesInv, TypeOK
<1>2. /\ i \in DOMAIN cgns_files
      /\ cgns_files[i].deleted < MaxDeleted
      /\ cgns_files' = [cgns_files EXCEPT ![i].deleted = @ + 1]
      /\ UNCHANGED cgioVars /\ UNCHANGED <<n_open, cgns_filetype, cgns_compress, disk>>
  BY DEF DeleteNode, IsOpen, settings
<1>3. cgns_files[i] \in CgnsFile
  BY <1>1, <1>2
<1>4. /\ cgns_files'[i] \in CgnsFile
      /\ cgns_files'[i].mode = cgns_files[i].mode
      /\ cgns_files'[i].cgio = cgns_files[i].cgio
      /\ cgns_files'[i].rootid = cgns_files[i].rootid
  BY <1>2, <1>3 DEF CgnsFile, MaxDeleted
<1>5. /\ DOMAIN cgns_files' = DOMAIN cgns_files
      /\ \A j \in DOMAIN cgns_files : j # i => cgns_files'[j] = cgns_files[j]
  BY <1>2
<1>6. cgns_files' \in Seq(CgnsFile) /\ cgns_files' # <<>> /\ cgns_files # <<>>
  <2>1. cgns_files' \in [1 .. Len(cgns_files) -> CgnsFile]
    BY <1>1, <1>2, <1>4, <1>5
  <2> QED BY <1>1, <1>2, <2>1
<1>7. OpenNow' = OpenNow
  BY <1>4, <1>5 DEF OpenNow
<1>8. OpenCountsFiles'
  BY <1>2, <1>6, <1>7 DEF FilesInv, OpenCountsFiles
<1>9. RootsDiffer'
  BY <1>2, <1>4, <1>5 DEF FilesInv, RootsDiffer
<1>10. Inv' /\ Undisturbed
  BY <1>2, UnchangedTable DEF FilesInv
<1>11. TypeOK'
  BY <1>2, <1>6, <1>10 DEF FilesInv, TypeOK, Inv
<1> QED BY <1>4, <1>5, <1>7, <1>8, <1>9, <1>10, <1>11 DEF FilesInv, OpenNow

----------------------------------------------------------------------------
(* The close of a file                                                     *)

\* What a close does to the table: slots of its own, at most, are freed.
FreesAtMost(n) == \A m \in Live : m # n => m \in Live' /\ iolist'[m] = iolist[m]

LEMMA CloseDisturbsItsSlotOnly ==
    ASSUME FilesInv, NEW i, Close(i)
    PROVE  Inv' /\ FreesAtMost(cgns_files[i].cgio)
<1> DEFINE n == cgns_files[i].cgio
<1>0. Inv
  BY DEF FilesInv
<1>1. CASE UNCHANGED cgioVars
  BY <1>0, <1>1, UnchangedTable DEF Undisturbed, FreesAtMost
<1>2. CASE CloseFile(n)
  <2> HIDE DEF n
  <2>1. n \in Live
    BY <1>2 DEF CloseFile
  <2>2. Inv' /\ Live' = Live \ {n} /\ \A m \in Live' : iolist'[m] = iolist[m]
    BY <1>0, <1>2, <2>1, CloseFileKeepsInv
  <2>3. FreesAtMost(n)
    BY <2>2 DEF FreesAtMost
  <2> QED BY <2>2, <2>3 DEF n
<1>3. ASSUME FreeRoots # {}, NEW closed, CompressFile(n, NewRoot, closed)
      PROVE  Inv' /\ FreesAtMost(n)
  <2> HIDE DEF n
  <2>1. n \in Live /\ NewRoot \in RootId
    BY <1>3, NewRootIsFree DEF CompressFile
  <2> DEFINE temp == FirstFree(iolist)
  <2>2. /\ Inv' /\ temp \notin Live /\ closed \subseteq {n, temp}
        /\ Live' = (Live \cup {temp}) \ closed
        /\ \A m \in Live' \cap Live : iolist'[m] = iolist[m]
    BY <1>0, <1>3, <2>1, CompressFileKeepsInv
  <2> HIDE DEF temp
  <2> QED BY <2>2 DEF FreesAtMost
<1> QED BY <1>1, <1>2, <1>3 DEF Close

\* Every close keeps the files or forgets the one that is closed.
LEMMA CloseOutcome ==
    ASSUME NEW i, Close(i)
    PROVE  /\ IsOpen(i) /\ UNCHANGED settings /\ UNCHANGED disk
           /\ ret'.file = i /\ ret'.op = "close"
           /\ \/ UNCHANGED <<cgns_files, n_open>> /\ UNCHANGED cgioVars
              \/ UNCHANGED <<cgns_files, n_open>> /\ ~ ret'.ok /\ Rewrites(cgns_files[i])
              \/ Forget(i)
<1>1. IsOpen(i) /\ UNCHANGED settings /\ UNCHANGED disk
  BY DEF Close
<1>2. \/ UNCHANGED cgioVars /\ ret' = Result("close", FALSE, i) /\ Keep
      \/ ret' = Result("close", TRUE, i) /\ Forget(i)
      \/ Rewrites(cgns_files[i]) /\ ret' = Result("close", FALSE, i) /\ Keep
  BY Zenon DEF Close
<1> QED BY <1>1, <1>2 DEF Result, Keep

LEMMA CloseKeepsFilesInv ==
    ASSUME FilesInv, NEW i, Close(i)
    PROVE  FilesInv'
<1>1. Inv'
  BY CloseDisturbsItsSlotOnly
<1>2. UNCHANGED settings /\ UNCHANGED disk /\ IsOpen(i)
  BY CloseOutcome
<1>3. CASE UNCHANGED <<cgns_files, n_open>>
  <2>1. OpenCountsFiles' /\ RootsDiffer'
    BY <1>3, SameFiles
  <2> QED BY <1>1, <1>2, <1>3, <2>1 DEF FilesInv, TypeOK, Inv, settings
<1>4. CASE Forget(i)
  <2>1. cgns_files' \in Seq(CgnsFile) /\ n_open' \in Nat /\ OpenCountsFiles' /\ RootsDiffer'
    BY <1>2, <1>4, ForgetKeepsCounts
  <2> QED BY <1>1, <1>2, <2>1 DEF FilesInv, TypeOK, Inv, settings
<1> QED BY <1>3, <1>4, CloseOutcome

----------------------------------------------------------------------------
(* All calls                                                               *)

\* The settings and the files on disk stay what they may be.
SettingsOK ==
    /\ cgns_filetype \in FileType \cup {NONE}
    /\ cgns_compress \in CompressSettings \cup {0}
    /\ disk \in [FileName -> {Absent} \cup [type : FileType, cgns : BOOLEAN]]

\* The calls that open, test or copy beside the files that are open.
LEMMA OtherCallsKeepSettings ==
    ASSUME FilesInv
    PROVE  /\ \A t \in FileType \cup {NONE} : SetFileType(t) => SettingsOK'
           /\ \A c \in CompressSettings : SetCompress(c) => SettingsOK'
           /\ \A name \in FileName, m \in Mode : OpenRefused(name, m) => SettingsOK'
           /\ \A name \in FileName : IsCgns(name) => SettingsOK'
           /\ \A i \in 1 .. MaxFiles, name \in FileName, t \in FileType \cup {NONE} :
                 SaveAs(i, name, t) => SettingsOK'
<1>1. SettingsOK
  BY DEF FilesInv, TypeOK, SettingsOK
<1>2. ASSUME NEW t \in FileType \cup {NONE}, SetFileType(t) PROVE SettingsOK'
  BY <1>1, <1>2, MllAssumption DEF SetFileType, SettingsOK, DefaultType
<1>3. ASSUME NEW c \in CompressSettings, SetCompress(c) PROVE SettingsOK'
  BY <1>1, <1>3 DEF SetCompress, SettingsOK
<1>4. ASSUME NEW name \in FileName, NEW m \in Mode, OpenRefused(name, m) PROVE SettingsOK'
  <2>1. FileTypeFor(m) \in FileType \cup {NONE}
    BY TypesOfOpens DEF FilesInv
  <2> QED BY <1>1, <1>4, <2>1 DEF OpenRefused, SettingsOK
<1>5. ASSUME NEW name \in FileName, IsCgns(name) PROVE SettingsOK'
  BY <1>1, <1>5 DEF IsCgns, SettingsOK, settings
<1>6. ASSUME NEW i, NEW name \in FileName, NEW t \in FileType \cup {NONE}, SaveAs(i, name, t)
      PROVE  SettingsOK'
  <2> DEFINE type == IF t = NONE THEN cgns_filetype ELSE t
  <2>1. type \in FileType \cup {NONE}
    BY <1>1 DEF SettingsOK
  <2>2. UNCHANGED settings
    BY <1>6 DEF SaveAs
  <2>3. CASE disk' = IF type = NONE THEN disk ELSE [disk EXCEPT ![name] = Absent]
    BY <1>1, <2>2, <2>3 DEF SettingsOK, settings
  <2>4. ASSUME type # NONE, NEW cgns \in BOOLEAN,
               disk' = [disk EXCEPT ![name] = [type |-> type, cgns |-> cgns]]
        PROVE  SettingsOK'
    BY <1>1, <2>1, <2>2, <2>4 DEF SettingsOK, settings
  <2>5. \/ disk' = IF type = NONE THEN disk ELSE [disk EXCEPT ![name] = Absent]
        \/ /\ type # NONE
           /\ \E cgns \in BOOLEAN :
                 disk' = [disk EXCEPT ![name] = [type |-> type, cgns |-> cgns]]
    BY <1>6, Zenon DEF SaveAs
  <2> QED BY <2>3, <2>4, <2>5
<1> QED BY <1>2, <1>3, <1>4, <1>5, <1>6

\* They leave the files alone and take at most a free slot.
LEMMA OtherCallsLeaveFiles ==
    ASSUME FilesInv,
           \/ \E t \in FileType \cup {NONE} : SetFileType(t)
           \/ \E c \in CompressSettings : SetCompress(c)
           \/ \E name \in FileName, m \in Mode : OpenRefused(name, m)
           \/ \E name \in FileName : IsCgns(name)
           \/ \E i \in 1 .. MaxFiles, name \in FileName, t \in FileType \cup {NONE} :
                 SaveAs(i, name, t)
    PROVE  FilesInv' /\ Undisturbed /\ UNCHANGED <<cgns_files, n_open>>
<1>0. Inv
  BY DEF FilesInv
<1>1. UNCHANGED <<cgns_files, n_open>>
  BY DEF SetFileType, SetCompress, OpenRefused, IsCgns, SaveAs
<1>2. SettingsOK'
  BY OtherCallsKeepSettings
<1>3. ASSUME FreeRoots # {}, OpenAndClose PROVE Inv' /\ Undisturbed
  BY <1>0, <1>3, OpenAndCloseKeepsInv, NewRootIsFree
<1>4. ASSUME FreeRoots # {}, NEW type \in FileType, NEW mode \in Mode,
             OpenFile(NewRoot, type, mode)
      PROVE  Inv' /\ Undisturbed
  BY <1>0, <1>4, OpenFileIsUndisturbed, NewRootIsFree
<1>5. ASSUME NEW name \in FileName, IsCgns(name) PROVE Inv' /\ Undisturbed
  <2>1. CASE UNCHANGED cgioVars
    BY <1>0, <2>1, UnchangedTable
  <2>2. CASE disk[name] # Absent /\ FreeRoots # {} /\ OpenFile(NewRoot, disk[name].type, READ)
    <3>1. disk[name] \in [type : FileType, cgns : BOOLEAN]
      BY <2>2 DEF FilesInv, TypeOK
    <3>2. disk[name].type \in FileType /\ READ \in Mode
      BY <3>1 DEF Mode
    <3> QED BY <1>4, <2>2, <3>2
  <2> QED BY <1>3, <1>5, <2>1, <2>2 DEF IsCgns
<1>6. ASSUME NEW i, NEW name \in FileName, NEW t \in FileType \cup {NONE}, SaveAs(i, name, t)
      PROVE  Inv' /\ Undisturbed
  <2> DEFINE type == IF t = NONE THEN cgns_filetype ELSE t
  <2>1. type # NONE => type \in FileType
    BY DEF FilesInv, TypeOK
  <2>2. CASE UNCHANGED cgioVars
    BY <1>0, <2>2, UnchangedTable
  <2>3. CASE type # NONE /\ FreeRoots # {} /\ OpenFile(NewRoot, type, WRITE)
    <3>1. WRITE \in Mode
      BY DEF Mode
    <3> QED BY <1>4, <2>1, <2>3, <3>1
  <2> QED BY <1>3, <1>6, <2>2, <2>3 DEF SaveAs
<1>7. Inv' /\ Undisturbed
  <2>1. CASE UNCHANGED cgioVars
    BY <1>0, <2>1, UnchangedTable
  <2> QED BY <1>5, <1>6, <2>1 DEF SetFileType, SetCompress, OpenRefused
<1>8. OpenCountsFiles' /\ RootsDiffer'
  BY <1>1, SameFiles
<1>9. TypeOK'
  BY <1>1, <1>2, <1>7 DEF FilesInv, TypeOK, Inv, SettingsOK
<1> QED BY <1>1, <1>7, <1>8, <1>9 DEF FilesInv

LEMMA InitFilesInv == Init => FilesInv
<1> SUFFICES ASSUME Init PROVE FilesInv
  OBVIOUS
<1>1. Inv
  BY InitEstablishesInv DEF Init
<1>2. OpenNow = {}
  BY DEF Init, OpenNow
<1>3. Cardinality(OpenNow) = 0
  BY <1>2, FS_EmptySet
<1>4. TypeOK
  BY <1>1 DEF Init, TypeOK, Inv
<1> QED BY <1>1, <1>3, <1>4 DEF Init, FilesInv, OpenCountsFiles, RootsDiffer

\* Without a table and without files: a process that ends or starts.
LEMMA NothingOpen ==
    ASSUME Inv', SettingsOK', cgns_files' = <<>>, n_open' = 0
    PROVE  FilesInv' /\ OpenNow' = {}
<1>1. OpenNow' = {}
  BY DEF OpenNow
<1>2. Cardinality(OpenNow') = 0
  BY <1>1, FS_EmptySet
<1>3. TypeOK'
  BY DEF TypeOK, Inv, SettingsOK
<1> QED BY <1>1, <1>2, <1>3 DEF FilesInv, OpenCountsFiles, RootsDiffer

LEMMA ErrorExitKeepsFilesInv ==
    ASSUME FilesInv, NEW refused, ErrorExit(refused)
    PROVE  FilesInv' /\ OpenNow' = {}
<1>1. Inv'
  BY CleanupKeepsInv DEF ErrorExit, FilesInv
<1>2. SettingsOK'
  BY DEF ErrorExit, FilesInv, TypeOK, SettingsOK, settings
<1> QED BY <1>1, <1>2, NothingOpen DEF ErrorExit

LEMMA RestartKeepsFilesInv ==
    ASSUME FilesInv, Restart
    PROVE  FilesInv' /\ OpenNow' = {}
<1>1. Live' = {}
  BY DEF Restart, Live, LiveIn
<1>2. Cardinality(Live') = 0
  BY <1>1, FS_EmptySet
<1>3. Inv'
  BY <1>1, <1>2 DEF Restart, Inv, CgioTypeOK, OpenCountIsLive, TableFreedWhenIdle,
                    EveryRootHasOneSlot
<1>4. SettingsOK'
  BY DEF Restart, FilesInv, TypeOK, SettingsOK
<1> QED BY <1>3, <1>4, NothingOpen DEF Restart

\* The calls by what they may do to an open file.
BesideOpenFiles ==
    \/ \E t \in FileType \cup {NONE} : SetFileType(t)
    \/ \E c \in CompressSettings : SetCompress(c)
    \/ \E name \in FileName, m \in Mode : OpenRefused(name, m)
    \/ \E name \in FileName : IsCgns(name)
    \/ \E i \in 1 .. MaxFiles, name \in FileName, t \in FileType \cup {NONE} :
          SaveAs(i, name, t)

LEMMA StepCases ==
    ASSUME Next
    PROVE  \/ BesideOpenFiles
           \/ \E name \in FileName, m \in Mode, complete \in BOOLEAN : Open(name, m, complete)
           \/ \E i \in 1 .. MaxFiles : DeleteNode(i)
           \/ \E i \in 1 .. MaxFiles : Close(i)
           \/ \E refused : ErrorExit(refused)
           \/ Restart
BY DEF Next, Call, BesideOpenFiles

LEMMA NextKeepsFilesInv == FilesInv /\ [Next]_vars => FilesInv'
<1> SUFFICES ASSUME FilesInv, [Next]_vars PROVE FilesInv'
  OBVIOUS
<1>1. CASE BesideOpenFiles
  BY <1>1, OtherCallsLeaveFiles DEF BesideOpenFiles
<1>2. CASE \E name \in FileName, m \in Mode, complete \in BOOLEAN : Open(name, m, complete)
  BY <1>2, OpenKeepsFilesInv
<1>3. CASE \E i \in 1 .. MaxFiles : DeleteNode(i)
  BY <1>3, DeleteNodeKeepsFilesInv
<1>4. CASE \E i \in 1 .. MaxFiles : Close(i)
  BY <1>4, CloseKeepsFilesInv
<1>5. CASE \E refused : ErrorExit(refused)
  BY <1>5, ErrorExitKeepsFilesInv
<1>6. CASE Restart
  BY <1>6, RestartKeepsFilesInv
<1>7. CASE UNCHANGED vars
  <2>1. UNCHANGED cgioVars /\ UNCHANGED <<cgns_files, n_open, cgns_filetype, cgns_compress, disk>>
    BY <1>7 DEF vars, mllVars
  <2>2. Inv'
    BY <2>1, UnchangedTable DEF FilesInv
  <2>3. OpenCountsFiles' /\ RootsDiffer'
    BY <2>1, SameFiles
  <2> QED BY <2>1, <2>2, <2>3 DEF FilesInv, TypeOK, Inv
<1> QED BY <1>1, <1>2, <1>3, <1>4, <1>5, <1>6, <1>7, StepCases

\* n_open counts the files that are open and cgns_files lives as long as one
\* is, and the table below keeps its own count and one slot for each database,
\* for any files and settings and wherever an open or a close fails.
THEOREM CountsAreExact ==
    Spec => [](TypeOK /\ OpenCountsFiles /\ OpenCountIsLive /\ EveryRootHasOneSlot)
<1>1. Init => FilesInv
  BY InitFilesInv
<1>2. FilesInv /\ [Next]_vars => FilesInv'
  BY NextKeepsFilesInv
<1>3. FilesInv => TypeOK /\ OpenCountsFiles /\ OpenCountIsLive /\ EveryRootHasOneSlot
  BY DEF FilesInv, Inv
<1> QED BY <1>1, <1>2, <1>3, PTL DEF Spec

----------------------------------------------------------------------------
(* Files and their databases                                               *)

\* A file whose slot is not disturbed keeps its database.
LEMMA UndisturbedOwns ==
    ASSUME NEW i, Owns(i),
           cgns_files[i].cgio \in Live',
           iolist'[cgns_files[i].cgio] = iolist[cgns_files[i].cgio],
           cgns_files'[i].cgio = cgns_files[i].cgio,
           cgns_files'[i].rootid = cgns_files[i].rootid
    PROVE  Owns(i)'
BY DEF Owns

\* A close disturbs another file only if that file has the slot that the one
\* to be closed has lost.
LEMMA CloseKeepsOwners ==
    ASSUME FilesInv, NEW i \in OpenNow, Owns(i), i \in OpenNow', ~ Owns(i)',
           NEW j, Close(j)
    PROVE  /\ ret'.op = "close"
           /\ IF ret'.file = i THEN ~ ret'.ok /\ Rewrites(cgns_files[i]) ELSE ~ Owns(ret'.file)
<1>1. ret'.op = "close" /\ ret'.file = j /\ IsOpen(j)
  BY CloseOutcome
<1>2. cgns_files'[i] = cgns_files[i] /\ (Forget(j) => i # j)
  BY CloseOutcome, ForgetKeepsCounts
<1>3. CASE i = j
  <2>1. ~ Forget(j)
    BY <1>2, <1>3
  <2>2. ~ UNCHANGED cgioVars
    BY <1>2, UnchangedTable, UndisturbedOwns DEF Undisturbed, FilesInv, Owns
  <2> QED BY <1>1, <1>3, <2>1, <2>2, CloseOutcome
<1>4. CASE i # j
  <2>1. cgns_files[i].rootid # cgns_files[j].rootid
    BY <1>1, <1>4 DEF FilesInv, RootsDiffer, IsOpen, OpenNow
  <2>2. cgns_files[i].cgio = cgns_files[j].cgio
    <3> SUFFICES ASSUME cgns_files[i].cgio # cgns_files[j].cgio PROVE FALSE
      OBVIOUS
    <3>1. FreesAtMost(cgns_files[j].cgio)
      BY CloseDisturbsItsSlotOnly
    <3> QED BY <1>2, <3>1, UndisturbedOwns DEF FreesAtMost, Owns
  <2>3. ~ Owns(j)
    BY <2>1, <2>2 DEF Owns
  <2> QED BY <1>1, <1>4, <2>3
<1> QED BY <1>3, <1>4

LEMMA StepKeepsOwners ==
    ASSUME FilesInv, [Next]_vars, NEW i \in OpenNow, Owns(i), i \in OpenNow', ~ Owns(i)'
    PROVE  /\ ret'.op = "close"
           /\ IF ret'.file = i THEN ~ ret'.ok /\ Rewrites(cgns_files[i]) ELSE ~ Owns(ret'.file)
<1>0. cgns_files[i].cgio \in Live
  BY DEF Owns
<1>1. CASE BesideOpenFiles
  <2>1. Undisturbed /\ UNCHANGED cgns_files
    BY <1>1, OtherCallsLeaveFiles DEF BesideOpenFiles
  <2> QED BY <1>0, <2>1, UndisturbedOwns DEF Undisturbed
<1>2. ASSUME NEW name \in FileName, NEW m \in Mode, NEW complete \in BOOLEAN,
             Open(name, m, complete)
      PROVE  FALSE
  <2>1. Undisturbed
    BY <1>2, OpenKeepsFilesInv
  <2>2. cgns_files'[i] = cgns_files[i]
    <3>1. i \in 1 .. Len(cgns_files) /\ cgns_files \in Seq(CgnsFile)
      BY OpenNowIsFinite DEF FilesInv, TypeOK, OpenNow
    <3>2. PICK file : cgns_files' = Append(cgns_files, file)
      BY <1>2 DEF Open
    <3> QED BY <3>1, <3>2
  <2> QED BY <1>0, <2>1, <2>2, UndisturbedOwns DEF Undisturbed
<1>3. ASSUME NEW j, DeleteNode(j) PROVE FALSE
  BY <1>0, <1>3, DeleteNodeKeepsFilesInv, UndisturbedOwns DEF Undisturbed
<1>4. CASE \E j \in 1 .. MaxFiles : Close(j)
  BY <1>4, CloseKeepsOwners
<1>5. CASE \E refused : ErrorExit(refused)
  BY <1>5, ErrorExitKeepsFilesInv
<1>6. CASE Restart
  BY <1>6, RestartKeepsFilesInv
<1>7. CASE UNCHANGED vars
  <2>1. UNCHANGED cgioVars /\ UNCHANGED cgns_files
    BY <1>7 DEF vars, mllVars
  <2>2. Undisturbed
    BY <2>1, UnchangedTable DEF FilesInv
  <2> QED BY <1>0, <2>1, <2>2, UndisturbedOwns DEF Undisturbed
<1> QED BY <1>1, <1>2, <1>3, <1>4, <1>5, <1>6, <1>7, StepCases

\* A file loses its database only by its own close failing after a rewrite, or
\* by the close of a file that has lost its own: no open, test, copy or close
\* of another file takes it away, in any table and for any number of files.
THEOREM FilesKeepTheirDatabases == Spec => SlotLostByFailedRewriteOnly
<1>1. Init => FilesInv
  BY InitFilesInv
<1>2. FilesInv /\ [Next]_vars => FilesInv'
  BY NextKeepsFilesInv
<1>3. FilesInv /\ [Next]_vars =>
        \A i \in OpenNow :
          (Owns(i) /\ i \in OpenNow' /\ ~ Owns(i)') =>
              /\ ret'.op = "close"
              /\ IF ret'.file = i THEN ~ ret'.ok /\ Rewrites(cgns_files[i])
                                  ELSE ~ Owns(ret'.file)
  BY StepKeepsOwners
<1> QED BY <1>1, <1>2, <1>3, PTL DEF Spec, SlotLostByFailedRewriteOnly

----------------------------------------------------------------------------
(* The handles                                                             *)

\* On the level of the table every step but the start of a process is one of
\* CgioFiles, or opens and closes a database in between.
LEMMA StepsOnTheTable ==
    ASSUME FilesInv, [Next]_vars
    PROVE  \/ [CgioNext]_cgioVars
           \/ OpenAndClose /\ RootId # {}
           \/ Restart
<1>1. ASSUME FreeRoots # {}, NEW type \in FileType, NEW mode \in Mode,
             OpenFile(NewRoot, type, mode)
      PROVE  CgioNext
  BY <1>1, NewRootIsFree DEF CgioNext
<1>2. ASSUME NEW name \in FileName, IsCgns(name)
      PROVE  [CgioNext]_cgioVars \/ (OpenAndClose /\ RootId # {})
  <2>1. CASE disk[name] # Absent /\ FreeRoots # {} /\ OpenFile(NewRoot, disk[name].type, READ)
    <3>1. disk[name] \in [type : FileType, cgns : BOOLEAN]
      BY <2>1 DEF FilesInv, TypeOK
    <3>2. disk[name].type \in FileType /\ READ \in Mode
      BY <3>1 DEF Mode
    <3> QED BY <1>1, <2>1, <3>2
  <2>2. FreeRoots # {} => RootId # {}
    BY DEF FreeRoots
  <2> QED BY <1>2, <2>1, <2>2 DEF IsCgns
<1>3. ASSUME NEW i, NEW name \in FileName, NEW t \in FileType \cup {NONE}, SaveAs(i, name, t)
      PROVE  [CgioNext]_cgioVars \/ (OpenAndClose /\ RootId # {})
  <2> DEFINE type == IF t = NONE THEN cgns_filetype ELSE t
  <2>1. CASE type # NONE /\ FreeRoots # {} /\ OpenFile(NewRoot, type, WRITE)
    <3>1. type \in FileType /\ WRITE \in Mode
      BY <2>1 DEF FilesInv, TypeOK, Mode
    <3> QED BY <1>1, <2>1, <3>1
  <2>2. FreeRoots # {} => RootId # {}
    BY DEF FreeRoots
  <2> QED BY <1>3, <2>1, <2>2 DEF SaveAs
<1>4. CASE BesideOpenFiles
  BY <1>2, <1>3, <1>4 DEF BesideOpenFiles, SetFileType, SetCompress, OpenRefused
<1>5. ASSUME NEW name \in FileName, NEW m \in Mode, NEW complete \in BOOLEAN,
             Open(name, m, complete)
      PROVE  CgioNext
  <2> DEFINE type == IF m = WRITE THEN FileTypeFor(m) ELSE OpensAs(name)
  <2>1. type \in FileType
    BY <1>5, TypesOfOpens DEF Open, FilesInv
  <2>2. OpenFile(NewRoot, type, m) /\ FreeRoots # {}
    BY <1>5 DEF Open
  <2> QED BY <1>1, <2>1, <2>2
<1>6. ASSUME NEW j, Close(j) PROVE [CgioNext]_cgioVars
  <2> DEFINE n == cgns_files[j].cgio
  <2>1. \/ UNCHANGED cgioVars
        \/ CloseFile(n)
        \/ /\ FreeRoots # {}
           /\ \E closed \in SUBSET (1 .. Len(iolist) + 1) : CompressFile(n, NewRoot, closed)
    BY <1>6, Zenon DEF Close
  <2>2. CloseFile(n) => n \in Live
    BY DEF CloseFile
  <2>3. \A closed : CompressFile(n, NewRoot, closed) => n \in Live
    BY DEF CompressFile
  <2>4. FreeRoots # {} => NewRoot \in RootId
    BY NewRootIsFree
  <2> HIDE DEF n
  <2> QED BY <2>1, <2>2, <2>3, <2>4 DEF CgioNext
<1>7. ASSUME NEW refused, ErrorExit(refused) PROVE CgioNext
  <2>1. Cleanup(refused) /\ refused \in SUBSET Live
    BY <1>7 DEF ErrorExit, Cleanup
  <2> QED BY <2>1 DEF CgioNext
<1>8. ASSUME NEW i, DeleteNode(i) PROVE UNCHANGED cgioVars
  BY <1>8 DEF DeleteNode
<1>9. CASE UNCHANGED vars
  BY <1>9 DEF vars
<1> QED BY <1>4, <1>5, <1>6, <1>7, <1>8, <1>9, StepCases

LEMMA FilesStepIsHandleStep ==
    ASSUME FilesInv, [Next]_vars
    PROVE  [Handles!Next]_HandleMap
<1>0. Inv
  BY DEF FilesInv
<1>1. CASE [CgioNext]_cgioVars
  BY <1>0, <1>1, StepIsHandleStep
<1>2. CASE OpenAndClose /\ RootId # {}
  <2>1. Live' = Live /\ \A n \in Live : iolist'[n] = iolist[n]
    BY <1>0, <1>2, OpenAndCloseKeepsInv DEF Undisturbed
  <2> QED BY <2>1 DEF HandleMap
<1>3. CASE Restart
  <2>1. Live' = {}
    BY <1>3 DEF Restart, Live, LiveIn
  <2>2. Handles!CloseAll
    BY <2>1 DEF Handles!CloseAll
  <2> QED BY <2>2 DEF Handles!Next
<1> QED BY <1>1, <1>2, <1>3, StepsOnTheTable

\* Through everything the mid-level library does with it, the table of cgio
\* keeps to HandleTable: a number in use is not given out again, and names its
\* database until a call closes it.
THEOREM FilesImplementHandles == Spec => ImplementsHandleTable
<1>1. Init => Handles!Init
  BY DEF Init, CgioInit, Handles!Init, Live, LiveIn
<1>2. FilesInv /\ [Next]_vars => [Handles!Next]_HandleMap
  BY FilesStepIsHandleStep
<1>3. Init => FilesInv
  BY InitFilesInv
<1>4. FilesInv /\ [Next]_vars => FilesInv'
  BY NextKeepsFilesInv
<1> QED BY <1>1, <1>2, <1>3, <1>4, PTL
        DEF Spec, ImplementsHandleTable, Handles!Spec, HandleMap
=============================================================================
