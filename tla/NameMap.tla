------------------------------ MODULE NameMap ------------------------------
(***************************************************************************)
(* The hash map of src/src/cg_hashmap.c as a state machine: a caller       *)
(* makes a map of some expected size, sets, deletes and frees.             *)
(***************************************************************************)
EXTENDS HashMap

CONSTANTS Values,    \* positions a caller stores
          Presizes   \* sizes a caller asks for

ASSUME ValuesAssumption == Values \subseteq Nat /\ Presizes \subseteq Nat
\* NULL is told from every index.
ASSUME NullAssumption == \A names \in SUBSET Key : NULL \notin [names -> Nat]

VARIABLE map

MapInit == map = NULL

New(minused) ==
    /\ map = NULL
    /\ map' = NewPresized(minused)

Set(key, value) ==
    /\ map # NULL
    /\ map' = SetItem(map, key, value)

DelShift(key) ==
    /\ map # NULL
    /\ map' = DelShiftItem(map, key)

\* cgi_hashmap_clear followed by the free of the object; only a map that owns
\* its key table may be cleared (ZoneList shows that its callers keep to it).
Clear ==
    /\ map # NULL
    /\ ~ IsStatic(map)
    /\ map' = NULL

MapNext ==
    \/ \E n \in Presizes : New(n)
    \/ \E key \in Key, value \in Values : Set(key, value)
    \/ \E key \in Key : DelShift(key)
    \/ Clear

MapSpec == MapInit /\ [][MapNext]_map

----------------------------------------------------------------------------
LiveIx(m) == {ix \in 0 .. m.nentries - 1 : m.entries[ix].value # -1}

\* Types, and the bookkeeping of the entry array, which balances whatever
\* deletions and resizes came before: indices name entries in use, room left and
\* room used are the whole array, and ma_used counts the entries still live.
MapTypeOK ==
    map # NULL =>
        /\ map.table_size \in {1} \cup TableSizes
        /\ DOMAIN map.indices = 0 .. map.table_size - 1
        /\ \A i \in DOMAIN map.indices :
              map.indices[i] \in {EMPTY, DUMMY} \cup 0 .. map.nentries - 1
        /\ DOMAIN map.entries = 0 .. UsableFraction(map.table_size) - 1
        /\ \A ix \in DOMAIN map.entries :
              map.entries[ix] \in [key : Key \cup {NoKey}, value : Nat \cup {-1}]
        /\ map.usable >= 0
        /\ map.usable + map.nentries = UsableFraction(map.table_size)
        /\ map.used = Cardinality(LiveIx(map))

\* A probe chain is never broken: cgi_name_lookup reaches every live key past
\* the DUMMY slots that deletions left and the slots that insertions reused,
\* so no key can be in the map twice.
EveryKeyIsFound ==
    map # NULL =>
        \A ix \in LiveIx(map) : NameLookup(map, map.entries[ix].key) = ix

\* The probe loops have no other exit than a hit or an EMPTY slot, so a table
\* without an EMPTY slot would hang the lookup of an absent name.  Reusing
\* DUMMY slots and resizing when usable runs out keep one.
AlwaysAnEmptySlot ==
    map # NULL => \E i \in DOMAIN map.indices : map.indices[i] = EMPTY

\* "As long as no item is deleted the insertion order is kept", and deletion
\* and resize keep it too: two live keys never change places in the entries.
Before(m, j, k) ==
    \E a, b \in LiveIx(m) :
        a < b /\ m.entries[a].key = j /\ m.entries[b].key = k
OrderIsKept ==
    [][(map # NULL /\ map' # NULL) =>
          \A j, k \in Key : Before(map, j, k) => ~ Before(map', k, j)]_map

----------------------------------------------------------------------------
\* The map as its callers see it.
Content(m) ==
    [k \in {m.entries[ix].key : ix \in LiveIx(m)} |->
        m.entries[CHOOSE ix \in LiveIx(m) : m.entries[ix].key = k].value]

Abstract == INSTANCE NameIndex WITH
    index <- IF map = NULL THEN NULL ELSE Content(map), Value <- Values

\* What holds of the code whatever the shift of a deletion does: every
\* operation but a deletion changes the mapping exactly as NameIndex says, and a
\* deletion removes the name it is given and no other.
NamesOf(m) == {m.entries[ix].key : ix \in LiveIx(m)}
ImplementsNamesOfIndex ==
    /\ map = NULL
    /\ [][\/ Abstract!Make
          \/ \E k \in Key, v \in Values : Abstract!Put(k, v)
          \/ \E k \in Key : /\ map # NULL /\ map' # NULL
                            /\ k \in NamesOf(map)
                            /\ NamesOf(map') = NamesOf(map) \ {k}
          \/ Abstract!Dispose]_(IF map = NULL THEN NULL ELSE Content(map))
============================================================================
