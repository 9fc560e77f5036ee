------------------------------ MODULE HashMap ------------------------------
(***************************************************************************)
(* The name-to-index hash map of src/src/cg_hashmap.c: an open-addressing  *)
(* table of indices into a compact, insertion-ordered array of entries.    *)
(* Pure operators; NameMap drives them and ZoneList composes them with the *)
(* zone list they index.                                                   *)
(*                                                                         *)
(* A map is a record: table_size, usable (map_usable, the free room left   *)
(* in the entry array), nentries (slots of the entry array ever used),     *)
(* used (ma_used, live items), indices (slot -> entry number, EMPTY or     *)
(* DUMMY) and entries (entry number -> key, value).  The cached me_hash is *)
(* HashOf[key]; a freed entry has value -1.                                *)
(***************************************************************************)
EXTENDS Integers, FiniteSets, Sequences, SequencesExt

CONSTANTS NULL,       \* the null pointer: no map
          Key,        \* the names
          HashOf,     \* cgi_hash_cstr, as the size_t it is cast to
          HashDigits, \* no hash has more digits to the base 32
          NoKey       \* the name "" that a freed entry is given

EMPTY == -1     \* MAPIX_EMPTY
DUMMY == -2     \* MAPIX_DUMMY
MINSIZE == 8    \* MAP_MINSIZE
MaxPresize == 131072

\* perturb, after the shifts of so many rounds.
Perturb(rounds, hash) ==
    LET perturb[n \in 0 .. rounds] == IF n = 0 THEN hash ELSE perturb[n - 1] \div 32
    IN  perturb

\* The tables of the model have 2^18 slots at most, a bound on the number of names.
ASSUME KeyAssumption ==
    NoKey \notin Key /\ IsFiniteSet(Key) /\ 2 * Cardinality(Key) <= MaxPresize
ASSUME HashAssumption ==
    /\ HashDigits \in Nat /\ HashOf \in [Key -> Nat]
    /\ \A key \in Key : Perturb(HashDigits, HashOf[key])[HashDigits] = 0

Freed == [key |-> NoKey, value |-> -1]

UsableFraction(size) == (2 * size) \div 3

(***************************************************************************)
(* cgi_calculate_keysize: 1 << bit_length(((m | 8) - 1) | 7), where        *)
(* 1 << bit_length(d) is the smallest power of two above d.                *)
(***************************************************************************)
TableSizes == {8, 16, 32, 64, 128, 256, 512, 1024, 2048, 4096, 8192, 16384, 32768,
               65536, 131072, 262144}

Or8(m) == IF (m \div 8) % 2 = 1 THEN m ELSE m + 8
Or7(m) == 8 * (m \div 8) + 7

KeySize(minsize) ==
    LET d == Or7(Or8(minsize) - 1)
    IN  CHOOSE s \in TableSizes : s > d /\ s \div 2 <= d

EstimateKeySize(n) == KeySize((n * 3 + 1) \div 2)

(***************************************************************************)
(* Probing.  Walk(size, hash)[n] is the slot looked at in the n-th round   *)
(* of  perturb >>= 5; i = mask & (i * 5 + perturb + 1).  Once perturb is 0 *)
(* the walk visits every slot of a power-of-two table, so a loop that has  *)
(* not stopped after size + HashDigits rounds never stops.                 *)
(***************************************************************************)
Walk(size, hash) ==
    LET perturb == Perturb(size + HashDigits, hash)
        slot[n \in 0 .. size + HashDigits] ==
            IF n = 0 THEN hash % size ELSE (5 * slot[n - 1] + perturb[n] + 1) % size
    IN  slot

FirstSlot(size, hash, Stop(_)) ==
    LET w == Walk(size, hash)
        n == CHOOSE n \in DOMAIN w :
                Stop(w[n]) /\ \A m \in 0 .. n - 1 : ~ Stop(w[m])
    IN  w[n]

\* Mutant: memset of the index table with the byte of DUMMY.
NewKeysDummy(size) ==
    [ table_size |-> size,
      usable     |-> UsableFraction(size),
      nentries   |-> 0,
      used       |-> 0,
      indices    |-> [i \in 0 .. size - 1 |-> DUMMY],
      entries    |-> [i \in 0 .. UsableFraction(size) - 1 |-> Freed] ]

NewKeys(size) ==
    [ table_size |-> size,
      usable     |-> UsableFraction(size),
      nentries   |-> 0,
      used       |-> 0,
      indices    |-> [i \in 0 .. size - 1 |-> EMPTY],
      entries    |-> [i \in 0 .. UsableFraction(size) - 1 |-> Freed] ]

\* The shared static empty_keys_struct: one EMPTY slot and no entry array.
EmptyMap == NewKeys(1)
IsStatic(m) == m.table_size = 1

NewPresized(minused) ==
    CASE minused <= UsableFraction(MINSIZE)    -> EmptyMap
      [] minused > UsableFraction(MaxPresize)  -> NewKeys(MaxPresize)
      [] OTHER                                 -> NewKeys(EstimateKeySize(minused))

\* cgi_name_lookup: the entry number of key, or EMPTY.
NameLookup(m, key) ==
    LET Hit(ix) == ix >= 0 /\ m.entries[ix].key = key
        Stop(i) == m.indices[i] = EMPTY \/ Hit(m.indices[i])
    IN  m.indices[FirstSlot(m.table_size, HashOf[key], Stop)]

\* cgi_index_lookup: the slot that holds entry number ix.
IndexLookup(m, key, ix) ==
    LET Stop(i) == m.indices[i] \in {EMPTY, ix}
    IN  FirstSlot(m.table_size, HashOf[key], Stop)

\* cgi_find_empty_slot stops at a DUMMY slot too and reuses it.
FindEmptySlot(m, key) ==
    LET Stop(i) == m.indices[i] < 0
    IN  FirstSlot(m.table_size, HashOf[key], Stop)

\* Mutant: the entries are copied from the back.
LiveEntriesReversed(m) ==
    LET copied[k \in 0 .. m.nentries] ==
            IF k = 0 THEN <<>>
            ELSE IF m.entries[k - 1].value = -1 THEN copied[k - 1]
            ELSE <<m.entries[k - 1]>> \o copied[k - 1]
    IN  copied[m.nentries]

(***************************************************************************)
(* cgi_resize_hashmap: the live entries are copied in order to the front   *)
(* of a new entry array, then cgi_build_indices re-inserts each of them.   *)
(***************************************************************************)
LiveEntries(m) ==
    LET copied[k \in 0 .. m.nentries] ==
            IF k = 0 THEN <<>>
            ELSE IF m.entries[k - 1].value = -1 THEN copied[k - 1]
            ELSE Append(copied[k - 1], m.entries[k - 1])
    IN  copied[m.nentries]

Placed(size, indices, ix, key) ==
    LET Stop(i) == indices[i] = EMPTY
    IN  [indices EXCEPT ![FirstSlot(size, HashOf[key], Stop)] = ix]

BuildIndices(m, live) ==
    LET built[k \in 0 .. Len(live)] ==
            IF k = 0 THEN m.indices
            ELSE Placed(m.table_size, built[k - 1], k - 1, live[k].key)
    IN  built[Len(live)]

\* Mutant: the room of the new array is not reduced by what was copied.
ResizeKeepsRoom(m, newsize) ==
    LET live  == LiveEntries(m)
        fresh == NewKeys(newsize)
    IN  [ fresh EXCEPT
            !.nentries = m.used,
            !.used     = m.used,
            !.indices  = BuildIndices(fresh, live),
            !.entries  = [i \in DOMAIN @ |->
                            IF i < m.used THEN live[i + 1] ELSE Freed] ]

Resize(m, newsize) ==
    LET live  == LiveEntries(m)
        fresh == NewKeys(newsize)
    IN  [ fresh EXCEPT
            !.usable   = @ - m.used,
            !.nentries = m.used,
            !.used     = m.used,
            !.indices  = BuildIndices(fresh, live),
            !.entries  = [i \in DOMAIN @ |->
                            IF i < m.used THEN live[i + 1] ELSE Freed] ]

InsertionResize(m) == Resize(m, KeySize(2 * m.used))

\* The tail of cgi_insert_key: the new entry goes behind the last one used.
AppendEntry(m, key, value) ==
    [m EXCEPT !.indices[FindEmptySlot(m, key)] = m.nentries,
              !.entries[m.nentries] = [key |-> key, value |-> value],
              !.used = @ + 1, !.usable = @ - 1, !.nentries = @ + 1]

\* Mutant: the value of a key that is there goes to the entry used last.
InsertKeyToLast(m, key, value) ==
    IF NameLookup(m, key) # EMPTY
    THEN [m EXCEPT !.entries[m.nentries - 1].value = value]
    ELSE AppendEntry(IF m.usable <= 0 THEN InsertionResize(m) ELSE m, key, value)

InsertKey(m, key, value) ==
    LET ix == NameLookup(m, key)
    IN  IF ix # EMPTY
        THEN [m EXCEPT !.entries[ix].value = value]
        ELSE AppendEntry(IF m.usable <= 0 THEN InsertionResize(m) ELSE m,
                         key, value)

SetItem(m, key, value) ==
    IF IsStatic(m) THEN AppendEntry(NewKeys(MINSIZE), key, value)
                   ELSE InsertKey(m, key, value)

GetItem(m, key) ==
    LET ix == NameLookup(m, key)
    IN  IF ix = EMPTY THEN -1 ELSE m.entries[ix].value

HasItem(m, key) == NameLookup(m, key) # EMPTY /\ GetItem(m, key) # -1

(***************************************************************************)
(* _cg_del_shift_item_known_hash: free the entry, leave a DUMMY behind,    *)
(* then lower the larger values.  The shift loop runs over the first       *)
(* map_usable entries, map_usable being the room LEFT in the entry array,  *)
(* not over the map_nentries entries in use.  The bound also stays inside  *)
(* the array, since usable <= UsableFraction(table_size).                  *)
(***************************************************************************)
Lowered(entry, old) ==
    IF entry.value > old THEN [entry EXCEPT !.value = @ - 1] ELSE entry

ShiftDown(m, old) ==
    [m EXCEPT !.entries = [i \in DOMAIN @ |->
        IF i < m.usable THEN Lowered(@[i], old) ELSE @[i]]]

\* Mutants: the slot is marked EMPTY, which cuts the probe chains that pass it;
\* the slot goes on naming the freed entry.
DelMarksEmpty(m, key) ==
    IF ~ HasItem(m, key) THEN m
    ELSE LET ix == NameLookup(m, key)
         IN  ShiftDown([m EXCEPT !.indices[IndexLookup(m, key, ix)] = EMPTY,
                                 !.entries[ix] = Freed,
                                 !.used = @ - 1],
                       m.entries[ix].value)

DelShiftItem(m, key) ==
    IF ~ HasItem(m, key) THEN m
    ELSE LET ix   == NameLookup(m, key)
             slot == IndexLookup(m, key, ix)
         IN  ShiftDown([m EXCEPT !.indices[slot] = DUMMY,
                                 !.entries[ix] = Freed,
                                 !.used = @ - 1],
                       m.entries[ix].value)
============================================================================
