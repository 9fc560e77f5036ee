----------------------------- MODULE CgioFiles -----------------------------
(***************************************************************************)
(* The table of open database files of the cgio layer, src/src/cgns_io.c:  *)
(* iolist, num_iolist (the length of iolist here) and num_open.  A cgio    *)
(* number is a position in the table; a slot is free when its type is      *)
(* CGIO_FILE_NONE.  The table is allocated by the first open, grows by one *)
(* slot at a time, and is freed when the last file is closed.              *)
(*                                                                         *)
(* Below it are the ADF and HDF5 libraries: backend is the set of root ids *)
(* they hold open.  An open or a close they refuse is a choice here.       *)
(***************************************************************************)
EXTENDS Integers, Sequences, FiniteSets

CONSTANTS InitialSlots,   \* 5 in cgio_open_file
          RootId,         \* identities of databases the backends open
          FileType,       \* CGIO_FILE_ADF, CGIO_FILE_HDF5, ...
          NONE            \* CGIO_FILE_NONE

ASSUME InitialSlotsAssumption == InitialSlots \in Nat \ {0}
ASSUME FileTypeAssumption == NONE \notin FileType

READ == "r"
WRITE == "w"
MODIFY == "m"
Mode == {READ, WRITE, MODIFY}

VARIABLES iolist, num_open, backend, abandoned

cgioVars == <<iolist, num_open, backend, abandoned>>

Slot == [type : FileType \cup {NONE}, mode : Mode, rootid : RootId]

LiveIn(table) == {n \in DOMAIN table : table[n].type # NONE}
Live == LiveIn(iolist)

\* cgio_open_file: malloc of a fresh table whose slots are only marked free.
FreeSlot == [type |-> NONE, mode |-> READ, rootid |-> CHOOSE r \in RootId : TRUE]
Table == IF iolist = <<>> THEN [n \in 1 .. InitialSlots |-> FreeSlot] ELSE iolist

\* The first free slot, or a new one at the end.
FirstFree(table) ==
    CHOOSE n \in 1 .. Len(table) + 1 :
        /\ n \in DOMAIN table => table[n].type = NONE
        /\ \A m \in 1 .. n - 1 : table[m].type # NONE

\* Storing into a slot of the table, or into the one that realloc added.
Store(table, n, slot) ==
    IF n \in DOMAIN table THEN [table EXCEPT ![n] = slot]
                          ELSE Append(table, slot)

\* Closing frees a slot; the mode and root id left in it are abstracted away.
Freed(table, closed) ==
    [m \in DOMAIN table |-> IF m \in closed THEN FreeSlot ELSE table[m]]

\* cgio_open_file, once the backend has opened the database.
OpenFile(r, type, mode) ==
    /\ r \notin backend
    /\ iolist' = Store(Table, FirstFree(Table),
                       [type |-> type, mode |-> mode, rootid |-> r])
    /\ num_open' = num_open + 1
    /\ backend' = backend \cup {r}
    /\ UNCHANGED abandoned

\* cgio_close_file on a slot in use: the slot is freed and, with the last one,
\* the table.  A close the backend refuses changes nothing, and neither does a
\* handle that is out of range or free.
CloseFile(n) ==
    /\ n \in Live
    /\ num_open' = num_open - 1
    /\ iolist' = IF num_open' = 0 THEN <<>> ELSE Freed(iolist, {n})
    /\ backend' = backend \ {iolist[n].rootid}
    /\ UNCHANGED abandoned

\* Mutant: the copy that stays open takes the slot of the file.
CompressKeepsNumber(n, r, closed) ==
    /\ n \in Live
    /\ r \notin backend
    /\ closed = {n}
    /\ iolist' = [iolist EXCEPT ![n] = [type |-> iolist[n].type, mode |-> WRITE, rootid |-> r]]
    /\ backend' = (backend \cup {r}) \ {iolist[n].rootid}
    /\ UNCHANGED <<num_open, abandoned>>

\* cgio_compress_file on the level of the table: rewrite_file opens a second
\* file, which may add a slot, closes it and closes slot n.  Errors of both
\* closes are ignored, so any of the two slots may stay in use (closed is the
\* set of those that were closed).  Slot n is closed when the rewrite fails,
\* too; when the second file cannot be opened that is CloseFile(n).
CompressFile(n, r, closed) ==
    /\ n \in Live
    /\ r \notin backend
    /\ LET temp == FirstFree(iolist)
           copy == [type |-> iolist[n].type, mode |-> WRITE, rootid |-> r]
           both == Store(iolist, temp, copy)
           left == num_open + 1 - Cardinality(closed)
       IN  /\ closed \subseteq {n, temp}
           /\ num_open' = left
           /\ iolist' = IF left = 0 THEN <<>> ELSE Freed(both, closed)
           /\ backend' = (backend \cup {r}) \ {both[m].rootid : m \in closed}
    /\ UNCHANGED abandoned

\* Mutant: the count stays raised.
CleanupKeepsCount(refused) ==
    /\ num_open > 0
    /\ refused \subseteq Live
    /\ iolist' = <<>>
    /\ num_open' = 1
    /\ backend' = backend \ {iolist[n].rootid : n \in Live \ refused}
    /\ abandoned' = abandoned \cup {iolist[n].rootid : n \in refused}

\* cgio_cleanup: num_open is raised by one so that no close frees the table
\* while it is walked; then the table goes, whatever the backend refused.
Cleanup(refused) ==
    /\ num_open > 0
    /\ refused \subseteq Live
    /\ iolist' = <<>>
    /\ num_open' = 0
    /\ backend' = backend \ {iolist[n].rootid : n \in Live \ refused}
    /\ abandoned' = abandoned \cup {iolist[n].rootid : n \in refused}

CgioInit ==
    /\ iolist = <<>>
    /\ num_open = 0
    /\ backend = {}
    /\ abandoned = {}

CgioNext ==
    \/ \E r \in RootId, type \in FileType, mode \in Mode : OpenFile(r, type, mode)
    \/ \E n \in Live : CloseFile(n)
    \/ \E n \in Live, r \in RootId, closed \in SUBSET (1 .. Len(iolist) + 1) :
          CompressFile(n, r, closed)
    \/ \E refused \in SUBSET Live : Cleanup(refused)

CgioSpec == CgioInit /\ [][CgioNext]_cgioVars

----------------------------------------------------------------------------
\* Types: iolist is a table of slots, and cgio_cleanup abandons only databases
\* the backends still hold.
CgioTypeOK ==
    /\ iolist \in Seq(Slot)
    /\ num_open \in Nat
    /\ backend \subseteq RootId
    /\ abandoned \subseteq backend

\* num_open, on which the freeing of the table hangs, never drifts from the
\* number of slots in use: across growth, the temporary file of a rewrite
\* that could not be closed, and the raised count of cgio_cleanup.
OpenCountIsLive == num_open = Cardinality(Live)

\* The table is freed exactly when no file is open, so no slot is read after
\* the free and no table is left behind.
TableFreedWhenIdle == iolist = <<>> <=> num_open = 0

\* Every database a backend holds open is reachable through exactly one slot,
\* except those whose close cgio_cleanup saw refused.
EveryRootHasOneSlot ==
    /\ \A m, n \in Live : iolist[m].rootid = iolist[n].rootid => m = n
    /\ backend = {iolist[n].rootid : n \in Live} \cup abandoned
    /\ {iolist[n].rootid : n \in Live} \cap abandoned = {}

----------------------------------------------------------------------------
\* The handles the callers hold.
Handles == INSTANCE HandleTable WITH
    File <- RootId, open <- [n \in Live |-> iolist[n].rootid]

\* The table implements HandleTable.
ImplementsHandleTable == Handles!Spec
============================================================================
