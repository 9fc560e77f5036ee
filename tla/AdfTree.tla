------------------------------ MODULE AdfTree -------------------------------
(***************************************************************************)
(* The tree of nodes in an ADF file.  Each node has a header on disk with  *)
(* its name, the number of its children and the size and place of its      *)
(* sub-node table, whose entries hold name and place of a child            *)
(* (ADF_internals.h).  A full table is replaced by a larger one; entries   *)
(* behind the number of children are unused.                               *)
(*                                                                         *)
(* The calls that change the tree - ADF_Create, ADF_Delete, ADF_Move_Child,*)
(* ADF_Put_Name - read what they need and then write headers and tables    *)
(* one after the other.  A call puts its writes into `todo`, Write makes   *)
(* the next one, and Stop ends the call before it: a write is refused or   *)
(* the process dies, and what is on disk stays as it is.  A deletion works *)
(* through the children first; its recursion is the stack `deleting`.      *)
(*                                                                         *)
(* A node stands for its place: the file grows by every allocation         *)
(* (ADFI_file_malloc), so a place is never used again, and the table of a  *)
(* node is known by its size, which only grows.  Data, dates and labels,   *)
(* links and the order of bytes inside one write are left out.             *)
(***************************************************************************)
EXTENDS Naturals, Sequences, FiniteSets, SequencesExt, Functions

CONSTANTS
    Name,           \* names of nodes
    Trim,           \* names without the blanks they begin with
    MaxNode,        \* nodes that are ever made, a bound of the model
    ListChunk       \* entries of a first table (LIST_CHUNK)

ASSUME TreeAssumption == MaxNode \in Nat \ {0} /\ ListChunk \in Nat /\ ListChunk > 1
ASSUME TrimAssumption == Trim \in [Name -> Name] /\ \A name \in Name : Trim[Trim[name]] = Trim[name]

VARIABLES
    header,         \* the node headers on disk
    table,          \* the sub-node tables on disk, by node and size
    made,           \* nodes made so far
    todo,           \* the writes the call under way has still to make
    deleting,       \* the activations of ADF_Delete, the innermost last
    doomed,         \* ghost: the nodes the call under way deletes or makes
    misplaced,      \* ghost: a move went where it breaks the tree
    stopped         \* a call was stopped between two writes

vars == <<header, table, made, todo, deleting, doomed, misplaced, stopped>>

Root == 1
RootName == "ADF MotherNode"
Place == 1 .. MaxNode
Blank == [name |-> "unused entry in sub-node-table", node |-> 0]
NewNode(name) == [name |-> name, num |-> 0, entries |-> 0]

Init ==
    /\ header = [n \in {Root} |-> NewNode(RootName)] /\ made = 1
    /\ table = <<>> /\ todo = <<>> /\ deleting = <<>>
    /\ doomed = {} /\ misplaced = FALSE /\ stopped = FALSE

\* No call is under way.  What a program makes of a tree that a stopped call or
\* a misplaced move has left is not followed.
Idle == todo = <<>> /\ deleting = <<>> /\ ~ stopped /\ ~ misplaced

----------------------------------------------------------------------------
(* What the calls read                                                     *)

\* What is on disk, and the children p has there, in the order of its table.
Disk == [header |-> header, table |-> table]
TableOf(d, p) == <<p, d.header[p].entries>>
Children(d, p) ==
    IF TableOf(d, p) \in DOMAIN d.table
    THEN SubSeq(d.table[TableOf(d, p)], 1, d.header[p].num) ELSE <<>>

HasChild(p, name) == \E k \in DOMAIN Children(Disk, p) : Children(Disk, p)[k].name = name

----------------------------------------------------------------------------
(* Writes                                                                  *)

WriteHeader(n, value) == [what |-> "header", at |-> n, value |-> value]
FreeHeader(n) == [what |-> "free header", at |-> n]
WriteTable(t, rows) == [what |-> "table", at |-> t, value |-> rows]
WriteRow(t, k, row) == [what |-> "row", at |-> t, k |-> k, value |-> row]
FreeTable(t) == [what |-> "free table", at |-> t]

With(f, x, value) == [y \in DOMAIN f \cup {x} |-> IF y = x THEN value ELSE f[y]]
Without(f, x) == Restrict(f, DOMAIN f \ {x})

Written(d, w) ==
    CASE w.what = "header" -> [d EXCEPT !.header = With(@, w.at, w.value)]
      [] w.what = "free header" -> [d EXCEPT !.header = Without(@, w.at)]
      [] w.what = "table" -> [d EXCEPT !.table = With(@, w.at, w.value)]
      [] w.what = "row" -> [d EXCEPT !.table[w.at][w.k] = w.value]
      [] w.what = "free table" -> [d EXCEPT !.table = Without(@, w.at)]

\* What is on disk after the writes ws.
AllWritten(d, ws) ==
    LET after[k \in 0 .. Len(ws)] == IF k = 0 THEN d ELSE Written(after[k - 1], ws[k])
    IN  after[Len(ws)]

Grown(entries) == IF entries = 0 THEN ListChunk ELSE (entries * 3) \div 2

\* Mutant: the header keeps the size of the old table.
AddWritesKeepingSize(d, p, n, name) ==
    LET h == d.header[p]
        full == h.entries <= h.num
        size == IF full THEN Grown(h.entries) ELSE h.entries
        rows == Children(d, p) \o [k \in 1 .. size - h.num |-> Blank]
    IN  (IF full THEN <<WriteTable(<<p, size>>, rows)>> ELSE <<>>)
        \o <<WriteRow(<<p, size>>, h.num + 1, [name |-> name, node |-> n]),
             WriteHeader(p, [h EXCEPT !.num = @ + 1])>>

\* ADFI_add_2_sub_node_table: a full table is freed and written again, larger,
\* before the header knows of it.
AddWrites(d, p, n, name) ==
    LET h == d.header[p]
        full == h.entries <= h.num
        size == IF full THEN Grown(h.entries) ELSE h.entries
        rows == Children(d, p) \o [k \in 1 .. size - h.num |-> Blank]
    IN  (IF full /\ h.num > 0 THEN <<FreeTable(TableOf(d, p))>> ELSE <<>>)
        \o (IF full THEN <<WriteTable(<<p, size>>, rows)>> ELSE <<>>)
        \o <<WriteRow(<<p, size>>, h.num + 1, [name |-> name, node |-> n]),
             WriteHeader(p, [h EXCEPT !.num = @ + 1, !.entries = size])>>

\* Mutant: the entry is blanked and the others stay where they are.
RemoveWritesLeavingHole(d, p, n) ==
    LET h == d.header[p]
        t == TableOf(d, p)
        k == SelectInSeq(Children(d, p), LAMBDA row : row.node = n)
    IN  IF k = 0 THEN <<>>
        ELSE <<WriteTable(t, ReplaceAt(d.table[t], k, Blank)),
               WriteHeader(p, [h EXCEPT !.num = @ - 1])>>

\* ADFI_delete_from_sub_node_table: the entries behind that of n move up.
\* Nothing is written for a node that is not among the children.
RemoveWrites(d, p, n) ==
    LET h == d.header[p]
        rows == Children(d, p)
        k == SelectInSeq(rows, LAMBDA row : row.node = n)
        unused == SubSeq(d.table[TableOf(d, p)], h.num + 1, h.entries)
    IN  IF k = 0 THEN <<>>
        ELSE <<WriteTable(TableOf(d, p), RemoveAt(rows, k) \o <<Blank>> \o unused),
               WriteHeader(p, [h EXCEPT !.num = @ - 1])>>

----------------------------------------------------------------------------
(* The calls                                                               *)

\* ADF_Create: the name is checked, and stored, without the blanks it begins with;
\* one the parent has already is refused.
Create(p, name) ==
    /\ Idle /\ made < MaxNode /\ p \in DOMAIN header /\ ~ HasChild(p, Trim[name])
    /\ made' = made + 1
    /\ todo' = <<WriteHeader(made + 1, NewNode(Trim[name]))>>
               \o AddWrites(Disk, p, made + 1, Trim[name])
    /\ doomed' = {made + 1}
    /\ UNCHANGED <<header, table, deleting, misplaced, stopped>>

\* The nodes below p, itself included.
Below(d, p) ==
    LET reached[k \in 0 .. MaxNode] ==
            IF k = 0 THEN {p}
            ELSE reached[k - 1] \cup
                 UNION {{row.node : row \in Range(Children(d, n))} :
                           n \in reached[k - 1] \cap DOMAIN d.header}
    IN  reached[MaxNode] \ {Blank.node}

\* Mutant: n leaves its old parent before it is entered with the new one.
MoveRemovingFirst(p, n, np) ==
    /\ Idle /\ {p, n, np} \subseteq DOMAIN header /\ n # Root
    /\ HasChild(p, header[n].name)
    /\ LET remove == RemoveWrites(Disk, p, n)
       IN  todo' = remove \o AddWrites(AllWritten(Disk, remove), np, n, header[n].name)
    /\ misplaced' = (\/ misplaced \/ np \in Below(Disk, n)
                     \/ np # p /\ HasChild(np, header[n].name)
                     \/ \A row \in Range(Children(Disk, p)) : row.node # n)
    /\ UNCHANGED <<header, table, made, deleting, doomed, stopped>>

\* ADF_Move_Child: p must have a child of the name of n; that it is n, that np
\* has none of that name, and that np is not below n, is not looked at.
Move(p, n, np) ==
    /\ Idle /\ {p, n, np} \subseteq DOMAIN header /\ n # Root
    /\ HasChild(p, header[n].name)
    /\ LET add == AddWrites(Disk, np, n, header[n].name)
       IN  todo' = add \o RemoveWrites(AllWritten(Disk, add), p, n)
    /\ misplaced' = (\/ misplaced \/ np \in Below(Disk, n)
                     \/ np # p /\ HasChild(np, header[n].name)
                     \/ \A row \in Range(Children(Disk, p)) : row.node # n)
    /\ UNCHANGED <<header, table, made, deleting, doomed, stopped>>

\* ADF_Put_Name: n must be the first child of p of its name, and p have none of the
\* new one without its leading blanks; it is stored with them.  The header is
\* written first, then the entry of the table.
PutName(p, n, name) ==
    LET rows == Children(Disk, p)
        k == SelectInSeq(rows, LAMBDA row : row.name = header[n].name)
    IN  /\ Idle /\ {p, n} \subseteq DOMAIN header /\ n # Root
        /\ ~ HasChild(p, Trim[name]) /\ k # 0 /\ rows[k].node = n
        /\ todo' = <<WriteHeader(n, [header[n] EXCEPT !.name = name]),
                     WriteRow(TableOf(Disk, p), k, [name |-> name, node |-> n])>>
        /\ UNCHANGED <<header, table, made, deleting, doomed, misplaced, stopped>>

\* An activation of ADF_Delete: the children n has at its start, and its table.
Activation(p, n) ==
    [parent |-> p, node |-> n, next |-> 1, table |-> TableOf(Disk, n),
     children |-> [k \in DOMAIN Children(Disk, n) |-> Children(Disk, n)[k].node]]

\* ADF_Delete of n, said to be a child of p.
Delete(p, n) ==
    /\ Idle /\ {p, n} \subseteq DOMAIN header /\ n # Root
    /\ Below(Disk, n) \subseteq DOMAIN header /\ p \notin Below(Disk, n)
    /\ deleting' = <<Activation(p, n)>>
    /\ doomed' = Below(Disk, n)
    /\ UNCHANGED <<header, table, made, todo, misplaced, stopped>>

Top == Last(deleting)

\* Its next child is deleted before anything of the node itself.
DeleteChild ==
    /\ todo = <<>> /\ deleting # <<>> /\ ~ stopped
    /\ Top.next <= Len(Top.children)
    /\ deleting' = Append([deleting EXCEPT ![Len(deleting)].next = @ + 1],
                          Activation(Top.node, Top.children[Top.next]))
    /\ UNCHANGED <<header, table, made, todo, doomed, misplaced, stopped>>

\* Mutant: the header is freed before the node leaves its parent.
DeleteWritesHeaderFirst(p, n, t) ==
    <<FreeHeader(n)>> \o RemoveWrites(Disk, p, n)
    \o (IF t[2] > 0 THEN <<FreeTable(t)>> ELSE <<>>)

\* Then it leaves its parent, and its table and its header are freed.
DeleteWrites(p, n, t) ==
    RemoveWrites(Disk, p, n)
    \o (IF t[2] > 0 THEN <<FreeTable(t)>> ELSE <<>>) \o <<FreeHeader(n)>>

\* A node that is no child of p stops the call, with its children gone.
DeleteSelf ==
    /\ todo = <<>> /\ deleting # <<>> /\ ~ stopped
    /\ Top.next > Len(Top.children)
    /\ IF RemoveWrites(Disk, Top.parent, Top.node) = <<>>
       THEN deleting' = <<>> /\ doomed' = {} /\ UNCHANGED todo
       ELSE /\ deleting' = Front(deleting)
            /\ todo' = DeleteWrites(Top.parent, Top.node, Top.table)
            /\ UNCHANGED doomed
    /\ UNCHANGED <<header, table, made, misplaced, stopped>>

Write ==
    /\ todo # <<>> /\ ~ stopped
    /\ header' = Written(Disk, Head(todo)).header
    /\ table' = Written(Disk, Head(todo)).table
    /\ todo' = Tail(todo)
    /\ doomed' = IF Len(todo) = 1 /\ deleting = <<>> THEN {} ELSE doomed
    /\ UNCHANGED <<made, deleting, misplaced, stopped>>

Stop ==
    /\ todo # <<>> /\ ~ stopped
    /\ stopped' = TRUE
    /\ UNCHANGED <<header, table, made, todo, deleting, doomed, misplaced>>

Next ==
    \/ \E p \in Place, name \in Name : Create(p, name)
    \/ \E p \in Place, n \in Place, np \in Place : Move(p, n, np)
    \/ \E p \in Place, n \in Place, name \in Name : PutName(p, n, name)
    \/ \E p \in Place, n \in Place : Delete(p, n)
    \/ DeleteChild \/ DeleteSelf
    \/ Write \/ Stop

Spec == Init /\ [][Next]_vars

----------------------------------------------------------------------------
Header == [name : Name \cup {RootName}, num : Nat, entries : Nat]
Row == [name : Name \cup {Blank.name}, node : Place \cup {Blank.node}]

\* Types: a table has the size its parent's header gives, with room for the
\* children counted there.
TypeOK ==
    /\ DOMAIN header \subseteq 1 .. made /\ Root \in DOMAIN header
    /\ \A n \in DOMAIN header : header[n] \in Header /\ header[n].num <= header[n].entries
    /\ \A t \in DOMAIN table : table[t] \in Seq(Row) /\ Len(table[t]) = t[2]
    /\ made \in Place /\ doomed \subseteq Place
    /\ misplaced \in BOOLEAN /\ stopped \in BOOLEAN

Lists(p, n) == \E row \in Range(Children(Disk, p)) : row.node = n

\* A name that brothers may have in common: ADF_Put_Name looks for it without the
\* blanks it begins with and stores it with them.
MayBeShared(name) == Trim[name] # name

\* Between calls the headers and tables are a tree, through every growth of a
\* table and every hole closed in one: each node but the root is in one list,
\* once and under its own name, which no brother has unless it is one that may be
\* shared; all hang on the root; and there is no table that no header names.
TreeIsSound ==
    Idle =>
        /\ Below(Disk, Root) = DOMAIN header
        /\ \A n \in DOMAIN header \ {Root} : Cardinality({p \in DOMAIN header : Lists(p, n)}) = 1
        /\ \A p \in DOMAIN header :
              LET rows == Children(Disk, p) IN
              /\ \A k \in DOMAIN rows : rows[k].name = header[rows[k].node].name
              /\ \A k, m \in DOMAIN rows : rows[k].node = rows[m].node => k = m
              /\ \A k, m \in DOMAIN rows :
                    rows[k].name = rows[m].name => k = m \/ MayBeShared(rows[k].name)
        /\ DOMAIN table = {TableOf(Disk, p) : p \in {q \in DOMAIN header : header[q].entries > 0}}

\* Wherever a call is stopped, no list names a node that is not there: a node is
\* on disk before it is listed, and is listed no more before it is freed.
ListedIsThere ==
    \A p \in DOMAIN header :
        \A row \in Range(Children(Disk, p)) : row # Blank => row.node \in DOMAIN header

\* The old table of p has been freed and the header does not name the new one.
Replacing(p) == header[p].entries > 0 /\ TableOf(Disk, p) \notin DOMAIN table

\* A call that is stopped takes no nodes with it: what it does not itself delete
\* or make is reached from the root after each of its writes, and a node on the
\* move has both parents for a while.  The exception is the growth of a table:
\* between the freeing of the old one and the header, all children are lost.
OthersAreKept ==
    \/ misplaced
    \/ \E p \in DOMAIN header : Replacing(p)
    \/ DOMAIN header \ doomed \subseteq Below(Disk, Root)
=============================================================================
