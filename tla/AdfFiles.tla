------------------------------ MODULE AdfFiles ------------------------------
(***************************************************************************)
(* The table of open files of the ADF library (ADF_file of                 *)
(* ADF_internals.c) and the files that links open behind it.               *)
(*                                                                         *)
(* ADF_Database_Open takes an entry for every call, also for a name that   *)
(* is open already.  A node that is a link is chased: the file it names is *)
(* taken from the table or opened, and the file that holds the link        *)
(* remembers the entry in its list `links`, counting itself as a user of   *)
(* it.  ADFI_close_file first closes what the list names, by recursion,    *)
(* and then takes one off the count of its own entry; at 0 the entry is    *)
(* given up.  The recursion is modelled as the stack `closing` of its      *)
(* activations, so that an endless one is a stack without room.            *)
(*                                                                         *)
(* Every operation that takes a node identifier chases it first, so Chase  *)
(* stands for all of them.  What files hold, their modes and their formats *)
(* are left out, and so are calls with identifiers of closed databases.    *)
(***************************************************************************)
EXTENDS Naturals, Sequences, FiniteSets, SequencesExt

CONSTANTS
    Files,          \* names of the files on disk
    Node,           \* places of nodes in a file
    Plain,          \* not a link
    Target,         \* Target[f, n]: what the node n of f is or links to
    Handle,         \* databases a program has open at a time
    FileInc,        \* entries the table grows by (ADF_FILE_INC)
    MaxTable,       \* entries there is memory for, a bound of the model
    LinkDepth,      \* ADF_MAXIMUM_LINK_DEPTH
    StackLimit      \* activations of ADFI_close_file the C stack has room for

ASSUME FilesAssumption ==
    /\ Target \in [Files \X Node -> {Plain} \cup (Files \X Nat)]
    /\ FileInc \in Nat \ {0} /\ LinkDepth \in Nat /\ StackLimit \in Nat \ {0}
    /\ MaxTable \in Nat /\ IsFiniteSet(Handle)

VARIABLES
    ADF_file,       \* the table: count of users, name, entries linked to
    handle,         \* entry of each database the program has open, 0: none
    last_link,      \* the link chased last and where it led, {} if forgotten
    closing,        \* activations of ADFI_close_file, the innermost last
    stranded,       \* entries a failed creation has left in use
    torn,           \* ghost: the links of a file were closed under other users
    overflow        \* the stack was exhausted

vars == <<ADF_file, handle, last_link, closing, stranded, torn, overflow>>

NoFile == "no file"
Unused == [in_use |-> 0, name |-> NoFile, links |-> <<>>]
Opened(f) == [in_use |-> 1, name |-> f, links |-> <<>>]

InUse(table) == {i \in DOMAIN table : table[i].in_use > 0}

Init ==
    /\ ADF_file = <<>> /\ closing = <<>> /\ stranded = {}
    /\ handle = [h \in Handle |-> 0]
    /\ last_link = {}
    /\ torn = FALSE /\ overflow = FALSE

Idle == closing = <<>> /\ ~ overflow

----------------------------------------------------------------------------
(* ADFI_open_file                                                          *)

\* The table with room for one more file: it grows when all entries are used.
WithRoom(table) ==
    IF InUse(table) # DOMAIN table THEN table
    ELSE table \o [k \in 1 .. FileInc |-> Unused]

FirstFree(table) ==
    CHOOSE i \in DOMAIN table \ InUse(table) :
        \A j \in DOMAIN table \ InUse(table) : i <= j

\* The table with f opened in its first free entry.
WithFile(table, f) == [WithRoom(table) EXCEPT ![FirstFree(WithRoom(table))] = Opened(f)]

\* The table grows as long as there is memory for it.
MayOpen(table) == Len(WithRoom(table)) <= MaxTable

Open(h, f) ==
    /\ Idle /\ handle[h] = 0 /\ MayOpen(ADF_file)
    /\ ADF_file' = WithFile(ADF_file, f)
    /\ handle' = [handle EXCEPT ![h] = FirstFree(WithRoom(ADF_file))]
    /\ UNCHANGED <<last_link, closing, stranded, torn, overflow>>

\* A file that cannot be opened gives its entry up, but the table stays grown.
OpenFails ==
    /\ Idle /\ MayOpen(ADF_file)
    /\ ADF_file' = WithRoom(ADF_file)
    /\ UNCHANGED <<handle, last_link, closing, stranded, torn, overflow>>

\* A creation whose header cannot be written returns with the entry in use and
\* without an identifier to close it by.  In the code the entry keeps the name of the
\* new file; here it has none, which is a new file that no link names.
CreateFails ==
    /\ Idle /\ stranded = {} /\ MayOpen(ADF_file)
    /\ ADF_file' = WithFile(ADF_file, NoFile)
    /\ stranded' = {FirstFree(WithRoom(ADF_file))}
    /\ UNCHANGED <<handle, last_link, closing, torn, overflow>>

----------------------------------------------------------------------------
(* ADFI_chase_link                                                         *)

\* The entries that have the name f, of which the first is taken.
Named(table, f) == {i \in InUse(table) : table[i].name = f}

IndexFromName(table, f) ==
    CHOOSE i \in Named(table, f) : \A j \in Named(table, f) : i <= j

\* Mutants: the list is not searched; a file found open is not counted.
LinkAddAgain(table, i, j, found) ==
    LET listed == [table EXCEPT ![i].links = Append(@, j)]
    IN  IF i = j THEN table
        ELSE IF found THEN [listed EXCEPT ![j].in_use = @ + 1] ELSE listed
LinkAddUncounted(table, i, j, found) ==
    IF i = j \/ j \in Range(table[i].links) THEN table
    ELSE [table EXCEPT ![i].links = Append(@, j)]

\* File i has a link into file j, which was open before if found.
LinkAdd(table, i, j, found) ==
    IF i = j \/ j \in Range(table[i].links) THEN table
    ELSE LET listed == [table EXCEPT ![i].links = Append(@, j)]
         IN  IF found THEN [listed EXCEPT ![j].in_use = @ + 1] ELSE listed

\* A chase under way: the table, the node reached, and how it stands.
At(table, i, n, state) == [table |-> table, file |-> i, node |-> n, state |-> state]

\* The link goes on in the file j, whose node may not be there.
Arrive(table, j, n) == At(table, j, n, IF n \in Node THEN "walking" ELSE "failed")

\* One turn of the loop, when the files links name are "there", when their
\* names lead to no file any more ("gone"), or when no file can be opened.
Turn(s, disk) ==
    LET from == s.table[s.file].name
        to == Target[<<from, s.node>>]
        i == s.file
    IN  IF s.state # "walking" THEN s
        ELSE IF to = Plain THEN [s EXCEPT !.state = "done"]
        ELSE IF to[1] = from THEN Arrive(s.table, i, to[2])
        ELSE IF disk = "gone" THEN [s EXCEPT !.state = "failed"]
        ELSE IF Named(s.table, to[1]) # {} THEN
            LET j == IndexFromName(s.table, to[1])
            IN  Arrive(LinkAdd(s.table, i, j, TRUE), j, to[2])
        ELSE IF disk = "there" /\ MayOpen(s.table) THEN
            LET j == FirstFree(WithRoom(s.table))
            IN  Arrive(LinkAdd(WithFile(s.table, to[1]), i, j, FALSE), j, to[2])
        ELSE [s EXCEPT !.table = IF MayOpen(@) THEN WithRoom(@) ELSE @,
                       !.state = "failed"]

\* The walk along LinkDepth links; one that still stands on a link is refused.
Walk(i, n, disk) ==
    LET walk[k \in 0 .. LinkDepth + 1] ==
            IF k = 0 THEN At(ADF_file, i, n, "walking") ELSE Turn(walk[k - 1], disk)
    IN  walk[LinkDepth + 1]

\* The node the chase of node n in file i ends at is remembered if it is
\* another one; a chase of the link remembered walks nowhere.
Chase(i, n, disk) ==
    LET end == Walk(i, n, disk) IN
    /\ Idle /\ i \in InUse(ADF_file) /\ ADF_file[i].name # NoFile
    /\ \A last \in last_link : last.link # <<i, n>>
    /\ ADF_file' = end.table
    /\ last_link' =
          IF end.state = "done" /\ <<end.file, end.node>> # <<i, n>>
          THEN {[link |-> <<i, n>>, node |-> <<end.file, end.node>>]} ELSE last_link
    /\ UNCHANGED <<handle, closing, stranded, torn, overflow>>

----------------------------------------------------------------------------
(* ADFI_close_file                                                         *)

Activation(i) == [file |-> i, next |-> 1]
Top == Last(closing)
TopLinks == ADF_file[Top.file].links

\* Mutant: the loop stops before the last file.
AllClosedButOne == Top.next >= Len(TopLinks)

\* Every file of the list has been closed.
AllClosed == Top.next > Len(TopLinks)

\* To be closed for one user and in use for others, who need its links.
Shared(i) == ADF_file[i].in_use > 1 /\ ADF_file[i].links # <<>>

Close(h) ==
    /\ Idle /\ handle[h] # 0
    /\ handle' = [handle EXCEPT ![h] = 0]
    /\ IF handle[h] \in InUse(ADF_file)
       THEN /\ closing' = <<Activation(handle[h])>>
            /\ torn' = (torn \/ Shared(handle[h]))
       ELSE UNCHANGED <<closing, torn>>
    /\ UNCHANGED <<ADF_file, last_link, stranded, overflow>>

\* The next file of the list is closed, unless it is closed already.
CloseLink ==
    /\ closing # <<>> /\ ~ overflow /\ ~ AllClosed
    /\ LET child == TopLinks[Top.next]
           advanced == [closing EXCEPT ![Len(closing)].next = @ + 1]
       IN  IF child \notin InUse(ADF_file)
           THEN closing' = advanced /\ UNCHANGED <<torn, overflow>>
           ELSE IF Len(closing) = StackLimit
           THEN overflow' = TRUE /\ UNCHANGED <<closing, torn>>
           ELSE /\ closing' = Append(advanced, Activation(child))
                /\ torn' = (torn \/ Shared(child))
                /\ UNCHANGED overflow
    /\ UNCHANGED <<ADF_file, handle, last_link, stranded>>

\* Without a file in use the table is freed.
FreedIfIdle(table) == IF InUse(table) = {} THEN <<>> ELSE table

\* Mutants: a linked file is given up whoever uses it; the link is not forgotten.
UsersLeftBehindLinks == IF Len(closing) > 1 THEN 0 ELSE ADF_file[Top.file].in_use - 1
RememberedAnyway(left) == last_link

UsersLeft == ADF_file[Top.file].in_use - 1

\* Clearing the stack of headers for a file also forgets the link chased last.
Remembered(left) == IF left = 0 THEN {} ELSE last_link

\* One user less; the last one gives up the entry and its list.
CloseSelf ==
    /\ closing # <<>> /\ ~ overflow /\ AllClosed
    /\ ADF_file' = FreedIfIdle(
          [ADF_file EXCEPT ![Top.file] =
              IF UsersLeft = 0 THEN Unused ELSE [@ EXCEPT !.in_use = UsersLeft]])
    /\ last_link' = Remembered(UsersLeft)
    /\ closing' = Front(closing)
    /\ UNCHANGED <<handle, stranded, torn, overflow>>

Next ==
    \/ \E h \in Handle, f \in Files : Open(h, f)
    \/ OpenFails \/ CreateFails
    \/ \E i \in DOMAIN ADF_file, n \in Node, disk \in {"there", "gone", "refused"} :
          Chase(i, n, disk)
    \/ \E h \in Handle : Close(h)
    \/ CloseLink \/ CloseSelf

Spec == Init /\ [][Next]_vars

----------------------------------------------------------------------------
Entry == [in_use : Nat, name : Files \cup {NoFile}, links : Seq(Nat \ {0})]

\* Types: a file lists the files it links to once each and never itself.
TypeOK ==
    /\ ADF_file \in Seq(Entry)
    /\ \A i \in DOMAIN ADF_file :
          /\ IsInjective(ADF_file[i].links)
          /\ i \notin Range(ADF_file[i].links)
    /\ handle \in [Handle -> Nat]
    /\ closing \in Seq([file : DOMAIN ADF_file, next : Nat \ {0}])
    /\ torn \in BOOLEAN /\ overflow \in BOOLEAN

\* Who uses entry i: databases of the program, files with links into it.
Users(i) ==
    Cardinality({h \in Handle : handle[h] = i})
    + Cardinality({j \in InUse(ADF_file) : i \in Range(ADF_file[j].links)})
    + Cardinality({i} \cap stranded)

\* in_use counts exactly the databases and the files that need an entry,
\* through links that found a file open or opened it, links that were followed
\* again or led nowhere, and every order of closing, until a file is closed
\* for one user while others need its links.
CountsAreUsers ==
    closing = <<>> /\ ~ torn => \A i \in DOMAIN ADF_file : ADF_file[i].in_use = Users(i)

\* Whatever was linked, closed twice over or left half way: once the program
\* has closed its databases no entry is in use, unless a creation failed.  And
\* the recursion of a close ends: only the lists of a file that was closed under
\* other users can lead it round.
ClosingCompletes ==
    /\ overflow => torn
    /\ (closing = <<>> /\ stranded = {} /\ \A h \in Handle : handle[h] = 0) =>
          InUse(ADF_file) = {}

\* Where a node of a file leads: what a walk over the names of files gives.
LeadsTo(f, n) ==
    LET on[k \in 0 .. LinkDepth] ==
            IF k = 0 THEN <<f, n>>
            ELSE IF on[k - 1] \in DOMAIN Target /\ Target[on[k - 1]] # Plain
                 THEN Target[on[k - 1]] ELSE on[k - 1]
    IN  on[LinkDepth]

\* The link remembered skips the walk, and with it every check of the walk:
\* both its ends are in files that are still open, and it leads where the
\* link leads, although entries are given to other files.
RememberedLinkHolds ==
    \A last \in last_link :
        LET link == last.link
            node == last.node
        IN  /\ {link[1], node[1]} \subseteq InUse(ADF_file)
            /\ <<ADF_file[node[1]].name, node[2]>> = LeadsTo(ADF_file[link[1]].name, link[2])

\* Entries the open databases need: their own and those their links lead to.
Needed ==
    LET reached[k \in 0 .. Len(ADF_file)] ==
            IF k = 0 THEN {handle[h] : h \in Handle} \ {0}
            ELSE reached[k - 1] \cup
                 UNION {Range(ADF_file[i].links) : i \in reached[k - 1] \cap DOMAIN ADF_file}
    IN  reached[Len(ADF_file)]

Released(i) == i \in InUse(ADF_file) /\ i \notin InUse(ADF_file)'

\* Closing a database gives up no entry that another open database needs,
\* itself or through links, unless a file was closed for one user while others
\* need its links.
NeededStaysOpen ==
    [][\A i \in Needed : Released(i) => torn]_vars
=============================================================================
