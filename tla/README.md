# CGNS: models and proofs

TLA+ models of the CGNS library (CFD General Notation System), kept beside its
code. Paths below are relative to `src/src/` of the repository. The models are of
what the library *keeps between calls*: tables of open files, lists that mirror
the file in memory, indices into those lists, what is on disk when a call fails
half way. The library is sequential C without threads. What makes it hard is long
sequences of legal calls, calls that fail half way and are repeated, several files
open at a time that share global state, a process that dies between two system
calls, and, in parallel builds, the ranks of an MPI program that must meet in the
same collectives.

## The system

A program calls the **mid-level library** (`cgnslib.c`, `cgns_internals.c`), which
keeps a tree in memory for every open file and writes through **cgio**
(`cgns_io.c`), which dispatches to **ADF** (`adf/`), a file format of its own, or to
**HDF5** through `adfh/ADFH.c`. `pcgnslib.c` adds parallel calls, `cg_ftoc.c` and
`cgio_ftoc.c` the Fortran bindings, `tools/` and `cgnstools/` are clients.

| component | state | operations | what is hard | what makes it correct |
|---|---|---|---|---|
| name hash map, `cg_hashmap.c` | index table, entry array, counters | set, get, delete and shift, resize, clear | probe chains over deleted slots, room left against room used, shift after a deletion | every name is found at the position it was given, less the deletions below it |
| zone list, `cg_zone_write`, `cg_delete_node` | nodes in the file, `base->zone`, `base->zonemap` | open, close, write, overwrite, delete | three copies of one list, a write refused half way | memory mirrors the file, the map mirrors memory |
| cgio table | `iolist`, `num_iolist`, `num_open` | open, close, compress, cleanup | refused closes, growth in the middle of a rewrite, reuse of numbers | a number names one open database until it is closed; the table is freed when none is open |
| rewrite, `rewrite_file` | files on disk | flush, copy, unlink, rename | crash, refused calls, links | what was saved is not lost; success means done |
| search path | `cgio_paths`, environment | add, delete, set, find | holes in the list, names too long | a link that resolves goes on resolving to the same file |
| open files, `cgns_files` | `cgns_files`, `n_open`, type and compress settings | open, close, test, save as, configure, exit | opens that fail half way, closes that fail and are repeated | an open file owns its database; close closes it and no other |
| current position | `cg`, `posit`, `posit_stack`, `posit_file` | goto, relative goto, where | pointers into arrays that are renewed, global `cg` shared by files | the position names an existing node of the open file |
| element sections | range, connectivity, offsets and parents of a section in the file, what of them is in memory | create, partial and whole writes and reads, parents | merging of ranges, elements that move in the file, what is kept in memory after which call | every element keeps the value last written; memory mirrors the file |
| array ranges | dimensions and rind of arrays | general writes and reads | ranges with and without rind | a range written is the range read |
| ADF files and links | `ADF_file` with counts of users and lists of links, the link chased last | open, close, chase link | reference counts, cycles of links, entries given to other files | a file is closed when its last user is |
| ADF space | free-chunk tables | allocate, free | the search for free chunks is compiled out | chunks never overlap |
| ADF buffers | read and write buffers, block stack | read, write, flush | one buffer for all files | a read sees the last write |
| ADF tree | node headers, sub-node tables, data chunks | create, rename, move, delete | tables that grow and close holes, many writes in one call | headers and tables are a tree, and a call cut short loses no other node |
| ADFH | mount structure, open objects | open, close, link | state shared between files | a close releases its own objects |
| parallel | communicator, access mode, transfer mode on each rank | open, configure, write, exit | ranks that disagree, settings left behind | all ranks enter the same collectives, and each ends |

## Modules

Each module is a component; modules `MC...` only name constants for TLC.

### `HashMap`, `NameMap`, `NameIndex`, `HashMapProofs` (`cg_hashmap.c`)

`HashMap` holds the algorithms as operators over a record: table size, room left
(`usable` for `map_usable`), entries used, live count, index table and entry array.
Probing is kept as it is (`perturb`, `5*i + perturb + 1`), since the hazards are
in probe chains; the hash of a name is a constant function. The byte width of the
index table and the text of the names are abstracted away. Tables have at most 2^18
slots, so a model has at most 65536 names (`KeyAssumption`), and a hash is a number
that enough shifts make 0 (`HashAssumption`). `NameMap` is the state
machine of one map. `NameIndex` is what its callers rely on: a partial function
from names to positions and a deletion that lowers every larger position.

The run `name_map` has three names, two with the same first slot in an
eight-slot table and one whose hash is above 31, so that `perturb` matters, and
values 0 and 1; sizes 0 and 10 start it with the static table and with an
allocated one. Since `usable` sinks with each insertion, whatever is deleted, five
insertions lead to a resize; all fill states of the table are reached. The run
checks the bookkeeping (in `MapTypeOK`), that no probe
chain is cut (`EveryKeyIsFound`), that probing ends (`AlwaysAnEmptySlot`), the
insertion order (`OrderIsKept`) and that all operations but the shift do as
`NameIndex` says (`ImplementsNamesOfIndex`). The shift itself does not: its loop
runs over the room left instead of the entries used. What comes of it is shown
where the map is used, by `zone_list_write`.

### `ZoneList`, `HashMapProofs` (`cgnslib.c`, `cgns_internals.c`)

One base: the nodes under it in the file (name to id and label), the array
`base->zone`, which may be longer than `nzones` after a deletion, and the map.
Actions are `Open` and `Close`, `ZoneWrite` (add, refuse or overwrite, in the
order of the code: the array and the map grow before the node is made),
`DeleteZone`, and children of another label that can occupy a name. What a zone
contains and the checks of the size arguments are left out; calls with illegal
sizes return before anything changes. `cgi_new_node` makes a node in steps, the node itself, its label
and its data; the model refuses it as a whole or not at all, so that the node without a label that the
code leaves in the file when the second step fails is not in it. Ids are compared for equality only, and
each name has two, so that a new node never has the id of one still listed. A
call that has written over another zone, or outside of the array, ends the run
(`Undamaged`).

The run `zone_list` has three names, one of them also the name of a `Family_t`,
through any number of sessions. It shows that array and file stay in step
(`MemoryMirrorsFile`), so that refused zones are the only ones listed without a
node, and that a map once in step gets out of step only by a deletion
with little room left, and until then leads each write to its own zone
(`MapServesUntilDeletion`). `zone_list_write` shows the consequence of the shift:
`cg_zone_write` returns a place that is not the zone's. Three names reach every kind of step; resizes of the map inside a session
happen because entries of deleted zones are not reused.

### `CgioFiles`, `HandleTable` (`cgns_io.c`)

The table of slots as the code has it: allocated by the first open, first free
slot reused, grown by one when full, freed when `num_open` is 0. `backend` is the
set of databases ADF and HDF5 hold open, an external component that may refuse an
open or a close at any time; a refused call leaves the table alone and is not a
step. A rewrite is one step here, with any outcome of its two ignored closes
(`CompressFile`); its inner steps are `CgioRewrite`. `abandoned` is what
`cgio_cleanup` dropped after a refused close. `HandleTable` is the abstract
specification: handles name files.

The table has no run of its own: `mll_files` drives it through every open and close
the mid-level library makes. The first part of `MllFilesProofs` is about the table alone,
for any size and any callers; the second carries it over to the library's own steps.

### `CgioRewrite`, `CgioProofs` (`cgns_io.c`)

One database and its directory, the rewrite as a sequence of system and library
calls, any of which may be refused, and a crash before any of them. Contents are
version numbers (`MaxVersion`, the bound: two rewrites can follow each other, a
third write starts on what they left), with whether all of it is on disk and
whether it was rewritten. The path is the file, a link in the working directory
(or with a full path), or a relative link elsewhere. `unlink` of a file that can
be renamed to is taken to succeed; memory allocation does not fail. A flush that
succeeds is taken to have saved the database; for ADF that is so because the
operations of the mid-level library end with a flush of their own (`AdfBuffers`).

The run `cgio_rewrite` shows that what the first flush has saved survives any
failure and crash under one of two names (`SavedSurvives`), that under its own
name only whole copies appear (`ReplacedByWholeCopy`) and that a failed rewrite
leaves nothing behind (`FailureIsClean`), always as long as no close of the copy
was refused (`sealed`): its result is not looked at, and what it failed to write
is lost with the database replaced and success reported.

### `MllFiles`, `MllFilesProofs` (`cgnslib.c`)

Extends `CgioFiles` by `cgns_files`, the counters and the settings. `Open` has the
outcome `complete = FALSE` for everything that may fail after the file is listed.
`Close` goes by the cgio number kept in the file, whether the file still owns that
slot or not, as the code does. `ErrorExit` is `cg_error_exit`: `cgio_cleanup` closes what the
backends do not refuse, and the process ends; `Restart` is the next one, which finds
the files and nothing else. Bounds: `MaxFiles` files in a session, one deletion
counted per file (`MaxDeleted`), root ids taken from a set of three. A file number
is a position in `cgns_files`; `file_number_offset`, which `cg_close` sets to the number
of files of the last session only, so that a number kept from an earlier session can
name a file of this one, is left out.

The run `mll_files` has two files, two types, and one slot at the start so that
growth, reuse and freeing of the table below all happen with two files and the
copy of a rewrite or of `cg_save_as`. For the table it checks the count
(`OpenCountIsLive`) and that it implements `HandleTable` (`ImplementsHandleTable`), while the
types and that each database has one slot are proved; for the files, that the counts are
right through half-failed opens and closes (`OpenCountsFiles`) and that a file
loses its slot only by a failed rewrite or by the repeated close of a file that
lost its own (`SlotLostByFailedRewriteOnly`).

### `SearchPath`, `CgioProofs` (`cgns_io.c`, `cgnslib.c`)

The list of paths with the holes deletions leave, and the search in its order:
directory of the linking file, working directory, environment, list. The file
looked for has a relative name; directories whose name does not fit the buffer
end the search, as in the code. A full path, and running out of file handles
during the search, are left out. The bound is `MaxPaths` elements of the list.

The run `search_path` shows that adding a path never redirects a link that
resolves, and that a deletion affects only links found through it.

### `AdfBuffers`, `AdfBuffersProofs` (`adf/ADF_internals.c`, `adf/ADF_interface.c`)

ADF has one block buffer for reading and one for writing, whatever the number of
open files. A write within a block goes to the write buffer; one over a block
boundary goes past it to disk; a read takes the read buffer, the write buffer or
the disk. Most operations of `ADF_interface.c` that change a file end with the
modification date and a flush (`EndDated`), some end without (`EndUndated`,
`OpenNew`), and a refused write ends them at once (`EndFailed`).

| model | code |
|---|---|
| `rd.file`, `rd.block`, `rd.full` | `last_rd_file`, `last_rd_block`, and whether `num_in_rd_block` is a whole block |
| `wr.file`, `wr.block`, `wr.dirty` | `last_wr_file`, `last_wr_block`, `flush_wr_block` |
| `disk[f]`, `rd.cur`, `wr.cur` | of which cells the file and the buffers have the value last written |
| `busy`, `pending` | the operation on the stack of C calls, and what it has written so far |
| `owed[f]` | the cells of which no operation has reported that it failed to write them |

Bytes are abstracted to cells, and the value of a cell to whether a copy of it is
the last one. That is what the properties are about, and it keeps two files, both
buffers and every order of calls within reach. `passed` marks the cells for which
the fault below has struck, so that the other properties are checked beside it
instead of stopping at it; it is not read by any action. `Records` are ranges the
code always reads and writes whole (node headers, table entries, tags), `Data` are
data chunks, of which a caller may read and write any part; an operation
reads its own records back while it is under way, but not the data it is writing.

The run `adf_buffers` has a file of three blocks of two cells, with a chunk of
data over each of the two boundaries and a record at the end, and a file of one
cell, which takes both buffers away. Ranges over a boundary, up to one and from
one on occur, blocks near the header, whose buffers every date takes back, and one
out of its reach; two cells let a flush be refused half way. More blocks would only
be more of the same, since at most two are in buffers. It shows that a read sees the last write
(`ReadsSeeWrites`), that what was written up to a
dated operation survives the death of the process (`DatedIsOnDisk`), that no
flush takes a value on disk back (`DiskNeverGoesBack`) and that a closed file is
complete and forgotten (`ClosedIsComplete`), each but for the cells in `passed`.

`adf_buffers_passed` is about those: the write buffer is forgotten only where it is
flushed, so a clean one outlives a write over the boundary of its block. Every
dated operation leaves the buffer clean on block 0, and puts its own date into it
and flushes it: an element over the end of block 0 written by `ADF_Write_Data`
alone keeps in part its old value. This was reproduced by a program linked with
`adf/`. `ADF_Flush_to_Disk` calls `fsync` and changes nothing modelled here, the write
buffer included: what an operation without a date has written stays in it.

Left out: reads and seeks of an open file that fail (the write buffer then gets
blanks, `ADF_internals.c:8123`), the priority stack (`ADFI_stack_control`, a cache of
headers above the buffers), linked files, and the index of a file whose
creation failed, which stays in use. The branch that loads the write buffer from
the read buffer (`ADF_internals.c:8106`) is there, but never taken: the
read buffer has been forgotten by then.

### `AdfFiles`, `AdfFilesProofs` (`adf/ADF_internals.c`, `adf/ADF_interface.c`)

The table `ADF_file` and the files that links open behind it. Each call of
`ADF_Database_Open` takes an entry; chasing a link takes an entry by name or opens
one, and the file that holds the link lists it. `ADFI_close_file` recurs into that
list before it gives up a user of its own entry.

| model | code |
|---|---|
| `ADF_file[i].in_use`, `name`, `links` | the members of the same names; the table grows by `ADF_FILE_INC` and is freed when no entry is in use |
| `handle[h]` | the root identifier a program holds, by its file index |
| `last_link` | `last_link_ID` and `last_link_LID` |
| `closing` | the activations of `ADFI_close_file` on the C stack; without room for one more: `overflow` |
| `Open`, `OpenFails`, `CreateFails` | `ADF_Database_Open` that succeeds, that gives its entry up, and that fails in writing the header of a new file and does not |
| `Chase` | `ADFI_chase_link`, with which every operation on a node begins |
| `Close`, `CloseLink`, `CloseSelf` | `ADF_Database_Close` and the turns of its recursion |

`stranded` is the entry of a failed creation, which in the code keeps the name of its new file and
in the model has none: no link of the instance leads to a file that is being created. `torn` marks that a file with links was
closed for one user while others used it, from where on its list is closed once
more by each of them. The run `adf_files` has three files (a links to b and to a
place c does not have, b links to c, c links to itself), two databases and a table
that grows from two to four entries. It shows that counts are users
(`CountsAreUsers`) and that a close gives up no entry others need (`NeededStaysOpen`),
both until `torn`; that closing all databases empties the table and the recursion
ends (`ClosingCompletes`), and that the link remembered leads where the link leads
although entries are reused (`RememberedLinkHolds`), always. What `torn` excuses is a fault, listed below.
Files that link to each other are not in the instance: the recursion of their
close never ends, as a program linked with `adf/` confirmed.

### `AdfTree`, `AdfTreeProofs` (`adf/ADF_internals.c`, `adf/ADF_interface.c`)

The tree on disk: node headers and sub-node tables. A call is the list `todo` of the
writes it has to make, computed as the code computes them from what it reads first;
`Write` makes the next one and `Stop` ends the call before it, by an error or the
death of the process. `ADF_Delete` recurs (`deleting`, its activations), and each activation
computes its writes when its children are gone.

A table is known by its node and its size: it only grows, and space is never given
out a second time (`ADFI_file_malloc`, see "Not modelled"). `doomed` are the nodes the call under way makes
or deletes, `misplaced` marks a move after which there is no tree to speak of: below
itself, beside a node of its name, or from a parent that is not its own, none of
which `ADF_Move_Child` checks. The run `adf_tree` has three nodes below the root and three
names, one of them another one with a blank before it (`Trim`), and tables that grow from two entries
to three; the bound is `MaxNode`. Between calls there is a tree (`TreeIsSound`), in which brothers may
have a name in common only if it begins with blanks. `ADF_Put_Name` looks for a name without the blanks
it begins with and stores it with them, so that two children of a node can be renamed to one name, which
the run does; `ADF_Create` leaves them out of what it stores. Wherever a call is
stopped, no list names a node that is not there (`ListedIsThere`) and no node the
call is not about is lost (`OthersAreKept`). The exception in the last one is a window the code has:
a full table is freed on disk, which overwrites its tags, before the larger one is
written and the header names it (`Replacing`).

### `Sections`, `SectionsProofs` (`cgnslib.c`)

One `Elements_t` node: `file` is what the nodes under it hold, `mem` what the library keeps
between calls, `want` what the callers have given for each element. Every write has the two
branches of the code, in place in the file (`WriteInPlace`) or as a merge in memory
(`WriteInMemory`), chosen by the range, by whether the connectivity is in memory, and for
polygons by the space the file has (`InPlace`, `Fits`).

| model | code |
|---|---|
| `mem.range` | `section->range` |
| `mem.connect`, `mem.offset`, `mem.parents` | `connect->data`, `connect_offset->data`, and `parelem->data` with `parface->data`; `NoData` for NULL |
| `file.parents` | `ParentElements`, two rows in one sequence; `ParentElementsPosition` goes through the same steps |
| `Blank` | what fills the numbers between old elements and new ones |
| `Raw` | a word read as 8 bytes from an array of 4-byte integers |

The code never looks at a word of the connectivity, so one value, besides zero and
`Raw`, tells what has been written from what has not; polygons are of two sizes, one below and
one above the two words that are reserved for each, so that a write fits, moves what follows
or has to go through memory. Ranges are those within `MaxElement` elements; three let a write
lie before, over and beyond a range with a gap between. `Spare` is the space a caller reserves in
excess. A caller's offsets begin at zero. The build has 64-bit `cgsize_t`, files are HDF5 (what was never
written reads as zeros), and sections and callers have 4-byte or 8-byte integers. No call is
refused by the file half way.

The run `sections` shows that each element reads as last written
(`ElementsAreAsWritten`), that what is kept in memory is what the file has
(`CachesMirrorFile`), so that the order of reads and writes does not matter, that parents have
the length of the range (`ParentsFitTheRange`), and that a whole section can be read
(`WholeReadIsServed`). Faults of the code bound the properties: elements copied `Raw`,
whole reads of 4-byte sections, and an array of parents that is written past its end
(`overrun`), where the model stops.

### `ParallelFiles`, `ParallelFilesProofs` (`pcgnslib.c`, `cgns_io.c`)

The ranks of a program, each with its own settings, joined by the broadcast of
`cgio_check_file` and by HDF5's collectives: open, transfer, close.

| model | code |
|---|---|
| `ctx[r].init`, `.mode`, `.pio` | `pcg_mpi_initialized`, `hdf5_access_mode` and `default_pio_mode` of `ctx_cgio` |
| `ctx[r].type` | `cgns_filetype` |
| `handle[r][f]` | whether HDF5 has the file open on the rank, and with which driver; `MADE` is a file the rank has made alone and not closed |
| `present` | the names under which there is a file |
| `coll[r][c]` | the collectives rank r has entered on communicator c, in order |
| `at[r]` | where in its call the rank is: before it, in a collective, or (`unlinked`) between the two steps of a serial write |
| `prog` | the program: calls, the ranks that make each, and whether a rank calls `cgp_error_exit` on an error |

A serial open for writing has two steps: `cgio_open_file` unlinks the file (`OpenSerialWrite`,
`cgns_io.c:783`) and `H5Fcreate` makes another one (`MakeFile`, `ADFH.c:2419`). A rank that looks for the file in between
finds none, and until the maker has closed it others may find no HDF5 file under the name
(`InTheMaking`): `FinishOpen` lets either outcome happen, on each rank for itself. A `cgp_open` for
writing unlinks the file on every rank as it comes, and the last to come makes it. A rank that leaves through
`cgp_error_exit` does not close its serial files in the model; nothing waits for that.

HDF5 lets a rank go on when all ranks have entered the same collective at the same
place, a broadcast lets its root go on at once; MPI and HDF5 are external. Which
programs are run is the constant `Programs`: a parallel file written by one of two calls, with
every choice of arguments in which ranks offer data, none, a bad range or
elements that do not fit, before and after serial and parallel opens and tests of
that file and another, two parallel files at a time, and two ranks that make the same file
on their own. `written` is what is in
the file and `claimed` what a rank was told is.

The run `parallel_files` has three ranks and two files. All ranks enter the same
collectives (`CollectivesAgree`), every rank ends (`EveryRankEnds`), a file is open in
the way it was asked for although `cgp_open` leaves the access mode parallel
(`OpenedAsAsked`), and what a rank was told is written is in the file, in each dataset
of a call (`OkIsInFile`). The first two except what the library does not promise to
survive (`Excused`): a rank refused in a call the others make together in
collective mode (`deserted`), and a test of a file, or an open whose type is not
known, that not all ranks make alike (`UnevenProbe`).

## Fairness and liveness

`ParallelFiles` assumes weak fairness of each rank (`WF_vars(Step(r))`): a rank is an
operating-system process, and one that can go on does. Nothing is assumed of a rank that waits in
a collective, which is what `EveryRankEnds` is about. The other modules are sequential:
every operation is a call that returns, which call comes next is up to the program,
and no fairness is assumed. What could keep a call from returning is a
safety property there: the probe loops of the hash map (`AlwaysAnEmptySlot`, proved as
`ProbingEnds`) and the
recursion of a close (`ClosingCompletes`, proved as `ClosesComplete`). `CHECK_DEADLOCK FALSE` stands where the
models really stop: the programs end, the nodes, versions or files of a bound are
used up, a call was stopped, or has damaged memory.

## Proofs

`MllFilesProofs` first proves of the cgio table, for every `InitialSlots`, `RootId` and `FileType`, from
`InitialSlotsAssumption` and `FileTypeAssumption` alone:

- `TableIsExact`: `CgioTypeOK`, `OpenCountIsLive`, `TableFreedWhenIdle` and
  `EveryRootHasOneSlot` are invariants. None of them is inductive alone; their
  conjunction is (`Inv`): that a database is let go of with its slot needs the
  distinctness of roots, the freeing of the table needs the exact count, and both
  need that the table is a sequence of slots. One lemma per action (`OpenFileKeepsInv`, `CloseFileKeepsInv`,
  `CompressFileKeepsInv`, `CleanupKeepsInv`) also says how the live slots change,
  over lemmas on `FirstFree`, `Store` and `Freed` for tables of any length.
- `TableImplementsHandles`: every step maps to a step of `HandleTable` or to a
  stutter, from the same lemmas.

`OpenCountIsLive` and `ImplementsHandleTable` are what `mll_files` checks on its instance.

Its second part proves of the open files, for any table, files and bounds, from the assumptions of
`CgioFiles` and `MllAssumption`: that `n_open` counts files and `num_open` slots
(`CountsAreExact`), that a file loses its slot only as said above
(`FilesKeepTheirDatabases`), and that the library's steps are steps of `HandleTable`
(`FilesImplementHandles`). The invariant, `FilesInv`, is that of the table with the
types, the exact count and `RootsDiffer`: no two listed files have the root of one
database. Without the last a close could give up a slot that another file owns: it
looks at the number and root its own file keeps, and the slot is another's exactly
if the roots differ. The calls that open and close databases on the way are reduced
to two facts about the table: files whose slots stand are undisturbed
(`Undisturbed`), and a call frees one slot at most (`FreesAtMost`).

`CgioProofs` proves the three properties of `cgio_rewrite` for any number
of contents (`MaxVersion`), from `VersionAssumption` and `AbsentAssumption` (what
stands for no file is not a database): `SavedIsNeverLost`,
`DatabaseIsReplacedWhole` and `FailuresAreClean`. None follows from the types
alone: `Inv` says for each step of `rewrite_file` which of the two names has the
saved content (`FileInv`) and what the temporary file holds (`TempInv`). The steps
that touch at most the temporary file share one lemma, `TempStepKeepsInv`; the
flush, the removal of the database, the rename and the return have one each.

The same module proves both properties of `search_path` for any directories, paths, environment and
files, from `PathAssumption`, which also says that what a failed search gives is not a directory. All
they need to know of the state is that the list holds paths and holes (`PathInv`). To add a path puts its
directories behind the places searched (`AddIsAppend`), to delete one takes them out and nothing else
(`DeleteIsCut`), both from what joining lists gives (`FlattenAppended`, `FlattenEmptied`, by induction over
the lists). The search ends at the first place where it can (`FindInEnds`), so places behind one where it
ends (`FindInFront`) and places where it does not (`FindInRest`) change nothing.

`ParallelFilesProofs` proves `OpenedAsAsked` for any ranks, files and programs that close a file
before they open it again (`FilesAreOpenAsAsked`; a second open that fails leaves the first handle), from
`RankAssumption` and `ProgramAssumption`, which says what
a program is. A file may be asked for long before it is open, since the open waits
for other ranks or fails; so `ParInv` says in what call a rank that waits is (`Waits`) and
that a file that is open was opened by a call that opens it so, and not closed since (`AskedFor`): by
the rule, none opened it later. `ParallelFilesAreTyped` adds that a rank that waits is inside one of its
calls.

`OkWritesAreInFile` proves `OkIsInFile` under two rules for programs (`KeepsRules`): a rank closes a
file before it opens it again, and the functions that write in parallel are called on a file
that came from `cgp_open` (`check_parallel`, `pcgnslib.c:383`, asks only that it is an HDF5 file). Without the
first, a rank can open a file anew, and so empty it, between the two datasets of another
rank's write. TLC checks, as the assumption `MCProgramsKeepRules`, that the programs of
`MCParallelFiles` keep the rules. Nothing is asked of how the calls of different
ranks match; what one rank does may leave the others waiting, and then they claim nothing.
The invariant (`WrittenInv`) says that a rank that has left a parallel file has left it at a
close that all ranks have entered (`LeftTogether`), and that a rank between the two datasets has entered
the second after a first that all had entered (`InCollective`). Together they give that every rank
has the file open as long as one is between the two (`HeldByAll`), and by the first rule
such a rank is not about to open it (`OpensWhatIsClosed`).
`CommAssumption` says that a file's communicator is neither the library's nor the program's.

`OrderlyProgramsAgree` proves `CollectivesAgree` under the rules `Orderly`: what concerns a file that
is open in parallel is called by all ranks; such a file is closed before it is opened or tested again, and only
such files are written to in parallel; a file is opened in parallel for reading only if it was there before or the program
has made it (`ThereAt`), and opened so or tested only if it is whole: whatever ranks made it on their own have closed it, and all ranks
have met in a barrier since (`DoneAt`); the mode of the
writes is set first or not at all; and a program that leaves on an error in collective mode does not try,
while a file that it writes to is open, what may fail on one rank alone. Without the barrier a rank that looks for a file
between its unlinking and its making is refused alone: the others wait for it to open the file, and if it goes on to open
another in parallel, TLC shows the two openings at the same place. `MCOverwriteNeedsBarrier` says that the
rules tell the program with the barrier from the one without. TLC checks, as the assumption
`MCWritesAreOrderly`, that the programs that write a parallel file keep them, but for those that then open
in parallel a file nobody made; of the 2466 programs of `MCParallelFiles` 2080 do, and for the others the property
is only model-checked.

- Where a rank is in its program gives what it has entered: `Script` is what call `i` enters on a
  communicator, `History` all that is entered before call `i` (it exists by the least call without one,
  `HistoryExists`), and `InScript` says that a rank has entered the history and what of the
  present call it is past. Two ranks then agree since the histories of one program begin each other.
- Which collectives a call makes depends on the library's settings of the rank. `Settled` says that they
  are what the calls before give: which files are parallel (`HeldAt`), the access mode that the last
  open left (`ParallelAt`), and that a `cgp_open` has set `pcg_mpi_initialized` (`KnownAt`).
- A call that fails enters less, so no rank may miss a file that the others find. `FileKept`: a file that was
  there or begun is there, unless a rank is making it at that moment (`UnmadeBy`). `Traces`: no rank is past a barrier
  that another has not come to, nor past an opening that another has not joined; so by `DoneAt` its makers are
  done when a rank looks for it (`LookIsSafe`). `Broadcast`: rank 0 tests for all only what is made by then. An orderly `cgp_open`
  then fails on no rank.
- A rank that leaves closes what it has open, in an order that is not that of the program (`Leaves`), from a call
  that opens nothing together, before or after the test it made. On each
  file it enters at most one close, and by the last rule this is what the others enter there next, since they
  write no more to the file (`CloseFollows`).

`SectionsProofs` proves `CachesMirrorFile` and `ParentsFitTheRange` for any number and size of
elements (`CachesAreExact`, `ParentsStayFit`), from `SectionAssumption`. They are proved together
(`SectionInv`, with the shape of the parents), since the parents are moved from what memory
has of them, and their length is that of the range in memory. `ElementsStayAsWritten` proves
`ElementsAreAsWritten` and, with `WholeReadsAreServed`, `WholeReadIsServed`, for any space reserved and any order of writes and
reads. `SectionAssumption` says for this that a NULL pointer (`NoData`) is not an array.

- The invariant `WordsInv` says that the connectivity of the file is some list of elements, one for each
  number of the range, followed by what room is left (`HoldsIn`), and that the offsets mark them
  (`Marks`): each is the length of all that is before it. `WordsAre` reads from this that an element's words are
  those between its offsets.
- Offsets are running sums and the connectivity is a concatenation; both are recursive, and what they give
  is shown by induction through the least exception (`AllNumbers`): `FlattenJoin` (lists of elements may be
  joined before or after they are flattened), `OffsetsMark`, `PartGives` (between two marks are the elements
  between them).
- A write, in place or in memory, makes the same list: the elements before it, a gap, its own, a gap and those
  after it (`Spliced`, by numbers; `SplicedIsJoin`, as five lists). `MergedIs` and `ReplacedIs` show that both
  branches of the code leave its words, the latter because what is beyond the moved elements is room;
  `SplicedLengths` that the offsets computed from the old ones are of its lengths.
- A merge leaves a connectivity in memory with the last offset as its length, and reads never bring one in for
  8-byte sections: so `WholeReadIsServed`.

`AdfBuffersProofs` proves all that `adf_buffers` checks, for any block size, files, ranges and
order of calls, from `CellAssumption` and `LayoutAssumption` (records and data do not share cells, a
range that is written whole is read whole, the date is in block 0). Each property needs the
others' cause, so `Inv` has one form for all: `Exact` says which copies of a cell that is relied on are
current - disk, read buffer, write buffer - by the file and block each buffer is on: a clean buffer
has what the disk has, a dirty one what the disk lacks, and the read buffer of a block never hides a
dirty write buffer of it. `OnOpenFiles` keeps the buffers off files that are closed, and `PastTheBuffer`
says of ranges over a boundary and of data that their copy on disk is current, since they are read and
written past the write buffer. Each call to the buffers (fill, load, flush, forget, write) has a lemma on
the record of both buffers and the disk, stated for any set of cells relied on; the operations
compose them. `DatedIsOnDisk` and `DiskNeverGoesBack` are the action properties of the same invariant.

`AdfFilesProofs` proves the safety of the table of open ADF files for any files, links, databases and
limits, from `FilesAssumption` (a finite set of identifiers a program holds). `CountsAreUsers` speaks of
moments between closes; the invariant counts in the middle of one: the count of an entry is that of its
databases, of the files that list it and have not come past it in their own close, and of the
activations on the stack that are about to count it down (`Counted`, while not `torn`). For the
recursion to meet only entries in use, the stack is a path of links (`Stacks`), and an activation
on a file that is being closed further down is behind the lower one; `LastUsers` says that an untorn
close of a file with links closes its last user. `RememberedLinkHolds` and `NeededStaysOpen` follow each
closed entry against these counts. `LeadsTo`, `Walk` and `Needed` are functions recursive over numbers;
what is shown of them by induction goes through the least number of the set of exceptions (`AllNumbers`).
`ClosesComplete` proves `ClosingCompletes`, also for files that link to each other. That closing all
databases leaves no entry in use needs two facts that no close disturbs, not even a `torn` one: no entry counts
more users than it has (`CountedAtMost`), and every entry in use is used by a database, a failed
creation or an activation, itself or through the files that list it (`Rooted`: every set of entries
that contains the holders of its members has one of these in it, which says so without a recursion). That the
recursion overflows only when `torn` assumes a stack with room for an activation for each entry of the
table (`MaxTable <= StackLimit`, as in the run): until a file is closed under other users the files on the
stack are all different, each closed for its last user, and the next one is yet another
(`StackIsShort`). After that nothing bounds the recursion; files that link to each other get there with
their first close.

`AdfTreeProofs` proves the four properties of `adf_tree` for any names, number of nodes and size of a
first table, from `TreeAssumption` and `TrimAssumption` (a name without leading blanks stays as it is): `TypesHold`, `TreeStaysSound`, `NoListDangles` and
`NoOtherNodeIsLost`. None is inductive, since in the midst of a call the disk is no tree and what saves it
is in the writes still to come. `Inv` says just that: the list `todo` leads from the disk as it is, through disks
that a stopped call may leave behind (`Fit`: no list names a node that is gone, and the nodes that
are not lost with the call are below the root or a table is being replaced), to some disk that is a tree
(`Runs`, `Ahead`). A `Write` then takes the first of those steps, and `Stop` changes nothing.
The work is in the calls, which have to give such a list of writes: `NodeMade`,
`NodeMovedAway`, `NodeMovedWithin`, `NodeMisplaced`, `NodeRenamed` and `LeafDeleted` compose it from the lemmas
on the two table operations (`Adds`, with and without growth, and `Removes`), which in turn rest on what
each kind of write makes of a disk. That a disk is a tree again needs
that nodes are reached from the root without a circle (`NoCycle`) and that `Below`, a recursive
function over numbers, is the least set closed under listing (`BelowIs`; the closure is reached
within `MaxNode` rounds because a round that adds nothing is followed by none that does). For
`ADF_Delete`, `Stacked` relates the activations to the tree: each lists the next, and of the children
it began with those are left that it has not come to. So `LeafDeleted` finds a leaf each time, and the entry
is found unless the caller named the wrong parent.

`HashMapProofs` proves all that `name_map` checks, for any names, values, sizes and hash
function, from `KeyAssumption`, `HashAssumption`, `ValuesAssumption` and `NullAssumption` (the value
that stands for no map is not an index). Neither the bookkeeping (`BooksBalance`), that names are found
(`EveryNameIsFound`), that a slot is empty (`ProbingEnds`), nor the order (`NamesKeepTheirOrder`) is
inductive alone. `Sound`, of which `MapInv` is made, is: the books balance, live entries have different names, each live entry
is in a slot of its own that the walk of its name reaches before any EMPTY slot (`Chained`), and no more
slots are filled than entries have been used. The last leaves a slot EMPTY, since entries are fewer than slots.

- Walks: once `perturb` is 0, `i -> 5*i + 1` visits all of a table of 2^k slots (`WalkVisitsAll`). From slot
  x, it is (4x + 1) A[j] further after j rounds, where A is the walk from 0 (`OrbitSum`): 2^k divides that
  only if it divides A[j], since 4x + 1 is odd (`OddCancels`), and then only if it divides j (`Spread`). So
  2^k rounds are 2^k different slots, hence all of them. So `FirstSlot` stops at
  the first slot it may stop at, and `LookupFinds` follows from `Chained`.
- Steps: an insertion fills the first free slot of its own walk and may end no other (`AppendIsSound`); a
  deletion leaves a DUMMY, which no walk stops at (`DeleteIsSound`); a resize has room for one more name
  than it copies and places each behind walks that pass over those placed before (`ResizeIsSound`, by induction
  over the entries).
- Refinement: `ImplementsNames` says that a step changes what the names are mapped to as `NameIndex`
  does, but for the positions after a deletion: those are lowered too few (`zone_list_write`), so of
  a deletion it says which names remain.

The same module proves all that `zone_list` checks, for any names, order of names and hash function,
from `OrderAssumption` besides (the order lists each name once). `MemoryMirrorsFile` is not inductive: it
counts elements by node id, and a write finds its element through the map. `ZoneInv` says that while
nothing has been damaged no two elements have the same name (`ListIsDistinct`), that the names of the map are those
of the list, whatever positions it gives them (`MapIsOfList`), and that each zone of the file has an element of its
name and id, and each element with an id its zone (`Mirrors`).

- The list (`ListMirrorsTheFile`): a name is added only if the map does not have it, so it is new to the list;
  an overwrite that is not damage is of the element with its name, whose node is the one deleted; a
  deletion takes the name out of all three (`DeleteZoneKeeps`). Ids of different names are different (`IdsApart`), so one
  element has a given id. A refused write leaves an element without a node that every later step keeps apart.
- The positions (`OnlyDeletionsLoseSync`): a map built from the list gives each name its place (`BuiltMapIs`, by induction over
  the entries made); setting a name changes what its own name gets and no other (`SetNames`). A deletion lowers all
  later positions if the room left reaches all entries (`DeleteLowers`), which is what the property says of the code's
  loop.
- The writes (`SyncedSteps`): in step, the position found is that of the element with the name (`SyncedPlace`).

Model-checked only: that every rank of a parallel program ends (`EveryRankEnds`), since liveness is out of the
prover's reach, and `CollectivesAgree` for programs that are not orderly. All other properties of the
passing runs are stated by theorems, some under rules for the calls that are named with them.

## What the models disagree about with the text

Two runs end in a violation: what the shift of the hash map does to `cg_zone_write`
(`zone_list_write`), and the write past ADF's clean write buffer (`adf_buffers_passed`).
Found on the way and not given a run:

- cgio and mid-level files: the ignored close of the copy in a rewrite (`cgns_io.c:290`); a `cg_close`
  repeated after a failed rewrite closes whichever file has the slot by then
  (`cgnslib.c:841` against 821-823); a rewrite through a relative link in another
  directory works on another file (`cgns_io.c:249`); `cg_is_cgns` leaves the type set
  for a database that is not CGNS (`cgnslib.c:424-427` against 439); the default type
  for new files is also used for existing ones (`cgnslib.h:185` against
  `cgnslib.c:496`); `CG_CONFIG_ADD_PATH` replaces the search path (`cgnslib.h:179`
  against `cgnslib.c:1096`); a map for 21 items gets 64 slots where 32 are asked for
  (`cg_hashmap.c:163` against 169).
- element sections: a write that enlarges a section puts the old parents to the place of the
  new elements, since the shift is taken from the range after its update
  (`cgnslib.c:7071` against "save these before updating for parent data" in 7008), and
  writes past the end of the array where the section grows at its end; elements of
  another type than `cgsize_t` are copied as if they had it, in memory in
  `cg_elements_general_write` (`cgnslib.c:6955`, 6981, 6988) and after their conversion in
  `cg_poly_elements_general_write` (7598); `cg_poly_elements_read` refuses a section of 4-byte
  integers after a partial read or an enlarging write (5585-5597); offsets that do not
  begin at zero are kept as they are where a write begins before the range (7542).
- ADF: closing two databases that lead to one file can close the stream a third one has
  opened (`ADF_internals.c:1772` against "only the opened file stream associated with
  this database will be closed", `ADF_interface.c:565-568`), since a file lists its links
  once for all users and closes them once for each; `ADF_Flush_to_Disk` leaves in the write buffer what an operation without a date
  has written (`ADF_interface.c:1337` against 1314-1316, reproduced); files that link to
  each other make `ADF_Database_Close` recur until the stack is exhausted (reproduced);
  `ADF_Put_Name` looks for a name without its leading blanks and stores it with them, against "Need to
  check for uniqueness and legality of the name" (`ADF_interface.c:2527` against 2564-2568, names being compared
  exactly, `ADF_internals.c:1848-1866`): two children can both become " x", and a search finds the first only
  (reproduced with a program linked with `adf/`);
  errors of linked closes are overwritten by later ones
  (`ADF_internals.c:1774`); a creation that fails leaves its entry in use
  (`ADF_interface.c:862`); the growth of a sub-node table frees the old one first
  (`ADF_internals.c:726`); `ADF_Move_Child` checks neither for the node's own subtree
  nor for a node of that name nor that the parent has this very node
  (`ADF_interface.c:2241`); `ADF_Delete` with a wrong parent deletes the children and
  then fails; the zeros of a new data chunk reach its first two blocks only
  (`ADF_internals.c:7644`).
- parallel: the warning of `cgp_open` says that "subsequent calls" to `cg_open` "may also use parallel
  mode until all files are closed", with undefined behaviour (`pcgnslib.c:508-512`); `cgi_open` sets the
  access of a `cg_open` to native whatever is open (`cgnslib.c:478-492`), and `OpenedAsAsked` is proved.
  `cgp_error_exit` closes parallel files, which waits for the other ranks,
  before it calls `MPI_Abort` (`pcgnslib.c:490`).

## Not modelled, and why

The number conversions and the Fortran bindings are pure computation; the error
buffer holds no decisions; the tools are clients; the `cgi_read_*` functions
build the tree once and keep no state. Of ADF's space allocation the search for
a free chunk is compiled out (`ADF_internals.c:4249`), so that freed chunks go into tables
nothing reads: what is left is that the file grows. HDF5, MPI and the C library are
external. The rest is planned.

## Plan

In the order of what a fault would cost:

1. `GotoPosition`: the position stack, global `cg`, pointers that become stale by
   writes, deletions and closes; property: the position names a live node of the
   open file; abstract specification: a path in the tree.
2. The priority stack over `AdfBuffers`: a cached header is what the file has.
3. `ArrayRange`: ranges of arrays with rind, as `Sections` does it for elements.
4. `AdfhFiles`: link creation order and open objects of HDF5 files side by side.
5. `NodeTables`: which children `cg_goto` can reach, `cg_delete_node` can remove
   and the writers can make, against each other.
