--------------------------- MODULE ParallelFiles ---------------------------
(***************************************************************************)
(* The ranks of an MPI program that use pcgnslib.c and, beside it,         *)
(* cg_open and cg_is_cgns.  Every rank has the library's global settings   *)
(* (ctx_cgio of cgns_io.c, cgns_filetype of cgnslib.c) for itself; what    *)
(* joins the ranks are collectives: the broadcast of cgio_check_file and   *)
(* the calls of HDF5 on a file opened with the MPI driver.                 *)
(*                                                                         *)
(* A collective is known by its place in the sequence of those a rank has  *)
(* entered on a communicator.  HDF5 lets a rank go on when all have        *)
(* entered the same one; a broadcast lets the root go on at once.          *)
(***************************************************************************)
EXTENDS Integers, Sequences, FiniteSets

CONSTANTS Rank, Root,       \* rank 0 of the communicator
          FileName,
          Existing,         \* files that are there before
          Programs          \* what the ranks do: records of calls and exits

ASSUME RankAssumption == IsFiniteSet(Rank) /\ Root \in Rank /\ Existing \subseteq FileName

NONE == "none"
NATIVE == "NATIVE"
MADE == "MADE"              \* as NATIVE, of a file this rank has just made
PARALLEL == "PARALLEL"
CGP_COLLECTIVE == "collective"
CGP_INDEPENDENT == "independent"
Lib == "library"            \* ctx_cgio.pcg_mpi_comm; a file has a duplicate of it
World == "world"            \* the program's own
Comm == {Lib, World} \cup FileName

\* The communicator of a file is one of its own.
ASSUME CommAssumption == Lib \notin FileName /\ World \notin FileName

\* A call of the program: what is called on which file, by which ranks, and what
\* each offers.
ProgramCall == [op : STRING, file : FileName, mode : STRING, who : SUBSET Rank,
                arg : [Rank -> STRING]]

ASSUME ProgramAssumption ==
    \A p \in Programs :
        /\ p.calls \in Seq(ProgramCall)
        /\ \A i \in DOMAIN p.calls :
              p.calls[i].op = "cgp_pio_mode" =>
                  p.calls[i].mode \in {CGP_COLLECTIVE, CGP_INDEPENDENT}

VARIABLES prog,     \* the calls, in order, and whether a rank calls cgp_error_exit
                    \* when one returns CG_ERROR
          pos, at,  \* rank -> the call it is in, and where in that call
          ctx,      \* rank -> settings
          handle,   \* rank -> file -> how HDF5 has it open
          coll,     \* rank -> communicator -> collectives entered
          present,  \* names with a file (one that a rank makes alone is
                    \* written out and unlocked when it is closed)
          written,  \* <<file, rank, dataset>> in the file
          claimed,  \* the same, of writes that returned CG_OK
          failed,   \* ranks of which a call returned CG_ERROR
          deserted, \* one of these was a call other ranks take part in
          aborted   \* MPI_Abort was called

vars == <<prog, pos, at, ctx, handle, coll, present, written, claimed, failed,
          deserted, aborted>>

Settings == [init : BOOLEAN, mode : {NATIVE, PARALLEL}, type : {NONE, "hdf5"},
             pio : {CGP_COLLECTIVE, CGP_INDEPENDENT}]
\* ctx_cgio and cgns_filetype as the program finds them.
Settings0 == [init |-> FALSE, mode |-> NATIVE, type |-> NONE, pio |-> CGP_COLLECTIVE]

Now(r) == prog.calls[pos[r]]
Ended(r) == pos[r] > Len(prog.calls)

\* Rank r is about to make a call of this kind.
Calls(r, op) ==
    /\ ~ aborted /\ ~ Ended(r)
    /\ at[r] = "call"
    /\ Now(r).op = op
    /\ r \in Now(r).who

\* A call returns; on an error the program may turn to cgp_error_exit.
Return(r, ok, desert) ==
    /\ failed' = IF ok THEN failed ELSE failed \cup {r}
    /\ deserted' = (deserted \/ (~ ok /\ desert))
    /\ IF ~ ok /\ prog.exits
       THEN at' = [at EXCEPT ![r] = "exit"] /\ UNCHANGED pos
       ELSE at' = [at EXCEPT ![r] = "call"] /\ pos' = [pos EXCEPT ![r] = @ + 1]
    /\ UNCHANGED <<prog, aborted>>

\* Rank r enters a collective and waits there.
Enter(r, comm, what, where) ==
    /\ coll' = [coll EXCEPT ![r][comm] = Append(@, what)]
    /\ at' = [at EXCEPT ![r] = where]
    /\ UNCHANGED <<prog, pos, failed, deserted, aborted>>

\* Mutant: a rank that has gone on to its next collective is not counted.
CompleteInStep(r, comm) ==
    \A s \in Rank : coll[s][comm] = coll[r][comm]

\* The collective rank r waits in is complete.
Complete(r, comm) ==
    LET k == Len(coll[r][comm])
    IN  \A s \in Rank : /\ k \in DOMAIN coll[s][comm]
                        /\ coll[s][comm][k] = coll[r][comm][k]

\* A rank that a call does not concern goes on to the next.
Skip(r) ==
    /\ ~ aborted /\ ~ Ended(r)
    /\ at[r] = "call"
    /\ r \notin Now(r).who
    /\ pos' = [pos EXCEPT ![r] = @ + 1]
    /\ UNCHANGED <<prog, at, ctx, handle, coll, present, written, claimed, failed,
                   deserted, aborted>>

----------------------------------------------------------------------------
\* cgp_pio_mode
PioMode(r) ==
    /\ Calls(r, "cgp_pio_mode")
    /\ ctx' = [ctx EXCEPT ![r].pio = Now(r).mode]
    /\ Return(r, TRUE, FALSE)
    /\ UNCHANGED <<handle, coll, present, written, claimed>>

\* Mutant: the mode of the last cgp_open stays (PR #906).
ModeForOpenStale(r) == ctx[r].mode

\* cgi_open called by cg_open sets the mode back; cg_is_cgns goes to cgio directly.
ModeForOpen(r) == IF Now(r).op = "cg_open" THEN NATIVE ELSE ctx[r].mode

\* A rank has made the file and not closed it: until HDF5 has written it out and
\* given up its lock, others may find no HDF5 file under the name.
InTheMaking(f) == \E s \in Rank : handle[s][f] = MADE

\* cg_open in CG_MODE_WRITE, a serial write: it fixes the default file type, and
\* cgio_open_file unlinks a file that is there.
OpenSerialWrite(r) ==
    LET f == Now(r).file
    IN  /\ Calls(r, "cg_open") /\ Now(r).mode = "w"
        /\ ctx' = [ctx EXCEPT ![r].mode = ModeForOpen(r), ![r].type = "hdf5"]
        /\ present' = present \ {f}
        /\ written' = {w \in written : w[1] # f}
        /\ claimed' = {w \in claimed : w[1] # f}
        /\ at' = [at EXCEPT ![r] = "unlinked"]
        /\ UNCHANGED <<prog, pos, handle, coll, failed, deserted, aborted>>

\* H5Fcreate on the rank alone.  It fails when another rank has made the file
\* again in between and holds it.
MakeFile(r) ==
    LET f == Now(r).file
    IN  /\ ~ aborted
        /\ at[r] = "unlinked"
        /\ \/ /\ handle' = [handle EXCEPT ![r][f] = MADE]
              /\ present' = present \cup {f}
              /\ Return(r, TRUE, FALSE)
           \/ /\ f \in present /\ InTheMaking(f)
              /\ Return(r, FALSE, FALSE)
              /\ UNCHANGED <<handle, present>>
        /\ UNCHANGED <<ctx, coll, written, claimed>>

\* The end of an open of an existing file, once its type is known.  Every rank
\* looks for itself whether there is an HDF5 file; the open with the MPI driver
\* is collective.
FinishOpen(r, mode) ==
    LET f == Now(r).file
    IN  \/ /\ f \notin present \/ InTheMaking(f)
           /\ Return(r, FALSE, FALSE)
           /\ UNCHANGED <<handle, coll>>
        \/ /\ f \in present /\ mode = PARALLEL
           /\ Enter(r, Lib, <<"open", f>>, "open")
           /\ UNCHANGED handle
        \/ /\ f \in present /\ mode # PARALLEL
           /\ handle' = IF Now(r).op = "cg_is_cgns" THEN handle
                         ELSE [handle EXCEPT ![r][f] = NATIVE]
           /\ Return(r, TRUE, FALSE)
           /\ UNCHANGED coll

\* cg_open, which takes a file for HDF5 when that is the type set, and cg_is_cgns.
Probes(r) ==
    \/ Calls(r, "cg_open") /\ Now(r).mode = "r" /\ ctx[r].type = NONE
    \/ Calls(r, "cg_is_cgns")

OpenUnchecked(r) ==
    /\ Calls(r, "cg_open") /\ Now(r).mode = "r" /\ ctx[r].type # NONE
    /\ ctx' = [ctx EXCEPT ![r].mode = ModeForOpen(r)]
    /\ FinishOpen(r, ModeForOpen(r))
    /\ UNCHANGED <<present, written, claimed>>

\* cgio_check_file on rank 0, and on any rank before MPI is known to the library.
\* A name without a file is reported before the broadcast, what is wrong with a
\* file that is there by it.
CheckFile(r) ==
    LET f == Now(r).file
    IN  /\ Probes(r)
        /\ r = Root \/ ~ ctx[r].init
        /\ ctx' = [ctx EXCEPT ![r].mode = ModeForOpen(r)]
        /\ \/ /\ ctx[r].init /\ f \notin present
              /\ Return(r, FALSE, TRUE)
              /\ UNCHANGED <<handle, coll>>
           \/ /\ ctx[r].init /\ f \in present
              /\ Enter(r, Lib, <<"bcast", f>>, "checked")
              /\ UNCHANGED handle
           \/ ~ ctx[r].init /\ FinishOpen(r, ModeForOpen(r))
        /\ UNCHANGED <<present, written, claimed>>

\* cgio_check_file on the others.
AwaitCheck(r) ==
    /\ Probes(r)
    /\ r # Root /\ ctx[r].init
    /\ ctx' = [ctx EXCEPT ![r].mode = ModeForOpen(r)]
    /\ Enter(r, Lib, <<"bcast", Now(r).file>>, "checked")
    /\ UNCHANGED <<handle, present, written, claimed>>

\* The result has arrived: it is what rank 0 sent in its broadcast of that place,
\* for whichever file; whether this rank has one to open it then sees for itself.
Checked(r) ==
    LET k == Len(coll[r][Lib])
    IN  /\ ~ aborted
        /\ at[r] = "checked"
        /\ r # Root => k \in DOMAIN coll[Root][Lib] /\ coll[Root][Lib][k][1] = "bcast"
        /\ FinishOpen(r, ctx[r].mode)
        /\ UNCHANGED <<ctx, present, written, claimed>>

\* cgp_open: HDF5 is taken for granted and no type is checked.  To write, every
\* rank unlinks the file, and they make it when the last of them has come.
ParallelOpen(r) ==
    LET f == Now(r).file
    IN  /\ Calls(r, "cgp_open")
        /\ ctx' = [ctx EXCEPT ![r].init = TRUE, ![r].mode = PARALLEL]
        /\ IF Now(r).mode = "w"
           THEN /\ Enter(r, Lib, <<"open", f>>, "open")
                /\ present' = IF Complete(r, Lib)' THEN present \cup {f}
                                                  ELSE present \ {f}
                /\ written' = {w \in written : w[1] # f}
                /\ claimed' = {w \in claimed : w[1] # f}
                /\ UNCHANGED handle
           ELSE /\ FinishOpen(r, PARALLEL)
                /\ UNCHANGED <<present, written, claimed>>

\* The collective open is done.  cg_is_cgns closes the file again, collectively.
Opened(r) ==
    LET f == Now(r).file
    IN  /\ ~ aborted
        /\ at[r] = "open"
        /\ Complete(r, Lib)
        /\ IF Now(r).op = "cg_is_cgns"
           THEN /\ Enter(r, f, <<"close", f>>, "close")
                /\ UNCHANGED handle
           ELSE /\ handle' = [handle EXCEPT ![r][f] = PARALLEL]
                /\ Return(r, TRUE, FALSE)
                /\ UNCHANGED coll
        /\ UNCHANGED <<ctx, present, written, claimed>>

----------------------------------------------------------------------------
Offered(r) == Now(r).arg[r]     \* "data", "none" (a null pointer), "bad" range,
                                \* or "misfit": elements past the end of theirs
Collective(r) == ctx[r].pio = CGP_COLLECTIVE
Part(r, dataset) == IF Offered(r) = "none" THEN {} ELSE {<<Now(r).file, r, dataset>>}

\* Mutant: offsets and elements are three datasets.
DatasetsThree(op) == IF op = "cgp_poly_elements_write_data"
                     THEN {"data", "offsets", "elements"} ELSE {"data"}

\* The offsets of elements of variable size are the first of two datasets.
Datasets(op) == IF op = "cgp_poly_elements_write_data" THEN {"data", "elements"}
                                                       ELSE {"data"}
WriteOps == {"cgp_coord_write_data", "cgp_poly_elements_write_data"}

\* The checks of a write return before HDF5 is called.
WriteRefused(r) ==
    /\ \E op \in WriteOps : Calls(r, op)
    /\ handle[r][Now(r).file] = NONE \/ Offered(r) = "bad"
    /\ Return(r, FALSE, handle[r][Now(r).file] = PARALLEL /\ Collective(r))
    /\ UNCHANGED <<ctx, handle, coll, present, written, claimed>>

\* Mutant: a rank without data leaves the collective out.
TransferIfData(r) ==
    /\ \E op \in WriteOps : Calls(r, op)
    /\ handle[r][Now(r).file] # NONE /\ Offered(r) # "bad" /\ Collective(r)
    /\ IF Offered(r) = "none" THEN Return(r, TRUE, FALSE) /\ UNCHANGED coll
       ELSE Enter(r, Now(r).file, <<"data", Now(r).file>>, "data")
    /\ UNCHANGED <<ctx, handle, present, written, claimed>>

\* readwrite_data_parallel in collective mode, entered with an empty selection, too.
Transfer(r) ==
    /\ \E op \in WriteOps : Calls(r, op)
    /\ handle[r][Now(r).file] # NONE /\ Offered(r) # "bad" /\ Collective(r)
    /\ Enter(r, Now(r).file, <<"data", Now(r).file>>, "data")
    /\ UNCHANGED <<ctx, handle, present, written, claimed>>

\* The write of one dataset is done; cgp_poly_elements_write_data goes on to the
\* elements, which HDF5 refuses to a rank whose offsets lead past their end.
Transferred(r) ==
    LET f == Now(r).file
    IN  /\ ~ aborted
        /\ at[r] = "data"
        /\ Complete(r, f)
        /\ written' = written \cup Part(r, "data")
        /\ IF "elements" \notin Datasets(Now(r).op)
           THEN /\ claimed' = claimed \cup Part(r, "data")
                /\ Return(r, TRUE, FALSE)
                /\ UNCHANGED coll
           ELSE /\ UNCHANGED claimed
                /\ IF Offered(r) = "misfit"
                   THEN Return(r, FALSE, TRUE) /\ UNCHANGED coll
                   ELSE Enter(r, f, <<"elements", f>>, "elements")
        /\ UNCHANGED <<ctx, handle, present>>

ElementsTransferred(r) ==
    /\ ~ aborted
    /\ at[r] = "elements"
    /\ Complete(r, Now(r).file)
    /\ written' = written \cup Part(r, "elements")
    /\ claimed' = claimed \cup UNION {Part(r, d) : d \in Datasets(Now(r).op)}
    /\ Return(r, TRUE, FALSE)
    /\ UNCHANGED <<ctx, handle, coll, present>>

\* Mutant: the offsets are taken for the whole.
WriteOffsetsAlone(r) ==
    /\ \E op \in WriteOps : Calls(r, op)
    /\ handle[r][Now(r).file] # NONE /\ Offered(r) # "bad" /\ ~ Collective(r)
    /\ written' = written \cup Part(r, "data")
    /\ claimed' = claimed \cup UNION {Part(r, d) : d \in Datasets(Now(r).op)}
    /\ Return(r, TRUE, FALSE)
    /\ UNCHANGED <<ctx, handle, coll, present>>

\* In independent mode a write concerns no other rank.
WriteAlone(r) ==
    LET parts == Datasets(Now(r).op)
        done == IF Offered(r) = "misfit" THEN parts \ {"elements"} ELSE parts
    IN  /\ \E op \in WriteOps : Calls(r, op)
        /\ handle[r][Now(r).file] # NONE /\ Offered(r) # "bad" /\ ~ Collective(r)
        /\ written' = written \cup UNION {Part(r, d) : d \in done}
        /\ claimed' = IF done = parts THEN claimed \cup UNION {Part(r, d) : d \in parts}
                                      ELSE claimed
        /\ Return(r, done = parts, FALSE)
        /\ UNCHANGED <<ctx, handle, coll, present>>

----------------------------------------------------------------------------
\* cgp_close and cg_close: the close of a file opened with the MPI driver is
\* collective.
Close(r) ==
    LET f == Now(r).file
    IN  /\ Calls(r, "cg_close")
        /\ IF handle[r][f] = PARALLEL
           THEN Enter(r, f, <<"close", f>>, "close") /\ UNCHANGED handle
           ELSE /\ handle' = [handle EXCEPT ![r][f] = NONE]
                /\ Return(r, handle[r][f] # NONE, FALSE)
                /\ UNCHANGED coll
        /\ UNCHANGED <<ctx, present, written, claimed>>

Closed(r) ==
    /\ ~ aborted
    /\ at[r] = "close"
    /\ Complete(r, Now(r).file)
    /\ handle' = [handle EXCEPT ![r][Now(r).file] = NONE]
    /\ Return(r, TRUE, FALSE)
    /\ UNCHANGED <<ctx, coll, present, written, claimed>>

\* The program's own MPI_Barrier.
Barrier(r) ==
    /\ Calls(r, "MPI_Barrier")
    /\ Enter(r, World, <<"barrier">>, "barrier")
    /\ UNCHANGED <<ctx, handle, present, written, claimed>>

LeaveBarrier(r) ==
    /\ ~ aborted
    /\ at[r] = "barrier"
    /\ Complete(r, World)
    /\ Return(r, TRUE, FALSE)
    /\ UNCHANGED <<ctx, handle, coll, present, written, claimed>>

\* cgp_error_exit: cgio_cleanup closes the files that are open, one after the
\* other and before MPI_Abort is called.
InParallel(r) == {f \in FileName : handle[r][f] = PARALLEL}
NextToClose(r) == CHOOSE f \in InParallel(r) : TRUE

ErrorExit(r) ==
    /\ ~ aborted
    /\ at[r] = "exit"
    /\ IF InParallel(r) = {}
       THEN aborted' = TRUE /\ UNCHANGED <<at, coll, pos, prog, failed, deserted>>
       ELSE Enter(r, NextToClose(r), <<"close", NextToClose(r)>>, "cleanup")
    /\ UNCHANGED <<ctx, handle, present, written, claimed>>

CleanedUp(r) ==
    /\ ~ aborted
    /\ at[r] = "cleanup"
    /\ Complete(r, NextToClose(r))
    /\ handle' = [handle EXCEPT ![r][NextToClose(r)] = NONE]
    /\ at' = [at EXCEPT ![r] = "exit"]
    /\ UNCHANGED <<prog, pos, ctx, coll, present, written, claimed, failed, deserted,
                   aborted>>

----------------------------------------------------------------------------
Init ==
    /\ prog \in Programs
    /\ pos = [r \in Rank |-> 1]
    /\ at = [r \in Rank |-> "call"]
    /\ ctx = [r \in Rank |-> Settings0]
    /\ handle = [r \in Rank |-> [f \in FileName |-> NONE]]
    /\ coll = [r \in Rank |-> [c \in Comm |-> <<>>]]
    /\ present = Existing
    /\ written = {} /\ claimed = {}
    /\ failed = {} /\ deserted = FALSE /\ aborted = FALSE

Step(r) ==
    \/ Skip(r) \/ PioMode(r) \/ Barrier(r) \/ LeaveBarrier(r)
    \/ OpenSerialWrite(r) \/ MakeFile(r) \/ OpenUnchecked(r)
    \/ CheckFile(r) \/ AwaitCheck(r) \/ Checked(r)
    \/ ParallelOpen(r) \/ Opened(r)
    \/ WriteRefused(r) \/ Transfer(r) \/ Transferred(r) \/ ElementsTransferred(r)
    \/ WriteAlone(r)
    \/ Close(r) \/ Closed(r)
    \/ ErrorExit(r) \/ CleanedUp(r)

Next == \E r \in Rank : Step(r)

\* Every rank is a process of its own, which goes on unless it waits.
Spec == Init /\ [][Next]_vars /\ \A r \in Rank : WF_vars(Step(r))

----------------------------------------------------------------------------
Places == {"call", "unlinked", "checked", "open", "data", "elements", "close", "barrier",
           "exit", "cleanup"}
Cells == FileName \X Rank \X {"data", "elements"}

\* Types: a rank waits at most where its call can wait, and what is claimed or
\* written is a part of a file.
TypeOK ==
    /\ pos \in [Rank -> 1 .. Len(prog.calls) + 1]
    /\ at \in [Rank -> Places]
    /\ ctx \in [Rank -> Settings]
    /\ handle \in [Rank -> [FileName -> {NONE, NATIVE, MADE, PARALLEL}]]
    /\ present \subseteq FileName
    /\ written \subseteq Cells /\ claimed \subseteq Cells
    /\ failed \subseteq Rank /\ deserted \in BOOLEAN /\ aborted \in BOOLEAN

OpenCalls(r, f) ==
    {i \in 1 .. pos[r] - 1 : /\ prog.calls[i].op \in {"cg_open", "cgp_open"}
                             /\ prog.calls[i].file = f
                             /\ r \in prog.calls[i].who}

\* A file that a rank opens with cg_open is open on that rank alone, and one it
\* opens with cgp_open on all, whatever was opened before and is still open.  The
\* text of cgp_open (pcgnslib.c:508-512) warns of less: a later cg_open "may also
\* use parallel mode until all files are closed".  cgi_open has set its own mode
\* for issue #836 (cgnslib.c:478-492), and that it is kept is what is stated here.
OpenedAsAsked ==
    \A r \in Rank, f \in FileName :
        handle[r][f] # NONE =>
            \E i \in OpenCalls(r, f) :
                /\ \A j \in OpenCalls(r, f) : j <= i
                /\ prog.calls[i].op = "cgp_open" <=> handle[r][f] = PARALLEL

\* The program tests a file, or opens one whose type is not set, with MPI known
\* to the library, and has done so or opened a serial file on some ranks only.
UnevenProbe ==
    \E i \in DOMAIN prog.calls :
        /\ prog.calls[i].op \in {"cg_is_cgns", "cg_open"}
        /\ prog.calls[i].mode = "r"
        /\ \E j \in 1 .. i : prog.calls[j].op = "cgp_open"
        /\ \E j \in 1 .. i : /\ prog.calls[j].op \in {"cg_open", "cg_is_cgns"}
                             /\ prog.calls[j].who # Rank

Excused == deserted \/ UnevenProbe

\* The ranks enter the same collectives in the same order, those without data
\* those that run ahead and those that leave through cgp_error_exit, too.  Only a
\* rank that is refused in a call the others make together, or a test of a file
\* that not all ranks make alike, breaks the order.
CollectivesAgree ==
    Excused \/
    \A r, s \in Rank, c \in Comm :
        \A k \in DOMAIN coll[r][c] \cap DOMAIN coll[s][c] : coll[r][c][k] = coll[s][c][k]

(* Two rules for programs.  The library does not keep a rank from opening, *)
(* and so emptying, a file that another rank has not done with; a program  *)
(* that closes its files does, because the close of a parallel file waits  *)
(* for all ranks.                                                          *)
OpenOps == {"cg_open", "cgp_open"}
OpensIn(p, i, r, f) == p.calls[i].op \in OpenOps /\ p.calls[i].file = f /\ r \in p.calls[i].who
ClosesIn(p, i, r, f) == p.calls[i].op = "cg_close" /\ p.calls[i].file = f /\ r \in p.calls[i].who

\* A rank that opens a file has closed it since it last opened it.
ClosesFirst(p) ==
    \A r \in Rank, f \in FileName, i \in DOMAIN p.calls, j \in 1 .. Len(p.calls) :
        (j < i /\ OpensIn(p, i, r, f) /\ OpensIn(p, j, r, f)) =>
            \E k \in j + 1 .. i - 1 : ClosesIn(p, k, r, f)

\* The functions that write in parallel are called on a file that the rank has
\* from cgp_open: check_parallel asks only that it is an HDF5 file.
WritesInParallel(p) ==
    \A r \in Rank, i \in DOMAIN p.calls, j \in 1 .. Len(p.calls) :
        (/\ j < i /\ p.calls[i].op \in WriteOps /\ r \in p.calls[i].who
         /\ OpensIn(p, j, r, p.calls[i].file)
         /\ \A k \in j + 1 .. i - 1 : ~ OpensIn(p, k, r, p.calls[i].file)) =>
            p.calls[j].op = "cgp_open"

\* Both, of every program.
KeepsRules == \A p \in Programs : ClosesFirst(p) /\ WritesInParallel(p)

(* Rules for programs of which the ranks then enter the same collectives.  *)
(* What call i of program p meets depends on the calls before it.          *)

\* File f is open in parallel.
HeldAt(p, i, f) ==
    \E j \in 1 .. i - 1 :
        /\ p.calls[j].op = "cgp_open" /\ p.calls[j].file = f
        /\ \A k \in j + 1 .. i - 1 : ~ (p.calls[k].op = "cg_close" /\ p.calls[k].file = f)

\* Call j makes file f.
Makes(p, j, f) ==
    /\ p.calls[j].op \in OpenOps /\ p.calls[j].mode = "w"
    /\ p.calls[j].file = f /\ p.calls[j].who # {}

\* There is a file f at the start, or the program has made it.
ThereAt(p, i, f) == f \in Existing \/ \E j \in 1 .. i - 1 : Makes(p, j, f)

\* Whatever ranks made file f on their own, or made it anew, have closed it, and
\* all ranks have met in a barrier since: every rank finds it whole.
DoneAt(p, i, f) ==
    \A j \in 1 .. i - 1 :
        (Makes(p, j, f) /\ p.calls[j].op = "cg_open") =>
            \E k, m \in j + 1 .. i - 1 :
                /\ k < m /\ p.calls[m].op = "MPI_Barrier"
                /\ p.calls[k].op = "cg_close" /\ p.calls[k].file = f
                /\ p.calls[j].who \subseteq p.calls[k].who

\* The transfer mode of all writes, when it is set first or not at all.
Pio(p) == IF p.calls # <<>> /\ p.calls[1].op = "cgp_pio_mode" THEN p.calls[1].mode
          ELSE CGP_COLLECTIVE

\* Call i may return CG_ERROR on some of the ranks alone.
MayFail(p, i) ==
    \/ p.calls[i].op \in {"cg_open", "cg_is_cgns"}
    \/ p.calls[i].op = "cg_close" /\ ~ HeldAt(p, i, p.calls[i].file)
    \/ p.calls[i].op \in WriteOps /\ Pio(p) = CGP_INDEPENDENT

\* What concerns a file that is open in parallel is called by all ranks; such a
\* file is closed before it is opened or tested, and no other is written to in
\* parallel.  A file to be opened in parallel, or tested, is there and whole.
\* A program that leaves on an error does not try what may fail on one rank
\* alone while a file that it writes to is open.
Orderly(p) ==
    /\ \A i \in DOMAIN p.calls :
          LET c == p.calls[i]
          IN  /\ c.op \in WriteOps \cup {"cgp_open", "cgp_pio_mode", "MPI_Barrier"} => c.who = Rank
              /\ (c.op = "cg_close" /\ HeldAt(p, i, c.file)) => c.who = Rank
              /\ c.op \in WriteOps => HeldAt(p, i, c.file)
              /\ c.op \in OpenOps \cup {"cg_is_cgns"} => ~ HeldAt(p, i, c.file)
              /\ (c.op = "cgp_open" /\ c.mode # "w") => ThereAt(p, i, c.file)
              /\ (c.op = "cgp_open" /\ c.mode # "w") => DoneAt(p, i, c.file)
              /\ c.op = "cgp_pio_mode" => i = 1
              /\ c.op = "cg_is_cgns" => c.mode = "r" /\ DoneAt(p, i, c.file)
    /\ (p.exits /\ Pio(p) = CGP_COLLECTIVE) =>
          \A i \in DOMAIN p.calls, j \in 1 .. Len(p.calls) :
              (j < i /\ p.calls[i].op \in WriteOps /\ MayFail(p, j)) =>
                  ~ HeldAt(p, j, p.calls[i].file)

\* What a rank was told is written is in the file, in each of the datasets the
\* call writes one after the other: no rank empties the file between the two.
OkIsInFile == claimed \subseteq written

AllEnded == aborted \/ \A r \in Rank : Ended(r)

\* No rank waits for ever for the others, with the same exceptions.
EveryRankEnds == <>(AllEnded \/ Excused)
============================================================================
