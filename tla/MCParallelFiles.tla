-------------------------- MODULE MCParallelFiles --------------------------
(* Three ranks and two files, one of which is there before.  A program     *)
(* sets the mode of the parallel writes and then has up to three parts: a  *)
(* parallel file written, a serial file written by rank 0, a file opened   *)
(* or tested by all ranks or by rank 0.                                    *)
EXTENDS ParallelFiles

CONSTANTS old, new

MCRank == {0, 1, 2}
Any == [r \in Rank |-> "data"]

Call(op, f, mode, who, arg) ==
    [op |-> op, file |-> f, mode |-> mode, who |-> who, arg |-> arg]
Open(op, f, mode, who) == Call(op, f, mode, who, Any)
Close_(f, who) == Call("cg_close", f, "", who, Any)
BarrierCall == Call("MPI_Barrier", old, "", Rank, Any)

Offers == {[r \in Rank |-> IF r = 0 THEN a ELSE IF r = 1 THEN b ELSE "data"] :
              a \in {"data", "none", "bad"}, b \in {"data", "none", "misfit"}}

Write(f, op, arg) == <<Open("cgp_open", f, "w", Rank), Call(op, f, "", Rank, arg),
                       Close_(f, Rank)>>
\* What one rank makes and the others look for has a barrier between, as in the
\* tests; nothing else has.
ParallelRead(f) == <<Open("cgp_open", f, "r", Rank), Close_(f, Rank), BarrierCall>>
SerialWrite(f) == <<Open("cg_open", f, "w", {Root}), Close_(f, {Root}), BarrierCall>>
\* Two ranks make the same file on their own.
BothWrite(f) == <<Open("cg_open", f, "w", {0, 1}), Close_(f, {0, 1}), BarrierCall>>
SerialRead(f, who) == <<Open("cg_open", f, "r", who), Close_(f, who)>>
Test(f, who) == <<Open("cg_is_cgns", f, "r", who)>>
\* Two parallel files at a time, as in test_mixed_par_ser.c
Twice == <<Open("cgp_open", old, "w", Rank), Open("cgp_open", new, "w", Rank),
           Close_(old, Rank), Call("cgp_coord_write_data", new, "", Rank, Any),
           Close_(new, Rank)>>

Writes == {Write(old, op, arg) : op \in WriteOps, arg \in Offers}
Others == {<<>>, Twice, ParallelRead(old), ParallelRead(new),
           SerialWrite(old), SerialWrite(new)}
          \cup {SerialRead(f, who) : f \in FileName, who \in {Rank, {Root}}}
          \cup {Test(old, who) : who \in {Rank, {Root}}}
Mode == {<<Call("cgp_pio_mode", old, CGP_INDEPENDENT, Rank, Any)>>, <<>>}

MCPrograms ==
    {[calls |-> a \o b \o c, exits |-> exits] :
        a \in Mode, b \in Writes, c \in Others, exits \in BOOLEAN}
    \cup
    {[calls |-> a \o b \o c, exits |-> FALSE] :
        a \in Others, b \in Others \cup {Write(old, "cgp_coord_write_data", Any)},
        c \in Others}
    \cup
    {[calls |-> BothWrite(f) \o c, exits |-> FALSE] :
        f \in FileName, c \in {<<>>, ParallelRead(new), SerialRead(new, Rank)}}

\* The programs close a file before they open it again and write in parallel only
\* what they opened so.
ASSUME MCProgramsKeepRules == KeepsRules

\* The programs that write a parallel file and then do anything but open in
\* parallel a file that is not there are orderly, whether they leave on an error or not.
ASSUME MCWritesAreOrderly ==
    \A a \in Mode, b \in Writes, c \in Others \ {ParallelRead(new)}, exits \in BOOLEAN :
        Orderly([calls |-> a \o b \o c, exits |-> exits])

\* A file that one rank makes anew may be opened in parallel when it is closed and
\* the ranks have met; the barrier may not be left out.
ASSUME MCOverwriteNeedsBarrier ==
    LET Overwrite == <<Open("cg_open", old, "w", {Root}), Close_(old, {Root})>>
        Program(calls) == [calls |-> calls, exits |-> FALSE]
    IN  /\ ~ Orderly(Program(Overwrite \o ParallelRead(old)))
        /\ Orderly(Program(Overwrite \o <<BarrierCall>> \o ParallelRead(old)))
=============================================================================
