------------------------------ MODULE AdfBuffers ------------------------------
(***************************************************************************)
(* The block buffers of ADF (src/src/adf/ADF_internals.c): one buffer for  *)
(* reading and one for writing, for all files together, and the rule, in   *)
(* ADF_interface.c, that an operation ends with the modification date and  *)
(* a flush.                                                                *)
(*                                                                         *)
(* A file is a row of cells, several to a block.  What a cell holds is     *)
(* abstracted to whether a copy of it is current, that is, has the value   *)
(* last written to the cell: disk[f], rd.cur and wr.cur are the sets of    *)
(* cells of which the disk and the buffers have a current copy.  Only the  *)
(* cells somebody relies on are listed in them: those written by the       *)
(* operation in progress (pending) and those written by operations that    *)
(* succeeded (owed).                                                       *)
(*                                                                         *)
(* Calls of the system: a write may fail after any part of it has been     *)
(* done; reads and seeks on an open file do not fail.                      *)
(***************************************************************************)
EXTENDS Integers

CONSTANTS Files,         \* indices of ADF_file[]
          NoFile,
          CellsPerBlock, \* DISK_BLOCK_SIZE
          Size,          \* file -> number of its cells
          Records,       \* file -> ranges that are only written and read whole
          Data           \* file -> data chunks, ranges that are written and read in part

ASSUME CellAssumption == CellsPerBlock \in Nat \ {0} /\ NoFile \notin Files

VARIABLES
    disk,    \* file -> cells current on disk
    rd,      \* rd_block_buffer, last_rd_block, last_rd_file, num_in_rd_block
    wr,      \* wr_block_buffer, last_wr_block, last_wr_file, flush_wr_block
    opened,  \* ADF_file[].in_use
    busy,    \* file an operation is in progress on, or NoFile
    pending, \* cells that operation has written
    owed,    \* file -> other cells whose last write has not been reported lost
    passed   \* file -> cells written past a clean write buffer of their block

vars == <<disk, rd, wr, opened, busy, pending, owed, passed>>

Cells(f) == 0 .. Size[f] - 1
Block(c) == c \div CellsPerBlock
BlockCells(f, b) == {c \in Cells(f) : Block(c) = b}

\* A range <<first, last>> of cells.  The file header, the root node and the
\* table of free chunks lie at the start of block 0.
Header == <<0, 0>>
Span(r) == r[1] .. r[2]
DataRanges(f) ==
    UNION {{r \in Span(c) \X Span(c) : r[1] <= r[2]} : c \in Data[f]}
IsLarge(r) == Block(r[1]) # Block(r[2])
EndBlock(r) ==
    Block(r[1]) + ((r[1] % CellsPerBlock) + r[2] - r[1] + 1) \div CellsPerBlock + 1

\* Records and chunks are allocations of their own within the file, of which the
\* file header is the first.
ASSUME LayoutAssumption ==
    /\ Size \in [Files -> Nat \ {0}]
    /\ \A f \in Files :
          LET ranges == Records[f] \cup Data[f] IN
          /\ ranges \subseteq {r \in Cells(f) \X Cells(f) : r[1] <= r[2]}
          /\ \A r, s \in ranges : r # s => Span(r) \cap Span(s) = {}
          /\ Header \in Records[f]
          /\ Records[f] \cap Data[f] = {}

Holds(buffer, f, b) == buffer.file = f /\ buffer.block = b
Reaches(r, buffer, f) ==
    buffer.file = f /\ Block(r[1]) <= buffer.block /\ buffer.block <= EndBlock(r)

NoRead == [file |-> NoFile, block |-> 0, full |-> FALSE, cur |-> {}]
NoWrite == [file |-> NoFile, block |-> 0, dirty |-> FALSE, cur |-> {}]

----------------------------------------------------------------------------
\* The buffers as a record, for calls that are several writes: [disk, rd, wr].
Io == [disk |-> disk, rd |-> rd, wr |-> wr]

\* ADFI_write: the block goes to disk, or a part of it when the write fails.
Flushed(io, part) ==
    LET f == io.wr.file IN
    [disk |-> [io.disk EXCEPT ![f] = (@ \ part) \cup (io.wr.cur \cap part)],
     rd |-> io.rd, wr |-> [io.wr EXCEPT !.dirty = FALSE]]
FlushedWhole(io) == Flushed(io, BlockCells(io.wr.file, io.wr.block))

MustFlush(io, f, r) == io.wr.dirty /\ (IsLarge(r) \/ ~ Holds(io.wr, f, Block(r[1])))

\* The new values of the range make every copy of its cells out of date.
Outdate(buffer, f, r) ==
    IF buffer.file = f THEN [buffer EXCEPT !.cur = @ \ Span(r)] ELSE buffer
Renewed(io, f, r) ==
    [disk |-> [io.disk EXCEPT ![f] = @ \ Span(r)],
     rd |-> Outdate(io.rd, f, r), wr |-> Outdate(io.wr, f, r)]

\* Mutant: only writes that go through the buffer take the read buffer back.
ForgetReadIfSmall(io, f, r) ==
    IF Reaches(r, io.rd, f) /\ ~ IsLarge(r) THEN [io EXCEPT !.rd = NoRead] ELSE io

\* Every write takes the read buffer back if it reaches its block.
ForgetRead(io, f, r) == IF Reaches(r, io.rd, f) THEN [io EXCEPT !.rd = NoRead] ELSE io

\* Mutant: the write buffer is kept after the flush.
MakeRoomKeeping(io, f, r) == IF MustFlush(io, f, r) THEN FlushedWhole(io) ELSE io

\* The write buffer is only taken back where it is flushed.
MakeRoom(io, f, r) ==
    IF ~ MustFlush(io, f, r) THEN io
    ELSE IF Reaches(r, io.wr, f) THEN [FlushedWhole(io) EXCEPT !.wr = NoWrite]
         ELSE FlushedWhole(io)

WriteThrough(io, f, r) == [io EXCEPT !.disk[f] = @ \cup Span(r)]

\* Mutant: the buffer is loaded without regard to the end of the block.
LoadedBeyond(io, f, b) ==
    IF Holds(io.wr, f, b) THEN io.wr
    ELSE [file |-> f, block |-> b, dirty |-> FALSE,
          cur |-> IF Holds(io.rd, f, b) THEN io.rd.cur ELSE io.disk[f]]

Loaded(io, f, b) ==
    IF Holds(io.wr, f, b) THEN io.wr
    ELSE [file |-> f, block |-> b, dirty |-> FALSE,
          cur |-> IF Holds(io.rd, f, b) THEN io.rd.cur
                                        ELSE io.disk[f] \cap BlockCells(f, b)]
WriteBuffer(io, f, r) ==
    LET w == Loaded(io, f, Block(r[1])) IN
    [io EXCEPT !.wr = [w EXCEPT !.dirty = TRUE, !.cur = @ \cup Span(r)]]

Room(io, f, r) == MakeRoom(ForgetRead(io, f, r), f, r)

\* ADFI_write_file: a range over a block boundary goes to disk, a smaller one
\* to the buffer.
WriteFile(io, f, r) ==
    LET room == Room(Renewed(io, f, r), f, r) IN
    IF IsLarge(r) THEN WriteThrough(room, f, r) ELSE WriteBuffer(room, f, r)

\* Cells whose new values a write buffer that is kept does not have.
PassedBy(io, f, r) ==
    IF IsLarge(r) /\ io.wr.file = f /\ ~ io.wr.dirty
    THEN Span(r) \cap BlockCells(f, io.wr.block)
    ELSE {}

----------------------------------------------------------------------------
\* The state after a call: copies of cells nobody relies on are not listed.
Become(io, owed1, passed1) ==
    LET Kept(f) == owed1[f] \cup (IF f = busy' THEN pending' ELSE {})
        KeptIn(buffer) == IF buffer.file = NoFile THEN buffer
                          ELSE [buffer EXCEPT !.cur = @ \cap Kept(buffer.file)]
    IN /\ disk' = [f \in Files |-> io.disk[f] \cap Kept(f)]
       /\ rd' = KeptIn(io.rd) /\ wr' = KeptIn(io.wr)
       /\ owed' = owed1
       /\ passed' = [f \in Files |-> passed1[f] \cap Kept(f)]

\* An operation that fails is over: what it has written counts for nothing,
\* what was lost of others is not owed any more.
EndFailed(io, lost) ==
    /\ busy' = NoFile /\ pending' = {}
    /\ Become(io, [f \in Files |-> owed[f] \ lost[f]], passed)
    /\ UNCHANGED opened

\* The write buffer of io is flushed, the write fails, and what only the buffer
\* has is lost: flush_wr_block is reset first.
FlushFails(io, more) ==
    \E n \in BlockCells(io.wr.file, io.wr.block) :
        LET g == io.wr.file
            failed == Flushed(io, {c \in BlockCells(g, io.wr.block) : c < n})
        IN EndFailed(failed, [more EXCEPT ![g] = @ \cup (io.wr.cur \ failed.disk[g])])

Nothing == [f \in Files |-> {}]

----------------------------------------------------------------------------
\* ADFI_write_file as a step of an operation on f.
Write(f, r) ==
    /\ f \in opened /\ busy \in {NoFile, f}
    /\ busy' = f /\ pending' = pending \cup Span(r)
    /\ Become(WriteFile(Io, f, r), [owed EXCEPT ![f] = @ \ Span(r)],
              [passed EXCEPT ![f] = (@ \ Span(r)) \cup PassedBy(Io, f, r)])
    /\ UNCHANGED opened

WriteFails(f, r) ==
    /\ f \in opened /\ busy \in {NoFile, f}
    /\ \/ MustFlush(Io, f, r) /\ FlushFails(ForgetRead(Io, f, r), Nothing)
       \/ IsLarge(r) /\ EndFailed(Room(Io, f, r), [Nothing EXCEPT ![f] = Span(r)])

\* ADFI_read_file of a range within a block; one over a boundary is read from
\* disk and changes nothing.  A block is read short where the file ends.
MayRead(f, r) == r \in Records[f] \cup (IF busy = f THEN {} ELSE DataRanges(f))

Read(f, r) ==
    LET b == Block(r[1]) IN
    /\ f \in opened /\ MayRead(f, r) /\ ~ IsLarge(r)
    /\ ~ (rd.full /\ Holds(rd, f, b))
    /\ \E full \in BOOLEAN :
          rd' = IF Holds(wr, f, b)
                THEN [file |-> f, block |-> b, full |-> TRUE, cur |-> wr.cur]
                ELSE [file |-> f, block |-> b, full |-> full,
                      cur |-> disk[f] \cap BlockCells(f, b)]
    /\ UNCHANGED <<disk, wr, opened, busy, pending, owed, passed>>

\* Mutant: the flush comes before the date.
EndFlushedThenDated(f) ==
    /\ busy = f
    /\ busy' = NoFile /\ pending' = {}
    /\ Become(WriteFile(IF wr.dirty THEN FlushedWhole(Io) ELSE Io, f, Header),
              [owed EXCEPT ![f] = @ \cup pending \cup Span(Header)],
              [passed EXCEPT ![f] = @ \ Span(Header)])
    /\ UNCHANGED opened

\* ADFI_write_modification_date, the end of the operations that change a file:
\* the date goes to the header and the buffer is flushed.
EndDated(f) ==
    /\ busy = f
    /\ busy' = NoFile /\ pending' = {}
    /\ Become(FlushedWhole(WriteFile(Io, f, Header)),
              [owed EXCEPT ![f] = @ \cup pending \cup Span(Header)],
              [passed EXCEPT ![f] = @ \ Span(Header)])
    /\ UNCHANGED opened

EndDatedFails(f) ==
    /\ busy = f
    /\ \/ MustFlush(Io, f, Header) /\ FlushFails(ForgetRead(Io, f, Header), Nothing)
       \/ FlushFails(WriteFile(Io, f, Header), [Nothing EXCEPT ![f] = Span(Header)])

\* ADF_Move_Child and ADF_Database_Set_Format write records and end without a
\* date.
EndUndated(f) ==
    /\ busy = f
    /\ pending \subseteq UNION {Span(r) : r \in Records[f]}
    /\ busy' = NoFile /\ pending' = {}
    /\ Become(Io, [owed EXCEPT ![f] = @ \cup pending], passed)
    /\ UNCHANGED opened

\* An operation gives up for another reason: no memory, a damaged tag.
Abort(f) == busy = f /\ EndFailed(Io, Nothing)

----------------------------------------------------------------------------
\* Another file gets the index f: whatever the buffers have of f is not of it.
Replaced(f, cells) ==
    LET Drop(buffer) == IF buffer.file = f THEN [buffer EXCEPT !.cur = {}] ELSE buffer
    IN [disk |-> [disk EXCEPT ![f] = cells], rd |-> Drop(rd), wr |-> Drop(wr)]

\* ADF_Database_Open of a file that exists, the one last open as f or another
\* one; its header is read.
OpenOld(f) ==
    /\ f \notin opened /\ busy = NoFile
    /\ opened' = opened \cup {f}
    /\ UNCHANGED <<busy, pending>>
    /\ \E other \in BOOLEAN, full \in BOOLEAN :
          LET io == IF other THEN Replaced(f, Cells(f)) ELSE Io
              owed1 == IF other THEN [owed EXCEPT ![f] = Cells(f)] ELSE owed
          IN /\ ~ other => Span(Header) \subseteq owed[f]
             /\ Become([io EXCEPT !.rd =
                           IF @.full /\ Holds(@, f, 0) THEN @
                           ELSE [file |-> f, block |-> 0, full |-> full,
                                 cur |-> io.disk[f] \cap BlockCells(f, 0)]],
                       owed1, IF other THEN [passed EXCEPT ![f] = {}] ELSE passed)

\* ADF_Database_Open of a new file writes the header and ends without a flush.
\* When it fails its index stays in use and another takes its place.
OpenNew(f) ==
    /\ f \notin opened /\ busy = NoFile
    /\ opened' = opened \cup {f}
    /\ UNCHANGED <<busy, pending>>
    /\ Become(WriteFile(Replaced(f, {}), f, Header),
              [owed EXCEPT ![f] = Span(Header)], [passed EXCEPT ![f] = {}])

OpenNewFails(f) ==
    /\ f \notin opened /\ busy = NoFile
    /\ MustFlush(Io, f, Header)
    /\ FlushFails(Io, Nothing)

\* Mutant: the read buffer is left to the next file of this index.
ReleasedForWriting(io, f) == [io EXCEPT !.wr = IF @.file = f THEN NoWrite ELSE @]

\* ADFI_close_file of the last user: ADFI_flush_buffers with FLUSH_CLOSE, then
\* close, even if the flush failed.
Released(io, f) ==
    [io EXCEPT !.rd = IF @.file = f THEN NoRead ELSE @,
               !.wr = IF @.file = f THEN NoWrite ELSE @]

Close(f) ==
    /\ f \in opened /\ busy = NoFile
    /\ opened' = opened \ {f}
    /\ UNCHANGED <<busy, pending>>
    /\ \/ LET io == IF wr.file = f /\ wr.dirty THEN FlushedWhole(Io) ELSE Io
          IN Become(Released(io, f), owed, passed)
       \/ /\ wr.file = f /\ wr.dirty
          /\ \E n \in BlockCells(f, wr.block) :
                LET io == Flushed(Io, {c \in BlockCells(f, wr.block) : c < n})
                IN Become(Released(io, f),
                          [owed EXCEPT ![f] = @ \ (wr.cur \ io.disk[f])], passed)

----------------------------------------------------------------------------
Init ==
    /\ disk = [f \in Files |-> Cells(f)] /\ owed = disk
    /\ rd = NoRead /\ wr = NoWrite
    /\ opened = {} /\ busy = NoFile /\ pending = {}
    /\ passed = Nothing

Next ==
    \E f \in Files :
        \/ \E r \in Records[f] \cup DataRanges(f) :
              Write(f, r) \/ WriteFails(f, r) \/ Read(f, r)
        \/ EndDated(f) \/ EndDatedFails(f) \/ EndUndated(f) \/ Abort(f)
        \/ OpenOld(f) \/ OpenNew(f) \/ OpenNewFails(f) \/ Close(f)

Spec == Init /\ [][Next]_vars

----------------------------------------------------------------------------
Current == [Files -> SUBSET Nat]
\* Types: an operation is on a file that is open, and a buffer has cells of the
\* one block of the one file it is on.
TypeOK ==
    /\ disk \in Current /\ owed \in Current /\ passed \in Current
    /\ rd \in [file : Files \cup {NoFile}, block : Nat, full : BOOLEAN, cur : SUBSET Nat]
    /\ wr \in [file : Files \cup {NoFile}, block : Nat, dirty : BOOLEAN, cur : SUBSET Nat]
    /\ \A b \in {rd, wr} : b.file # NoFile => b.cur \subseteq BlockCells(b.file, b.block)
    /\ opened \subseteq Files
    /\ busy \in opened \cup {NoFile}
    /\ pending \subseteq Nat

\* What is relied on, as far as the code keeps it.
Relied(f) == (owed[f] \cup (IF f = busy THEN pending ELSE {})) \ passed[f]

\* What reading a range gives.
Returned(f, r) ==
    LET b == Block(r[1]) IN
    IF IsLarge(r) THEN disk[f]
    ELSE IF rd.full /\ Holds(rd, f, b) THEN rd.cur
    ELSE IF Holds(wr, f, b) THEN wr.cur
    ELSE disk[f]

\* A read sees the last write: whichever file the buffers are on, whatever has
\* failed before, and although a range over a boundary is read past a write
\* buffer that may be dirty.
ReadsSeeWrites ==
    \A f \in opened : \A r \in Records[f] \cup DataRanges(f) :
        MayRead(f, r) => Span(r) \cap Relied(f) \subseteq Returned(f, r)

\* After an operation that ends with the date, the process may die: all the
\* file owes is on disk, that operation's writes and earlier ones'.
DatedIsOnDisk ==
    [][\A f \in Files : EndDated(f) => owed'[f] \ passed'[f] \subseteq disk'[f]]_vars

\* A file that is closed is complete, and the buffers do not remember it: the
\* index can be given to another file.
ClosedIsComplete ==
    \A f \in Files \ opened :
        /\ owed[f] \ passed[f] \subseteq disk[f]
        /\ rd.file # f /\ wr.file # f

\* No flush takes a value back that the disk already has.
DiskNeverGoesBack ==
    [][\A f \in Files : \A c \in disk[f] \cap Relied(f) \cap owed'[f] :
          \/ c \in disk'[f]
          \/ f \in opened' \ opened]_vars

\* "If the write buffer overlaps the buffer then reset it to make sure its
\* current" (ADFI_write_file): what an operation that succeeded has written is
\* on disk or about to be flushed.
NothingIsPassed ==
    \A f \in Files \ {busy} :
        owed[f] \subseteq disk[f] \cup (IF wr.file = f /\ wr.dirty THEN wr.cur ELSE {})
=============================================================================
