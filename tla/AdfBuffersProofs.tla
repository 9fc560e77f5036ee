-------------------------- MODULE AdfBuffersProofs --------------------------
(***************************************************************************)
(* Proofs about AdfBuffers, for any files, sizes of blocks and layouts of  *)
(* records and data chunks: reads see the last writes, operations that end *)
(* with the date leave nothing in the buffer, and no flush takes a value   *)
(* back that the disk has.                                                 *)
(***************************************************************************)
EXTENDS AdfBuffers, TLAPS

----------------------------------------------------------------------------
(* Cells, ranges and blocks                                                *)

\* The quotient of a division is the number of whole blocks before a cell.
LEMMA BlockBounds ==
    ASSUME NEW c \in Nat
    PROVE  /\ Block(c) \in Nat
           /\ CellsPerBlock * Block(c) <= c
           /\ c < CellsPerBlock * Block(c) + CellsPerBlock
BY CellAssumption DEF Block

\* The blocks are in the order of the cells.
LEMMA BlocksInOrder ==
    ASSUME NEW c \in Nat, NEW d \in Nat, c <= d
    PROVE  Block(c) <= Block(d)
<1>1. SUFFICES ASSUME Block(d) + 1 <= Block(c) PROVE FALSE
  BY BlockBounds
<1>2. CellsPerBlock * (Block(d) + 1) <= CellsPerBlock * Block(c)
  BY <1>1, BlockBounds, CellAssumption
<1>3. CellsPerBlock * (Block(d) + 1) = CellsPerBlock * Block(d) + CellsPerBlock
  BY BlockBounds, CellAssumption
<1> QED BY <1>2, <1>3, BlockBounds, CellAssumption

\* The range of blocks that a write looks for the buffers in holds its cells.
LEMMA EndBlockIsBeyond ==
    ASSUME NEW a \in Nat, NEW b \in Nat, a <= b
    PROVE  EndBlock(<<a, b>>) \in Nat /\ Block(b) <= EndBlock(<<a, b>>)
<1> DEFINE m == a % CellsPerBlock
           n == m + b - a + 1
           q == n \div CellsPerBlock
<1>1. m \in Nat /\ a = CellsPerBlock * Block(a) + m
  BY CellAssumption DEF Block
<1>2. n \in Nat /\ q \in Nat /\ n < CellsPerBlock * q + CellsPerBlock
  BY <1>1, CellAssumption
<1>3. EndBlock(<<a, b>>) = Block(a) + q + 1
  BY DEF EndBlock
<1>4. b < CellsPerBlock * (Block(a) + q + 1)
  <2> HIDE DEF m, q
  <2>1. CellsPerBlock * (Block(a) + q + 1)
          = CellsPerBlock * Block(a) + CellsPerBlock * q + CellsPerBlock
    BY <1>1, <1>2, BlockBounds, CellAssumption
  <2>2. CellsPerBlock * Block(a) \in Nat /\ CellsPerBlock * q \in Nat
    BY <1>2, BlockBounds, CellAssumption
  <2> QED BY <1>1, <1>2, <2>1, <2>2, CellAssumption
<1>5. Block(b) <= Block(a) + q + 1
  <2> DEFINE e == Block(a) + q + 1
  <2>1. e \in Nat /\ Block(b) \in Nat
    BY <1>2, BlockBounds
  <2> HIDE DEF e, q
  <2>2. SUFFICES ASSUME e <= Block(b) PROVE FALSE
    BY <2>1 DEF e
  <2>3. CellsPerBlock * e <= CellsPerBlock * Block(b)
    BY <2>1, <2>2, CellAssumption
  <2>4. b < CellsPerBlock * e
    BY <1>4 DEF e
  <2>5. CellsPerBlock * e \in Nat /\ CellsPerBlock * Block(b) \in Nat
    BY <2>1, CellAssumption
  <2> QED BY <2>3, <2>4, <2>5, BlockBounds
<1> QED BY <1>2, <1>3, <1>5, BlockBounds

\* The ranges an operation may read or write.
Own(f) == Records[f] \cup DataRanges(f)

\* A range is a pair of cells of its file.
LEMMA RangeInFile ==
    ASSUME NEW f \in Files, NEW r \in Own(f)
    PROVE  /\ r[1] \in Nat /\ r[2] \in Nat /\ r[1] <= r[2]
           /\ Span(r) \subseteq Cells(f)
           /\ r = <<r[1], r[2]>>
<1>1. Size[f] \in Nat
  BY LayoutAssumption
<1>2. \A q \in Records[f] \cup Data[f] : q \in Cells(f) \X Cells(f) /\ q[1] <= q[2]
  BY LayoutAssumption
<1>3. CASE r \in Records[f]
  BY <1>1, <1>2, <1>3 DEF Span, Cells
<1>4. CASE r \in DataRanges(f)
  <2>1. PICK c \in Data[f] : r \in Span(c) \X Span(c) /\ r[1] <= r[2]
    BY <1>4 DEF DataRanges
  <2> QED BY <1>1, <1>2, <2>1 DEF Span, Cells
<1> QED BY <1>3, <1>4 DEF Own

\* The file header is a record of one cell.
LEMMA HeaderIsSmall ==
    ASSUME NEW f \in Files
    PROVE  Header \in Own(f) /\ Span(Header) = {0} /\ ~ IsLarge(Header)
BY LayoutAssumption DEF Own, Header, Span, IsLarge

\* All cells of a range that is not large are in the block of the first.
LEMMA SmallIsInBlock ==
    ASSUME NEW f \in Files, NEW r \in Own(f), ~ IsLarge(r), NEW c \in Span(r)
    PROVE  c \in BlockCells(f, Block(r[1]))
<1>1. r[1] \in Nat /\ r[2] \in Nat /\ c \in Nat /\ c \in Cells(f) /\ r[1] <= c /\ c <= r[2]
  BY RangeInFile DEF Span
<1>2. Block(r[1]) <= Block(c) /\ Block(c) <= Block(r[2])
  BY <1>1, BlocksInOrder
<1> QED BY <1>1, <1>2, BlockBounds DEF IsLarge, BlockCells

\* A buffer with a block that has cells of a range is found by the write.
LEMMA CellsAreReached ==
    ASSUME NEW f \in Files, NEW r \in Own(f), NEW buffer, buffer.file = f,
           NEW c \in Span(r), Block(c) = buffer.block
    PROVE  Reaches(r, buffer, f)
<1>1. r[1] \in Nat /\ r[2] \in Nat /\ c \in Nat /\ r[1] <= c /\ c <= r[2] /\ r = <<r[1], r[2]>>
  BY RangeInFile DEF Span
<1>2. Block(r[1]) <= Block(c) /\ Block(c) <= Block(r[2])
  BY <1>1, BlocksInOrder
<1>3. Block(r[2]) <= EndBlock(r) /\ EndBlock(r) \in Nat
  BY <1>1, EndBlockIsBeyond
<1> QED BY <1>1, <1>2, <1>3, BlockBounds DEF Reaches

\* So is one with the block it begins in.
LEMMA FirstBlockIsReached ==
    ASSUME NEW f \in Files, NEW r \in Own(f), NEW buffer, Holds(buffer, f, Block(r[1]))
    PROVE  Reaches(r, buffer, f)
BY RangeInFile, CellsAreReached DEF Holds, Span

\* Cells of records over a boundary, and of data chunks.
LargeCells(f) == UNION {Span(r) : r \in {q \in Records[f] : IsLarge(q)}}
DataCells(f) == UNION {Span(c) : c \in Data[f]}

\* What a write through the buffer changes is in no large record; a record is in
\* no data chunk.
LEMMA RangesAreApart ==
    ASSUME NEW f \in Files, NEW r \in Own(f)
    PROVE  /\ ~ IsLarge(r) => Span(r) \cap LargeCells(f) = {}
           /\ r \in Records[f] => Span(r) \cap DataCells(f) = {}
<1> DEFINE ranges == Records[f] \cup Data[f]
<1>1. /\ \A p, q \in ranges : p # q => Span(p) \cap Span(q) = {}
      /\ Records[f] \cap Data[f] = {}
  BY LayoutAssumption
<1>2. ~ IsLarge(r) => Span(r) \cap LargeCells(f) = {}
  <2> SUFFICES ASSUME ~ IsLarge(r), NEW q \in Records[f], IsLarge(q)
               PROVE  Span(r) \cap Span(q) = {}
    BY DEF LargeCells
  <2>1. CASE r \in Records[f]
    BY <1>1, <2>1
  <2>2. CASE r \in DataRanges(f)
    <3>1. PICK c \in Data[f] : r \in Span(c) \X Span(c) /\ r[1] <= r[2]
      BY <2>2 DEF DataRanges
    <3>2. Span(c) \cap Span(q) = {}
      BY <1>1
    <3>3. Span(r) \subseteq Span(c)
      <4>1. c[1] \in Nat /\ c[2] \in Nat
        BY LayoutAssumption DEF Cells
      <4> QED BY <3>1, <4>1 DEF Span
    <3> QED BY <3>2, <3>3
  <2> QED BY <2>1, <2>2 DEF Own
<1>3. r \in Records[f] => Span(r) \cap DataCells(f) = {}
  BY <1>1 DEF DataCells
<1> QED BY <1>2, <1>3

----------------------------------------------------------------------------
(* The buffers                                                             *)

ReadBuffer == [file : Files \cup {NoFile}, block : Nat, full : BOOLEAN, cur : SUBSET Nat]
WritingBuffer == [file : Files \cup {NoFile}, block : Nat, dirty : BOOLEAN, cur : SUBSET Nat]

\* A buffer has cells of its block.
InBlock(buffer) == buffer.file # NoFile => buffer.cur \subseteq BlockCells(buffer.file, buffer.block)

\* The disk and the buffers, of which only one with a file can be dirty.
Buffers == {io \in [disk : Current, rd : ReadBuffer, wr : WritingBuffer] :
               /\ InBlock(io.rd) /\ InBlock(io.wr)
               /\ io.wr.dirty => io.wr.file \in Files}

\* A buffer has the current value of every cell of its block in R.
Complete(buffer, R) ==
    \A f \in Files : buffer.file = f => R[f] \cap BlockCells(f, buffer.block) \subseteq buffer.cur

\* Every cell in R has its current value on disk or in the dirty write buffer, and
\* in each buffer that has its block.
Exact(io, R) ==
    /\ \A f \in Files :
          R[f] \subseteq io.disk[f] \cup (IF io.wr.file = f /\ io.wr.dirty THEN io.wr.cur ELSE {})
    /\ Complete(io.rd, R) /\ Complete(io.wr, R)

\* The cells relied on, by file.
Cellsets == {R \in Current : \A f \in Files : R[f] \subseteq Cells(f)}

\* The disk of io has what it had in io0 of the cells in R.
NotBack(io0, io, R) == \A f \in Files : io0.disk[f] \cap R[f] \subseteq io.disk[f]

\* Fewer cells are relied on.
LEMMA ExactForFewer ==
    ASSUME NEW io, NEW R, NEW Q, Exact(io, R), \A f \in Files : Q[f] \subseteq R[f]
    PROVE  Exact(io, Q)
BY DEF Exact, Complete

\* A flush takes nothing back from the disk and, but for what is lost of it, leaves
\* nothing to be flushed.
LEMMA FlushIsExact ==
    ASSUME NEW io \in Buffers, NEW R \in Cellsets, Exact(io, R), io.wr.file \in Files,
           NEW part \in SUBSET BlockCells(io.wr.file, io.wr.block),
           NEW failed, failed = Flushed(io, part)
    PROVE  /\ failed \in Buffers /\ ~ failed.wr.dirty
           /\ failed.rd = io.rd /\ failed.wr.file = io.wr.file
           /\ failed.wr.block = io.wr.block /\ failed.wr.cur = io.wr.cur
           /\ NotBack(io, failed, R)
           /\ Exact(failed, [R EXCEPT ![io.wr.file] =
                                @ \ (io.wr.cur \ failed.disk[io.wr.file])])
<1> DEFINE g == io.wr.file
           lost == io.wr.cur \ failed.disk[g]
<1>0. /\ io.disk \in Current /\ io.rd \in ReadBuffer /\ io.wr \in WritingBuffer
      /\ InBlock(io.rd) /\ InBlock(io.wr)
  BY DEF Buffers
<1>1. /\ failed.disk = [io.disk EXCEPT ![g] = (@ \ part) \cup (io.wr.cur \cap part)]
      /\ failed.rd = io.rd
      /\ failed.wr = [io.wr EXCEPT !.dirty = FALSE]
      /\ failed = [disk |-> failed.disk, rd |-> failed.rd, wr |-> failed.wr]
  BY DEF Flushed
<1>2. failed \in Buffers
  <2>1. failed.disk \in Current
    <3>1. (io.disk[g] \ part) \cup (io.wr.cur \cap part) \in SUBSET Nat
      BY <1>0 DEF Current, WritingBuffer
    <3> QED BY <1>0, <1>1, <3>1 DEF Current
  <2>2. failed.wr \in WritingBuffer /\ InBlock(failed.wr) /\ ~ failed.wr.dirty
    BY <1>0, <1>1 DEF WritingBuffer, InBlock
  <2> QED BY <1>0, <1>1, <2>1, <2>2 DEF Buffers
<1>3. R[g] \cap part \subseteq io.wr.cur
  BY DEF Exact, Complete
<1>4. NotBack(io, failed, R)
  BY <1>0, <1>1, <1>3 DEF NotBack, Current
<1>5. Exact(failed, [R EXCEPT ![g] = @ \ lost])
  <2> DEFINE Q == [R EXCEPT ![g] = @ \ lost]
  <2>1. \A f \in Files : Q[f] \subseteq R[f]
    BY DEF Cellsets, Current
  <2>2. \A f \in Files : Q[f] \subseteq failed.disk[f]
    <3>1. ASSUME NEW f \in Files, f # g PROVE Q[f] \subseteq failed.disk[f]
      BY <1>0, <1>1, <3>1 DEF Exact, Current, Cellsets
    <3>2. Q[g] = R[g] \ lost
      BY DEF Cellsets, Current
    <3>3. Q[g] \subseteq failed.disk[g]
      BY <1>4, <3>2 DEF NotBack, Exact
    <3> QED BY <3>1, <3>3
  <2>3. Complete(failed.rd, Q) /\ Complete(failed.wr, Q)
    BY <1>0, <1>1, <2>1 DEF Exact, Complete, WritingBuffer
  <2> QED BY <2>2, <2>3 DEF Exact
<1> QED BY <1>0, <1>1, <1>2, <1>4, <1>5 DEF WritingBuffer, Buffers

\* A flush that succeeds loses nothing.
LEMMA WholeFlushIsExact ==
    ASSUME NEW io \in Buffers, NEW R \in Cellsets, Exact(io, R), io.wr.file \in Files,
           NEW done, done = FlushedWhole(io)
    PROVE  /\ done \in Buffers /\ Exact(done, R) /\ NotBack(io, done, R)
           /\ \A f \in Files : R[f] \subseteq done.disk[f]
           /\ done.rd = io.rd /\ done.wr.file = io.wr.file
           /\ done.wr.block = io.wr.block /\ ~ done.wr.dirty
<1> DEFINE g == io.wr.file
           part == BlockCells(g, io.wr.block)
<1>1. done = Flushed(io, part) /\ part \in SUBSET part
  BY DEF FlushedWhole
<1>2. io.wr.cur \ done.disk[g] = {}
  <2>1. io.wr.cur \subseteq part
    BY CellAssumption DEF Buffers, InBlock
  <2>2. done.disk[g] = (io.disk[g] \ part) \cup (io.wr.cur \cap part)
    BY <1>1 DEF Flushed, Buffers, Current
  <2> QED BY <2>1, <2>2
<1>3. [R EXCEPT ![g] = @ \ (io.wr.cur \ done.disk[g])] = R
  BY <1>2 DEF Cellsets, Current
<1>4. /\ done \in Buffers /\ Exact(done, R) /\ NotBack(io, done, R)
      /\ done.rd = io.rd /\ done.wr.file = g /\ done.wr.block = io.wr.block /\ ~ done.wr.dirty
  BY <1>1, <1>3, FlushIsExact
<1> QED BY <1>4 DEF Exact

----------------------------------------------------------------------------
(* Writes                                                                  *)

\* A buffer that is given up relies on nothing.
LEMMA GivenUpIsExact ==
    /\ NoRead \in ReadBuffer /\ NoWrite \in WritingBuffer
    /\ NoRead.file = NoFile /\ NoWrite.file = NoFile /\ ~ NoWrite.dirty
    /\ InBlock(NoRead) /\ InBlock(NoWrite)
    /\ \A R : Complete(NoRead, R) /\ Complete(NoWrite, R)
BY CellAssumption DEF NoRead, NoWrite, ReadBuffer, WritingBuffer, InBlock, Complete

\* The read buffer is given up by every write that reaches it.
LEMMA ForgetReadIsExact ==
    ASSUME NEW io \in Buffers, NEW R, Exact(io, R), NEW f \in Files, NEW r,
           NEW io1, io1 = ForgetRead(io, f, r)
    PROVE  /\ io1 \in Buffers /\ Exact(io1, R)
           /\ io1.disk = io.disk /\ io1.wr = io.wr /\ io1.rd \in {io.rd, NoRead}
           /\ ~ Reaches(r, io1.rd, f)
<1>1. /\ io1.disk = io.disk /\ io1.wr = io.wr
      /\ io1.rd = IF Reaches(r, io.rd, f) THEN NoRead ELSE io.rd
      /\ io1 = [disk |-> io1.disk, rd |-> io1.rd, wr |-> io1.wr]
  BY DEF ForgetRead, Buffers
<1>2. ~ Reaches(r, io1.rd, f)
  BY <1>1, GivenUpIsExact, CellAssumption DEF Reaches
<1>3. io1 \in Buffers
  BY <1>1, GivenUpIsExact DEF Buffers
<1>4. Exact(io1, R)
  BY <1>1, GivenUpIsExact DEF Exact
<1> QED BY <1>1, <1>2, <1>3, <1>4

\* A dirty write buffer is flushed unless it has the block of a small write; then
\* it is given up if the write reaches it.
LEMMA RoomIsExact ==
    ASSUME NEW io \in Buffers, NEW R \in Cellsets, Exact(io, R), NEW f \in Files, NEW r,
           NEW room, room = Room(io, f, r)
    PROVE  /\ room \in Buffers /\ Exact(room, R) /\ NotBack(io, room, R)
           /\ room.rd \in {io.rd, NoRead}
           /\ room.wr.file \in {io.wr.file, NoFile}
           /\ ~ Reaches(r, room.rd, f)
           /\ IsLarge(r) \/ ~ Holds(room.wr, f, Block(r[1])) => ~ room.wr.dirty
           /\ IsLarge(r) /\ Reaches(r, room.wr, f) => ~ io.wr.dirty
           /\ IsLarge(r) /\ Reaches(r, room.wr, f) => room.wr.block = io.wr.block
<1> DEFINE io1 == ForgetRead(io, f, r)
<1>1. /\ io1 \in Buffers /\ Exact(io1, R)
      /\ io1.disk = io.disk /\ io1.wr = io.wr /\ io1.rd \in {io.rd, NoRead}
      /\ ~ Reaches(r, io1.rd, f)
  BY ForgetReadIsExact
<1> HIDE DEF io1
<1>2. CASE ~ MustFlush(io1, f, r)
  <2>1. room = io1
    BY <1>2 DEF Room, MakeRoom, io1
  <2>2. NotBack(io, io1, R)
    BY <1>1 DEF NotBack
  <2> QED BY <1>1, <1>2, <2>1, <2>2 DEF MustFlush
<1>3. CASE MustFlush(io1, f, r)
  <2> DEFINE done == FlushedWhole(io1)
  <2>1. io1.wr.dirty /\ io1.wr.file \in Files
    BY <1>1, <1>3 DEF MustFlush, Buffers
  <2>2. /\ done \in Buffers /\ Exact(done, R) /\ NotBack(io1, done, R)
        /\ done.rd = io1.rd /\ done.wr.file = io1.wr.file
        /\ done.wr.block = io1.wr.block /\ ~ done.wr.dirty
        /\ \A g \in Files : R[g] \subseteq done.disk[g]
    BY <1>1, <2>1, WholeFlushIsExact
  <2> HIDE DEF done
  <2>3. NotBack(io, done, R)
    BY <1>1, <2>2 DEF NotBack
  <2>4. CASE ~ Reaches(r, io1.wr, f)
    <3>1. room = done
      BY <1>3, <2>4 DEF Room, MakeRoom, io1, done
    <3>2. ~ Reaches(r, done.wr, f)
      BY <2>2, <2>4 DEF Reaches
    <3> QED BY <1>1, <2>2, <2>3, <3>1, <3>2
  <2>5. CASE Reaches(r, io1.wr, f)
    <3>1. room = [done EXCEPT !.wr = NoWrite]
      BY <1>3, <2>5 DEF Room, MakeRoom, io1, done
    <3>2. /\ room.disk = done.disk /\ room.rd = done.rd /\ room.wr = NoWrite
          /\ room = [disk |-> room.disk, rd |-> room.rd, wr |-> room.wr]
      BY <2>2, <3>1 DEF Buffers
    <3>3. room \in Buffers
      BY <2>2, <3>2, GivenUpIsExact DEF Buffers
    <3>4. Exact(room, R) /\ NotBack(io, room, R)
      BY <2>2, <2>3, <3>2, GivenUpIsExact DEF Exact, NotBack
    <3>5. ~ Reaches(r, room.wr, f) /\ room.wr.file = NoFile /\ ~ room.wr.dirty
      BY <3>2, GivenUpIsExact, CellAssumption DEF Reaches
    <3> QED BY <1>1, <2>2, <3>2, <3>3, <3>4, <3>5
  <2> QED BY <2>4, <2>5
<1> QED BY <1>2, <1>3

\* What is relied on after a write of a range whose cells pass by the buffer.
With(R, f, r, past) == [R EXCEPT ![f] = (@ \cup Span(r)) \ past]

\* The new values of a range make the old ones in the copies worthless.
LEMMA RenewedIsExact ==
    ASSUME NEW io \in Buffers, NEW R \in Cellsets, Exact(io, R), NEW f \in Files, NEW r,
           NEW io1, io1 = Renewed(io, f, r),
           NEW Q, Q = [R EXCEPT ![f] = @ \ Span(r)]
    PROVE  /\ io1 \in Buffers /\ Q \in Cellsets /\ Exact(io1, Q) /\ NotBack(io, io1, Q)
           /\ io1.rd.file = io.rd.file /\ io1.wr.file = io.wr.file
           /\ io1.wr.block = io.wr.block /\ io1.wr.dirty = io.wr.dirty
<1>0. /\ io.disk \in Current /\ io.rd \in ReadBuffer /\ io.wr \in WritingBuffer
      /\ InBlock(io.rd) /\ InBlock(io.wr)
      /\ io.wr.dirty => io.wr.file \in Files
  BY DEF Buffers
<1>1. /\ io1.disk = [io.disk EXCEPT ![f] = @ \ Span(r)]
      /\ io1.rd = Outdate(io.rd, f, r) /\ io1.wr = Outdate(io.wr, f, r)
      /\ io1 = [disk |-> io1.disk, rd |-> io1.rd, wr |-> io1.wr]
  BY DEF Renewed
<1>2. /\ io1.rd \in ReadBuffer /\ io1.rd.file = io.rd.file /\ io1.rd.block = io.rd.block
      /\ io1.rd.cur \subseteq io.rd.cur
      /\ io.rd.cur \subseteq io1.rd.cur \cup Span(r)
      /\ io.rd.file # f => io1.rd.cur = io.rd.cur
  BY <1>0, <1>1 DEF Outdate, ReadBuffer
<1>3. /\ io1.wr \in WritingBuffer /\ io1.wr.file = io.wr.file /\ io1.wr.block = io.wr.block
      /\ io1.wr.dirty = io.wr.dirty
      /\ io1.wr.cur \subseteq io.wr.cur
      /\ io.wr.cur \subseteq io1.wr.cur \cup Span(r)
      /\ io.wr.file # f => io1.wr.cur = io.wr.cur
  BY <1>0, <1>1 DEF Outdate, WritingBuffer
<1>4. /\ io1.disk \in Current
      /\ \A g \in Files : /\ io.disk[g] \subseteq io1.disk[g] \cup Span(r)
                          /\ g # f => io1.disk[g] = io.disk[g]
  BY <1>0, <1>1 DEF Current
<1>5. io1 \in Buffers
  <2>1. InBlock(io1.rd) /\ InBlock(io1.wr)
    BY <1>0, <1>2, <1>3, Zenon DEF InBlock
  <2> QED BY <1>0, <1>1, <1>2, <1>3, <1>4, <2>1 DEF Buffers
<1>6. /\ Q \in Cellsets
      /\ \A g \in Files : /\ Q[g] \subseteq R[g]
                          /\ g = f => Q[g] \cap Span(r) = {}
  BY DEF Cellsets, Current
<1>7. Exact(io1, Q)
  <2>1. ASSUME NEW g \in Files, NEW c \in Q[g]
        PROVE  c \in io1.disk[g] \/ (io1.wr.file = g /\ io1.wr.dirty /\ c \in io1.wr.cur)
    <3>1. c \in R[g] /\ (g = f => c \notin Span(r))
      BY <1>6
    <3>2. c \in io.disk[g] \/ (io.wr.file = g /\ io.wr.dirty /\ c \in io.wr.cur)
      BY <3>1 DEF Exact
    <3> QED BY <1>3, <1>4, <3>1, <3>2
  <2>2. Complete(io1.rd, Q)
    BY <1>2, <1>6 DEF Exact, Complete
  <2>3. Complete(io1.wr, Q)
    BY <1>3, <1>6 DEF Exact, Complete
  <2> QED BY <2>1, <2>2, <2>3 DEF Exact
<1>8. NotBack(io, io1, Q)
  <2>1. ASSUME NEW g \in Files, NEW c \in io.disk[g] \cap Q[g] PROVE c \in io1.disk[g]
    BY <1>4, <1>6
  <2> QED BY <2>1 DEF NotBack
<1> QED BY <1>2, <1>3, <1>5, <1>6, <1>7, <1>8

\* A range over a block boundary goes to disk, past a clean write buffer.
LEMMA WriteThroughIsExact ==
    ASSUME NEW io \in Buffers, NEW Q \in Cellsets, Exact(io, Q),
           NEW f \in Files, NEW r \in Own(f), ~ Reaches(r, io.rd, f),
           NEW past, io.wr.file = f /\ Reaches(r, io.wr, f) =>
                         Span(r) \cap BlockCells(f, io.wr.block) \subseteq past,
           NEW io1, io1 = WriteThrough(io, f, r)
    PROVE  /\ io1 \in Buffers /\ NotBack(io, io1, Q)
           /\ Exact(io1, With(Q, f, r, past))
           /\ Span(r) \subseteq io1.disk[f]
           /\ io1.rd = io.rd /\ io1.wr = io.wr
<1> DEFINE P == With(Q, f, r, past)
<1>0. io.disk \in Current /\ io.rd \in ReadBuffer /\ io.wr \in WritingBuffer
  BY DEF Buffers
<1>1. /\ io1.disk = [io.disk EXCEPT ![f] = @ \cup Span(r)]
      /\ io1.rd = io.rd /\ io1.wr = io.wr
      /\ io1 = [disk |-> io1.disk, rd |-> io1.rd, wr |-> io1.wr]
  BY DEF WriteThrough, Buffers
<1>2. Span(r) \subseteq Nat
  BY RangeInFile DEF Span
<1>3. /\ io1.disk \in Current /\ Span(r) \subseteq io1.disk[f]
      /\ \A g \in Files : io.disk[g] \subseteq io1.disk[g]
  BY <1>0, <1>1, <1>2 DEF Current
<1>4. io1 \in Buffers
  BY <1>1, <1>3 DEF Buffers
<1>5. \A g \in Files : \A c \in P[g] :
         c \in Q[g] \/ (g = f /\ c \in Span(r) /\ c \notin past)
  BY DEF With, Cellsets, Current
<1>6. Complete(io1.rd, P)
  <2>1. ASSUME NEW g \in Files, io.rd.file = g, NEW c \in P[g] \cap BlockCells(g, io.rd.block)
        PROVE  c \in io.rd.cur
    <3>1. CASE c \in Q[g]
      BY <2>1, <3>1 DEF Exact, Complete
    <3>2. CASE g = f /\ c \in Span(r)
      BY <2>1, <3>2, CellsAreReached DEF BlockCells
    <3> QED BY <1>5, <2>1, <3>1, <3>2
  <2> QED BY <1>1, <2>1 DEF Complete
<1>7. Complete(io1.wr, P)
  <2>1. ASSUME NEW g \in Files, io.wr.file = g, NEW c \in P[g] \cap BlockCells(g, io.wr.block)
        PROVE  c \in io.wr.cur
    <3>1. CASE c \in Q[g]
      BY <2>1, <3>1 DEF Exact, Complete
    <3>2. CASE g = f /\ c \in Span(r) /\ c \notin past
      BY <2>1, <3>2, CellsAreReached DEF BlockCells
    <3> QED BY <1>5, <2>1, <3>1, <3>2
  <2> QED BY <1>1, <2>1 DEF Complete
<1>8. Exact(io1, P)
  <2>1. ASSUME NEW g \in Files, NEW c \in P[g]
        PROVE  c \in io1.disk[g] \/ (io1.wr.file = g /\ io1.wr.dirty /\ c \in io1.wr.cur)
    <3>1. CASE c \in Q[g]
      <4>1. c \in io.disk[g] \/ (io.wr.file = g /\ io.wr.dirty /\ c \in io.wr.cur)
        BY <3>1 DEF Exact
      <4> QED BY <1>1, <1>3, <4>1
    <3>2. CASE g = f /\ c \in Span(r)
      BY <1>3, <3>2
    <3> QED BY <1>5, <2>1, <3>1, <3>2
  <2> QED BY <1>6, <1>7, <2>1 DEF Exact
<1>9. NotBack(io, io1, Q)
  BY <1>3 DEF NotBack
<1> QED BY <1>1, <1>3, <1>4, <1>8, <1>9

\* A smaller one goes to the write buffer, which is loaded first.
LEMMA WriteBufferIsExact ==
    ASSUME NEW io \in Buffers, NEW Q \in Cellsets, Exact(io, Q),
           NEW f \in Files, NEW r \in Own(f), ~ IsLarge(r), ~ Reaches(r, io.rd, f),
           ~ Holds(io.wr, f, Block(r[1])) => ~ io.wr.dirty,
           NEW past,
           NEW io1, io1 = WriteBuffer(io, f, r)
    PROVE  /\ io1 \in Buffers /\ NotBack(io, io1, Q)
           /\ Exact(io1, With(Q, f, r, past))
           /\ io1.rd = io.rd /\ io1.wr.file = f /\ io1.wr.dirty
<1> DEFINE P == With(Q, f, r, past)
           b == Block(r[1])
           w == Loaded(io, f, b)
<1>0. io.disk \in Current /\ io.rd \in ReadBuffer /\ io.wr \in WritingBuffer /\ b \in Nat
  BY RangeInFile, BlockBounds DEF Buffers
<1>1. ~ Holds(io.rd, f, b)
  BY FirstBlockIsReached
<1>2. /\ w \in WritingBuffer /\ w.file = f /\ w.block = b
      /\ w.cur \subseteq BlockCells(f, b)
      /\ Q[f] \cap BlockCells(f, b) \subseteq w.cur
  <2>1. CASE Holds(io.wr, f, b)
    <3>1. w = io.wr
      BY <2>1 DEF Loaded
    <3>2. InBlock(io.wr) /\ Complete(io.wr, Q)
      BY DEF Buffers, Exact
    <3> QED BY <1>0, <2>1, <3>1, <3>2, CellAssumption DEF Holds, InBlock, Complete
  <2>2. CASE ~ Holds(io.wr, f, b)
    <3>1. w = [file |-> f, block |-> b, dirty |-> FALSE, cur |-> io.disk[f] \cap BlockCells(f, b)]
      BY <1>1, <2>2 DEF Loaded
    <3>2. Q[f] \subseteq io.disk[f]
      BY <2>2 DEF Exact
    <3>3. io.disk[f] \cap BlockCells(f, b) \in SUBSET Nat
      BY <1>0 DEF Current
    <3> QED BY <1>0, <3>1, <3>2, <3>3 DEF WritingBuffer
  <2> QED BY <2>1, <2>2
<1>3. Span(r) \subseteq BlockCells(f, b) /\ Span(r) \subseteq Nat
  <2>1. Span(r) \subseteq BlockCells(f, b)
    BY SmallIsInBlock
  <2>2. Span(r) \subseteq Nat
    BY RangeInFile DEF Span
  <2> QED BY <2>1, <2>2
<1>4. Holds(io.wr, f, b) => io.wr.cur \subseteq w.cur
  BY DEF Loaded
<1> HIDE DEF w
<1>5. /\ io1.disk = io.disk /\ io1.rd = io.rd
      /\ io1.wr = [w EXCEPT !.dirty = TRUE, !.cur = @ \cup Span(r)]
      /\ io1 = [disk |-> io1.disk, rd |-> io1.rd, wr |-> io1.wr]
  BY DEF WriteBuffer, Buffers, w
<1>6. /\ io1.wr \in WritingBuffer /\ io1.wr.file = f /\ io1.wr.block = b /\ io1.wr.dirty
      /\ io1.wr.cur = w.cur \cup Span(r)
  BY <1>2, <1>3, <1>5, ZenonT(90) DEF WritingBuffer
<1>7. io1 \in Buffers
  <2>1. InBlock(io1.wr)
    BY <1>2, <1>3, <1>6 DEF InBlock
  <2> QED BY <1>5, <1>6, <2>1 DEF Buffers
<1>8. \A g \in Files : \A c \in P[g] : c \in Q[g] \/ (g = f /\ c \in Span(r))
  BY DEF With, Cellsets, Current
<1>9. Complete(io1.rd, P)
  <2>1. ASSUME NEW g \in Files, io.rd.file = g, NEW c \in P[g] \cap BlockCells(g, io.rd.block)
        PROVE  c \in io.rd.cur
    <3>1. CASE c \in Q[g]
      BY <2>1, <3>1 DEF Exact, Complete
    <3>2. CASE g = f /\ c \in Span(r)
      BY <2>1, <3>2, CellsAreReached DEF BlockCells
    <3> QED BY <1>8, <2>1, <3>1, <3>2
  <2> QED BY <1>5, <2>1 DEF Complete
<1>10. Complete(io1.wr, P)
  <2>1. ASSUME NEW c \in P[f] \cap BlockCells(f, b) PROVE c \in io1.wr.cur
    BY <1>2, <1>6, <1>8, <2>1
  <2> QED BY <1>6, <2>1 DEF Complete
<1>11. Exact(io1, P)
  <2>1. ASSUME NEW g \in Files, NEW c \in P[g]
        PROVE  c \in io1.disk[g] \/ (io1.wr.file = g /\ io1.wr.dirty /\ c \in io1.wr.cur)
    <3>1. CASE c \in Q[g]
      <4>1. c \in io.disk[g] \/ (io.wr.file = g /\ io.wr.dirty /\ c \in io.wr.cur)
        BY <3>1 DEF Exact
      <4>2. CASE Holds(io.wr, f, b)
        BY <1>4, <1>5, <1>6, <4>1, <4>2 DEF Holds
      <4>3. CASE ~ Holds(io.wr, f, b)
        BY <1>5, <4>1, <4>3
      <4> QED BY <4>2, <4>3
    <3>2. CASE g = f /\ c \in Span(r)
      BY <1>6, <3>2
    <3> QED BY <1>8, <2>1, <3>1, <3>2
  <2> QED BY <1>9, <1>10, <2>1 DEF Exact
<1> QED BY <1>5, <1>6, <1>7, <1>11 DEF NotBack

\* A write leaves the buffers exact for what was relied on and for its own cells,
\* but for those it passes by the buffer.
LEMMA WriteFileIsExact ==
    ASSUME NEW io \in Buffers, NEW R \in Cellsets, Exact(io, R),
           NEW f \in Files, NEW r \in Own(f),
           NEW io1, io1 = WriteFile(io, f, r),
           NEW P, P = With(R, f, r, PassedBy(io, f, r))
    PROVE  /\ io1 \in Buffers /\ P \in Cellsets /\ Exact(io1, P)
           /\ \A g \in Files : \A c \in io.disk[g] \cap R[g] :
                 c \in io1.disk[g] \/ (g = f /\ c \in Span(r))
           /\ IsLarge(r) => Span(r) \subseteq io1.disk[f]
           /\ ~ IsLarge(r) => io1.wr.file = f /\ io1.wr.dirty
           /\ io1.rd.file \in {io.rd.file, NoFile}
           /\ io1.wr.file \in {io.wr.file, f, NoFile}
<1> DEFINE Q == [R EXCEPT ![f] = @ \ Span(r)]
           past == PassedBy(io, f, r)
<1>0. PICK renewed : renewed = Renewed(io, f, r)
  OBVIOUS
<1>1. /\ renewed \in Buffers /\ Q \in Cellsets /\ Exact(renewed, Q) /\ NotBack(io, renewed, Q)
      /\ renewed.rd.file = io.rd.file /\ renewed.wr.file = io.wr.file
      /\ renewed.wr.block = io.wr.block /\ renewed.wr.dirty = io.wr.dirty
  BY <1>0, RenewedIsExact
<1>r. PICK room : room = Room(renewed, f, r)
  OBVIOUS
<1>2. /\ room \in Buffers /\ Exact(room, Q) /\ NotBack(renewed, room, Q)
      /\ room.rd \in {renewed.rd, NoRead}
      /\ room.wr.file \in {renewed.wr.file, NoFile}
      /\ ~ Reaches(r, room.rd, f)
      /\ IsLarge(r) \/ ~ Holds(room.wr, f, Block(r[1])) => ~ room.wr.dirty
      /\ IsLarge(r) /\ Reaches(r, room.wr, f) => ~ renewed.wr.dirty
      /\ IsLarge(r) /\ Reaches(r, room.wr, f) => room.wr.block = renewed.wr.block
  <2> HIDE DEF Q
  <2>1. /\ room \in Buffers /\ Exact(room, Q) /\ NotBack(renewed, room, Q)
        /\ room.rd \in {renewed.rd, NoRead}
        /\ room.wr.file \in {renewed.wr.file, NoFile}
        /\ ~ Reaches(r, room.rd, f)
    BY <1>1, <1>r, RoomIsExact
  <2>2. IsLarge(r) \/ ~ Holds(room.wr, f, Block(r[1])) => ~ room.wr.dirty
    BY <1>1, <1>r, RoomIsExact
  <2>3. ASSUME IsLarge(r), Reaches(r, room.wr, f) PROVE ~ renewed.wr.dirty
    BY <1>1, <1>r, <2>3, RoomIsExact
  <2>4. ASSUME IsLarge(r), Reaches(r, room.wr, f) PROVE room.wr.block = renewed.wr.block
    BY <1>1, <1>r, <2>4, RoomIsExact
  <2> QED BY <2>1, <2>2, <2>3, <2>4
<1>3. /\ IsLarge(r) => io1 = WriteThrough(room, f, r)
      /\ ~ IsLarge(r) => io1 = WriteBuffer(room, f, r)
  BY <1>0, <1>r DEF WriteFile
<1>4. /\ io1 \in Buffers /\ NotBack(room, io1, Q) /\ Exact(io1, With(Q, f, r, past))
      /\ IsLarge(r) => Span(r) \subseteq io1.disk[f] /\ io1.wr = room.wr
      /\ ~ IsLarge(r) => io1.wr.file = f /\ io1.wr.dirty
      /\ io1.rd = room.rd
  <2>1. CASE IsLarge(r)
    <3>1. ASSUME room.wr.file = f, Reaches(r, room.wr, f)
          PROVE  Span(r) \cap BlockCells(f, room.wr.block) \subseteq past
      <4>1. io.wr.file = f
        BY <1>1, <1>2, <3>1, CellAssumption
      <4>2. ~ io.wr.dirty
        BY <1>1, <1>2, <2>1, <3>1
      <4>3. room.wr.block = io.wr.block
        BY <1>1, <1>2, <2>1, <3>1
      <4> QED BY <2>1, <4>1, <4>2, <4>3 DEF PassedBy
    <3> HIDE DEF Q, past
    <3> QED BY <1>1, <1>2, <1>3, <2>1, <3>1, WriteThroughIsExact
  <2>2. CASE ~ IsLarge(r)
    <3> HIDE DEF Q, past
    <3> QED BY <1>1, <1>2, <1>3, <2>2, WriteBufferIsExact
  <2> QED BY <2>1, <2>2
<1>5. /\ P = With(Q, f, r, past) /\ P \in Cellsets
  <2>1. Span(r) \subseteq Cells(f) /\ Span(r) \subseteq Nat
    BY RangeInFile DEF Span
  <2>2. (R[f] \cup Span(r)) \ past = ((R[f] \ Span(r)) \cup Span(r)) \ past
    OBVIOUS
  <2> QED BY <2>1, <2>2 DEF With, Cellsets, Current
<1>6. ASSUME NEW g \in Files, NEW c \in io.disk[g] \cap R[g]
      PROVE  c \in io1.disk[g] \/ (g = f /\ c \in Span(r))
  <2>1. c \in Q[g] \/ (g = f /\ c \in Span(r))
    BY <1>6 DEF Cellsets, Current
  <2> QED BY <1>1, <1>2, <1>4, <1>6, <2>1 DEF NotBack
<1>7. io1.rd.file \in {io.rd.file, NoFile} /\ io1.wr.file \in {io.wr.file, f, NoFile}
  BY <1>1, <1>2, <1>4, GivenUpIsExact
<1> QED BY <1>4, <1>5, <1>6, <1>7

----------------------------------------------------------------------------
(* The inductive invariant                                                 *)

ReliedNow == [f \in Files |-> Relied(f)]

\* The buffers are on open files.
OnOpenFiles ==
    /\ opened \subseteq Files
    /\ busy \in opened \cup {NoFile}
    /\ busy = NoFile => pending = {}
    /\ busy \in Files => pending \subseteq Cells(busy)
    /\ rd.file \in opened \cup {NoFile} /\ wr.file \in opened \cup {NoFile}

\* What is read past the write buffer is on disk: records over a boundary, and, when
\* no operation is in progress on the file, data chunks.
PastTheBuffer ==
    \A f \in Files : /\ Relied(f) \cap LargeCells(f) \subseteq disk[f]
                     /\ (owed[f] \ passed[f]) \cap DataCells(f) \subseteq disk[f]

Inv ==
    /\ Io \in Buffers /\ owed \in Cellsets /\ passed \in Current
    /\ OnOpenFiles /\ Exact(Io, ReliedNow) /\ PastTheBuffer

\* What DiskNeverGoesBack says of a step.
NothingGoesBack ==
    \A f \in Files : \A c \in disk[f] \cap Relied(f) \cap owed'[f] :
        c \in disk'[f] \/ f \in opened' \ opened

\* The fields of the buffers as a record.
LEMMA FieldsOfIo == Io.disk = disk /\ Io.rd = rd /\ Io.wr = wr
BY DEF Io

\* The cells relied on are cells of their file.
LEMMA ReliedIsInFile ==
    ASSUME Inv
    PROVE  /\ ReliedNow \in Cellsets
           /\ \A f \in Files : /\ ReliedNow[f] = Relied(f)
                               /\ owed[f] \ passed[f] \subseteq Relied(f)
                               /\ Relied(f) \subseteq Nat
           /\ NoFile \notin Files
<1>1. \A f \in Files : Cells(f) \subseteq Nat
  <2> SUFFICES ASSUME NEW f \in Files, NEW c \in Cells(f) PROVE c \in Nat
    BY Zenon
  <2> QED BY DEF Cells
<1>2. \A f \in Files : Relied(f) \subseteq Cells(f)
  BY DEF Inv, Relied, Cellsets, OnOpenFiles
<1> QED BY <1>1, <1>2, CellAssumption DEF ReliedNow, Cellsets, Current, Relied

\* A call leaves the invariant if it leaves the buffers exact for what is then
\* relied on.
LEMMA BecomeIs ==
    ASSUME NEW io \in Buffers, NEW owed1 \in Cellsets, NEW passed1 \in Current,
           NEW R \in Cellsets, Exact(io, R),
           \A g \in Files : R[g] = (owed1[g] \cup (IF g = busy' THEN pending' ELSE {})) \ passed1[g],
           \A g \in Files : R[g] \cap LargeCells(g) \subseteq io.disk[g],
           \A g \in Files : (owed1[g] \ passed1[g]) \cap DataCells(g) \subseteq io.disk[g],
           opened' \subseteq Files, busy' \in opened' \cup {NoFile},
           busy' = NoFile => pending' = {},
           busy' \in Files => pending' \subseteq Cells(busy'),
           io.rd.file \in opened' \cup {NoFile}, io.wr.file \in opened' \cup {NoFile},
           Become(io, owed1, passed1)
    PROVE  /\ Inv'
           /\ \A g \in Files : /\ io.disk[g] \cap owed1[g] \subseteq disk'[g]
                               /\ owed'[g] = owed1[g]
                               /\ owed'[g] \ passed'[g] \subseteq R[g]
                               /\ io.disk[g] \cap R[g] \subseteq disk'[g]
<1> DEFINE Kept(g) == owed1[g] \cup (IF g = busy' THEN pending' ELSE {})
           KeptIn(buffer) == IF buffer.file = NoFile THEN buffer
                             ELSE [buffer EXCEPT !.cur = @ \cap Kept(buffer.file)]
<1>0. /\ io.disk \in Current /\ io.rd \in ReadBuffer /\ io.wr \in WritingBuffer
      /\ InBlock(io.rd) /\ InBlock(io.wr)
      /\ io.wr.dirty => io.wr.file \in Files
  BY DEF Buffers
<1>1. /\ disk' = [g \in Files |-> io.disk[g] \cap Kept(g)]
      /\ rd' = KeptIn(io.rd) /\ wr' = KeptIn(io.wr)
      /\ owed' = owed1
      /\ passed' = [g \in Files |-> passed1[g] \cap Kept(g)]
  BY DEF Become
<1>2. \A g \in Files : R[g] = Kept(g) \ passed1[g]
  OBVIOUS
<1>k. \A g \in Files : owed1[g] \subseteq Kept(g)
  OBVIOUS
<1>3. \A g \in Files : Relied(g)' = R[g]
  BY <1>1, <1>2 DEF Relied
<1> HIDE DEF Kept
<1>4. /\ rd' \in ReadBuffer /\ rd'.file = io.rd.file /\ rd'.block = io.rd.block
      /\ rd'.cur = IF io.rd.file = NoFile THEN io.rd.cur ELSE io.rd.cur \cap Kept(io.rd.file)
  BY <1>0, <1>1 DEF ReadBuffer
<1>5. /\ wr' \in WritingBuffer /\ wr'.file = io.wr.file /\ wr'.block = io.wr.block
      /\ wr'.dirty = io.wr.dirty
      /\ wr'.cur = IF io.wr.file = NoFile THEN io.wr.cur ELSE io.wr.cur \cap Kept(io.wr.file)
  BY <1>0, <1>1 DEF WritingBuffer
<1>6. /\ disk' \in Current /\ passed' \in Current
      /\ \A g \in Files : disk'[g] = io.disk[g] \cap Kept(g)
  BY <1>0, <1>1 DEF Current
<1>7. InBlock(rd') /\ InBlock(wr')
  BY <1>0, <1>4, <1>5 DEF InBlock
<1>8. Io' \in Buffers
  <2>1. Io' = [disk |-> disk', rd |-> rd', wr |-> wr']
    BY DEF Io
  <2> QED BY <1>0, <1>4, <1>5, <1>6, <1>7, <2>1 DEF Buffers
<1>9. Exact(Io', R)
  <2>0. Io'.disk = disk' /\ Io'.rd = rd' /\ Io'.wr = wr'
    BY DEF Io
  <2>1. ASSUME NEW g \in Files, NEW c \in R[g]
        PROVE  c \in disk'[g] \/ (wr'.file = g /\ wr'.dirty /\ c \in wr'.cur)
    <3>1. c \in io.disk[g] \/ (io.wr.file = g /\ io.wr.dirty /\ c \in io.wr.cur)
      BY DEF Exact
    <3> QED BY <1>2, <1>5, <1>6, <3>1, CellAssumption
  <2>2. Complete(rd', R)
    BY <1>2, <1>4, CellAssumption DEF Exact, Complete
  <2>3. Complete(wr', R)
    BY <1>2, <1>5, CellAssumption DEF Exact, Complete
  <2> QED BY <2>0, <2>1, <2>2, <2>3 DEF Exact
<1>10. ReliedNow' = R
  <2>1. ReliedNow' = [g \in Files |-> Relied(g)']
    BY DEF ReliedNow
  <2> QED BY <1>3, <2>1 DEF Cellsets, Current
<1>11. OnOpenFiles'
  BY <1>4, <1>5 DEF OnOpenFiles
<1>12. \A g \in Files : owed'[g] \ passed'[g] = owed1[g] \ passed1[g]
  BY <1>1, <1>k
<1>13. PastTheBuffer'
  <2>1. ASSUME NEW g \in Files
        PROVE  /\ R[g] \cap LargeCells(g) \subseteq disk'[g]
               /\ (owed'[g] \ passed'[g]) \cap DataCells(g) \subseteq disk'[g]
    BY <1>2, <1>6, <1>12, <1>k
  <2> QED BY <1>3, <2>1 DEF PastTheBuffer
<1>14. Inv'
  BY <1>1, <1>6, <1>8, <1>9, <1>10, <1>11, <1>13 DEF Inv
<1> QED BY <1>1, <1>2, <1>6, <1>12, <1>14, <1>k

----------------------------------------------------------------------------
(* Steps of operations                                                     *)

\* A write begins or continues an operation on its file.
LEMMA WriteKeepsInv ==
    ASSUME Inv, NEW f \in Files, NEW r \in Own(f), Write(f, r)
    PROVE  Inv' /\ NothingGoesBack
<1>0. PICK io : io = WriteFile(Io, f, r)
  OBVIOUS
<1>1. PICK past : past = PassedBy(Io, f, r)
  OBVIOUS
<1> DEFINE P == With(ReliedNow, f, r, past)
           owed1 == [owed EXCEPT ![f] = @ \ Span(r)]
           passed1 == [passed EXCEPT ![f] = (@ \ Span(r)) \cup past]
<1>2. /\ f \in opened /\ busy \in {NoFile, f} /\ opened' = opened
      /\ busy' = f /\ pending' = pending \cup Span(r)
      /\ Become(io, owed1, passed1)
  BY <1>0, <1>1 DEF Write
<1>3. /\ Io \in Buffers /\ owed \in Cellsets /\ passed \in Current
      /\ OnOpenFiles /\ Exact(Io, ReliedNow) /\ PastTheBuffer
      /\ Io.disk = disk /\ Io.rd = rd /\ Io.wr = wr
  BY FieldsOfIo DEF Inv
<1>4. /\ ReliedNow \in Cellsets /\ NoFile \notin Files
      /\ \A g \in Files : ReliedNow[g] = Relied(g)
  BY ReliedIsInFile
<1>5. /\ io \in Buffers /\ P \in Cellsets /\ Exact(io, P)
      /\ \A g \in Files : \A c \in disk[g] \cap Relied(g) :
            c \in io.disk[g] \/ (g = f /\ c \in Span(r))
      /\ IsLarge(r) => Span(r) \subseteq io.disk[f]
      /\ io.rd.file \in {rd.file, NoFile}
      /\ io.wr.file \in {wr.file, f, NoFile}
  BY <1>0, <1>1, <1>3, <1>4, WriteFileIsExact
<1>6. Span(r) \subseteq Cells(f) /\ Span(r) \subseteq Nat
  BY RangeInFile DEF Span
<1>7. past \subseteq Span(r)
  BY <1>1 DEF PassedBy
<1>8. owed1 \in Cellsets /\ passed1 \in Current
  BY <1>3, <1>6, <1>7 DEF Cellsets, Current
<1>9. \A g \in Files : /\ g # f => owed1[g] = owed[g] /\ passed1[g] = passed[g]
                       /\ g # f => P[g] = owed[g] \ passed[g]
  BY <1>2, <1>3, <1>4 DEF With, Relied, Cellsets, Current
<1>10. /\ owed1[f] = owed[f] \ Span(r)
       /\ passed1[f] = (passed[f] \ Span(r)) \cup past
       /\ P[f] = (Relied(f) \cup Span(r)) \ past
  BY <1>3, <1>4 DEF With, Cellsets, Current
<1>11. Relied(f) = (owed[f] \cup pending) \ passed[f]
  BY <1>2, <1>3, <1>4 DEF Relied, OnOpenFiles
<1> HIDE DEF P, owed1, passed1
<1>12. \A g \in Files : P[g] = (owed1[g] \cup (IF g = busy' THEN pending' ELSE {})) \ passed1[g]
  <2>1. P[f] = (owed1[f] \cup pending') \ passed1[f]
    BY <1>2, <1>7, <1>10, <1>11
  <2> QED BY <1>2, <1>9, <2>1
<1>13. \A g \in Files : P[g] \cap LargeCells(g) \subseteq io.disk[g]
  <2>1. ASSUME NEW g \in Files, NEW c \in P[g] \cap LargeCells(g) PROVE c \in io.disk[g]
    <3>1. CASE g = f /\ c \in Span(r)
      BY <1>5, <2>1, <3>1, RangesAreApart
    <3>2. CASE ~ (g = f /\ c \in Span(r))
      <4>1. c \in Relied(g)
        BY <1>4, <1>9, <1>10, <2>1, <3>2, ReliedIsInFile
      <4> QED BY <1>3, <1>5, <2>1, <3>2, <4>1 DEF PastTheBuffer
    <3> QED BY <3>1, <3>2
  <2> QED BY <2>1
<1>14. \A g \in Files : (owed1[g] \ passed1[g]) \cap DataCells(g) \subseteq io.disk[g]
  <2>1. ASSUME NEW g \in Files, NEW c \in (owed1[g] \ passed1[g]) \cap DataCells(g)
        PROVE  c \in io.disk[g]
    <3>1. c \in owed[g] \ passed[g] /\ ~ (g = f /\ c \in Span(r))
      BY <1>9, <1>10, <2>1
    <3>2. c \in Relied(g) /\ c \in disk[g]
      BY <1>3, <2>1, <3>1, ReliedIsInFile DEF PastTheBuffer
    <3> QED BY <1>5, <3>1, <3>2
  <2> QED BY <2>1
<1>15. /\ opened' \subseteq Files /\ busy' \in opened' \cup {NoFile}
       /\ busy' = NoFile => pending' = {}
       /\ busy' \in Files => pending' \subseteq Cells(busy')
       /\ io.rd.file \in opened' \cup {NoFile} /\ io.wr.file \in opened' \cup {NoFile}
  BY <1>2, <1>3, <1>4, <1>5, <1>6 DEF OnOpenFiles
<1>16. /\ Inv'
       /\ \A g \in Files : /\ io.disk[g] \cap owed1[g] \subseteq disk'[g]
                           /\ owed'[g] = owed1[g]
  <2>1. P \in Cellsets /\ Exact(io, P)
    BY <1>5
  <2> QED BY <1>2, <1>5, <1>8, <1>12, <1>13, <1>14, <1>15, <2>1, BecomeIs
<1>17. NothingGoesBack
  <2>1. ASSUME NEW g \in Files, NEW c \in disk[g] \cap Relied(g) \cap owed'[g]
        PROVE  c \in disk'[g]
    <3>1. c \in owed1[g] /\ ~ (g = f /\ c \in Span(r))
      BY <1>10, <1>16, <2>1
    <3> QED BY <1>5, <1>16, <2>1, <3>1
  <2> QED BY <2>1 DEF NothingGoesBack
<1> QED BY <1>16, <1>17

\* An operation that fails leaves the rest as it was.
LEMMA EndFailedIs ==
    ASSUME Inv, NEW io \in Buffers, NEW lost \in Current, NEW Q,
           \A g \in Files : (owed[g] \ passed[g]) \ lost[g] \subseteq Q[g],
           Exact(io, Q),
           \A g \in Files : disk[g] \cap ((owed[g] \ passed[g]) \ lost[g]) \subseteq io.disk[g],
           io.rd.file \in opened \cup {NoFile}, io.wr.file \in opened \cup {NoFile},
           EndFailed(io, lost)
    PROVE  Inv' /\ NothingGoesBack
<1> DEFINE owed1 == [g \in Files |-> owed[g] \ lost[g]]
           R == [g \in Files |-> (owed[g] \ lost[g]) \ passed[g]]
<1>1. /\ busy' = NoFile /\ pending' = {} /\ opened' = opened
      /\ Become(io, owed1, passed)
  BY DEF EndFailed
<1>2. /\ owed \in Cellsets /\ passed \in Current /\ OnOpenFiles /\ PastTheBuffer
  BY DEF Inv
<1>3. owed1 \in Cellsets /\ R \in Cellsets
  BY <1>2 DEF Cellsets, Current
<1>4. \A g \in Files : /\ owed1[g] = owed[g] \ lost[g]
                       /\ R[g] = owed1[g] \ passed[g]
                       /\ R[g] = (owed[g] \ passed[g]) \ lost[g]
  BY <1>2
<1> HIDE DEF owed1, R
<1>5. Exact(io, R)
  BY <1>4, ExactForFewer
<1>6. \A g \in Files : g # busy'
  BY <1>1, CellAssumption
<1>7. \A g \in Files : R[g] = (owed1[g] \cup (IF g = busy' THEN pending' ELSE {})) \ passed[g]
  BY <1>4, <1>6
<1>8. ASSUME NEW g \in Files
      PROVE  /\ R[g] \cap LargeCells(g) \subseteq io.disk[g]
             /\ (owed1[g] \ passed[g]) \cap DataCells(g) \subseteq io.disk[g]
  <2>1. owed[g] \ passed[g] \subseteq Relied(g)
    BY ReliedIsInFile
  <2> QED BY <1>2, <1>4, <2>1 DEF PastTheBuffer
<1>9. /\ opened' \subseteq Files /\ busy' \in opened' \cup {NoFile}
      /\ busy' = NoFile => pending' = {}
      /\ busy' \in Files => pending' \subseteq Cells(busy')
      /\ io.rd.file \in opened' \cup {NoFile} /\ io.wr.file \in opened' \cup {NoFile}
  BY <1>1, <1>2 DEF OnOpenFiles
<1>10. /\ Inv'
       /\ \A g \in Files : /\ io.disk[g] \cap R[g] \subseteq disk'[g]
                           /\ io.disk[g] \cap owed1[g] \subseteq disk'[g]
                           /\ owed'[g] = owed1[g]
  BY <1>1, <1>2, <1>3, <1>5, <1>7, <1>8, <1>9, BecomeIs
<1>11. NothingGoesBack
  <2>1. ASSUME NEW g \in Files, NEW c \in disk[g] \cap Relied(g) \cap owed'[g]
        PROVE  c \in disk'[g]
    <3>1. c \in owed[g] \ lost[g] /\ c \notin passed[g]
      BY <1>4, <1>10, <2>1 DEF Relied
    <3> QED BY <1>4, <1>10, <2>1, <3>1
  <2> QED BY <2>1 DEF NothingGoesBack
<1> QED BY <1>10, <1>11

\* A flush that fails loses what only the write buffer has.
LEMMA FlushFailsIs ==
    ASSUME Inv, NEW io \in Buffers, NEW more \in Current, NEW R \in Cellsets, Exact(io, R),
           io.wr.file \in opened, io.rd.file \in opened \cup {NoFile},
           \A g \in Files : (owed[g] \ passed[g]) \ more[g] \subseteq R[g],
           \A g \in Files : disk[g] \cap ((owed[g] \ passed[g]) \ more[g]) \subseteq io.disk[g],
           FlushFails(io, more)
    PROVE  Inv' /\ NothingGoesBack
<1> DEFINE g == io.wr.file
<1>0. PICK n \in BlockCells(g, io.wr.block) :
         LET failed == Flushed(io, {c \in BlockCells(g, io.wr.block) : c < n})
         IN EndFailed(failed, [more EXCEPT ![g] = @ \cup (io.wr.cur \ failed.disk[g])])
  BY DEF FlushFails
<1>1. PICK part : part = {c \in BlockCells(g, io.wr.block) : c < n}
  OBVIOUS
<1>2. PICK failed : failed = Flushed(io, part)
  OBVIOUS
<1> DEFINE lost == [more EXCEPT ![g] = @ \cup (io.wr.cur \ failed.disk[g])]
           Q == [R EXCEPT ![g] = @ \ (io.wr.cur \ failed.disk[g])]
<1>3. EndFailed(failed, lost)
  BY <1>0, <1>1, <1>2
<1>4. g \in Files /\ OnOpenFiles
  BY DEF Inv, OnOpenFiles
<1>5. /\ failed \in Buffers /\ failed.rd = io.rd /\ failed.wr.file = g
      /\ NotBack(io, failed, R) /\ Exact(failed, Q)
  <2>1. part \in SUBSET BlockCells(g, io.wr.block)
    BY <1>1
  <2> QED BY <1>2, <1>4, <2>1, FlushIsExact
<1>6. io.wr.cur \subseteq Nat
  BY DEF Buffers, WritingBuffer
<1>7. lost \in Current
  BY <1>4, <1>6 DEF Current
<1>8. /\ \A h \in Files : h # g => lost[h] = more[h] /\ Q[h] = R[h]
      /\ lost[g] = more[g] \cup (io.wr.cur \ failed.disk[g])
      /\ Q[g] = R[g] \ (io.wr.cur \ failed.disk[g])
  BY <1>4 DEF Current, Cellsets
<1> HIDE DEF lost, Q
<1>9. \A h \in Files : (owed[h] \ passed[h]) \ lost[h] \subseteq Q[h]
  <2>1. (owed[g] \ passed[g]) \ lost[g] \subseteq Q[g]
    BY <1>4, <1>8
  <2>2. ASSUME NEW h \in Files, h # g PROVE (owed[h] \ passed[h]) \ lost[h] \subseteq Q[h]
    BY <1>8, <2>2
  <2> QED BY <2>1, <2>2
<1>10. \A h \in Files : disk[h] \cap ((owed[h] \ passed[h]) \ lost[h]) \subseteq failed.disk[h]
  <2>1. ASSUME NEW h \in Files, NEW c \in disk[h] \cap ((owed[h] \ passed[h]) \ lost[h])
        PROVE  c \in failed.disk[h]
    <3>1. c \notin more[h]
      BY <1>8, <2>1
    <3>2. c \in io.disk[h] \cap R[h]
      BY <2>1, <3>1
    <3> QED BY <1>5, <3>2 DEF NotBack
  <2> QED BY <2>1
<1>11. failed.rd.file \in opened \cup {NoFile} /\ failed.wr.file \in opened \cup {NoFile}
  BY <1>5
<1> QED BY <1>3, <1>5, <1>7, <1>9, <1>10, <1>11, EndFailedIs

\* No cell is lost but what the flush loses.
LEMMA NothingIsLost == Nothing \in Current /\ \A f \in Files : Nothing[f] = {}
BY DEF Nothing, Current

\* A write fails in the flush that makes room for it, or when its own cells go to
\* disk.
LEMMA WriteFailsKeepsInv ==
    ASSUME Inv, NEW f \in Files, NEW r \in Own(f), WriteFails(f, r)
    PROVE  Inv' /\ NothingGoesBack
<1>1. /\ Io \in Buffers /\ OnOpenFiles /\ Exact(Io, ReliedNow)
      /\ Io.disk = disk /\ Io.rd = rd /\ Io.wr = wr
  BY FieldsOfIo DEF Inv
<1>2. /\ ReliedNow \in Cellsets /\ NoFile \notin Files
      /\ \A g \in Files : ReliedNow[g] = Relied(g) /\ owed[g] \ passed[g] \subseteq Relied(g)
  BY ReliedIsInFile
<1>3. f \in opened
  BY DEF WriteFails
<1>4. CASE MustFlush(Io, f, r) /\ FlushFails(ForgetRead(Io, f, r), Nothing)
  <2>1. PICK io : io = ForgetRead(Io, f, r)
    OBVIOUS
  <2>2. /\ io \in Buffers /\ Exact(io, ReliedNow) /\ io.disk = disk /\ io.wr = wr
        /\ io.rd \in {rd, NoRead}
    BY <1>1, <2>1, ForgetReadIsExact
  <2>3. io.wr.file \in opened /\ io.rd.file \in opened \cup {NoFile}
    BY <1>1, <1>2, <1>4, <2>2, GivenUpIsExact DEF MustFlush, Buffers, OnOpenFiles
  <2>4. FlushFails(io, Nothing)
    BY <1>4, <2>1
  <2>5. /\ \A g \in Files : (owed[g] \ passed[g]) \ Nothing[g] \subseteq ReliedNow[g]
        /\ \A g \in Files : disk[g] \cap ((owed[g] \ passed[g]) \ Nothing[g]) \subseteq io.disk[g]
    BY <1>2, <2>2, NothingIsLost
  <2> QED BY <1>2, <2>2, <2>3, <2>4, <2>5, NothingIsLost, FlushFailsIs
<1>5. CASE IsLarge(r) /\ EndFailed(Room(Io, f, r), [Nothing EXCEPT ![f] = Span(r)])
  <2> DEFINE lost == [Nothing EXCEPT ![f] = Span(r)]
  <2>1. PICK io : io = Room(Io, f, r)
    OBVIOUS
  <2>2. /\ io \in Buffers /\ Exact(io, ReliedNow) /\ NotBack(Io, io, ReliedNow)
        /\ io.rd \in {rd, NoRead} /\ io.wr.file \in {wr.file, NoFile}
    BY <1>1, <1>2, <2>1, RoomIsExact
  <2>3. lost \in Current
    <3>1. Span(r) \subseteq Nat
      BY RangeInFile DEF Span
    <3> QED BY <3>1, NothingIsLost DEF Current
  <2>4. EndFailed(io, lost)
    BY <1>5, <2>1
  <2> HIDE DEF lost
  <2>5. /\ \A g \in Files : (owed[g] \ passed[g]) \ lost[g] \subseteq ReliedNow[g]
        /\ \A g \in Files : disk[g] \cap ((owed[g] \ passed[g]) \ lost[g]) \subseteq io.disk[g]
    BY <1>1, <1>2, <2>2 DEF NotBack
  <2>6. io.rd.file \in opened \cup {NoFile} /\ io.wr.file \in opened \cup {NoFile}
    BY <1>1, <2>2, GivenUpIsExact DEF OnOpenFiles
  <2> QED BY <2>2, <2>3, <2>4, <2>5, <2>6, EndFailedIs
<1> QED BY <1>4, <1>5 DEF WriteFails

\* An operation that gives up leaves what it has written to nobody.
LEMMA AbortKeepsInv ==
    ASSUME Inv, NEW f \in Files, Abort(f)
    PROVE  Inv' /\ NothingGoesBack
<1>1. /\ Io \in Buffers /\ OnOpenFiles /\ Exact(Io, ReliedNow)
      /\ Io.disk = disk /\ Io.rd = rd /\ Io.wr = wr
  BY FieldsOfIo DEF Inv
<1>2. \A g \in Files : /\ (owed[g] \ passed[g]) \ Nothing[g] \subseteq ReliedNow[g]
                       /\ disk[g] \cap ((owed[g] \ passed[g]) \ Nothing[g]) \subseteq Io.disk[g]
  BY <1>1, ReliedIsInFile, NothingIsLost
<1>3. Io.rd.file \in opened \cup {NoFile} /\ Io.wr.file \in opened \cup {NoFile}
  BY <1>1 DEF OnOpenFiles
<1>4. EndFailed(Io, Nothing)
  BY DEF Abort
<1> QED BY <1>1, <1>2, <1>3, <1>4, NothingIsLost, EndFailedIs

\* A block that is read has the current value of all its cells.
LEMMA LoadIsExact ==
    ASSUME NEW io \in Buffers, NEW R \in Cellsets, Exact(io, R), NEW f \in Files, NEW b \in Nat,
           NEW buffer, NEW full \in BOOLEAN,
           Holds(io.wr, f, b) =>
               buffer = [file |-> f, block |-> b, full |-> full, cur |-> io.wr.cur],
           ~ Holds(io.wr, f, b) =>
               buffer = [file |-> f, block |-> b, full |-> full,
                         cur |-> io.disk[f] \cap BlockCells(f, b)]
    PROVE  /\ buffer \in ReadBuffer /\ buffer.file = f
           /\ InBlock(buffer) /\ Complete(buffer, R)
<1>0. /\ io.disk \in Current /\ io.wr \in WritingBuffer /\ InBlock(io.wr)
      /\ NoFile \notin Files
  BY CellAssumption DEF Buffers
<1>1. CASE Holds(io.wr, f, b)
  <2>1. /\ buffer \in ReadBuffer /\ buffer.file = f /\ buffer.block = b
        /\ buffer.cur = io.wr.cur
    BY <1>0, <1>1 DEF ReadBuffer, WritingBuffer
  <2>2. InBlock(buffer)
    BY <1>0, <1>1, <2>1 DEF InBlock, Holds
  <2>3. Complete(buffer, R)
    BY <1>1, <2>1 DEF Exact, Complete, Holds
  <2> QED BY <2>1, <2>2, <2>3
<1>2. CASE ~ Holds(io.wr, f, b)
  <2>1. io.disk[f] \cap BlockCells(f, b) \in SUBSET Nat
    BY <1>0 DEF Current
  <2>2. /\ buffer \in ReadBuffer /\ buffer.file = f /\ buffer.block = b
        /\ buffer.cur = io.disk[f] \cap BlockCells(f, b)
    BY <1>2, <2>1 DEF ReadBuffer
  <2>3. ASSUME NEW c \in R[f] \cap BlockCells(f, b) PROVE c \in io.disk[f]
    <3>1. CASE io.wr.file = f
      <4>1. c \notin io.wr.cur
        BY <1>0, <1>2, <2>3, <3>1 DEF InBlock, Holds, BlockCells
      <4> QED BY <2>3, <4>1 DEF Exact
    <3>2. CASE io.wr.file # f
      BY <2>3, <3>2 DEF Exact
    <3> QED BY <3>1, <3>2
  <2> QED BY <2>2, <2>3 DEF InBlock, Complete
<1> QED BY <1>1, <1>2

\* A read loads the read buffer and changes nothing else.
LEMMA ReadKeepsInv ==
    ASSUME Inv, NEW f \in Files, NEW r \in Own(f), Read(f, r)
    PROVE  Inv' /\ NothingGoesBack
<1>1. /\ Io \in Buffers /\ owed \in Cellsets /\ passed \in Current
      /\ OnOpenFiles /\ Exact(Io, ReliedNow) /\ PastTheBuffer
      /\ Io.disk = disk /\ Io.rd = rd /\ Io.wr = wr
  BY FieldsOfIo DEF Inv
<1>2. /\ f \in opened
      /\ UNCHANGED <<disk, wr, opened, busy, pending, owed, passed>>
  BY DEF Read
<1>3. PICK full \in BOOLEAN :
         rd' = IF Holds(wr, f, Block(r[1]))
               THEN [file |-> f, block |-> Block(r[1]), full |-> TRUE, cur |-> wr.cur]
               ELSE [file |-> f, block |-> Block(r[1]), full |-> full,
                     cur |-> disk[f] \cap BlockCells(f, Block(r[1]))]
  BY DEF Read
<1>4. rd' \in ReadBuffer /\ rd'.file = f /\ InBlock(rd') /\ Complete(rd', ReliedNow)
  <2>1. Block(r[1]) \in Nat /\ ReliedNow \in Cellsets
    BY RangeInFile, BlockBounds, ReliedIsInFile
  <2> HIDE DEF ReliedNow
  <2>2. CASE Holds(wr, f, Block(r[1]))
    BY <1>1, <1>3, <2>1, <2>2, LoadIsExact, ZenonT(90)
  <2>3. CASE ~ Holds(wr, f, Block(r[1]))
    BY <1>1, <1>3, <2>1, <2>3, LoadIsExact
  <2> QED BY <2>2, <2>3
<1>5. ReliedNow' = ReliedNow /\ \A g \in Files : Relied(g)' = Relied(g)
  BY <1>2 DEF ReliedNow, Relied
<1>6. Io' = [disk |-> disk, rd |-> rd', wr |-> wr]
  BY <1>2 DEF Io
<1>7. Io' \in Buffers
  BY <1>1, <1>4, <1>6 DEF Buffers
<1>8. Exact(Io', ReliedNow)
  BY <1>1, <1>4, <1>6 DEF Exact
<1>9. OnOpenFiles' /\ PastTheBuffer'
  BY <1>1, <1>2, <1>4, <1>5 DEF OnOpenFiles, PastTheBuffer
<1> QED BY <1>1, <1>2, <1>5, <1>7, <1>8, <1>9 DEF Inv, NothingGoesBack

----------------------------------------------------------------------------
(* Ends of operations                                                      *)

\* The date is written through the buffer.
LEMMA DateIsExact ==
    ASSUME Inv, NEW f \in opened, NEW io, io = WriteFile(Io, f, Header)
    PROVE  LET P == With(ReliedNow, f, Header, {}) IN
           /\ P \in Cellsets /\ io \in Buffers /\ Exact(io, P)
           /\ P[f] = Relied(f) \cup {0} /\ \A g \in Files : g # f => P[g] = Relied(g)
           /\ \A g \in Files : \A c \in disk[g] \cap Relied(g) :
                 c \in io.disk[g] \/ (g = f /\ c = 0)
           /\ io.wr.file = f /\ io.rd.file \in opened \cup {NoFile}
<1> DEFINE P == With(ReliedNow, f, Header, {})
<1>1. /\ Io \in Buffers /\ OnOpenFiles /\ Exact(Io, ReliedNow) /\ f \in Files
      /\ Io.disk = disk /\ Io.rd = rd /\ Io.wr = wr
  BY FieldsOfIo DEF Inv, OnOpenFiles
<1>2. /\ ReliedNow \in Cellsets /\ \A g \in Files : ReliedNow[g] = Relied(g)
  BY ReliedIsInFile
<1>3. Header \in Own(f) /\ Span(Header) = {0} /\ ~ IsLarge(Header)
  BY <1>1, HeaderIsSmall
<1>4. P = With(ReliedNow, f, Header, PassedBy(Io, f, Header))
  BY <1>3 DEF PassedBy
<1> HIDE DEF P
<1>5. /\ io \in Buffers /\ P \in Cellsets /\ Exact(io, P)
      /\ \A g \in Files : \A c \in Io.disk[g] \cap ReliedNow[g] :
            c \in io.disk[g] \/ (g = f /\ c \in Span(Header))
      /\ io.wr.file = f /\ io.rd.file \in {Io.rd.file, NoFile}
  BY <1>1, <1>2, <1>3, <1>4, WriteFileIsExact
<1>6. P[f] = Relied(f) \cup {0} /\ \A g \in Files : g # f => P[g] = Relied(g)
  BY <1>1, <1>2, <1>3 DEF P, With, Cellsets, Current
<1> QED BY <1>1, <1>2, <1>3, <1>5, <1>6 DEF P, OnOpenFiles

\* The date goes to the header and the buffer to disk: all that is relied on is
\* there then.
LEMMA EndDatedKeepsInv ==
    ASSUME Inv, NEW f \in Files, EndDated(f)
    PROVE  /\ Inv' /\ NothingGoesBack
           /\ \A g \in Files : owed'[g] \ passed'[g] \subseteq disk'[g]
<1>0. PICK dated : dated = WriteFile(Io, f, Header)
  OBVIOUS
<1>r. PICK io : io = FlushedWhole(dated)
  OBVIOUS
<1> DEFINE owed1 == [owed EXCEPT ![f] = @ \cup pending \cup Span(Header)]
           passed1 == [passed EXCEPT ![f] = @ \ Span(Header)]
           P == With(ReliedNow, f, Header, {})
<1>1. /\ busy = f /\ busy' = NoFile /\ pending' = {} /\ opened' = opened
      /\ Become(io, owed1, passed1)
  BY <1>0, <1>r DEF EndDated
<1>2. /\ owed \in Cellsets /\ passed \in Current /\ OnOpenFiles
      /\ NoFile \notin Files /\ f \in opened /\ pending \subseteq Cells(f)
  BY <1>1, CellAssumption DEF Inv, OnOpenFiles
<1>3. /\ P \in Cellsets /\ dated \in Buffers /\ Exact(dated, P)
      /\ P[f] = Relied(f) \cup {0} /\ \A g \in Files : g # f => P[g] = Relied(g)
      /\ \A g \in Files : \A c \in disk[g] \cap Relied(g) :
            c \in dated.disk[g] \/ (g = f /\ c = 0)
      /\ dated.wr.file = f /\ dated.rd.file \in opened \cup {NoFile}
  BY <1>0, <1>2, DateIsExact
<1>4. Span(Header) = {0} /\ {0} \subseteq Cells(f) /\ {0} \subseteq Nat
  BY HeaderIsSmall, RangeInFile
<1>p. pending \subseteq Nat
  BY <1>2, LayoutAssumption DEF Cells
<1>5. owed1 \in Cellsets /\ passed1 \in Current
  BY <1>2, <1>4, <1>p DEF Cellsets, Current
<1>6. /\ owed1[f] = owed[f] \cup pending \cup {0} /\ passed1[f] = passed[f] \ {0}
      /\ \A g \in Files : g # f => owed1[g] = owed[g] /\ passed1[g] = passed[g]
  BY <1>2, <1>4 DEF Cellsets, Current
<1> HIDE DEF P, owed1, passed1
<1>7. /\ io \in Buffers /\ Exact(io, P) /\ io.rd = dated.rd /\ io.wr.file = f
      /\ \A g \in Files : P[g] \subseteq io.disk[g]
  BY <1>r, <1>3, WholeFlushIsExact
<1>8. \A g \in Files : P[g] = (owed1[g] \cup (IF g = busy' THEN pending' ELSE {})) \ passed1[g]
  <2>1. P[f] = owed1[f] \ passed1[f]
    BY <1>1, <1>3, <1>6 DEF Relied
  <2>2. ASSUME NEW g \in Files, g # f PROVE P[g] = owed1[g] \ passed1[g]
    BY <1>1, <1>3, <1>6, <2>2 DEF Relied
  <2> QED BY <1>1, <1>2, <2>1, <2>2
<1>9. \A g \in Files : /\ P[g] \cap LargeCells(g) \subseteq io.disk[g]
                       /\ (owed1[g] \ passed1[g]) \cap DataCells(g) \subseteq io.disk[g]
  BY <1>7, <1>8
<1>10. /\ opened' \subseteq Files /\ busy' \in opened' \cup {NoFile}
       /\ busy' = NoFile => pending' = {}
       /\ busy' \in Files => pending' \subseteq Cells(busy')
       /\ io.rd.file \in opened' \cup {NoFile} /\ io.wr.file \in opened' \cup {NoFile}
  BY <1>1, <1>2, <1>3, <1>7 DEF OnOpenFiles
<1>11. /\ Inv'
       /\ \A g \in Files : /\ io.disk[g] \cap owed1[g] \subseteq disk'[g]
                           /\ owed'[g] = owed1[g]
                           /\ owed'[g] \ passed'[g] \subseteq P[g]
                           /\ io.disk[g] \cap P[g] \subseteq disk'[g]
  BY <1>1, <1>3, <1>5, <1>7, <1>8, <1>9, <1>10, BecomeIs
<1>12. NothingGoesBack
  <2>1. \A g \in Files : Relied(g) \subseteq P[g]
    BY <1>3
  <2> QED BY <1>7, <1>11, <2>1 DEF NothingGoesBack
<1> QED BY <1>7, <1>11, <1>12

\* The date or the flush fails.
LEMMA EndDatedFailsKeepsInv ==
    ASSUME Inv, NEW f \in Files, EndDatedFails(f)
    PROVE  Inv' /\ NothingGoesBack
<1>1. /\ Io \in Buffers /\ OnOpenFiles /\ Exact(Io, ReliedNow)
      /\ Io.disk = disk /\ Io.rd = rd /\ Io.wr = wr
  BY FieldsOfIo DEF Inv
<1>2. /\ ReliedNow \in Cellsets /\ NoFile \notin Files
      /\ \A g \in Files : ReliedNow[g] = Relied(g) /\ owed[g] \ passed[g] \subseteq Relied(g)
  BY ReliedIsInFile
<1>3. f \in opened
  BY <1>1, <1>2 DEF EndDatedFails, OnOpenFiles
<1>4. CASE MustFlush(Io, f, Header) /\ FlushFails(ForgetRead(Io, f, Header), Nothing)
  <2>1. PICK io : io = ForgetRead(Io, f, Header)
    OBVIOUS
  <2>2. /\ io \in Buffers /\ Exact(io, ReliedNow) /\ io.disk = disk /\ io.wr = wr
        /\ io.rd \in {rd, NoRead}
    BY <1>1, <2>1, ForgetReadIsExact
  <2>3. io.wr.file \in opened /\ io.rd.file \in opened \cup {NoFile}
    BY <1>1, <1>2, <1>4, <2>2, GivenUpIsExact DEF MustFlush, Buffers, OnOpenFiles
  <2>4. FlushFails(io, Nothing)
    BY <1>4, <2>1
  <2>5. /\ \A g \in Files : (owed[g] \ passed[g]) \ Nothing[g] \subseteq ReliedNow[g]
        /\ \A g \in Files : disk[g] \cap ((owed[g] \ passed[g]) \ Nothing[g]) \subseteq io.disk[g]
    BY <1>2, <2>2, NothingIsLost
  <2> QED BY <1>2, <2>2, <2>3, <2>4, <2>5, NothingIsLost, FlushFailsIs
<1>5. CASE FlushFails(WriteFile(Io, f, Header), [Nothing EXCEPT ![f] = Span(Header)])
  <2> DEFINE P == With(ReliedNow, f, Header, {})
             more == [Nothing EXCEPT ![f] = Span(Header)]
  <2>1. PICK io : io = WriteFile(Io, f, Header)
    OBVIOUS
  <2>2. /\ P \in Cellsets /\ io \in Buffers /\ Exact(io, P)
        /\ P[f] = Relied(f) \cup {0} /\ \A g \in Files : g # f => P[g] = Relied(g)
        /\ \A g \in Files : \A c \in disk[g] \cap Relied(g) :
              c \in io.disk[g] \/ (g = f /\ c = 0)
        /\ io.wr.file = f /\ io.rd.file \in opened \cup {NoFile}
    BY <1>3, <2>1, DateIsExact
  <2>3. more \in Current /\ more[f] = {0}
    BY HeaderIsSmall, NothingIsLost DEF Current
  <2>4. FlushFails(io, more)
    BY <1>5, <2>1
  <2> HIDE DEF P, more
  <2>5. /\ \A g \in Files : (owed[g] \ passed[g]) \ more[g] \subseteq P[g]
        /\ \A g \in Files : disk[g] \cap ((owed[g] \ passed[g]) \ more[g]) \subseteq io.disk[g]
    BY <1>2, <2>2, <2>3
  <2> QED BY <1>3, <2>2, <2>3, <2>4, <2>5, FlushFailsIs
<1> QED BY <1>4, <1>5 DEF EndDatedFails

\* What an operation without a date has written is owed as it was relied on.
LEMMA EndUndatedKeepsInv ==
    ASSUME Inv, NEW f \in Files, EndUndated(f)
    PROVE  Inv' /\ NothingGoesBack
<1> DEFINE owed1 == [owed EXCEPT ![f] = @ \cup pending]
<1>1. /\ busy = f /\ busy' = NoFile /\ pending' = {} /\ opened' = opened
      /\ pending \subseteq UNION {Span(r) : r \in Records[f]}
      /\ Become(Io, owed1, passed)
  BY DEF EndUndated
<1>2. /\ Io \in Buffers /\ owed \in Cellsets /\ passed \in Current
      /\ OnOpenFiles /\ Exact(Io, ReliedNow) /\ PastTheBuffer
      /\ Io.disk = disk /\ Io.rd = rd /\ Io.wr = wr
  BY FieldsOfIo DEF Inv
<1>3. /\ ReliedNow \in Cellsets /\ NoFile \notin Files
      /\ \A g \in Files : ReliedNow[g] = Relied(g) /\ owed[g] \ passed[g] \subseteq Relied(g)
  BY ReliedIsInFile
<1>4. pending \subseteq Cells(f) /\ pending \subseteq Nat
  BY <1>1, <1>2, <1>3, LayoutAssumption DEF OnOpenFiles, Cells
<1>5. owed1 \in Cellsets
  BY <1>2, <1>4 DEF Cellsets, Current
<1>6. owed1[f] = owed[f] \cup pending /\ \A g \in Files : g # f => owed1[g] = owed[g]
  BY <1>2 DEF Cellsets, Current
<1> HIDE DEF owed1
<1>7. \A g \in Files : ReliedNow[g] = (owed1[g] \cup (IF g = busy' THEN pending' ELSE {})) \ passed[g]
  <2>1. ASSUME NEW g \in Files PROVE ReliedNow[g] = owed1[g] \ passed[g]
    BY <1>1, <1>3, <1>6 DEF Relied
  <2> QED BY <1>1, <1>3, <2>1
<1>8. \A g \in Files : ReliedNow[g] \cap LargeCells(g) \subseteq Io.disk[g]
  BY <1>2, <1>3 DEF PastTheBuffer
<1>9. \A g \in Files : (owed1[g] \ passed[g]) \cap DataCells(g) \subseteq Io.disk[g]
  <2>1. ASSUME NEW g \in Files, NEW c \in (owed1[g] \ passed[g]) \cap DataCells(g)
        PROVE  c \in disk[g]
    <3>1. CASE g = f /\ c \in pending
      <4>1. PICK r \in Records[f] : c \in Span(r)
        BY <1>1, <3>1
      <4> QED BY <2>1, <3>1, <4>1, RangesAreApart DEF Own
    <3>2. CASE ~ (g = f /\ c \in pending)
      BY <1>2, <1>6, <2>1, <3>2 DEF PastTheBuffer
    <3> QED BY <3>1, <3>2
  <2> QED BY <1>2, <2>1
<1>10. /\ opened' \subseteq Files /\ busy' \in opened' \cup {NoFile}
       /\ busy' = NoFile => pending' = {}
       /\ busy' \in Files => pending' \subseteq Cells(busy')
       /\ Io.rd.file \in opened' \cup {NoFile} /\ Io.wr.file \in opened' \cup {NoFile}
  BY <1>1, <1>2, <1>3 DEF OnOpenFiles
<1>11. Inv' /\ \A g \in Files : Io.disk[g] \cap ReliedNow[g] \subseteq disk'[g]
  BY <1>1, <1>2, <1>3, <1>5, <1>7, <1>8, <1>9, <1>10, BecomeIs
<1>12. NothingGoesBack
  BY <1>2, <1>3, <1>11 DEF NothingGoesBack
<1> QED BY <1>11, <1>12

----------------------------------------------------------------------------
(* Opening and closing                                                     *)

\* A file that is not open is in no buffer, so that its index can be given to
\* another file.
LEMMA ReplacedIsExact ==
    ASSUME Inv, NEW f \in Files, f \notin opened, NEW cells \in SUBSET Cells(f),
           NEW io, io = Replaced(f, cells),
           NEW R \in Cellsets, R[f] \subseteq cells,
           \A g \in Files : g # f => R[g] \subseteq Relied(g)
    PROVE  /\ io \in Buffers /\ Exact(io, R) /\ io.rd = rd /\ io.wr = wr
           /\ io.disk[f] = cells /\ \A g \in Files : g # f => io.disk[g] = disk[g]
<1>1. /\ Io \in Buffers /\ OnOpenFiles /\ Exact(Io, ReliedNow)
      /\ Io.disk = disk /\ Io.rd = rd /\ Io.wr = wr
  BY FieldsOfIo DEF Inv
<1>2. rd.file # f /\ wr.file # f
  BY <1>1, CellAssumption DEF OnOpenFiles
<1>3. io.disk = [disk EXCEPT ![f] = cells] /\ io.rd = rd /\ io.wr = wr
  BY <1>2 DEF Replaced
<1>4. io = [disk |-> io.disk, rd |-> io.rd, wr |-> io.wr]
  BY DEF Replaced
<1>5. cells \in SUBSET Nat /\ disk \in Current
  <2>1. Cells(f) \subseteq Nat
    <3> SUFFICES ASSUME NEW c \in Cells(f) PROVE c \in Nat
      BY Zenon
    <3> QED BY DEF Cells
  <2>2. disk \in Current
    BY <1>1 DEF Buffers
  <2> QED BY <2>1, <2>2
<1>6. /\ io.disk \in Current /\ io.disk[f] = cells
      /\ \A g \in Files : g # f => io.disk[g] = disk[g]
  BY <1>3, <1>5 DEF Current
<1>7. io \in Buffers
  BY <1>1, <1>3, <1>4, <1>6 DEF Buffers
<1>8. \A g \in Files : g # f => R[g] \subseteq ReliedNow[g]
  BY ReliedIsInFile
<1>9. Exact(io, R)
  <2>1. ASSUME NEW g \in Files, NEW c \in R[g]
        PROVE  c \in io.disk[g] \/ (io.wr.file = g /\ io.wr.dirty /\ c \in io.wr.cur)
    <3>1. CASE g = f
      BY <1>6, <2>1, <3>1
    <3>2. CASE g # f
      <4>1. c \in disk[g] \/ (wr.file = g /\ wr.dirty /\ c \in wr.cur)
        BY <1>1, <1>8, <2>1, <3>2 DEF Exact
      <4> QED BY <1>3, <1>6, <3>2, <4>1
    <3> QED BY <3>1, <3>2
  <2>2. Complete(rd, R) /\ Complete(wr, R)
    BY <1>1, <1>2, <1>8 DEF Exact, Complete
  <2> QED BY <1>3, <2>1, <2>2 DEF Exact
<1> QED BY <1>3, <1>6, <1>7, <1>9

\* An open leaves the invariant if what it makes of its file is on disk or in the
\* write buffer.
LEMMA OpenedIs ==
    ASSUME Inv, NEW f \in Files, f \notin opened, busy = NoFile,
           opened' = opened \cup {f}, UNCHANGED <<busy, pending>>,
           NEW io \in Buffers, NEW owed1 \in Cellsets, NEW passed1 \in Current,
           NEW R \in Cellsets, Exact(io, R),
           \A g \in Files : R[g] = owed1[g] \ passed1[g],
           R[f] \cap (LargeCells(f) \cup DataCells(f)) \subseteq io.disk[f],
           \A g \in Files : g # f => owed1[g] = owed[g] /\ R[g] = Relied(g),
           \A g \in Files : g # f => disk[g] \cap Relied(g) \subseteq io.disk[g],
           io.rd.file \in opened \cup {f, NoFile}, io.wr.file \in opened \cup {f, NoFile},
           Become(io, owed1, passed1)
    PROVE  Inv' /\ NothingGoesBack
<1>1. OnOpenFiles /\ PastTheBuffer /\ NoFile \notin Files
  BY CellAssumption DEF Inv
<1>2. \A g \in Files : g # busy'
  BY <1>1
<1>3. \A g \in Files : R[g] = (owed1[g] \cup (IF g = busy' THEN pending' ELSE {})) \ passed1[g]
  BY <1>2
<1>4. \A g \in Files : Relied(g) = owed[g] \ passed[g]
  BY <1>1 DEF Relied
<1>5. ASSUME NEW g \in Files
      PROVE  /\ R[g] \cap LargeCells(g) \subseteq io.disk[g]
             /\ (owed1[g] \ passed1[g]) \cap DataCells(g) \subseteq io.disk[g]
  <2>1. CASE g = f
    BY <2>1
  <2>2. CASE g # f
    <3>1. R[g] \cap LargeCells(g) \subseteq disk[g] /\ R[g] \cap DataCells(g) \subseteq disk[g]
      BY <1>1, <1>4, <2>2 DEF PastTheBuffer
    <3> QED BY <2>2, <3>1
  <2> QED BY <2>1, <2>2
<1>6. /\ opened' \subseteq Files /\ busy' \in opened' \cup {NoFile}
      /\ busy' = NoFile => pending' = {}
      /\ busy' \in Files => pending' \subseteq Cells(busy')
      /\ io.rd.file \in opened' \cup {NoFile} /\ io.wr.file \in opened' \cup {NoFile}
  BY <1>1 DEF OnOpenFiles
<1>7. /\ Inv'
      /\ \A g \in Files : /\ io.disk[g] \cap owed1[g] \subseteq disk'[g]
                          /\ owed'[g] = owed1[g]
  BY <1>3, <1>5, <1>6, BecomeIs
<1>8. NothingGoesBack
  <2>1. ASSUME NEW g \in Files, NEW c \in disk[g] \cap Relied(g) \cap owed'[g]
        PROVE  c \in disk'[g] \/ g \in opened' \ opened
    <3>1. CASE g = f
      BY <3>1
    <3>2. CASE g # f
      BY <1>7, <2>1, <3>2
    <3> QED BY <3>1, <3>2
  <2> QED BY <2>1 DEF NothingGoesBack
<1> QED BY <1>7, <1>8

\* The header of the file is read into the read buffer.
LEMMA HeaderReadIsExact ==
    ASSUME Inv, NEW f \in Files, f \notin opened, NEW io0 \in Buffers, NEW R \in Cellsets,
           Exact(io0, R), io0.wr = wr, NEW full \in BOOLEAN, NEW io,
           io.disk = io0.disk, io.wr = wr,
           io.rd = [file |-> f, block |-> 0, full |-> full,
                    cur |-> io0.disk[f] \cap BlockCells(f, 0)],
           io = [disk |-> io.disk, rd |-> io.rd, wr |-> io.wr]
    PROVE  io \in Buffers /\ Exact(io, R)
<1>1. ~ Holds(io0.wr, f, 0)
  BY CellAssumption DEF Inv, OnOpenFiles, Holds
<1>2. io.rd \in ReadBuffer /\ InBlock(io.rd) /\ Complete(io.rd, R)
  BY <1>1, LoadIsExact
<1>3. io \in Buffers
  BY <1>2 DEF Buffers
<1>4. Exact(io, R)
  BY <1>2 DEF Exact
<1> QED BY <1>3, <1>4

\* The file was closed complete, or another one is found on disk.
LEMMA OpenOldKeepsInv ==
    ASSUME Inv, NEW f \in Files, OpenOld(f)
    PROVE  Inv' /\ NothingGoesBack
<1>0. PICK other \in BOOLEAN, full \in BOOLEAN :
         LET io == IF other THEN Replaced(f, Cells(f)) ELSE Io
             owed1 == IF other THEN [owed EXCEPT ![f] = Cells(f)] ELSE owed
         IN Become([io EXCEPT !.rd =
                       IF @.full /\ Holds(@, f, 0) THEN @
                       ELSE [file |-> f, block |-> 0, full |-> full,
                             cur |-> io.disk[f] \cap BlockCells(f, 0)]],
                   owed1, IF other THEN [passed EXCEPT ![f] = {}] ELSE passed)
  BY DEF OpenOld
<1>1. /\ f \notin opened /\ busy = NoFile /\ opened' = opened \cup {f}
      /\ UNCHANGED <<busy, pending>>
  BY DEF OpenOld
<1>2. /\ Io \in Buffers /\ owed \in Cellsets /\ passed \in Current
      /\ OnOpenFiles /\ Exact(Io, ReliedNow) /\ PastTheBuffer
      /\ Io.disk = disk /\ Io.rd = rd /\ Io.wr = wr
  BY FieldsOfIo DEF Inv
<1>3. /\ ReliedNow \in Cellsets /\ NoFile \notin Files
      /\ \A g \in Files : ReliedNow[g] = Relied(g) /\ Relied(g) = owed[g] \ passed[g]
  BY <1>1, ReliedIsInFile DEF Relied
<1>4. CASE other
  <2> DEFINE owed1 == [owed EXCEPT ![f] = Cells(f)]
             passed1 == [passed EXCEPT ![f] = {}]
             R == [ReliedNow EXCEPT ![f] = Cells(f)]
  <2>1. PICK io0 : io0 = Replaced(f, Cells(f))
    OBVIOUS
  <2>2. PICK io : io = [io0 EXCEPT !.rd =
                           IF @.full /\ Holds(@, f, 0) THEN @
                           ELSE [file |-> f, block |-> 0, full |-> full,
                                 cur |-> io0.disk[f] \cap BlockCells(f, 0)]]
    OBVIOUS
  <2>3. Become(io, owed1, passed1)
    BY <1>0, <1>4, <2>1, <2>2
  <2>4. Cells(f) \in SUBSET Nat
    <3> SUFFICES ASSUME NEW c \in Cells(f) PROVE c \in Nat
      BY Zenon
    <3> QED BY DEF Cells
  <2>5. owed1 \in Cellsets /\ passed1 \in Current /\ R \in Cellsets
    BY <1>2, <1>3, <2>4 DEF Cellsets, Current
  <2>6. /\ owed1[f] = Cells(f) /\ passed1[f] = {} /\ R[f] = Cells(f)
        /\ \A g \in Files : g # f => owed1[g] = owed[g] /\ passed1[g] = passed[g] /\ R[g] = Relied(g)
    BY <1>2, <1>3 DEF Cellsets, Current
  <2> HIDE DEF owed1, passed1, R
  <2>7. /\ io0 \in Buffers /\ Exact(io0, R) /\ io0.rd = rd /\ io0.wr = wr
        /\ io0.disk[f] = Cells(f) /\ \A g \in Files : g # f => io0.disk[g] = disk[g]
    BY <1>1, <2>1, <2>5, <2>6, ReplacedIsExact
  <2>8. /\ io \in Buffers /\ Exact(io, R) /\ io.disk = io0.disk /\ io.wr = wr /\ io.rd.file = f
    <3>1. ~ Holds(io0.rd, f, 0)
      BY <1>1, <1>2, <1>3, <2>7 DEF OnOpenFiles, Holds
    <3>2. /\ io.disk = io0.disk /\ io.wr = wr
          /\ io.rd = [file |-> f, block |-> 0, full |-> full,
                      cur |-> io0.disk[f] \cap BlockCells(f, 0)]
          /\ io = [disk |-> io.disk, rd |-> io.rd, wr |-> io.wr]
      BY <2>2, <2>7, <3>1 DEF Buffers
    <3>3. io \in Buffers /\ Exact(io, R)
      BY <1>1, <2>5, <2>7, <3>2, HeaderReadIsExact
    <3> QED BY <3>2, <3>3
  <2>9. \A g \in Files : R[g] = owed1[g] \ passed1[g]
    BY <1>3, <2>6
  <2>10. /\ R[f] \cap (LargeCells(f) \cup DataCells(f)) \subseteq io.disk[f]
         /\ \A g \in Files : g # f => owed1[g] = owed[g] /\ R[g] = Relied(g)
         /\ \A g \in Files : g # f => disk[g] \cap Relied(g) \subseteq io.disk[g]
    BY <2>6, <2>7, <2>8
  <2>11. io.rd.file \in opened \cup {f, NoFile} /\ io.wr.file \in opened \cup {f, NoFile}
    BY <1>2, <2>8 DEF OnOpenFiles
  <2> QED BY <1>1, <2>3, <2>5, <2>8, <2>9, <2>10, <2>11, OpenedIs
<1>5. CASE ~ other
  <2>1. PICK io : io = [Io EXCEPT !.rd =
                           IF @.full /\ Holds(@, f, 0) THEN @
                           ELSE [file |-> f, block |-> 0, full |-> full,
                                 cur |-> Io.disk[f] \cap BlockCells(f, 0)]]
    OBVIOUS
  <2>2. Become(io, owed, passed)
    BY <1>0, <1>5, <2>1
  <2>3. /\ io \in Buffers /\ Exact(io, ReliedNow) /\ io.disk = disk /\ io.wr = wr /\ io.rd.file = f
    <3>1. ~ Holds(Io.rd, f, 0)
      BY <1>1, <1>2, <1>3 DEF OnOpenFiles, Holds
    <3>2. /\ io.disk = disk /\ io.wr = wr
          /\ io.rd = [file |-> f, block |-> 0, full |-> full,
                      cur |-> Io.disk[f] \cap BlockCells(f, 0)]
          /\ io = [disk |-> io.disk, rd |-> io.rd, wr |-> io.wr]
      BY <1>2, <2>1, <3>1 DEF Buffers
    <3>3. io \in Buffers /\ Exact(io, ReliedNow)
      BY <1>1, <1>2, <1>3, <3>2, HeaderReadIsExact
    <3> QED BY <3>2, <3>3
  <2>4. wr.file # f
    BY <1>1, <1>2, <1>3 DEF OnOpenFiles
  <2>5. ReliedNow[f] \subseteq disk[f]
    BY <1>2, <2>4 DEF Exact
  <2>6. /\ \A g \in Files : ReliedNow[g] = owed[g] \ passed[g]
        /\ ReliedNow[f] \cap (LargeCells(f) \cup DataCells(f)) \subseteq io.disk[f]
        /\ \A g \in Files : g # f => owed[g] = owed[g] /\ ReliedNow[g] = Relied(g)
        /\ \A g \in Files : g # f => disk[g] \cap Relied(g) \subseteq io.disk[g]
    BY <1>3, <2>3, <2>5
  <2>7. io.rd.file \in opened \cup {f, NoFile} /\ io.wr.file \in opened \cup {f, NoFile}
    BY <1>2, <2>3 DEF OnOpenFiles
  <2> QED BY <1>1, <1>2, <1>3, <2>2, <2>3, <2>6, <2>7, OpenedIs
<1> QED BY <1>4, <1>5

\* The header of a new file stays in the write buffer.
LEMMA OpenNewKeepsInv ==
    ASSUME Inv, NEW f \in Files, OpenNew(f)
    PROVE  Inv' /\ NothingGoesBack
<1> DEFINE owed1 == [owed EXCEPT ![f] = Span(Header)]
           passed1 == [passed EXCEPT ![f] = {}]
           R0 == [ReliedNow EXCEPT ![f] = {}]
           P == With(R0, f, Header, {})
<1>0. PICK io0 : io0 = Replaced(f, {})
  OBVIOUS
<1>r. PICK io : io = WriteFile(io0, f, Header)
  OBVIOUS
<1>1. /\ f \notin opened /\ busy = NoFile /\ opened' = opened \cup {f}
      /\ UNCHANGED <<busy, pending>>
      /\ Become(io, owed1, passed1)
  BY <1>0, <1>r DEF OpenNew
<1>2. /\ owed \in Cellsets /\ passed \in Current /\ OnOpenFiles
  BY DEF Inv
<1>3. /\ ReliedNow \in Cellsets /\ NoFile \notin Files
      /\ \A g \in Files : ReliedNow[g] = Relied(g) /\ Relied(g) = owed[g] \ passed[g]
  BY <1>1, ReliedIsInFile DEF Relied
<1>4. /\ Header \in Own(f) /\ Header \in Records[f] /\ Span(Header) = {0} /\ ~ IsLarge(Header)
      /\ {0} \subseteq Cells(f) /\ {0} \subseteq Nat
  <2>1. Header \in Own(f) /\ Header \in Records[f] /\ Span(Header) = {0} /\ ~ IsLarge(Header)
    BY HeaderIsSmall, LayoutAssumption
  <2> QED BY <2>1, RangeInFile
<1>5. /\ owed1 \in Cellsets /\ passed1 \in Current /\ R0 \in Cellsets
  BY <1>2, <1>3, <1>4 DEF Cellsets, Current
<1>6. /\ owed1[f] = {0} /\ passed1[f] = {} /\ R0[f] = {} /\ P[f] = {0}
      /\ \A g \in Files : g # f => owed1[g] = owed[g] /\ passed1[g] = passed[g]
      /\ \A g \in Files : g # f => R0[g] = Relied(g) /\ P[g] = Relied(g)
  BY <1>2, <1>3, <1>4 DEF With, Cellsets, Current
<1>7. P = With(R0, f, Header, PassedBy(io0, f, Header))
  BY <1>4 DEF PassedBy
<1> HIDE DEF owed1, passed1, R0, P
<1>8. /\ io0 \in Buffers /\ Exact(io0, R0) /\ io0.rd = rd /\ io0.wr = wr
      /\ \A g \in Files : g # f => io0.disk[g] = disk[g]
  <2>1. {} \in SUBSET Cells(f)
    OBVIOUS
  <2> QED BY <1>0, <1>1, <1>5, <1>6, <2>1, ReplacedIsExact
<1>9. /\ io \in Buffers /\ P \in Cellsets /\ Exact(io, P)
      /\ \A g \in Files : \A c \in io0.disk[g] \cap R0[g] :
            c \in io.disk[g] \/ (g = f /\ c \in Span(Header))
      /\ io.wr.file = f /\ io.rd.file \in {rd.file, NoFile}
  BY <1>r, <1>4, <1>5, <1>7, <1>8, WriteFileIsExact
<1>10. \A g \in Files : P[g] = owed1[g] \ passed1[g]
  BY <1>3, <1>6
<1>11. P[f] \cap (LargeCells(f) \cup DataCells(f)) \subseteq io.disk[f]
  <2>1. Span(Header) \cap LargeCells(f) = {} /\ Span(Header) \cap DataCells(f) = {}
    BY <1>4, RangesAreApart
  <2> QED BY <1>4, <1>6, <2>1
<1>12. /\ \A g \in Files : g # f => owed1[g] = owed[g] /\ P[g] = Relied(g)
       /\ \A g \in Files : g # f => disk[g] \cap Relied(g) \subseteq io.disk[g]
  BY <1>6, <1>8, <1>9
<1>13. io.rd.file \in opened \cup {f, NoFile} /\ io.wr.file \in opened \cup {f, NoFile}
  BY <1>2, <1>9 DEF OnOpenFiles
<1> QED BY <1>1, <1>5, <1>9, <1>10, <1>11, <1>12, <1>13, OpenedIs

\* The header of a new file needs the write buffer, and its flush fails.
LEMMA OpenNewFailsKeepsInv ==
    ASSUME Inv, NEW f \in Files, OpenNewFails(f)
    PROVE  Inv' /\ NothingGoesBack
<1>1. /\ Io \in Buffers /\ OnOpenFiles /\ Exact(Io, ReliedNow)
      /\ Io.disk = disk /\ Io.rd = rd /\ Io.wr = wr
  BY FieldsOfIo DEF Inv
<1>2. /\ ReliedNow \in Cellsets /\ NoFile \notin Files
      /\ \A g \in Files : ReliedNow[g] = Relied(g) /\ owed[g] \ passed[g] \subseteq Relied(g)
  BY ReliedIsInFile
<1>3. FlushFails(Io, Nothing) /\ wr.dirty
  BY <1>1 DEF OpenNewFails, MustFlush
<1>4. Io.wr.file \in opened /\ Io.rd.file \in opened \cup {NoFile}
  BY <1>1, <1>2, <1>3 DEF Buffers, OnOpenFiles
<1>5. /\ \A g \in Files : (owed[g] \ passed[g]) \ Nothing[g] \subseteq ReliedNow[g]
      /\ \A g \in Files : disk[g] \cap ((owed[g] \ passed[g]) \ Nothing[g]) \subseteq Io.disk[g]
  BY <1>1, <1>2, NothingIsLost
<1> QED BY <1>1, <1>2, <1>3, <1>4, <1>5, NothingIsLost, FlushFailsIs

\* The buffers are taken from a file.
LEMMA ReleasedIsExact ==
    ASSUME NEW io \in Buffers, NEW R \in Cellsets, Exact(io, R), NEW f \in Files,
           ~ (io.wr.file = f /\ io.wr.dirty), NEW io1, io1 = Released(io, f)
    PROVE  /\ io1 \in Buffers /\ Exact(io1, R) /\ io1.disk = io.disk
           /\ io1.rd.file # f /\ io1.rd.file \in {io.rd.file, NoFile}
           /\ io1.wr.file # f /\ io1.wr.file \in {io.wr.file, NoFile}
<1>1. /\ io1.disk = io.disk
      /\ io1.rd = IF io.rd.file = f THEN NoRead ELSE io.rd
      /\ io1.wr = IF io.wr.file = f THEN NoWrite ELSE io.wr
      /\ io1 = [disk |-> io1.disk, rd |-> io1.rd, wr |-> io1.wr]
  BY DEF Released, Buffers
<1>2. io1 \in Buffers
  BY <1>1, GivenUpIsExact DEF Buffers
<1>3. Exact(io1, R)
  <2>1. ASSUME NEW g \in Files, NEW c \in R[g]
        PROVE  c \in io1.disk[g] \/ (io1.wr.file = g /\ io1.wr.dirty /\ c \in io1.wr.cur)
    <3>1. c \in io.disk[g] \/ (io.wr.file = g /\ io.wr.dirty /\ c \in io.wr.cur)
      BY DEF Exact
    <3> QED BY <1>1, <3>1
  <2>2. Complete(io1.rd, R) /\ Complete(io1.wr, R)
    BY <1>1, GivenUpIsExact DEF Exact
  <2> QED BY <2>1, <2>2 DEF Exact
<1> QED BY <1>1, <1>2, <1>3, GivenUpIsExact, CellAssumption

\* The last user of a file takes it out of the buffers, after a flush that may
\* fail.
LEMMA CloseKeepsInv ==
    ASSUME Inv, NEW f \in Files, Close(f)
    PROVE  Inv' /\ NothingGoesBack
<1>1. /\ f \in opened /\ busy = NoFile /\ opened' = opened \ {f}
      /\ UNCHANGED <<busy, pending>>
  BY DEF Close
<1>2. /\ Io \in Buffers /\ owed \in Cellsets /\ passed \in Current
      /\ OnOpenFiles /\ Exact(Io, ReliedNow) /\ PastTheBuffer
      /\ Io.disk = disk /\ Io.rd = rd /\ Io.wr = wr
  BY FieldsOfIo DEF Inv
<1>3. /\ ReliedNow \in Cellsets /\ NoFile \notin Files
      /\ \A g \in Files : ReliedNow[g] = Relied(g) /\ Relied(g) = owed[g] \ passed[g]
  BY <1>1, ReliedIsInFile DEF Relied
<1>4. ASSUME NEW io0 \in Buffers, NEW owed1 \in Cellsets, NEW R \in Cellsets, Exact(io0, R),
             \A g \in Files : owed1[g] \subseteq owed[g] /\ R[g] = owed1[g] \ passed[g],
             NotBack(Io, io0, R), ~ (io0.wr.file = f /\ io0.wr.dirty),
             io0.rd.file = rd.file, io0.wr.file = wr.file,
             Become(Released(io0, f), owed1, passed)
      PROVE  Inv' /\ NothingGoesBack
  <2>0. PICK io : io = Released(io0, f)
    OBVIOUS
  <2>1. /\ io \in Buffers /\ Exact(io, R) /\ io.disk = io0.disk
        /\ io.rd.file # f /\ io.rd.file \in {rd.file, NoFile}
        /\ io.wr.file # f /\ io.wr.file \in {wr.file, NoFile}
    BY <1>4, <2>0, ReleasedIsExact
  <2>2. \A g \in Files : R[g] = (owed1[g] \cup (IF g = busy' THEN pending' ELSE {})) \ passed[g]
    BY <1>1, <1>3, <1>4
  <2>3. \A g \in Files : R[g] \subseteq Relied(g) /\ disk[g] \cap R[g] \subseteq io.disk[g]
    BY <1>2, <1>3, <1>4, <2>1 DEF NotBack
  <2>4. \A g \in Files : /\ R[g] \cap LargeCells(g) \subseteq io.disk[g]
                         /\ (owed1[g] \ passed[g]) \cap DataCells(g) \subseteq io.disk[g]
    BY <1>2, <1>3, <1>4, <2>3 DEF PastTheBuffer
  <2>5. /\ opened' \subseteq Files /\ busy' \in opened' \cup {NoFile}
        /\ busy' = NoFile => pending' = {}
        /\ busy' \in Files => pending' \subseteq Cells(busy')
        /\ io.rd.file \in opened' \cup {NoFile} /\ io.wr.file \in opened' \cup {NoFile}
    BY <1>1, <1>2, <1>3, <2>1 DEF OnOpenFiles
  <2>6. Become(io, owed1, passed)
    BY <1>4, <2>0
  <2>7. /\ Inv'
        /\ \A g \in Files : /\ io.disk[g] \cap R[g] \subseteq disk'[g]
                            /\ owed'[g] = owed1[g]
    BY <1>2, <1>4, <2>1, <2>2, <2>4, <2>5, <2>6, BecomeIs
  <2>8. NothingGoesBack
    <3>1. ASSUME NEW g \in Files, NEW c \in disk[g] \cap Relied(g) \cap owed'[g]
          PROVE  c \in disk'[g]
      BY <1>3, <1>4, <2>3, <2>7, <3>1
    <3> QED BY <3>1 DEF NothingGoesBack
  <2> QED BY <2>7, <2>8
<1>5. CASE Become(Released(IF wr.file = f /\ wr.dirty THEN FlushedWhole(Io) ELSE Io, f), owed, passed)
  <2>1. PICK io0 : io0 = IF wr.file = f /\ wr.dirty THEN FlushedWhole(Io) ELSE Io
    OBVIOUS
  <2>2. Become(Released(io0, f), owed, passed)
    BY <1>5, <2>1
  <2>3. /\ io0 \in Buffers /\ Exact(io0, ReliedNow) /\ NotBack(Io, io0, ReliedNow)
        /\ ~ (io0.wr.file = f /\ io0.wr.dirty)
        /\ io0.rd.file = rd.file /\ io0.wr.file = wr.file
    <3>1. CASE wr.file = f /\ wr.dirty
      <4>1. io0 = FlushedWhole(Io)
        BY <2>1, <3>1
      <4> QED BY <1>2, <1>3, <3>1, <4>1, WholeFlushIsExact
    <3>2. CASE ~ (wr.file = f /\ wr.dirty)
      <4>1. io0 = Io
        BY <2>1, <3>2
      <4> QED BY <1>2, <3>2, <4>1 DEF NotBack
    <3> QED BY <3>1, <3>2
  <2>4. \A g \in Files : owed[g] \subseteq owed[g] /\ ReliedNow[g] = owed[g] \ passed[g]
    BY <1>3
  <2> QED BY <1>2, <1>3, <1>4, <2>2, <2>3, <2>4
<1>6. CASE /\ wr.file = f /\ wr.dirty
           /\ \E n \in BlockCells(f, wr.block) :
                 LET io == Flushed(Io, {c \in BlockCells(f, wr.block) : c < n})
                 IN Become(Released(io, f),
                           [owed EXCEPT ![f] = @ \ (wr.cur \ io.disk[f])], passed)
  <2>0. PICK n \in BlockCells(f, wr.block) :
           LET io == Flushed(Io, {c \in BlockCells(f, wr.block) : c < n})
           IN Become(Released(io, f),
                     [owed EXCEPT ![f] = @ \ (wr.cur \ io.disk[f])], passed)
    BY <1>6
  <2>1. PICK part : part = {c \in BlockCells(f, wr.block) : c < n}
    OBVIOUS
  <2>2. PICK io0 : io0 = Flushed(Io, part)
    OBVIOUS
  <2> DEFINE owed1 == [owed EXCEPT ![f] = @ \ (wr.cur \ io0.disk[f])]
             R == [ReliedNow EXCEPT ![f] = @ \ (wr.cur \ io0.disk[f])]
  <2>3. Become(Released(io0, f), owed1, passed)
    BY <2>0, <2>1, <2>2
  <2>4. owed1 \in Cellsets /\ R \in Cellsets
    BY <1>2, <1>3 DEF Cellsets, Current
  <2>5. \A g \in Files : owed1[g] \subseteq owed[g] /\ R[g] = owed1[g] \ passed[g]
    <3>1. owed1[f] = owed[f] \ (wr.cur \ io0.disk[f]) /\ R[f] = Relied(f) \ (wr.cur \ io0.disk[f])
      BY <1>2, <1>3 DEF Cellsets, Current
    <3>2. \A g \in Files : g # f => owed1[g] = owed[g] /\ R[g] = Relied(g)
      BY <1>2, <1>3 DEF Cellsets, Current
    <3> HIDE DEF owed1, R
    <3> QED BY <1>3, <3>1, <3>2
  <2>6. /\ io0 \in Buffers /\ ~ io0.wr.dirty /\ io0.rd = rd /\ io0.wr.file = wr.file
        /\ NotBack(Io, io0, ReliedNow) /\ Exact(io0, R)
    <3>1. part \in SUBSET BlockCells(Io.wr.file, Io.wr.block)
      BY <1>2, <1>6, <2>1
    <3>2. R = [ReliedNow EXCEPT ![Io.wr.file] = @ \ (Io.wr.cur \ io0.disk[Io.wr.file])]
      BY <1>2, <1>6
    <3> HIDE DEF R
    <3>3. Io.wr.file \in Files /\ Io.wr.file = wr.file /\ Io.rd = rd
      BY <1>2, <1>6
    <3>4. NotBack(Io, io0, ReliedNow)
      BY <1>2, <1>3, <2>2, <3>1, <3>3, FlushIsExact
    <3>6. io0 \in Buffers /\ ~ io0.wr.dirty
      BY <1>2, <1>3, <2>2, <3>1, <3>3, FlushIsExact
    <3>7. io0.rd = Io.rd /\ io0.wr.file = Io.wr.file
      BY <1>2, <2>2 DEF Flushed, Buffers, WritingBuffer
    <3>5. Exact(io0, [ReliedNow EXCEPT ![Io.wr.file] = @ \ (Io.wr.cur \ io0.disk[Io.wr.file])])
      BY <1>2, <1>3, <2>2, <3>1, <3>3, FlushIsExact
    <3> QED BY <3>2, <3>3, <3>4, <3>5, <3>6, <3>7
  <2> HIDE DEF owed1, R
  <2>7. NotBack(Io, io0, R)
    <3>1. \A g \in Files : R[g] \subseteq ReliedNow[g]
      BY <1>3, <2>5, ZenonT(90)
    <3> QED BY <2>6, <3>1 DEF NotBack
  <2> QED BY <1>4, <2>3, <2>4, <2>5, <2>6, <2>7
<1> QED BY <1>5, <1>6 DEF Close

----------------------------------------------------------------------------
(* The theorems                                                            *)

\* All files are closed and complete.
LEMMA InitIsInv == Init => Inv
<1> SUFFICES ASSUME Init PROVE Inv
  OBVIOUS
<1>1. \A f \in Files : Cells(f) \in SUBSET Nat
  <2> SUFFICES ASSUME NEW f \in Files, NEW c \in Cells(f) PROVE c \in Nat
    BY Zenon
  <2> QED BY DEF Cells
<1>2. disk \in Current /\ owed = disk /\ owed \in Cellsets /\ passed \in Current
  BY <1>1 DEF Init, Nothing, Cellsets, Current
<1>3. Io = [disk |-> disk, rd |-> NoRead, wr |-> NoWrite]
  BY DEF Io, Init
<1>4. Io \in Buffers
  BY <1>2, <1>3, GivenUpIsExact DEF Buffers
<1>5. OnOpenFiles
  BY CellAssumption, GivenUpIsExact DEF Init, OnOpenFiles
<1>6. \A f \in Files : Relied(f) \subseteq disk[f] /\ ReliedNow[f] = Relied(f)
  BY <1>2, CellAssumption DEF Init, Relied, ReliedNow
<1>7. Exact(Io, ReliedNow)
  BY <1>3, <1>6, GivenUpIsExact DEF Exact
<1>8. PastTheBuffer
  BY <1>2, <1>6 DEF PastTheBuffer
<1> QED BY <1>2, <1>4, <1>5, <1>7, <1>8 DEF Inv

\* Every step leaves the invariant, and the disk what it has.
LEMMA NextKeepsInv == Inv /\ Next => Inv' /\ NothingGoesBack
<1> SUFFICES ASSUME Inv, Next PROVE Inv' /\ NothingGoesBack
  OBVIOUS
<1>0. PICK f \in Files :
         \/ \E r \in Records[f] \cup DataRanges(f) :
               Write(f, r) \/ WriteFails(f, r) \/ Read(f, r)
         \/ EndDated(f) \/ EndDatedFails(f) \/ EndUndated(f) \/ Abort(f)
         \/ OpenOld(f) \/ OpenNew(f) \/ OpenNewFails(f) \/ Close(f)
  BY DEF Next
<1>1. ASSUME NEW r \in Own(f), Write(f, r) \/ WriteFails(f, r) \/ Read(f, r)
      PROVE  Inv' /\ NothingGoesBack
  BY <1>1, WriteKeepsInv, WriteFailsKeepsInv, ReadKeepsInv
<1>2. CASE EndDated(f) \/ EndDatedFails(f) \/ EndUndated(f) \/ Abort(f)
  BY <1>2, EndDatedKeepsInv, EndDatedFailsKeepsInv, EndUndatedKeepsInv, AbortKeepsInv
<1>3. CASE OpenOld(f) \/ OpenNew(f) \/ OpenNewFails(f) \/ Close(f)
  BY <1>3, OpenOldKeepsInv, OpenNewKeepsInv, OpenNewFailsKeepsInv, CloseKeepsInv
<1> QED BY <1>0, <1>1, <1>2, <1>3 DEF Own

\* Nothing changes in a stutter.
LEMMA StutterKeepsInv == Inv /\ UNCHANGED vars => Inv'
<1> SUFFICES ASSUME Inv, UNCHANGED vars PROVE Inv'
  OBVIOUS
<1>1. Io' = Io /\ ReliedNow' = ReliedNow /\ \A f \in Files : Relied(f)' = Relied(f)
  BY DEF vars, Io, ReliedNow, Relied
<1> QED BY <1>1 DEF vars, Inv, OnOpenFiles, PastTheBuffer

\* The invariant holds in every state.
THEOREM BuffersAreExact == Spec => []Inv
<1>1. Inv /\ [Next]_vars => Inv'
  BY NextKeepsInv, StutterKeepsInv
<1> QED BY <1>1, InitIsInv, PTL DEF Spec

\* A buffer has cells of the one block of the one file it is on.
THEOREM BuffersAreTyped == Spec => []TypeOK
<1>1. Inv => TypeOK
  <2> SUFFICES ASSUME Inv PROVE TypeOK
    OBVIOUS
  <2>1. Io.disk = disk /\ Io.rd = rd /\ Io.wr = wr /\ Io \in Buffers
    BY FieldsOfIo DEF Inv
  <2>2. /\ disk \in Current /\ rd \in ReadBuffer /\ wr \in WritingBuffer
        /\ InBlock(rd) /\ InBlock(wr)
    BY <2>1 DEF Buffers
  <2>3. owed \in Current /\ passed \in Current /\ OnOpenFiles
    BY DEF Inv, Cellsets
  <2>4. pending \subseteq Nat
    <3>1. CASE busy = NoFile
      BY <2>3, <3>1 DEF OnOpenFiles
    <3>2. CASE busy \in Files
      BY <2>3, <3>2, LayoutAssumption DEF OnOpenFiles, Cells
    <3> QED BY <2>3, <3>1, <3>2 DEF OnOpenFiles
  <2>5. \A b \in {rd, wr} : b.file # NoFile => b.cur \subseteq BlockCells(b.file, b.block)
    BY <2>2 DEF InBlock
  <2> QED BY <2>2, <2>3, <2>4, <2>5 DEF TypeOK, OnOpenFiles, ReadBuffer, WritingBuffer
<1> QED BY <1>1, BuffersAreExact, PTL

\* A read sees the last write of every cell it reads, wherever its current value is.
THEOREM ReadsAreCurrent == Spec => []ReadsSeeWrites
<1>1. Inv => ReadsSeeWrites
  <2> SUFFICES ASSUME Inv, NEW f \in opened, NEW r \in Own(f), MayRead(f, r),
                      NEW c \in Span(r) \cap Relied(f)
               PROVE  c \in Returned(f, r)
    BY DEF ReadsSeeWrites, Own
  <2>1. /\ Exact(Io, ReliedNow) /\ PastTheBuffer /\ f \in Files /\ Io \in Buffers
        /\ Io.disk = disk /\ Io.rd = rd /\ Io.wr = wr
    BY FieldsOfIo DEF Inv, OnOpenFiles
  <2>2. ReliedNow[f] = Relied(f)
    BY <2>1, ReliedIsInFile
  <2>3. CASE IsLarge(r)
    <3>1. CASE r \in Records[f]
      <4>1. c \in LargeCells(f)
        BY <2>3, <3>1 DEF LargeCells
      <4> QED BY <2>1, <2>3, <4>1 DEF PastTheBuffer, Returned
    <3>2. CASE busy # f /\ r \in DataRanges(f)
      <4>1. PICK d \in Data[f] : r \in Span(d) \X Span(d)
        BY <3>2 DEF DataRanges
      <4>2. c \in Span(d)
        <5>1. d[1] \in Nat /\ d[2] \in Nat
          BY <2>1, LayoutAssumption DEF Cells
        <5> QED BY <4>1, <5>1 DEF Span
      <4>3. c \in (owed[f] \ passed[f]) \cap DataCells(f)
        BY <3>2, <4>2 DEF Relied, DataCells
      <4> QED BY <2>1, <2>3, <4>3 DEF PastTheBuffer, Returned
    <3> QED BY <3>1, <3>2 DEF MayRead
  <2>4. CASE ~ IsLarge(r)
    <3> DEFINE b == Block(r[1])
    <3>1. c \in BlockCells(f, b)
      BY <2>1, <2>4, SmallIsInBlock
    <3>2. CASE rd.full /\ Holds(rd, f, b)
      BY <2>1, <2>2, <2>4, <3>1, <3>2 DEF Returned, Holds, Exact, Complete
    <3>3. CASE ~ (rd.full /\ Holds(rd, f, b)) /\ Holds(wr, f, b)
      BY <2>1, <2>2, <2>4, <3>1, <3>3 DEF Returned, Holds, Exact, Complete
    <3>4. CASE ~ (rd.full /\ Holds(rd, f, b)) /\ ~ Holds(wr, f, b)
      <4>1. ~ (wr.file = f /\ wr.dirty /\ c \in wr.cur)
        BY <2>1, <3>1, <3>4, CellAssumption DEF Buffers, InBlock, Holds, BlockCells
      <4>2. c \in disk[f]
        BY <2>1, <2>2, <4>1 DEF Exact
      <4> QED BY <2>4, <3>4, <4>2 DEF Returned
    <3> QED BY <3>2, <3>3, <3>4
  <2> QED BY <2>3, <2>4
<1> QED BY <1>1, BuffersAreExact, PTL

\* A file that is closed is complete and in no buffer.
THEOREM ClosedFilesAreComplete == Spec => []ClosedIsComplete
<1>1. Inv => ClosedIsComplete
  <2> SUFFICES ASSUME Inv, NEW f \in Files \ opened
               PROVE  owed[f] \ passed[f] \subseteq disk[f] /\ rd.file # f /\ wr.file # f
    BY DEF ClosedIsComplete
  <2>1. rd.file # f /\ wr.file # f
    BY CellAssumption DEF Inv, OnOpenFiles
  <2>2. Exact(Io, ReliedNow) /\ Io.disk = disk /\ Io.wr = wr
    BY FieldsOfIo DEF Inv
  <2>3. owed[f] \ passed[f] \subseteq ReliedNow[f]
    BY ReliedIsInFile
  <2> QED BY <2>1, <2>2, <2>3 DEF Exact
<1> QED BY <1>1, BuffersAreExact, PTL

\* An operation that ends with the date has left all the file owes on disk.
THEOREM DatedFilesAreOnDisk == Spec => DatedIsOnDisk
<1>1. Inv /\ [Next]_vars =>
          [\A f \in Files : EndDated(f) => owed'[f] \ passed'[f] \subseteq disk'[f]]_vars
  BY EndDatedKeepsInv
<1> QED BY <1>1, BuffersAreExact, PTL DEF Spec, DatedIsOnDisk

\* No step takes a value back that the disk has, unless another file takes the
\* index.
THEOREM TheDiskKeepsWhatItHas == Spec => DiskNeverGoesBack
<1>1. Inv /\ [Next]_vars =>
          [\A f \in Files : \A c \in disk[f] \cap Relied(f) \cap owed'[f] :
              \/ c \in disk'[f]
              \/ f \in opened' \ opened]_vars
  BY NextKeepsInv DEF NothingGoesBack
<1> QED BY <1>1, BuffersAreExact, PTL DEF Spec, DiskNeverGoesBack
=============================================================================
