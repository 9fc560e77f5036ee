------------------------------ MODULE Sections ------------------------------
(***************************************************************************)
(* One element section (Elements_t) of a zone: its range, connectivity,    *)
(* offsets and parents in the file, and what of them is kept in memory     *)
(* between calls.  Operations: the calls that create a section, partial    *)
(* writes of fixed-size and of polygonal elements, which may enlarge the   *)
(* range, writes of parents, partial reads, and close and open             *)
(* (src/src/cgnslib.c, build with 64-bit cgsize_t, HDF5 files).            *)
(***************************************************************************)
EXTENDS Integers, SequencesExt

CONSTANTS MaxElement,  \* elements are numbered 1 .. MaxElement
          Npe,         \* words of an element of fixed size
          Sizes,       \* the numbers of words of a polygonal element
          Spare,       \* bound on the words a caller reserves in excess
          Value, Parent,
          Raw,         \* a word copied as 8 bytes from an array of 4-byte ones
          NoData

ASSUME SectionAssumption ==
    /\ MaxElement \in Nat \ {0} /\ Npe \in Nat \ {0}
    /\ Sizes \subseteq Nat \ {0} /\ Spare \in Nat
    /\ {0, Raw} \cap Value = {} /\ 0 \notin Parent /\ Raw # 0
    /\ NoData \notin Seq(Nat)

VARIABLES
    mode,      \* cg->mode: "write" or "modify"
    sect,      \* NoData, or whether elements are polygonal and the type on file
    file,      \* ElementRange, ElementConnectivity, ElementStartOffset and the
               \* parents in the file
    mem,       \* section->range and the data kept at connect, connect_offset
               \* and parelem, NoData where the pointer is NULL
    want,      \* what the callers have given for each element of the range
    overrun    \* an array has been written past its end

vars == <<mode, sect, file, mem, want, overrun>>

Lesser(a, b) == IF a <= b THEN a ELSE b
Greater(a, b) == IF a <= b THEN b ELSE a
Zeros(n) == [i \in 1 .. n |-> 0]
Of(r) == r[1] .. r[2]
Count(r) == r[2] - r[1] + 1
Ranges == {r \in (1 .. MaxElement) \X (1 .. MaxElement) : r[1] <= r[2]}

Offsets(lens) ==
    LET sum[i \in 0 .. Len(lens)] == IF i = 0 THEN 0 ELSE sum[i - 1] + lens[i]
    IN  [i \in 1 .. Len(lens) + 1 |-> sum[i - 1]]
LengthsOf(elems) == [i \in DOMAIN elems |-> Len(elems[i])]

\* What fills the numbers between the old elements and new ones: words of zero,
\* elemsize of them for fixed sizes, two for polygons.
Blank == Zeros(IF sect.poly THEN 2 ELSE Npe)

\* cgi_element_data_size for the elements before each one of the section.
OffsetOf(s) ==
    IF sect.poly THEN s.offset ELSE [i \in 1 .. Count(s.range) + 1 |-> (i - 1) * Npe]

\* The words of elements a .. b of a range r.
WordsOf(connect, off, r, a, b) ==
    SubSeq(connect, off[a - r[1] + 1] + 1, off[b - r[1] + 2])

\* What a caller may pass for n elements: offsets start at zero.
Given(poly, n) ==
    {[i \in 1 .. n |-> [j \in 1 .. size[i] |-> v]] :
        v \in Value,
        size \in [1 .. n -> IF poly THEN Sizes ELSE {Npe}]}

----------------------------------------------------------------------------
Cleared(r) == [range |-> r, connect |-> NoData, offset |-> NoData, parents |-> NoData]

\* cg_section_general_write: a name that is there is deleted and made anew, but
\* not in CG_MODE_WRITE.
Created(poly, type, r, connect, offset) ==
    /\ mode = "write" => sect = NoData
    /\ sect' = [poly |-> poly, type |-> type]
    /\ file' = [range |-> r, connect |-> connect, offset |-> offset, parents |-> NoData]
    /\ UNCHANGED <<mode, overrun>>

\* Without data: the file gives zeros for what was never written.
CreateEmpty(poly, type, r, spare) ==
    /\ Created(poly, type, r,
               Zeros(IF poly THEN 2 * Count(r) + spare ELSE Npe * Count(r)),
               IF poly THEN Zeros(Count(r) + 1) ELSE <<>>)
    /\ mem' = Cleared(r)
    /\ want' = [x \in Of(r) |-> IF poly THEN <<>> ELSE Zeros(Npe)]

\* cg_section_initialize after that, as in cg_section_partial_write: polygons get two
\* words of zero each, and their offsets stay in memory.
CreatePartial(type, r, spare) ==
    LET offset == Offsets([i \in 1 .. Count(r) |-> 2])
    IN  /\ Created(TRUE, type, r, Zeros(2 * Count(r) + spare), offset)
        /\ mem' = [Cleared(r) EXCEPT !.offset = offset]
        /\ want' = [x \in Of(r) |-> Zeros(2)]

\* cg_section_write, cg_poly_section_write, for whose polygons the check of the
\* reserved space asks for two words each on average.
CreateWith(poly, r, data) ==
    /\ poly => Len(FlattenSeq(data)) >= 2 * Count(r)
    /\ Created(poly, "I8", r, FlattenSeq(data),
               IF poly THEN Offsets(LengthsOf(data)) ELSE <<>>)
    /\ mem' = Cleared(r)
    /\ want' = [x \in Of(r) |-> data[x - r[1] + 1]]

----------------------------------------------------------------------------
\* read_element_data, read_offset_data, read_parent_data: what is not yet in
\* memory is read whole and stays there.
Connect == IF mem.connect = NoData THEN file.connect ELSE mem.connect
Offset == OffsetOf(IF mem.offset = NoData THEN file ELSE mem)
Parents == IF mem.parents = NoData THEN file.parents ELSE mem.parents

Within(s, e) == mem.range[1] <= s /\ e <= mem.range[2]

\* Elements copied with the size of cgsize_t from an array that may not have it:
\* those of fixed size always, polygons where they begin past the range.
CopiesRaw(s, mtype) == mtype = "I4" /\ (sect.poly => s > mem.range[2])
Stored(s, mtype, new) ==
    IF CopiesRaw(s, mtype) THEN [i \in DOMAIN new |-> Raw] ELSE new

\* The elements of the range before s, and those after e.
Before(s) == LET r == mem.range IN
    WordsOf(Connect, Offset, r, r[1], IF s <= r[1] THEN r[1] - 1 ELSE Lesser(s - 1, r[2]))
After(e) == LET r == mem.range IN
    WordsOf(Connect, Offset, r, IF e >= r[2] THEN r[2] + 1 ELSE Greater(e + 1, r[1]), r[2])

\* The file has room for the new elements in the place of s .. e.
Fits(s, e, new) ==
    LET r == mem.range
        used == Offset[Count(r) + 1] - Offset[1]
    IN  used + Len(new) - Len(WordsOf(Connect, Offset, r, s, e)) <= Len(file.connect)

InPlace(s, e, new) == Within(s, e) /\ mem.connect = NoData /\ Fits(s, e, new)

\* Mutant: what follows the new elements is not moved.
ReplacedAlone(s, e, new) ==
    LET at == Offset[s - mem.range[1] + 1]
    IN  SubSeq(file.connect, 1, at) \o new
          \o SubSeq(file.connect, at + Len(new) + 1, Len(file.connect))

\* The user's data go to the file, over what was there; trailing elements move.
Replaced(s, e, new) ==
    LET at == Offset[s - mem.range[1] + 1]
        moved == new \o After(e)
    IN  SubSeq(file.connect, 1, at) \o moved
          \o SubSeq(file.connect, at + Len(moved) + 1, Len(file.connect))

\* The number of words of each element of the range r that a write leaves.
NewLengths(s, e, data, r) ==
    LET old == mem.range
    IN  [i \in 1 .. Count(r) |->
            LET x == r[1] + i - 1
            IN  IF x \in s .. e THEN Len(data[x - s + 1])
                ELSE IF x \in Of(old)
                     THEN Offset[x - old[1] + 2] - Offset[x - old[1] + 1]
                     ELSE Len(Blank)]

\* Got to do it in memory: a new array from the old elements, the new ones and
\* what fills the gap between them.
Gap(n) == FlattenSeq([i \in 1 .. n |-> Blank])
Merged(s, e, new) ==
    LET r == mem.range
    IN  Before(s) \o Gap(Greater(0, s - r[2] - 1)) \o new
          \o Gap(Greater(0, r[1] - e - 1)) \o After(e)

NewRange(s, e) == <<Lesser(s, mem.range[1]), Greater(e, mem.range[2])>>

----------------------------------------------------------------------------
\* The parents of a range that has grown from n to m elements by a write of
\* s .. e: two rows of m words, into which the old rows go at the offset of s in
\* the new range, before the words of s .. e are set to zero.
ShiftOf(s, r) == s - r[1]
MovedParents(old, n, m, shift, written) ==
    [w \in 1 .. 2 * m |->
        LET at(row) == w - 1 - (row * m + shift)
        IN  CASE \E row \in {0, 1} : at(row) \in 0 .. written - 1 -> 0
              [] at(1) \in 0 .. n - 1 -> old[n + at(1) + 1]
              [] at(1) \notin 0 .. n - 1 /\ at(0) \in 0 .. n - 1 -> old[at(0) + 1]
              [] OTHER -> 0]

HasParents == file.parents # NoData

\* Mutant: the range is compared at its beginning only.
MustMoveAtFront(r) == HasParents /\ r[1] # mem.range[1]

MustMove(r) == HasParents /\ 2 * Count(r) # Len(file.parents)
RunsOver(s, r) == MustMove(r) /\ ShiftOf(s, r) + Count(mem.range) > Count(r)
ParentsAfter(s, e, r) ==
    IF MustMove(r) /\ ~ RunsOver(s, r)
    THEN MovedParents(Parents, Count(mem.range), Count(r), ShiftOf(s, r), e - s + 1)
    ELSE file.parents

\* What the callers have given after a write of s .. e.
Wanted(s, e, data, raw) ==
    [x \in Of(NewRange(s, e)) |->
        IF x \in s .. e THEN (IF raw THEN Raw ELSE data[x - s + 1])
        ELSE IF x \in DOMAIN want THEN want[x] ELSE Blank]

\* cg_elements_general_write and cg_poly_elements_general_write (and the partial
\* writes, which call them), first branch.  The range stays, and so do the parents.
WriteInPlace(s, e, data) ==
    LET new == FlattenSeq(data)
        offset == IF sect.poly THEN Offsets(NewLengths(s, e, data, mem.range)) ELSE <<>>
    IN  /\ InPlace(s, e, new)
        /\ file' = [file EXCEPT !.connect = Replaced(s, e, new), !.offset = offset]
        /\ mem' = [mem EXCEPT !.offset = IF sect.poly THEN offset ELSE NoData]
        /\ want' = Wanted(s, e, data, FALSE)
        /\ UNCHANGED <<mode, sect, overrun>>

\* The other branch: range, offsets and connectivity, then the parents.
WriteInMemory(s, e, data, mtype) ==
    LET new == FlattenSeq(data)
        r == NewRange(s, e)
        connect == Merged(s, e, Stored(s, mtype, new))
        offset == IF sect.poly THEN Offsets(NewLengths(s, e, data, r)) ELSE <<>>
    IN  /\ ~ InPlace(s, e, new)
        /\ file' = [range |-> r, connect |-> connect, offset |-> offset,
                    parents |-> ParentsAfter(s, e, r)]
        /\ mem' = [range |-> r, connect |-> connect,
                   offset |-> IF sect.poly THEN offset ELSE NoData,
                   parents |-> IF MustMove(r) THEN NoData ELSE mem.parents]
        /\ want' = Wanted(s, e, data, CopiesRaw(s, mtype))
        /\ overrun' = RunsOver(s, r)
        /\ UNCHANGED <<mode, sect>>

\* cg_parent_data_write: what is there is deleted first, but not in CG_MODE_WRITE.
WriteParents(p) ==
    /\ mode = "write" => ~ HasParents
    /\ file' = [file EXCEPT !.parents = [w \in 1 .. 2 * Count(mem.range) |-> p]]
    /\ mem' = [mem EXCEPT !.parents = NoData]
    /\ UNCHANGED <<mode, sect, want, overrun>>

\* Mutant: the parents in memory are not given up.
WriteSomeParentsKeeping(s, e, p) ==
    LET n == Count(mem.range)
        old == IF HasParents THEN file.parents ELSE Zeros(2 * n)
        at(w) == mem.range[1] + ((w - 1) % n)
    IN  /\ Within(s, e)
        /\ file' = [file EXCEPT !.parents =
                     [w \in 1 .. 2 * n |-> IF at(w) \in s .. e THEN p ELSE old[w]]]
        /\ UNCHANGED <<mode, sect, mem, want, overrun>>

\* cg_parent_data_partial_write: made if there are none; an array of another
\* length than the range is an internal error.
WriteSomeParents(s, e, p) ==
    LET n == Count(mem.range)
        old == IF HasParents THEN file.parents ELSE Zeros(2 * n)
        at(w) == mem.range[1] + ((w - 1) % n)
    IN  /\ Within(s, e)
        /\ Len(old) = 2 * n
        /\ file' = [file EXCEPT !.parents =
                     [w \in DOMAIN old |-> IF at(w) \in s .. e THEN p ELSE old[w]]]
        /\ mem' = [mem EXCEPT !.parents = NoData]
        /\ UNCHANGED <<mode, sect, want, overrun>>

\* Mutant: the connectivity stays in memory whatever its type.
ReadKeeping(s, e, withParents) ==
    /\ mode = "modify" /\ Within(s, e)
    /\ mem' = [mem EXCEPT !.offset = IF sect.poly THEN Offset ELSE NoData,
                          !.connect = Connect]
    /\ UNCHANGED <<mode, sect, file, want, overrun>>

\* cg_elements_partial_read, cg_poly_elements_partial_read: offsets stay in memory,
\* the rest too where its type is not that of cgsize_t.
Read(s, e, withParents) ==
    /\ mode = "modify"
    /\ Within(s, e)
    /\ mem' = [mem EXCEPT
                 !.offset = IF sect.poly THEN Offset ELSE NoData,
                 !.connect = IF sect.type = "I8" THEN @ ELSE Connect,
                 !.parents = IF withParents /\ HasParents /\ sect.type = "I4"
                             THEN Parents ELSE @]
    /\ UNCHANGED <<mode, sect, file, want, overrun>>

\* cg_close and cg_open in CG_MODE_MODIFY: cgi_read_section reads the range only.
Reopen ==
    /\ mode' = "modify"
    /\ mem' = Cleared(file.range)
    /\ UNCHANGED <<sect, file, want, overrun>>

Init ==
    /\ mode \in {"write", "modify"}
    /\ sect = NoData /\ file = NoData /\ mem = NoData /\ want = NoData
    /\ overrun = FALSE

Create ==
    \E r \in Ranges :
        \/ \E type \in {"I4", "I8"}, spare \in 0 .. Spare :
               \/ \E poly \in BOOLEAN : CreateEmpty(poly, type, r, spare)
               \/ CreatePartial(type, r, spare)
        \/ \E poly \in BOOLEAN :
               \E data \in Given(poly, Count(r)) : CreateWith(poly, r, data)

Use ==
    \/ \E r \in Ranges : \E data \in Given(sect.poly, Count(r)) :
           \/ WriteInPlace(r[1], r[2], data)
           \/ \E mtype \in {"I4", "I8"} : WriteInMemory(r[1], r[2], data, mtype)
    \/ \E p \in Parent : WriteParents(p)
    \/ \E r \in Ranges, p \in Parent : WriteSomeParents(r[1], r[2], p)
    \/ \E r \in Ranges, withParents \in BOOLEAN : Read(r[1], r[2], withParents)
    \/ Reopen

Next == ~ overrun /\ (Create \/ (sect # NoData /\ Use))

Spec == Init /\ [][Next]_vars

----------------------------------------------------------------------------
\* Every element of the range reads in the file as it was last written, one that
\* was never written as zeros, through writes that overlap, extend, leave gaps and
\* move what follows; but for elements copied raw.
ElementsAreAsWritten ==
    sect # NoData =>
        /\ DOMAIN want = Of(file.range)
        /\ \A x \in Of(file.range) :
               want[x] \in {Raw, WordsOf(file.connect, OffsetOf(file), file.range, x, x)}

\* What is kept in memory is what the file has, so that it does not matter to a
\* call which reads and writes came before it.
CachesMirrorFile ==
    sect # NoData =>
        /\ mem.range = file.range
        /\ mem.connect \in {NoData, file.connect}
        /\ mem.offset \in {NoData, file.offset}
        /\ mem.parents \in {NoData, file.parents}

\* "internal error - invalid ParentElements data size !!!" cannot happen, nor is
\* such a file refused when it is opened: the parents have a row for each element,
\* however the range has grown since they were written.
ParentsFitTheRange ==
    sect # NoData /\ HasParents /\ ~ overrun =>
        Len(file.parents) = 2 * Count(file.range)

\* cg_poly_elements_read compares the connectivity in memory, if there is one, with
\* offsets in memory of its own type, and refuses a section it has not got them for.
WholeReadRefused ==
    /\ sect.poly /\ mem.connect # NoData
    /\ \/ sect.type = "I4"
       \/ mem.offset = NoData
       \/ mem.offset[Len(mem.offset)] # Len(mem.connect)

\* No sequence of partial writes and reads makes a section unreadable as a whole
\* when its type is that of cgsize_t, whatever space was reserved for it.
WholeReadIsServed ==
    sect # NoData /\ sect.type = "I8" => ~ WholeReadRefused
============================================================================
