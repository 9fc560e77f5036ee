------------------------ MODULE ParallelFilesProofs ------------------------
(***************************************************************************)
(* Proof, for any ranks, files and programs that close a file before they  *)
(* open it again, that a file is open on a rank in the way the rank last   *)
(* asked for it, although cgp_open leaves the access mode of every later   *)
(* open parallel; for programs that keep one rule more, that what a rank   *)
(* was told is written is in the file; and, for programs that call         *)
(* together what concerns a parallel file and let all ranks find the files *)
(* they open so, that the ranks enter the same collectives in the same     *)
(* order.                                                                  *)
(***************************************************************************)
EXTENDS ParallelFiles, SequenceTheorems, WellFoundedInduction, TLAPS

Kinds == {NONE, NATIVE, MADE, PARALLEL}

Typed ==
    /\ prog \in Programs
    /\ pos \in [Rank -> Nat \ {0}]
    /\ at \in [Rank -> Places]
    /\ ctx \in [Rank -> Settings]
    /\ handle \in [Rank -> [FileName -> Kinds]]

\* Rank r is in a call that opens f, or closes it.
OpensNow(r, f) == Now(r).op \in OpenOps /\ Now(r).file = f /\ r \in Now(r).who
ClosesNow(r, f) == Now(r).op = "cg_close" /\ Now(r).file = f /\ r \in Now(r).who

\* A rank that waits in a collective, or is about to make a file, is in a call that
\* goes there.
Waits(r) ==
    /\ at[r] = "open" => Now(r).op \in {"cgp_open", "cg_is_cgns"} /\ r \in Now(r).who
    /\ at[r] = "checked" =>
          /\ Now(r).op \in {"cg_open", "cg_is_cgns"} /\ r \in Now(r).who
          /\ Now(r).op = "cg_open" => ctx[r].mode = NATIVE
    /\ at[r] = "unlinked" =>
          /\ Now(r).op = "cg_open" /\ Now(r).mode = "w" /\ r \in Now(r).who
          /\ ctx[r].mode = NATIVE /\ ctx[r].type = "hdf5"
    /\ at[r] \in {"data", "elements", "barrier"} => Now(r).op \notin OpenOps \cup {"cg_close"}

\* A file that is open was opened by a call that makes what it is open as, and not
\* closed since; if the program closes before it opens, none opened it later.
AskedFor(r, f) ==
    handle[r][f] # NONE =>
        \E i \in OpenCalls(r, f) :
            /\ \A k \in i + 1 .. pos[r] - 1 : ~ ClosesIn(prog, k, r, f)
            /\ handle[r][f] = MADE => prog.calls[i].op = "cg_open" /\ prog.calls[i].mode = "w"
            /\ prog.calls[i].op = "cgp_open" <=> handle[r][f] = PARALLEL
            /\ ClosesFirst(prog) => \A j \in OpenCalls(r, f) : j <= i

\* The inductive invariant.
ParInv == Typed /\ \A r \in Rank : Waits(r) /\ \A f \in FileName : AskedFor(r, f)

\* A rank that is inside a call has one; and what TypeOK says beyond Typed.
Booked ==
    /\ \A r \in Rank : /\ pos[r] <= Len(prog.calls) + 1
                       /\ at[r] # "call" => pos[r] <= Len(prog.calls)
    /\ present \subseteq FileName
    /\ written \subseteq Cells /\ claimed \subseteq Cells
    /\ failed \subseteq Rank /\ deserted \in BOOLEAN /\ aborted \in BOOLEAN

\* A rank takes a step only within its calls.
LEMMA StepsAreInCalls ==
    ASSUME ParInv, Booked, NEW r \in Rank, Step(r)
    PROVE  pos[r] <= Len(prog.calls)
<1>1. Len(prog.calls) \in Nat /\ pos[r] \in Nat
  BY ProgramAssumption DEF ParInv, Typed
<1>2. at[r] # "call" => pos[r] <= Len(prog.calls)
  BY DEF Booked
<1>3. ~ Ended(r) => pos[r] <= Len(prog.calls)
  BY <1>1 DEF Ended
<1> QED BY <1>2, <1>3 DEF Step, Skip, PioMode, Barrier, LeaveBarrier, OpenSerialWrite,
           MakeFile, OpenUnchecked, CheckFile, AwaitCheck, Checked, ParallelOpen, Opened,
           WriteRefused, Transfer, Transferred, ElementsTransferred, WriteAlone, Close,
           Closed, ErrorExit, CleanedUp, Calls, Probes

\* What a step of r leaves alone.
Others(r) ==
    /\ prog' = prog
    /\ \A s \in Rank \ {r} : /\ pos'[s] = pos[s] /\ at'[s] = at[s]
                             /\ ctx'[s] = ctx[s] /\ handle'[s] = handle[s]

LEMMA OnlyRankMatters ==
    ASSUME ParInv, NEW r \in Rank, Typed', Others(r),
           Waits(r)', \A f \in FileName : AskedFor(r, f)'
    PROVE  ParInv'
<1>1. ASSUME NEW s \in Rank, s # r
      PROVE  Waits(s)' /\ \A f \in FileName : AskedFor(s, f)'
  <2>1. /\ prog' = prog /\ pos'[s] = pos[s] /\ at'[s] = at[s] /\ ctx'[s] = ctx[s]
        /\ handle'[s] = handle[s]
    BY <1>1 DEF Others
  <2>2. Now(s)' = Now(s)
    BY <2>1 DEF Now
  <2>3. Waits(s)'
    BY <2>1, <2>2 DEF ParInv, Waits
  <2>4. ASSUME NEW f \in FileName PROVE AskedFor(s, f)'
    <3>1. OpenCalls(s, f)' = OpenCalls(s, f)
      BY <2>1 DEF OpenCalls
    <3>2. AskedFor(s, f)
      BY DEF ParInv
    <3>3. \A k : ClosesIn(prog, k, s, f)' <=> ClosesIn(prog, k, s, f)
      BY <2>1 DEF ClosesIn
    <3>4. ClosesFirst(prog)' <=> ClosesFirst(prog)
      BY <2>1
    <3> QED BY <2>1, <3>1, <3>2, <3>3, <3>4 DEF AskedFor
  <2> QED BY <2>3, <2>4
<1> QED BY <1>1 DEF ParInv

----------------------------------------------------------------------------
(* A call ends                                                             *)

\* The calls that open f, when rank r has ended one more.
LEMMA OneMoreCall ==
    ASSUME NEW r, NEW f, pos[r] \in Nat \ {0}, pos'[r] = pos[r] + 1, prog' = prog
    PROVE  /\ OpensNow(r, f) => OpenCalls(r, f)' = OpenCalls(r, f) \cup {pos[r]}
           /\ ~ OpensNow(r, f) => OpenCalls(r, f)' = OpenCalls(r, f)
           /\ \A j \in OpenCalls(r, f) : j < pos[r] /\ j \in Nat \ {0}
<1>1. 1 .. pos'[r] - 1 = (1 .. pos[r] - 1) \cup {pos[r]}
  OBVIOUS
<1> QED BY <1>1 DEF OpenCalls, OpensNow, OpenOps, Now

\* The call rank r is in ends, with or without success.
Ends(r, ok) ==
    \/ at' = [at EXCEPT ![r] = "call"] /\ pos' = [pos EXCEPT ![r] = @ + 1]
    \/ ~ ok /\ at' = [at EXCEPT ![r] = "exit"] /\ pos' = pos

LEMMA ReturnEnds ==
    ASSUME NEW r, NEW ok \in BOOLEAN, NEW desert, Return(r, ok, desert)
    PROVE  Ends(r, ok) /\ prog' = prog
BY DEF Return, Ends

\* A call that ends leaves a file open as it was, or opens it as it was asked to.
Lasts(r, f, ok) ==
    handle'[r][f] = handle[r][f] /\ ~ (ok /\ OpensNow(r, f)) /\ ~ ClosesNow(r, f)
Gets(r, f) ==
    /\ OpensNow(r, f)
    /\ Now(r).op = "cgp_open" <=> handle'[r][f] = PARALLEL
    /\ handle'[r][f] = MADE => Now(r).op = "cg_open" /\ Now(r).mode = "w"

\* A rank that is in a call to open f has closed f, if the program closes first.
LEMMA OpensAfterClose ==
    ASSUME ParInv, NEW r \in Rank, NEW f \in FileName, pos[r] <= Len(prog.calls),
           OpensNow(r, f), ClosesFirst(prog), NEW i \in OpenCalls(r, f)
    PROVE  \E k \in i + 1 .. pos[r] - 1 : ClosesIn(prog, k, r, f)
<1>1. pos[r] \in Nat \ {0} /\ Len(prog.calls) \in Nat /\ DOMAIN prog.calls = 1 .. Len(prog.calls)
  <2>1. prog.calls \in Seq(ProgramCall)
    BY ProgramAssumption DEF ParInv, Typed
  <2> QED BY <2>1 DEF ParInv, Typed
<1>2. pos[r] \in DOMAIN prog.calls /\ OpensIn(prog, pos[r], r, f)
  BY <1>1 DEF OpensNow, OpensIn, Now
<1>3. i \in 1 .. Len(prog.calls) /\ i < pos[r] /\ OpensIn(prog, i, r, f)
  BY <1>1 DEF OpenCalls, OpensIn, OpenOps
<1> QED BY <1>2, <1>3 DEF ClosesFirst

LEMMA LastingIsAskedFor ==
    ASSUME ParInv, NEW r \in Rank, NEW ok \in BOOLEAN, Ends(r, ok), prog' = prog,
           pos[r] <= Len(prog.calls), NEW f \in FileName, Lasts(r, f, ok), handle'[r][f] # NONE
    PROVE  AskedFor(r, f)'
<1>1. pos[r] \in Nat \ {0} /\ handle[r][f] # NONE /\ handle'[r][f] = handle[r][f]
  BY DEF ParInv, Typed, Lasts
<1>2. PICK i \in OpenCalls(r, f) :
         /\ \A k \in i + 1 .. pos[r] - 1 : ~ ClosesIn(prog, k, r, f)
         /\ handle[r][f] = MADE => prog.calls[i].op = "cg_open" /\ prog.calls[i].mode = "w"
         /\ prog.calls[i].op = "cgp_open" <=> handle[r][f] = PARALLEL
         /\ ClosesFirst(prog) => \A j \in OpenCalls(r, f) : j <= i
  BY <1>1 DEF ParInv, AskedFor
<1>3. \A k : ClosesIn(prog, k, r, f)' <=> ClosesIn(prog, k, r, f)
  BY DEF ClosesIn
<1>4. ClosesFirst(prog)' <=> ClosesFirst(prog)
  OBVIOUS
<1>5. CASE pos'[r] = pos[r]
  <2>1. OpenCalls(r, f)' = OpenCalls(r, f)
    BY <1>5 DEF OpenCalls
  <2> QED BY <1>1, <1>2, <1>3, <1>4, <1>5, <2>1 DEF AskedFor
<1>6. CASE pos'[r] = pos[r] + 1
  <2>1. /\ i \in OpenCalls(r, f)' /\ i < pos[r] /\ i \in Nat
        /\ OpensNow(r, f) \/ OpenCalls(r, f)' = OpenCalls(r, f)
    BY <1>1, <1>6, OneMoreCall
  <2>2. ~ ClosesIn(prog, pos[r], r, f)
    BY DEF Lasts, ClosesNow, ClosesIn, Now
  <2>3. \A k \in i + 1 .. pos'[r] - 1 : ~ ClosesIn(prog, k, r, f)
    <3>1. \A k \in i + 1 .. pos'[r] - 1 : k \in i + 1 .. pos[r] - 1 \/ k = pos[r]
      BY <1>1, <1>6, <2>1
    <3> QED BY <1>2, <2>2, <3>1
  <2>4. ClosesFirst(prog) => \A j \in OpenCalls(r, f)' : j <= i
    <3>1. CASE OpensNow(r, f)
      BY <1>2, <3>1, OpensAfterClose
    <3> QED BY <1>2, <2>1, <3>1
  <2> QED BY <1>1, <1>2, <1>3, <1>4, <2>1, <2>3, <2>4 DEF AskedFor
<1> QED BY <1>1, <1>5, <1>6 DEF Ends, ParInv, Typed

LEMMA GottenIsAskedFor ==
    ASSUME ParInv, NEW r \in Rank, Ends(r, TRUE), prog' = prog, NEW f \in FileName, Gets(r, f)
    PROVE  AskedFor(r, f)'
<1>1. pos[r] \in Nat \ {0} /\ pos'[r] = pos[r] + 1 /\ OpensNow(r, f)
  BY DEF Ends, ParInv, Typed, Gets
<1>2. /\ OpenCalls(r, f)' = OpenCalls(r, f) \cup {pos[r]}
      /\ \A j \in OpenCalls(r, f)' : j <= pos[r]
  BY <1>1, OneMoreCall
<1>3. pos[r] + 1 .. pos'[r] - 1 = {}
  BY <1>1
<1>4. /\ prog'.calls[pos[r]].op = "cgp_open" <=> handle'[r][f] = PARALLEL
      /\ handle'[r][f] = MADE =>
            prog'.calls[pos[r]].op = "cg_open" /\ prog'.calls[pos[r]].mode = "w"
  BY DEF Gets, Now
<1> QED BY <1>2, <1>3, <1>4 DEF AskedFor

\* The result of a call that opens a file is what was asked for, and any other
\* call closes files at most.
LEMMA EndKeepsInv ==
    ASSUME ParInv, NEW r \in Rank, NEW ok \in BOOLEAN, Ends(r, ok), prog' = prog,
           pos[r] <= Len(prog.calls),
           ctx' \in [Rank -> Settings], \A s \in Rank \ {r} : ctx'[s] = ctx[s],
           handle' \in [Rank -> [FileName -> Kinds]],
           \A s \in Rank \ {r} : handle'[s] = handle[s],
           \A f \in FileName : handle'[r][f] = NONE \/ Lasts(r, f, ok) \/ (ok /\ Gets(r, f))
    PROVE  ParInv'
<1>1. Typed'
  <2>1. CASE at' = [at EXCEPT ![r] = "call"] /\ pos' = [pos EXCEPT ![r] = @ + 1]
    <3>1. at' \in [Rank -> Places]
      BY <2>1 DEF ParInv, Typed, Places
    <3>2. pos' \in [Rank -> Nat \ {0}]
      BY <2>1 DEF ParInv, Typed
    <3> QED BY <3>1, <3>2 DEF ParInv, Typed
  <2>2. CASE at' = [at EXCEPT ![r] = "exit"] /\ pos' = pos
    <3>1. at' \in [Rank -> Places]
      BY <2>2 DEF ParInv, Typed, Places
    <3> QED BY <2>2, <3>1 DEF ParInv, Typed
  <2> QED BY <2>1, <2>2 DEF Ends
<1>2. Others(r)
  BY DEF ParInv, Typed, Ends, Others
<1>3. at'[r] \in {"call", "exit"}
  BY DEF ParInv, Typed, Ends
<1>4. Waits(r)'
  BY <1>3 DEF Waits
<1>5. ASSUME NEW f \in FileName, handle'[r][f] # NONE PROVE AskedFor(r, f)'
  <2>1. CASE Lasts(r, f, ok)
    BY <1>5, <2>1, LastingIsAskedFor
  <2>2. CASE ok /\ Gets(r, f)
    BY <2>2, GottenIsAskedFor DEF Ends
  <2> QED BY <1>5, <2>1, <2>2
<1>6. \A f \in FileName : AskedFor(r, f)'
  BY <1>5 DEF AskedFor
<1> QED BY <1>1, <1>2, <1>4, <1>6, OnlyRankMatters

\* A rank goes on within its call, and closes files at most.
LEMMA MoveKeepsInv ==
    ASSUME ParInv, NEW r \in Rank, NEW where \in Places,
           at' = [at EXCEPT ![r] = where], prog' = prog, pos' = pos,
           ctx' \in [Rank -> Settings], \A s \in Rank \ {r} : ctx'[s] = ctx[s],
           handle' \in [Rank -> [FileName -> Kinds]],
           \A s \in Rank \ {r} : handle'[s] = handle[s],
           \A f \in FileName : handle'[r][f] \in {handle[r][f], NONE},
           Waits(r)'
    PROVE  ParInv'
<1>1. Typed' /\ Others(r)
  BY DEF ParInv, Typed, Others
<1>2. ASSUME NEW f \in FileName PROVE AskedFor(r, f)'
  <2>1. OpenCalls(r, f)' = OpenCalls(r, f) /\ AskedFor(r, f)
    BY DEF OpenCalls, ParInv
  <2>2. handle'[r][f] = NONE \/ handle'[r][f] = handle[r][f]
    OBVIOUS
  <2>3. \A k : ClosesIn(prog, k, r, f)' <=> ClosesIn(prog, k, r, f)
    BY DEF ClosesIn
  <2>4. ClosesFirst(prog)' <=> ClosesFirst(prog)
    OBVIOUS
  <2> QED BY <2>1, <2>2, <2>3, <2>4 DEF AskedFor
<1> QED BY <1>1, <1>2, OnlyRankMatters

\* A call that opens and closes nothing returns, with the files as they were.
LEMMA QuietReturn ==
    ASSUME ParInv, NEW r \in Rank, NEW ok \in BOOLEAN, NEW desert, pos[r] <= Len(prog.calls),
           Now(r).op \notin OpenOps \cup {"cg_close"}, Return(r, ok, desert), handle' = handle,
           ctx' \in [Rank -> Settings], \A s \in Rank \ {r} : ctx'[s] = ctx[s]
    PROVE  ParInv'
<1>1. Ends(r, ok) /\ prog' = prog
  BY ReturnEnds
<1>2. \A f \in FileName : Lasts(r, f, ok)
  BY DEF Lasts, OpensNow, ClosesNow
<1>3. handle' \in [Rank -> [FileName -> Kinds]]
  BY DEF ParInv, Typed
<1> QED BY <1>1, <1>2, <1>3, EndKeepsInv

\* A rank goes to wait, with its files as they were.
LEMMA EnterKeepsInv ==
    ASSUME ParInv, NEW r \in Rank, NEW where \in Places, NEW c, NEW what,
           Enter(r, c, what, where), handle' = handle,
           ctx' \in [Rank -> Settings], \A s \in Rank \ {r} : ctx'[s] = ctx[s],
           Waits(r)'
    PROVE  ParInv'
<1>1. handle' \in [Rank -> [FileName -> Kinds]]
  BY DEF ParInv, Typed
<1> QED BY <1>1, MoveKeepsInv DEF Enter

\* A call to open a file fails, with the files as they were.
LEMMA FailureKeepsInv ==
    ASSUME ParInv, NEW r \in Rank, NEW desert, pos[r] <= Len(prog.calls),
           Now(r).op # "cg_close", Return(r, FALSE, desert), handle' = handle,
           ctx' \in [Rank -> Settings], \A s \in Rank \ {r} : ctx'[s] = ctx[s]
    PROVE  ParInv'
<1>1. Ends(r, FALSE) /\ prog' = prog
  BY ReturnEnds
<1>2. \A f \in FileName : Lasts(r, f, FALSE)
  BY DEF Lasts, ClosesNow
<1>3. handle' \in [Rank -> [FileName -> Kinds]]
  BY DEF ParInv, Typed
<1> QED BY <1>1, <1>2, <1>3, EndKeepsInv

\* A call to open a file succeeds.
LEMMA SuccessKeepsInv ==
    ASSUME ParInv, NEW r \in Rank, NEW desert, pos[r] <= Len(prog.calls),
           Now(r).op \in OpenOps, r \in Now(r).who, Return(r, TRUE, desert),
           NEW how \in Kinds, handle' = [handle EXCEPT ![r][Now(r).file] = how],
           Now(r).op = "cgp_open" <=> how = PARALLEL,
           how = MADE => Now(r).op = "cg_open" /\ Now(r).mode = "w",
           ctx' \in [Rank -> Settings], \A s \in Rank \ {r} : ctx'[s] = ctx[s]
    PROVE  ParInv'
<1>1. Ends(r, TRUE) /\ prog' = prog
  BY ReturnEnds
<1>2. handle' \in [Rank -> [FileName -> Kinds]]
  BY DEF ParInv, Typed
<1>3. \A s \in Rank \ {r} : handle'[s] = handle[s]
  BY DEF ParInv, Typed
<1>4. ASSUME NEW f \in FileName PROVE Lasts(r, f, TRUE) \/ Gets(r, f)
  <2>1. CASE f = Now(r).file
    <3>1. handle'[r][f] = how /\ OpensNow(r, f)
      BY <2>1 DEF ParInv, Typed, OpensNow
    <3> QED BY <3>1 DEF Gets
  <2>2. CASE f # Now(r).file
    <3>1. handle'[r][f] = handle[r][f]
      BY <2>2 DEF ParInv, Typed
    <3> QED BY <2>2, <3>1 DEF Lasts, OpensNow, ClosesNow
  <2> QED BY <2>1, <2>2
<1> QED BY <1>1, <1>2, <1>3, <1>4, EndKeepsInv

\* The end of an open: only a call that is to leave the file open in parallel waits
\* for the other ranks.
LEMMA FinishOpenKeepsInv ==
    ASSUME ParInv, NEW r \in Rank, NEW mode \in {NATIVE, PARALLEL}, pos[r] <= Len(prog.calls),
           Now(r).op \in {"cg_open", "cg_is_cgns", "cgp_open"}, r \in Now(r).who,
           Now(r).op = "cg_open" => mode = NATIVE,
           Now(r).op = "cgp_open" => mode = PARALLEL,
           FinishOpen(r, mode),
           ctx' \in [Rank -> Settings], \A s \in Rank \ {r} : ctx'[s] = ctx[s]
    PROVE  ParInv'
<1> DEFINE f == Now(r).file
<1>1. CASE Return(r, FALSE, FALSE) /\ handle' = handle
  BY <1>1, FailureKeepsInv
<1>2. CASE mode = PARALLEL /\ Enter(r, Lib, <<"open", f>>, "open") /\ handle' = handle
  <2>1. at'[r] = "open" /\ Now(r)' = Now(r)
    BY <1>2 DEF Enter, ParInv, Typed, Now
  <2>2. Waits(r)'
    BY <1>2, <2>1 DEF Waits, NATIVE, PARALLEL
  <2>3. "open" \in Places
    BY DEF Places
  <2> QED BY <1>2, <2>2, <2>3, EnterKeepsInv
<1>3. CASE /\ mode # PARALLEL /\ Return(r, TRUE, FALSE)
           /\ handle' = IF Now(r).op = "cg_is_cgns" THEN handle
                        ELSE [handle EXCEPT ![r][f] = NATIVE]
  <2>1. CASE Now(r).op = "cg_is_cgns"
    <3>1. Now(r).op \notin OpenOps \cup {"cg_close"}
      BY <2>1 DEF OpenOps
    <3> QED BY <1>3, <2>1, <3>1, QuietReturn
  <2>2. CASE Now(r).op # "cg_is_cgns"
    <3>1. Now(r).op = "cg_open" /\ handle' = [handle EXCEPT ![r][f] = NATIVE]
      BY <1>3, <2>2
    <3>2. NATIVE \in Kinds /\ NATIVE # PARALLEL /\ NATIVE # MADE /\ Now(r).op \in OpenOps
      BY <3>1 DEF Kinds, NATIVE, PARALLEL, MADE, OpenOps
    <3> QED BY <1>3, <3>1, <3>2, SuccessKeepsInv
  <2> QED BY <2>1, <2>2
<1> QED BY <1>1, <1>2, <1>3 DEF FinishOpen

----------------------------------------------------------------------------
(* The steps                                                               *)

LEMMA InitParInv == Init => ParInv
<1> SUFFICES ASSUME Init PROVE ParInv
  OBVIOUS
<1>1. Typed
  BY DEF Init, Typed, Places, Settings, Settings0, Kinds, NONE, NATIVE, CGP_COLLECTIVE
<1>2. \A r \in Rank : Waits(r) /\ \A f \in FileName : AskedFor(r, f)
  BY DEF Init, Waits, AskedFor
<1> QED BY <1>1, <1>2 DEF ParInv

LEMMA SkipKeepsInv ==
    ASSUME ParInv, NEW r \in Rank, Skip(r), pos[r] <= Len(prog.calls) PROVE ParInv'
<1>1. Ends(r, TRUE) /\ prog' = prog
  <2>1. at' = [at EXCEPT ![r] = "call"]
    BY DEF Skip, ParInv, Typed
  <2> QED BY <2>1 DEF Skip, Ends
<1>2. \A f \in FileName : Lasts(r, f, TRUE)
  BY DEF Skip, Lasts, OpensNow, ClosesNow
<1>3. ctx' = ctx /\ handle' = handle
  BY DEF Skip
<1>4. ctx' \in [Rank -> Settings] /\ handle' \in [Rank -> [FileName -> Kinds]]
  BY <1>3 DEF ParInv, Typed
<1> QED BY <1>1, <1>2, <1>3, <1>4, EndKeepsInv

LEMMA PioModeKeepsInv ==
    ASSUME ParInv, NEW r \in Rank, PioMode(r), pos[r] <= Len(prog.calls) PROVE ParInv'
<1>1. Now(r).mode \in {CGP_COLLECTIVE, CGP_INDEPENDENT}
  <2>1. prog \in Programs /\ pos[r] \in Nat \ {0}
    BY DEF ParInv, Typed
  <2>2. Len(prog.calls) \in Nat /\ DOMAIN prog.calls = 1 .. Len(prog.calls)
    BY <2>1, ProgramAssumption, LenProperties
  <2>3. pos[r] \in DOMAIN prog.calls
    BY <2>1, <2>2
  <2> QED BY <2>1, <2>3, ProgramAssumption DEF PioMode, Calls, Now
<1>2. ctx' \in [Rank -> Settings]
  BY <1>1 DEF PioMode, ParInv, Typed, Settings
<1>3. \A s \in Rank \ {r} : ctx'[s] = ctx[s]
  BY DEF PioMode, ParInv, Typed
<1>4. Now(r).op \notin OpenOps \cup {"cg_close"}
  BY DEF PioMode, Calls, OpenOps
<1> QED BY <1>2, <1>3, <1>4, QuietReturn DEF PioMode

\* ctx_cgio after an open: only its mode has changed.
LEMMA ModeTyped ==
    ASSUME ParInv, NEW r \in Rank, ctx' = [ctx EXCEPT ![r].mode = ModeForOpen(r)]
    PROVE  /\ ctx' \in [Rank -> Settings]
           /\ \A s \in Rank \ {r} : ctx'[s] = ctx[s]
           /\ ModeForOpen(r) \in {NATIVE, PARALLEL}
           /\ ctx'[r].mode = ModeForOpen(r)
           /\ Now(r).op = "cg_open" => ModeForOpen(r) = NATIVE
<1>1. ModeForOpen(r) \in {NATIVE, PARALLEL}
  BY DEF ParInv, Typed, Settings, ModeForOpen
<1> QED BY <1>1, ZenonT(90) DEF ParInv, Typed, Settings, ModeForOpen

LEMMA OpenSerialWriteKeepsInv ==
    ASSUME ParInv, NEW r \in Rank, OpenSerialWrite(r) PROVE ParInv'
<1>1. /\ Now(r).op = "cg_open" /\ Now(r).mode = "w" /\ r \in Now(r).who
      /\ ctx' = [ctx EXCEPT ![r].mode = NATIVE, ![r].type = "hdf5"]
      /\ at' = [at EXCEPT ![r] = "unlinked"]
      /\ prog' = prog /\ pos' = pos /\ handle' = handle
  BY DEF OpenSerialWrite, Calls, ModeForOpen
<1>2. ctx' \in [Rank -> Settings] /\ \A s \in Rank \ {r} : ctx'[s] = ctx[s]
  BY <1>1, ZenonT(90) DEF ParInv, Typed, Settings
<1>3. ctx'[r].mode = NATIVE /\ ctx'[r].type = "hdf5"
  BY <1>1 DEF ParInv, Typed, Settings
<1>4. at'[r] = "unlinked" /\ Now(r)' = Now(r) /\ "unlinked" \in Places
  BY <1>1 DEF ParInv, Typed, Now, Places
<1>5. Waits(r)'
  BY <1>1, <1>3, <1>4 DEF Waits
<1>6. handle' \in [Rank -> [FileName -> Kinds]]
  BY <1>1 DEF ParInv, Typed
<1> QED BY <1>1, <1>2, <1>4, <1>5, <1>6, MoveKeepsInv

LEMMA MakeFileKeepsInv ==
    ASSUME ParInv, NEW r \in Rank, MakeFile(r), pos[r] <= Len(prog.calls) PROVE ParInv'
<1>1. /\ Now(r).op = "cg_open" /\ Now(r).mode = "w" /\ r \in Now(r).who
  BY DEF MakeFile, ParInv, Waits
<1>2. ctx' \in [Rank -> Settings] /\ \A s \in Rank \ {r} : ctx'[s] = ctx[s]
  BY DEF MakeFile, ParInv, Typed
<1>3. /\ Now(r).op \in OpenOps /\ Now(r).op # "cg_close" /\ Now(r).op # "cgp_open"
      /\ MADE \in Kinds /\ MADE # PARALLEL
  BY <1>1 DEF OpenOps, Kinds, MADE, PARALLEL
<1>4. \/ Return(r, TRUE, FALSE) /\ handle' = [handle EXCEPT ![r][Now(r).file] = MADE]
      \/ Return(r, FALSE, FALSE) /\ handle' = handle
  BY DEF MakeFile
<1>5. CASE Return(r, TRUE, FALSE) /\ handle' = [handle EXCEPT ![r][Now(r).file] = MADE]
  BY <1>1, <1>2, <1>3, <1>5, SuccessKeepsInv
<1>6. CASE Return(r, FALSE, FALSE) /\ handle' = handle
  BY <1>2, <1>3, <1>6, FailureKeepsInv
<1> QED BY <1>4, <1>5, <1>6

LEMMA OpenUncheckedKeepsInv ==
    ASSUME ParInv, NEW r \in Rank, OpenUnchecked(r), pos[r] <= Len(prog.calls) PROVE ParInv'
BY ModeTyped, FinishOpenKeepsInv DEF OpenUnchecked, Calls

\* The calls that test the type of a file.
LEMMA ProbesOpen ==
    ASSUME NEW r, Probes(r)
    PROVE  Now(r).op \in {"cg_open", "cg_is_cgns"} /\ r \in Now(r).who
BY DEF Probes, Calls

\* A rank waits for the broadcast with the mode the open goes on with.
LEMMA BroadcastKeepsInv ==
    ASSUME ParInv, NEW r \in Rank, Probes(r), NEW what,
           ctx' = [ctx EXCEPT ![r].mode = ModeForOpen(r)],
           Enter(r, Lib, what, "checked"), handle' = handle
    PROVE  ParInv'
<1>1. at'[r] = "checked" /\ Now(r)' = Now(r)
  BY DEF Enter, ParInv, Typed, Now
<1>2. Waits(r)'
  BY <1>1, ModeTyped, ProbesOpen DEF Waits
<1>3. "checked" \in Places
  BY DEF Places
<1> QED BY <1>2, <1>3, ModeTyped, EnterKeepsInv

LEMMA CheckFileKeepsInv ==
    ASSUME ParInv, NEW r \in Rank, CheckFile(r), pos[r] <= Len(prog.calls) PROVE ParInv'
<1>1. Probes(r) /\ ctx' = [ctx EXCEPT ![r].mode = ModeForOpen(r)]
  BY DEF CheckFile
<1>2. CASE Enter(r, Lib, <<"bcast", Now(r).file>>, "checked") /\ handle' = handle
  BY <1>1, <1>2, BroadcastKeepsInv
<1>3. CASE FinishOpen(r, ModeForOpen(r))
  BY <1>1, <1>3, ModeTyped, ProbesOpen, FinishOpenKeepsInv
<1>4. CASE Return(r, FALSE, TRUE) /\ handle' = handle
  BY <1>1, <1>4, ModeTyped, ProbesOpen, FailureKeepsInv
<1> QED BY <1>2, <1>3, <1>4 DEF CheckFile

LEMMA AwaitCheckKeepsInv ==
    ASSUME ParInv, NEW r \in Rank, AwaitCheck(r) PROVE ParInv'
BY BroadcastKeepsInv DEF AwaitCheck

LEMMA CheckedKeepsInv ==
    ASSUME ParInv, NEW r \in Rank, Checked(r), pos[r] <= Len(prog.calls) PROVE ParInv'
<1>1. FinishOpen(r, ctx[r].mode) /\ ctx' = ctx /\ at[r] = "checked"
  BY DEF Checked
<1>2. /\ Now(r).op \in {"cg_open", "cg_is_cgns"} /\ r \in Now(r).who
      /\ Now(r).op = "cg_open" => ctx[r].mode = NATIVE
  BY <1>1 DEF ParInv, Waits
<1>3. ctx' \in [Rank -> Settings] /\ ctx[r].mode \in {NATIVE, PARALLEL}
  BY <1>1 DEF ParInv, Typed, Settings
<1> QED BY <1>1, <1>2, <1>3, FinishOpenKeepsInv

LEMMA ParallelOpenKeepsInv ==
    ASSUME ParInv, NEW r \in Rank, ParallelOpen(r), pos[r] <= Len(prog.calls) PROVE ParInv'
<1> DEFINE f == Now(r).file
<1>1. /\ Now(r).op = "cgp_open" /\ r \in Now(r).who
      /\ ctx' = [ctx EXCEPT ![r].init = TRUE, ![r].mode = PARALLEL]
  BY DEF ParallelOpen, Calls
<1>2. ctx' \in [Rank -> Settings] /\ \A s \in Rank \ {r} : ctx'[s] = ctx[s]
  BY <1>1, ZenonT(90) DEF ParInv, Typed, Settings
<1>3. CASE Enter(r, Lib, <<"open", f>>, "open") /\ handle' = handle
  <2>1. at'[r] = "open" /\ Now(r)' = Now(r)
    BY <1>3 DEF Enter, ParInv, Typed, Now
  <2>2. Waits(r)' /\ "open" \in Places
    BY <1>1, <2>1 DEF Waits, Places
  <2> QED BY <1>2, <1>3, <2>2, EnterKeepsInv
<1>4. CASE FinishOpen(r, PARALLEL)
  BY <1>1, <1>2, <1>4, FinishOpenKeepsInv
<1> QED BY <1>3, <1>4 DEF ParallelOpen

LEMMA OpenedKeepsInv ==
    ASSUME ParInv, NEW r \in Rank, Opened(r), pos[r] <= Len(prog.calls) PROVE ParInv'
<1> DEFINE f == Now(r).file
<1>1. at[r] = "open" /\ ctx' = ctx /\ ctx' \in [Rank -> Settings]
  BY DEF Opened, ParInv, Typed
<1>2. Now(r).op \in {"cgp_open", "cg_is_cgns"} /\ r \in Now(r).who
  BY <1>1 DEF ParInv, Waits
<1>3. CASE Now(r).op = "cg_is_cgns"
  <2>1. Enter(r, f, <<"close", f>>, "close") /\ handle' = handle
    BY <1>3 DEF Opened
  <2>2. at'[r] = "close"
    BY <2>1 DEF Enter, ParInv, Typed
  <2>3. Waits(r)' /\ "close" \in Places
    BY <2>2 DEF Waits, Places
  <2> QED BY <1>1, <2>1, <2>3, EnterKeepsInv
<1>4. CASE Now(r).op = "cgp_open"
  <2>1. Return(r, TRUE, FALSE) /\ handle' = [handle EXCEPT ![r][f] = PARALLEL]
    BY <1>4 DEF Opened
  <2>2. PARALLEL \in Kinds /\ PARALLEL # MADE /\ Now(r).op \in OpenOps
    BY <1>4 DEF Kinds, PARALLEL, MADE, OpenOps
  <2> QED BY <1>1, <1>2, <1>4, <2>1, <2>2, SuccessKeepsInv
<1> QED BY <1>2, <1>3, <1>4

LEMMA WriteRefusedKeepsInv ==
    ASSUME ParInv, NEW r \in Rank, WriteRefused(r), pos[r] <= Len(prog.calls) PROVE ParInv'
<1>1. Now(r).op \notin OpenOps \cup {"cg_close"}
  BY DEF WriteRefused, Calls, WriteOps, OpenOps
<1>2. ctx' \in [Rank -> Settings]
  BY DEF WriteRefused, ParInv, Typed
<1>3. (handle[r][Now(r).file] = PARALLEL /\ Collective(r)) \in BOOLEAN
  OBVIOUS
<1> QED BY <1>1, <1>2, <1>3, QuietReturn DEF WriteRefused

\* A rank that enters a collective waits there, and goes on with its call after it.
LEMMA EnteredStands ==
    ASSUME ParInv, NEW r \in Rank, NEW c, NEW e, NEW where, Enter(r, c, e, where)
    PROVE  at'[r] = where /\ Now(r)' = Now(r)
<1>1. at \in [Rank -> Places] /\ at' = [at EXCEPT ![r] = where]
  BY Zenon DEF Enter, ParInv, Typed
<1>2. prog' = prog /\ pos' = pos
  BY Zenon DEF Enter
<1>3. at'[r] = where
  BY <1>1
<1> QED BY <1>2, <1>3, Zenon DEF Now

\* A rank waits in the transfer of data, or at a barrier.
LEMMA WaitBusyKeepsInv ==
    ASSUME ParInv, NEW r \in Rank, NEW where \in {"data", "elements", "barrier"},
           Now(r).op \notin OpenOps \cup {"cg_close"}, NEW c, NEW what, Enter(r, c, what, where),
           ctx' = ctx, handle' = handle
    PROVE  ParInv'
<1>1. at'[r] = where /\ Now(r)' = Now(r)
  BY EnteredStands, Zenon
<1>2. Waits(r)' /\ where \in Places
  BY <1>1 DEF Waits, Places
<1>3. ctx' \in [Rank -> Settings]
  BY DEF ParInv, Typed
<1> QED BY <1>2, <1>3, EnterKeepsInv

LEMMA TransferKeepsInv == ASSUME ParInv, NEW r \in Rank, Transfer(r) PROVE ParInv'
<1>1. Now(r).op \notin OpenOps \cup {"cg_close"}
  BY DEF Transfer, Calls, WriteOps, OpenOps
<1> QED BY <1>1, WaitBusyKeepsInv DEF Transfer

LEMMA BarrierKeepsInv == ASSUME ParInv, NEW r \in Rank, Barrier(r) PROVE ParInv'
<1>1. Now(r).op \notin OpenOps \cup {"cg_close"}
  BY DEF Barrier, Calls, OpenOps
<1> QED BY <1>1, WaitBusyKeepsInv DEF Barrier

LEMMA TransferredKeepsInv ==
    ASSUME ParInv, NEW r \in Rank, Transferred(r), pos[r] <= Len(prog.calls) PROVE ParInv'
<1>1. Now(r).op \notin OpenOps \cup {"cg_close"} /\ ctx' = ctx /\ handle' = handle
  BY DEF Transferred, ParInv, Waits
<1>2. ctx' \in [Rank -> Settings]
  BY <1>1 DEF ParInv, Typed
<1>3. \/ Return(r, TRUE, FALSE) \/ Return(r, FALSE, TRUE)
      \/ Enter(r, Now(r).file, <<"elements", Now(r).file>>, "elements")
  BY DEF Transferred
<1> QED BY <1>1, <1>2, <1>3, QuietReturn, WaitBusyKeepsInv

LEMMA ElementsTransferredKeepsInv ==
    ASSUME ParInv, NEW r \in Rank, ElementsTransferred(r), pos[r] <= Len(prog.calls) PROVE ParInv'
<1>1. Now(r).op \notin OpenOps \cup {"cg_close"} /\ ctx' \in [Rank -> Settings]
  BY DEF ElementsTransferred, ParInv, Typed, Waits
<1> QED BY <1>1, QuietReturn DEF ElementsTransferred

LEMMA LeaveBarrierKeepsInv ==
    ASSUME ParInv, NEW r \in Rank, LeaveBarrier(r), pos[r] <= Len(prog.calls) PROVE ParInv'
<1>1. Now(r).op \notin OpenOps \cup {"cg_close"} /\ ctx' \in [Rank -> Settings]
  BY DEF LeaveBarrier, ParInv, Typed, Waits
<1> QED BY <1>1, QuietReturn DEF LeaveBarrier

LEMMA WriteAloneKeepsInv ==
    ASSUME ParInv, NEW r \in Rank, WriteAlone(r), pos[r] <= Len(prog.calls) PROVE ParInv'
<1>1. Now(r).op \notin OpenOps \cup {"cg_close"} /\ ctx' \in [Rank -> Settings]
  BY DEF WriteAlone, Calls, WriteOps, OpenOps, ParInv, Typed
<1>2. \E ok \in BOOLEAN : Return(r, ok, FALSE)
  BY DEF WriteAlone
<1> QED BY <1>1, <1>2, QuietReturn DEF WriteAlone

\* The handle of one file is gone.
LEMMA HandleGone ==
    ASSUME ParInv, NEW r \in Rank, NEW g, handle' = [handle EXCEPT ![r][g] = NONE]
    PROVE  /\ handle' \in [Rank -> [FileName -> Kinds]]
           /\ \A s \in Rank \ {r} : handle'[s] = handle[s]
           /\ \A f \in FileName : handle'[r][f] = IF f = g THEN NONE ELSE handle[r][f]
BY DEF ParInv, Typed, Kinds

\* A call ends with the handle of its file gone.
LEMMA GoneKeepsInv ==
    ASSUME ParInv, NEW r \in Rank, NEW ok \in BOOLEAN, NEW desert, pos[r] <= Len(prog.calls),
           Return(r, ok, desert), ctx' = ctx,
           handle' = [handle EXCEPT ![r][Now(r).file] = NONE]
    PROVE  ParInv'
<1>1. Ends(r, ok) /\ prog' = prog
  BY ReturnEnds
<1>2. ctx' \in [Rank -> Settings] /\ \A s \in Rank \ {r} : ctx'[s] = ctx[s]
  BY DEF ParInv, Typed
<1>3. /\ handle' \in [Rank -> [FileName -> Kinds]]
      /\ \A s \in Rank \ {r} : handle'[s] = handle[s]
      /\ \A g \in FileName : handle'[r][g] = IF g = Now(r).file THEN NONE ELSE handle[r][g]
  BY HandleGone
<1>4. \A g \in FileName : handle'[r][g] = NONE \/ Lasts(r, g, ok)
  BY <1>3 DEF Lasts, OpensNow, ClosesNow
<1> QED BY <1>1, <1>2, <1>3, <1>4, EndKeepsInv

LEMMA CloseKeepsInv ==
    ASSUME ParInv, NEW r \in Rank, Close(r), pos[r] <= Len(prog.calls) PROVE ParInv'
<1> DEFINE f == Now(r).file
<1>1. ctx' = ctx /\ ctx' \in [Rank -> Settings]
  BY DEF Close, ParInv, Typed
<1>2. CASE handle[r][f] = PARALLEL
  <2>1. Enter(r, f, <<"close", f>>, "close") /\ handle' = handle
    BY <1>2 DEF Close
  <2>2. at'[r] = "close"
    BY <2>1 DEF Enter, ParInv, Typed
  <2>3. Waits(r)' /\ "close" \in Places
    BY <2>2 DEF Waits, Places
  <2> QED BY <1>1, <2>1, <2>3, EnterKeepsInv
<1>3. CASE handle[r][f] # PARALLEL
  <2>1. /\ handle' = [handle EXCEPT ![r][f] = NONE]
        /\ \E ok \in BOOLEAN : Return(r, ok, FALSE)
    BY <1>3 DEF Close
  <2> QED BY <1>1, <2>1, GoneKeepsInv
<1> QED BY <1>2, <1>3

LEMMA ClosedKeepsInv ==
    ASSUME ParInv, NEW r \in Rank, Closed(r), pos[r] <= Len(prog.calls) PROVE ParInv'
BY GoneKeepsInv DEF Closed

LEMMA ErrorExitKeepsInv ==
    ASSUME ParInv, NEW r \in Rank, ErrorExit(r) PROVE ParInv'
<1>1. ctx' = ctx /\ handle' = handle /\ at[r] = "exit"
  BY DEF ErrorExit
<1>2. /\ \E where \in {"exit", "cleanup"} : at' = [at EXCEPT ![r] = where]
      /\ prog' = prog /\ pos' = pos
  BY <1>1 DEF ErrorExit, Enter, ParInv, Typed
<1>3. Waits(r)'
  BY <1>2 DEF Waits, ParInv, Typed
<1>4. ctx' \in [Rank -> Settings] /\ handle' \in [Rank -> [FileName -> Kinds]]
  BY <1>1 DEF ParInv, Typed
<1> QED BY <1>1, <1>2, <1>3, <1>4, MoveKeepsInv DEF Places

LEMMA CleanedUpKeepsInv ==
    ASSUME ParInv, NEW r \in Rank, CleanedUp(r) PROVE ParInv'
<1>1. /\ handle' = [handle EXCEPT ![r][NextToClose(r)] = NONE]
      /\ at' = [at EXCEPT ![r] = "exit"] /\ prog' = prog /\ pos' = pos
      /\ ctx' = ctx /\ ctx' \in [Rank -> Settings]
  BY DEF CleanedUp, ParInv, Typed
<1>2. Waits(r)' /\ "exit" \in Places
  BY <1>1 DEF Waits, ParInv, Typed, Places
<1> QED BY <1>1, <1>2, HandleGone, MoveKeepsInv

LEMMA NextKeepsInv == ParInv /\ Booked /\ [Next]_vars => ParInv'
<1>1. ASSUME ParInv, UNCHANGED vars PROVE ParInv'
  <2>1. prog' = prog /\ pos' = pos /\ at' = at /\ ctx' = ctx /\ handle' = handle
    BY <1>1 DEF vars
  <2>2. ASSUME NEW r \in Rank PROVE Waits(r)' /\ \A f \in FileName : AskedFor(r, f)'
    BY <1>1, <2>1 DEF ParInv, Waits, AskedFor, OpenCalls, ClosesIn, Now
  <2> QED BY <1>1, <2>1, <2>2 DEF ParInv, Typed
<1>2. ASSUME ParInv, Booked, Next PROVE ParInv'
  <2>1. PICK r \in Rank : Step(r)
    BY <1>2 DEF Next
  <2>2. pos[r] <= Len(prog.calls)
    BY <1>2, <2>1, StepsAreInCalls
  <2> QED BY <1>2, <2>1, <2>2, SkipKeepsInv, PioModeKeepsInv, BarrierKeepsInv,
             LeaveBarrierKeepsInv, OpenSerialWriteKeepsInv, MakeFileKeepsInv,
             OpenUncheckedKeepsInv, CheckFileKeepsInv, AwaitCheckKeepsInv, CheckedKeepsInv,
             ParallelOpenKeepsInv, OpenedKeepsInv, WriteRefusedKeepsInv,
             TransferKeepsInv, TransferredKeepsInv, ElementsTransferredKeepsInv,
             WriteAloneKeepsInv, CloseKeepsInv, ClosedKeepsInv, ErrorExitKeepsInv,
             CleanedUpKeepsInv DEF Step
<1> QED BY <1>1, <1>2

----------------------------------------------------------------------------
(* Types                                                                   *)

\* A rank that is in a call stays in it or goes on to the next.
Moves(r) ==
    /\ pos[r] <= Len(prog.calls) /\ prog' = prog
    /\ \/ pos' = pos
       \/ pos' = [pos EXCEPT ![r] = @ + 1] /\ at'[r] = "call"
    /\ \A s \in Rank \ {r} : at'[s] = at[s]
    /\ failed' \subseteq failed \cup {r} /\ deserted' \in BOOLEAN /\ aborted' \in BOOLEAN

LEMMA ReturnMoves ==
    ASSUME ParInv, Booked, NEW r \in Rank, pos[r] <= Len(prog.calls),
           NEW ok, NEW desert, Return(r, ok, desert)
    PROVE  Moves(r)
<1>1. deserted' \in BOOLEAN
  BY DEF Return
<1> QED BY <1>1 DEF Return, Moves, ParInv, Typed, Booked

LEMMA EnterMoves ==
    ASSUME ParInv, Booked, NEW r \in Rank, pos[r] <= Len(prog.calls),
           NEW comm, NEW what, NEW where, Enter(r, comm, what, where)
    PROVE  Moves(r)
BY DEF Enter, Moves, ParInv, Typed, Booked

LEMMA FinishMoves ==
    ASSUME ParInv, Booked, NEW r \in Rank, pos[r] <= Len(prog.calls),
           NEW accessMode, FinishOpen(r, accessMode)
    PROVE  Moves(r)
BY ReturnMoves, EnterMoves DEF FinishOpen

LEMMA StepMoves ==
    ASSUME ParInv, Booked, NEW r \in Rank, Step(r)
    PROVE  Moves(r)
<1>1. pos[r] <= Len(prog.calls)
  BY StepsAreInCalls
<1>2. \A ok, desert : Return(r, ok, desert) => Moves(r)
  BY <1>1, ReturnMoves
<1>3. \A comm, what, where : Enter(r, comm, what, where) => Moves(r)
  BY <1>1, EnterMoves
<1>4. \A accessMode : FinishOpen(r, accessMode) => Moves(r)
  BY <1>1, FinishMoves
<1>5. CASE Skip(r)
  BY <1>1, <1>5 DEF Skip, Moves, ParInv, Typed, Booked
<1>6. CASE PioMode(r) \/ Barrier(r) \/ LeaveBarrier(r) \/ AwaitCheck(r) \/ MakeFile(r)
  BY <1>2, <1>3, <1>6 DEF PioMode, Barrier, LeaveBarrier, AwaitCheck, MakeFile
<1>7. CASE OpenUnchecked(r) \/ CheckFile(r) \/ Checked(r) \/ ParallelOpen(r) \/ Opened(r)
  BY <1>2, <1>3, <1>4, <1>7 DEF OpenUnchecked, CheckFile, Checked, ParallelOpen, Opened
<1>8. CASE WriteRefused(r) \/ Transfer(r) \/ Transferred(r) \/ ElementsTransferred(r)
           \/ WriteAlone(r)
  BY <1>2, <1>3, <1>8 DEF WriteRefused, Transfer, Transferred, ElementsTransferred, WriteAlone
<1>9. CASE Close(r) \/ Closed(r)
  BY <1>2, <1>3, <1>9 DEF Close, Closed
<1>10. CASE ErrorExit(r)
  <2>1. CASE InParallel(r) = {}
    BY <1>1, <1>10, <2>1 DEF ErrorExit, Moves, ParInv, Typed, Booked
  <2> QED BY <1>3, <1>10, <2>1 DEF ErrorExit
<1>11. CASE CleanedUp(r)
  BY <1>1, <1>11 DEF CleanedUp, Moves, ParInv, Typed, Booked
<1>12. CASE OpenSerialWrite(r)
  BY <1>1, <1>12 DEF OpenSerialWrite, Moves, ParInv, Typed, Booked
<1> QED BY <1>5, <1>6, <1>7, <1>8, <1>9, <1>10, <1>11, <1>12 DEF Step

\* What a rank writes is a part of its file.
LEMMA PartsAreCells ==
    ASSUME ParInv, NEW r \in Rank, pos[r] <= Len(prog.calls), NEW d \in {"data", "elements"}
    PROVE  Now(r).file \in FileName /\ Part(r, d) \subseteq Cells
<1>1. Len(prog.calls) \in Nat /\ pos[r] \in Nat \ {0} /\ prog.calls \in Seq(ProgramCall)
  BY ProgramAssumption DEF ParInv, Typed
<1>2. prog.calls[pos[r]] \in ProgramCall
  BY <1>1
<1>3. Now(r).file \in FileName
  BY <1>2 DEF Now, ProgramCall
<1> QED BY <1>3 DEF Part, Cells

LEMMA DatasetsAre == \A op : Datasets(op) \subseteq {"data", "elements"}
BY DEF Datasets

LEMMA StepKeepsParts ==
    ASSUME ParInv, Booked, NEW r \in Rank, Step(r)
    PROVE  present' \subseteq FileName /\ written' \subseteq Cells /\ claimed' \subseteq Cells
<1>1. pos[r] <= Len(prog.calls)
  BY StepsAreInCalls
<1>2. Now(r).file \in FileName /\ \A d \in {"data", "elements"} : Part(r, d) \subseteq Cells
  BY <1>1, PartsAreCells
<1>3. \A D \in SUBSET {"data", "elements"} : UNION {Part(r, d) : d \in D} \subseteq Cells
  BY <1>2
<1>4. present \subseteq FileName /\ written \subseteq Cells /\ claimed \subseteq Cells
  BY DEF Booked
<1>5. CASE OpenSerialWrite(r) \/ MakeFile(r) \/ ParallelOpen(r)
  BY <1>2, <1>4, <1>5 DEF OpenSerialWrite, MakeFile, ParallelOpen
<1>6. CASE Transferred(r)
  BY <1>2, <1>4, <1>6 DEF Transferred
<1>7. CASE ElementsTransferred(r)
  <2>1. UNION {Part(r, d) : d \in Datasets(Now(r).op)} \subseteq Cells
    BY <1>3, DatasetsAre
  <2> QED BY <1>2, <1>4, <1>7, <2>1 DEF ElementsTransferred
<1>8. CASE WriteAlone(r)
  <2> DEFINE parts == Datasets(Now(r).op)
             done == IF Offered(r) = "misfit" THEN parts \ {"elements"} ELSE parts
  <2>1. done \subseteq {"data", "elements"} /\ parts \subseteq {"data", "elements"}
    BY DatasetsAre
  <2>2. /\ UNION {Part(r, d) : d \in parts} \subseteq Cells
        /\ UNION {Part(r, d) : d \in done} \subseteq Cells
    BY <1>3, <2>1
  <2>3. /\ written' = written \cup UNION {Part(r, d) : d \in done}
        /\ claimed' \in {claimed, claimed \cup UNION {Part(r, d) : d \in parts}}
        /\ present' = present
    BY <1>8 DEF WriteAlone
  <2> QED BY <1>4, <2>2, <2>3
<1>9. CASE UNCHANGED <<present, written, claimed>>
  BY <1>4, <1>9
<1>10. \/ OpenSerialWrite(r) \/ MakeFile(r) \/ ParallelOpen(r) \/ Transferred(r)
       \/ ElementsTransferred(r) \/ WriteAlone(r) \/ UNCHANGED <<present, written, claimed>>
  BY DEF Step, Skip, PioMode, Barrier, LeaveBarrier, OpenUnchecked, CheckFile, AwaitCheck,
         Checked, Opened, WriteRefused, Transfer, Close, Closed, ErrorExit, CleanedUp
<1> QED BY <1>5, <1>6, <1>7, <1>8, <1>9, <1>10

LEMMA NextKeepsBooked == ParInv /\ Booked /\ [Next]_vars => Booked'
<1>1. ASSUME ParInv, Booked, NEW r \in Rank, Step(r) PROVE Booked'
  <2>1. Moves(r)
    BY <1>1, StepMoves
  <2>2. ASSUME NEW s \in Rank
        PROVE  /\ pos'[s] <= Len(prog'.calls) + 1
               /\ at'[s] # "call" => pos'[s] <= Len(prog'.calls)
    <3>1. /\ Len(prog.calls) \in Nat /\ pos \in [Rank -> Nat \ {0}]
      BY <1>1, ProgramAssumption DEF ParInv, Typed
    <3>2. CASE s = r
      BY <1>1, <2>1, <3>1, <3>2 DEF Moves
    <3>3. CASE s # r
      BY <1>1, <2>1, <3>1, <3>3 DEF Moves, Booked
    <3> QED BY <3>2, <3>3
  <2>3. failed' \subseteq Rank /\ deserted' \in BOOLEAN /\ aborted' \in BOOLEAN
    BY <1>1, <2>1 DEF Moves, Booked
  <2> QED BY <1>1, <2>2, <2>3, StepKeepsParts DEF Booked
<1>2. ASSUME Booked, UNCHANGED vars PROVE Booked'
  BY <1>2 DEF vars, Booked
<1> QED BY <1>1, <1>2 DEF Next

LEMMA InitBooked == Init => Booked
<1> SUFFICES ASSUME Init PROVE Booked
  OBVIOUS
<1>1. Len(prog.calls) \in Nat
  BY ProgramAssumption DEF Init
<1>2. \A r \in Rank : pos[r] = 1 /\ at[r] = "call"
  BY DEF Init
<1>3. \A r \in Rank : /\ pos[r] <= Len(prog.calls) + 1
                      /\ at[r] # "call" => pos[r] <= Len(prog.calls)
  BY <1>1, <1>2
<1>4. deserted \in BOOLEAN /\ aborted \in BOOLEAN
  BY DEF Init
<1>5. /\ present \subseteq FileName /\ written \subseteq Cells /\ claimed \subseteq Cells
      /\ failed \subseteq Rank
  BY RankAssumption DEF Init
<1> QED BY <1>3, <1>4, <1>5 DEF Booked

\* A file that a rank has open is open as the rank last asked for it, in a program
\* that closes a file before it opens it again: with the MPI driver after cgp_open
\* and on the rank alone after cg_open, whatever mode an earlier cgp_open left in
\* ctx_cgio.  (Without the rule, a rank of which a second open fails keeps the first.)
THEOREM FilesAreOpenAsAsked == Spec => [](ClosesFirst(prog) => OpenedAsAsked)
<1>1. ParInv => (ClosesFirst(prog) => OpenedAsAsked)
  BY DEF ParInv, AskedFor, OpenedAsAsked
<1>2. QED
  BY <1>1, InitParInv, InitBooked, NextKeepsInv, NextKeepsBooked, PTL DEF Spec

\* The variables stay of their types, and a rank that waits is inside one of its calls.
THEOREM ParallelFilesAreTyped == Spec => []TypeOK
<1>1. ParInv /\ Booked => TypeOK
  <2> SUFFICES ASSUME ParInv, Booked PROVE TypeOK
    OBVIOUS
  <2>1. Len(prog.calls) \in Nat
    BY ProgramAssumption DEF ParInv, Typed
  <2>2. pos \in [Rank -> 1 .. Len(prog.calls) + 1]
    BY <2>1 DEF ParInv, Typed, Booked
  <2> QED BY <2>2 DEF ParInv, Typed, Booked, Kinds, TypeOK
<1> QED BY <1>1, InitBooked, InitParInv, NextKeepsInv, NextKeepsBooked, PTL DEF Spec

----------------------------------------------------------------------------
(* What is written is in the file                                          *)
(*                                                                         *)
(* The close of a parallel file is a collective: a rank that has left the  *)
(* file left it at a close that all ranks have entered (LeftTogether).  A  *)
(* rank between the two datasets of a write has entered none since, so     *)
(* every rank still has the file open (HeldByAll) and does not open it.    *)

Entries == ({"open", "bcast", "data", "elements", "close"} \X FileName) \cup {<<"barrier">>}
LastOf(r, f) == coll[r][f][Len(coll[r][f])]

\* All ranks have entered, at place k, the collective that r has there.
Agreed(r, f, k) == \A s \in Rank : k \in DOMAIN coll[s][f] /\ coll[s][f][k] = coll[r][f][k]

\* The last collective of r on f is a close that every rank has entered.
Shut(r, f) ==
    coll[r][f] # <<>> => LastOf(r, f) = <<"close", f>> /\ Agreed(r, f, Len(coll[r][f]))

\* cg_is_cgns is closing f again.
ClosesTest(r, f) == at[r] = "close" /\ Now(r).op = "cg_is_cgns" /\ Now(r).file = f

\* A rank that waits has entered the collective its place is named for.
InCollective(r) ==
    LET f == Now(r).file
    IN  /\ at[r] \in {"data", "elements"} =>
              /\ Now(r).op \in WriteOps /\ handle[r][f] = PARALLEL
              /\ coll[r][f] # <<>> /\ LastOf(r, f) = <<at[r], f>>
        /\ at[r] = "elements" =>
              /\ Len(coll[r][f]) > 1
              /\ coll[r][f][Len(coll[r][f]) - 1] = <<"data", f>>
              /\ Agreed(r, f, Len(coll[r][f]) - 1)
              /\ Part(r, "data") \subseteq written
        /\ at[r] = "close" =>
              /\ Now(r).op \in {"cg_close", "cg_is_cgns"}
              /\ coll[r][f] # <<>> /\ LastOf(r, f) = <<"close", f>>
        /\ at[r] = "cleanup" =>
              LET g == NextToClose(r)
              IN  InParallel(r) # {} /\ coll[r][g] # <<>> /\ LastOf(r, g) = <<"close", g>>
        /\ at[r] = "barrier" => Now(r).op = "MPI_Barrier"

\* A rank that does not have f open in parallel is done with it together with all.
LeftTogether(r, f) == handle[r][f] # PARALLEL => Shut(r, f) \/ ClosesTest(r, f)

\* The inductive invariant, beside ParInv and Booked.
WrittenInv ==
    /\ coll \in [Rank -> [Comm -> Seq(Entries)]]
    /\ \A r \in Rank : InCollective(r)
    /\ \A r \in Rank, f \in FileName : LeftTogether(r, f)
    /\ OkIsInFile

----------------------------------------------------------------------------
(* What the steps do to the sequences of collectives                       *)

\* A rank that makes its step is in a call of the program, on a file of it.
LEMMA NowIsACall ==
    ASSUME ParInv, Booked, NEW r \in Rank, pos[r] <= Len(prog.calls)
    PROVE  /\ Len(prog.calls) \in Nat /\ pos[r] \in DOMAIN prog.calls
           /\ DOMAIN prog.calls = 1 .. Len(prog.calls)
           /\ Now(r).file \in FileName
<1>1. Len(prog.calls) \in Nat /\ pos[r] \in Nat \ {0} /\ prog.calls \in Seq(ProgramCall)
  BY ProgramAssumption DEF ParInv, Typed
<1>2. prog.calls[pos[r]] \in ProgramCall
  BY <1>1
<1>3. Now(r).file \in FileName
  BY <1>2 DEF Now, ProgramCall
<1> QED BY <1>1, <1>3

\* At most one rank has entered at most one collective more.
Adds(r) ==
    \/ coll' = coll
    \/ \E c \in Comm, e \in Entries : coll' = [coll EXCEPT ![r][c] = Append(@, e)]

LEMMA EnterAdds ==
    ASSUME NEW r, NEW c \in Comm, NEW e \in Entries, NEW where, Enter(r, c, e, where)
    PROVE  Adds(r)
BY DEF Enter, Adds

LEMMA StepAdds ==
    ASSUME ParInv, Booked, NEW r \in Rank, Step(r)
    PROVE  Adds(r)
<1> DEFINE f == Now(r).file
<1>1. f \in FileName
  BY StepsAreInCalls, NowIsACall
<1>2. \A what \in {"open", "bcast", "data", "elements", "close"} : <<what, f>> \in Entries
  BY <1>1 DEF Entries
<1>3. <<"barrier">> \in Entries
  BY DEF Entries
<1>4. Lib \in Comm /\ World \in Comm /\ f \in Comm
  BY <1>1 DEF Comm
<1>5. \A mode : FinishOpen(r, mode) => Adds(r)
  BY <1>2, <1>4, EnterAdds DEF FinishOpen, Adds
<1>6. CASE CheckFile(r)
  BY <1>2, <1>4, <1>5, <1>6, EnterAdds DEF CheckFile, Adds
<1>7. CASE OpenUnchecked(r) \/ AwaitCheck(r) \/ Checked(r) \/ ParallelOpen(r)
  BY <1>2, <1>4, <1>5, <1>7, EnterAdds DEF OpenUnchecked, AwaitCheck, Checked, ParallelOpen
<1>8. CASE Opened(r) \/ Transfer(r) \/ Transferred(r) \/ Close(r)
  BY <1>2, <1>4, <1>8, EnterAdds DEF Opened, Transfer, Transferred, Close, Adds
<1>9. CASE Barrier(r)
  BY <1>3, <1>4, <1>9, EnterAdds DEF Barrier
<1>10. CASE ErrorExit(r)
  <2>1. CASE InParallel(r) = {}
    BY <1>10, <2>1 DEF ErrorExit, Adds
  <2>2. CASE InParallel(r) # {}
    <3>1. NextToClose(r) \in FileName
      BY <2>2 DEF NextToClose, InParallel
    <3>2. <<"close", NextToClose(r)>> \in Entries /\ NextToClose(r) \in Comm
      BY <3>1 DEF Entries, Comm
    <3> QED BY <1>10, <2>2, <3>2, EnterAdds DEF ErrorExit
  <2> QED BY <2>1, <2>2
<1>11. CASE \/ Skip(r) \/ PioMode(r) \/ LeaveBarrier(r) \/ OpenSerialWrite(r) \/ MakeFile(r)
           \/ WriteRefused(r) \/ ElementsTransferred(r) \/ WriteAlone(r) \/ Closed(r) \/ CleanedUp(r)
  BY <1>11 DEF Skip, PioMode, LeaveBarrier, OpenSerialWrite, MakeFile, WriteRefused,
     ElementsTransferred, WriteAlone, Closed, CleanedUp, Adds
<1> QED BY <1>6, <1>7, <1>8, <1>9, <1>10, <1>11 DEF Step

CollTyped == coll \in [Rank -> [Comm -> Seq(Entries)]]

\* What was entered stays, and other ranks enter nothing.
LEMMA Grown ==
    ASSUME CollTyped, NEW r \in Rank, Adds(r)
    PROVE  /\ CollTyped'
           /\ \A s \in Rank \ {r} : coll'[s] = coll[s]
           /\ \A s \in Rank, f \in FileName :
                 /\ DOMAIN coll[s][f] \subseteq DOMAIN coll'[s][f]
                 /\ \A k \in DOMAIN coll[s][f] : coll'[s][f][k] = coll[s][f][k]
<1>1. CASE coll' = coll
  BY <1>1 DEF CollTyped
<1>2. CASE coll' # coll
  <2>1. PICK c \in Comm, e \in Entries : coll' = [coll EXCEPT ![r][c] = Append(@, e)]
    BY <1>2 DEF Adds
  <2>2. coll[r][c] \in Seq(Entries)
    BY DEF CollTyped
  <2>3. /\ Append(coll[r][c], e) \in Seq(Entries)
        /\ DOMAIN coll[r][c] \subseteq DOMAIN Append(coll[r][c], e)
        /\ \A k \in DOMAIN coll[r][c] : Append(coll[r][c], e)[k] = coll[r][c][k]
    BY <2>2, AppendProperties
  <2>4. \A s \in Rank, d \in Comm :
           coll'[s][d] = IF s = r /\ d = c THEN Append(coll[r][c], e) ELSE coll[s][d]
    BY <2>1 DEF CollTyped
  <2>5. CollTyped'
    BY <2>1, <2>3 DEF CollTyped
  <2>6. \A f \in FileName : f \in Comm
    BY DEF Comm
  <2>7. \A s \in Rank \ {r} : coll'[s] = coll[s]
    BY <2>1 DEF CollTyped
  <2> QED BY <2>3, <2>4, <2>5, <2>6, <2>7
<1> QED BY <1>1, <1>2

LEMMA AgreementStays ==
    ASSUME CollTyped, NEW r \in Rank, Adds(r), NEW s \in Rank, NEW f \in FileName,
           NEW k, Agreed(s, f, k)
    PROVE  Agreed(s, f, k)'
BY Grown DEF Agreed

\* A collective on f that was just entered is the last one.
LEMMA EnteredIsLast ==
    ASSUME CollTyped, NEW r \in Rank, NEW f \in FileName, NEW e \in Entries, NEW where,
           Enter(r, f, e, where)
    PROVE  /\ coll'[r][f] # <<>> /\ LastOf(r, f)' = e
           /\ Len(coll'[r][f]) = Len(coll[r][f]) + 1
           /\ \A k \in DOMAIN coll[r][f] : coll'[r][f][k] = coll[r][f][k]
           /\ \A g \in FileName \ {f} : coll'[r][g] = coll[r][g]
<1>1. f \in Comm /\ \A g \in FileName : g \in Comm
  BY DEF Comm
<1>2. coll[r][f] \in Seq(Entries)
  BY <1>1 DEF CollTyped
<1>3. coll'[r][f] = Append(coll[r][f], e)
  BY <1>1 DEF CollTyped, Enter
<1>4. /\ Len(Append(coll[r][f], e)) = Len(coll[r][f]) + 1
      /\ Append(coll[r][f], e)[Len(coll[r][f]) + 1] = e
      /\ \A k \in DOMAIN coll[r][f] : Append(coll[r][f], e)[k] = coll[r][f][k]
      /\ Append(coll[r][f], e) # <<>>
  BY <1>2, AppendProperties
<1>5. \A g \in FileName \ {f} : coll'[r][g] = coll[r][g]
  BY <1>1 DEF CollTyped, Enter
<1> QED BY <1>3, <1>4, <1>5 DEF LastOf

\* A collective of no file leaves those of the files alone.
LEMMA EnteredElsewhere ==
    ASSUME CollTyped, NEW r \in Rank, NEW c \in {Lib, World}, NEW e, NEW where,
           Enter(r, c, e, where)
    PROVE  \A f \in FileName : coll'[r][f] = coll[r][f]
BY CommAssumption DEF CollTyped, Enter, Comm

----------------------------------------------------------------------------
(* No rank opens a file while another is writing it                        *)

\* As long as r is between the two datasets of f, every rank has f open, or is
\* testing it.
LEMMA HeldByAll ==
    ASSUME WrittenInv, NEW r \in Rank, NEW f \in FileName, NEW s \in Rank,
           at[r] = "elements", Now(r).file = f
    PROVE  handle[s][f] = PARALLEL \/ ClosesTest(s, f)
<1> SUFFICES ASSUME handle[s][f] # PARALLEL, ~ ClosesTest(s, f) PROVE FALSE
  OBVIOUS
<1> DEFINE n == Len(coll[r][f])
           m == Len(coll[s][f])
<1>1. /\ n > 1 /\ coll[r][f][n] = <<"elements", f>>
      /\ coll[r][f][n - 1] = <<"data", f>> /\ Agreed(r, f, n - 1)
  BY DEF WrittenInv, InCollective, LastOf
<1>2. /\ coll[r][f] \in Seq(Entries) /\ coll[s][f] \in Seq(Entries)
      /\ n \in Nat /\ m \in Nat
      /\ DOMAIN coll[r][f] = 1 .. n /\ DOMAIN coll[s][f] = 1 .. m
  BY DEF WrittenInv, Comm
<1>3. n - 1 \in DOMAIN coll[s][f] /\ coll[s][f][n - 1] = <<"data", f>>
  BY <1>1 DEF Agreed
<1>4. coll[s][f] # <<>>
  BY <1>2, <1>3
<1>5. Shut(s, f)
  BY DEF WrittenInv, LeftTogether
<1>6. coll[s][f][m] = <<"close", f>> /\ m \in DOMAIN coll[r][f] /\ coll[r][f][m] = <<"close", f>>
  BY <1>4, <1>5 DEF Shut, LastOf, Agreed
<1>7. m = n - 1 \/ m = n
  BY <1>1, <1>2, <1>3, <1>6, SMTT(60)
<1>8. <<"close", f>> # <<"data", f>> /\ <<"close", f>> # <<"elements", f>>
  OBVIOUS
<1> QED BY <1>1, <1>6, <1>7, <1>8

\* A rank that is about to open a file does not have it open.
LEMMA OpensWhatIsClosed ==
    ASSUME KeepsRules, ParInv, NEW s \in Rank, NEW f \in FileName,
           pos[s] <= Len(prog.calls), OpensNow(s, f)
    PROVE  handle[s][f] = NONE
<1> SUFFICES ASSUME handle[s][f] # NONE PROVE FALSE
  OBVIOUS
<1>1. PICK i \in OpenCalls(s, f) : \A k \in i + 1 .. pos[s] - 1 : ~ ClosesIn(prog, k, s, f)
  BY DEF ParInv, AskedFor
<1>2. ClosesFirst(prog)
  BY DEF KeepsRules, ParInv, Typed
<1> QED BY <1>1, <1>2, OpensAfterClose

\* A rank that is about to write to a file that it has open has it in parallel.
LEMMA WritesWhatIsParallel ==
    ASSUME KeepsRules, ParInv, Booked, NEW s \in Rank, pos[s] <= Len(prog.calls),
           Now(s).op \in WriteOps, s \in Now(s).who, handle[s][Now(s).file] # NONE
    PROVE  handle[s][Now(s).file] = PARALLEL
<1> DEFINE f == Now(s).file
<1>1. /\ Len(prog.calls) \in Nat /\ pos[s] \in DOMAIN prog.calls /\ f \in FileName
      /\ DOMAIN prog.calls = 1 .. Len(prog.calls)
      /\ WritesInParallel(prog) /\ ClosesFirst(prog)
  BY NowIsACall DEF KeepsRules, ParInv, Typed
<1>2. PICK i \in OpenCalls(s, f) :
         /\ \A j \in OpenCalls(s, f) : j <= i
         /\ prog.calls[i].op = "cgp_open" <=> handle[s][f] = PARALLEL
  BY <1>1 DEF ParInv, AskedFor
<1>3. i \in 1 .. Len(prog.calls) /\ i < pos[s] /\ OpensIn(prog, i, s, f)
  BY <1>1 DEF OpenCalls, OpensIn, OpenOps
<1>4. ASSUME NEW k \in i + 1 .. pos[s] - 1, OpensIn(prog, k, s, f) PROVE FALSE
  <2>1. k \in OpenCalls(s, f)
    BY <1>1, <1>3, <1>4 DEF OpenCalls, OpensIn, OpenOps
  <2> QED BY <1>1, <1>2, <1>3, <2>1
<1>5. prog.calls[i].op = "cgp_open"
  BY <1>1, <1>3, <1>4 DEF WritesInParallel, Now
<1> QED BY <1>2, <1>5

\* Either nothing is taken out of the files, or a rank opens one anew.
LEMMA WrittenStays ==
    ASSUME ParInv, NEW r \in Rank, Step(r)
    PROVE  \/ written \subseteq written'
           \/ /\ at[r] = "call" /\ OpensNow(r, Now(r).file)
              /\ written' = {w \in written : w[1] # Now(r).file}
<1>1. CASE OpenSerialWrite(r)
  BY <1>1 DEF OpenSerialWrite, Calls, OpensNow, OpenOps
<1>2. CASE ParallelOpen(r)
  BY <1>2 DEF ParallelOpen, Calls, OpensNow, OpenOps
<1>3. CASE Transferred(r) \/ ElementsTransferred(r) \/ WriteAlone(r)
  BY <1>3 DEF Transferred, ElementsTransferred, WriteAlone
<1>4. CASE written' = written
  BY <1>4
<1> QED BY <1>1, <1>2, <1>3, <1>4 DEF Step, Skip, PioMode, Barrier, LeaveBarrier,
        MakeFile, OpenUnchecked, CheckFile, AwaitCheck, Checked, Opened, WriteRefused, Transfer, Close,
        Closed, ErrorExit, CleanedUp

LEMMA WrittenIsKept ==
    ASSUME KeepsRules, ParInv, Booked, WrittenInv, NEW r \in Rank, Step(r),
           NEW s \in Rank, at[s] = "elements"
    PROVE  Part(s, "data") \subseteq written'
<1> DEFINE f == Now(s).file
<1>1. Part(s, "data") \subseteq written
  BY DEF WrittenInv, InCollective
<1>2. CASE written \subseteq written'
  BY <1>1, <1>2
<1>3. CASE /\ at[r] = "call" /\ OpensNow(r, Now(r).file)
           /\ written' = {w \in written : w[1] # Now(r).file}
  <2>1. pos[r] <= Len(prog.calls) /\ pos[s] <= Len(prog.calls)
    BY StepsAreInCalls DEF Booked
  <2>2. Now(r).file \in FileName /\ f \in FileName
    BY <2>1, NowIsACall
  <2>3. handle[r][Now(r).file] = NONE
    BY <1>3, <2>1, <2>2, OpensWhatIsClosed
  <2>4. Now(r).file # f
    <3>1. handle[r][f] = PARALLEL \/ ClosesTest(r, f)
      BY <2>2, HeldByAll
    <3> QED BY <1>3, <2>3, <3>1 DEF ClosesTest, NONE, PARALLEL
  <2>5. \A w \in Part(s, "data") : w[1] = f
    BY DEF Part
  <2> QED BY <1>1, <1>3, <2>4, <2>5
<1> QED BY <1>2, <1>3, WrittenStays

----------------------------------------------------------------------------
(* The other ranks                                                         *)

LEMMA StepIsOfOneRank ==
    ASSUME ParInv, NEW r \in Rank, Step(r), NEW s \in Rank, s # r
    PROVE  pos'[s] = pos[s] /\ at'[s] = at[s] /\ handle'[s] = handle[s] /\ prog' = prog
<1>1. \A ok, desert : Return(r, ok, desert) =>
         pos'[s] = pos[s] /\ at'[s] = at[s] /\ prog' = prog
  BY DEF Return, ParInv, Typed
<1>2. \A c, what, where : Enter(r, c, what, where) =>
         pos'[s] = pos[s] /\ at'[s] = at[s] /\ prog' = prog
  BY DEF Enter, ParInv, Typed
<1>3. ASSUME NEW g, NEW how, handle' = [handle EXCEPT ![r][g] = how]
      PROVE  handle'[s] = handle[s]
  BY <1>3 DEF ParInv, Typed
<1>4. ASSUME NEW mode, FinishOpen(r, mode)
      PROVE  pos'[s] = pos[s] /\ at'[s] = at[s] /\ handle'[s] = handle[s] /\ prog' = prog
  BY <1>1, <1>2, <1>3, <1>4 DEF FinishOpen
<1>5. CASE Skip(r) \/ PioMode(r) \/ Barrier(r) \/ LeaveBarrier(r) \/ OpenSerialWrite(r)
  BY <1>1, <1>2, <1>3, <1>5 DEF Skip, PioMode, Barrier, LeaveBarrier, OpenSerialWrite, ParInv, Typed
<1>6. CASE OpenUnchecked(r) \/ CheckFile(r) \/ AwaitCheck(r) \/ Checked(r) \/ ParallelOpen(r)
  BY <1>1, <1>2, <1>4, <1>6 DEF OpenUnchecked, CheckFile, AwaitCheck, Checked, ParallelOpen
<1>11. CASE MakeFile(r)
  BY <1>1, <1>3, <1>11 DEF MakeFile
<1>7. CASE Opened(r) \/ WriteRefused(r) \/ Transfer(r) \/ Transferred(r) \/ ElementsTransferred(r)
           \/ WriteAlone(r)
  BY <1>1, <1>2, <1>3, <1>7, ZenonT(90)
     DEF Opened, WriteRefused, Transfer, Transferred, ElementsTransferred, WriteAlone
<1>8. CASE Close(r) \/ Closed(r)
  BY <1>1, <1>2, <1>3, <1>8, ZenonT(90) DEF Close, Closed
<1>9. CASE ErrorExit(r)
  BY <1>2, <1>9 DEF ErrorExit
<1>10. CASE CleanedUp(r)
  BY <1>3, <1>10 DEF CleanedUp, ParInv, Typed
<1> QED BY <1>5, <1>6, <1>7, <1>8, <1>9, <1>10, <1>11 DEF Step

LEMMA OthersStay ==
    ASSUME KeepsRules, ParInv, Booked, WrittenInv, NEW r \in Rank, Step(r),
           NEW s \in Rank, s # r
    PROVE  InCollective(s)' /\ \A f \in FileName : LeftTogether(s, f)'
<1>1. pos'[s] = pos[s] /\ at'[s] = at[s] /\ handle'[s] = handle[s] /\ prog' = prog
  BY StepIsOfOneRank
<1>2. CollTyped /\ Adds(r)
  BY StepAdds DEF WrittenInv, CollTyped
<1>3. coll'[s] = coll[s]
  BY <1>2, Grown
<1>4. Now(s)' = Now(s) /\ Part(s, "data")' = Part(s, "data")
  BY <1>1 DEF Now, Part, Offered
<1>5. InParallel(s)' = InParallel(s) /\ NextToClose(s)' = NextToClose(s)
  BY <1>1 DEF InParallel, NextToClose
<1>6. \A f \in FileName : \A k : Agreed(s, f, k) => Agreed(s, f, k)'
  BY <1>2, AgreementStays
<1>7. InCollective(s)'
  <2>1. InCollective(s)
    BY DEF WrittenInv
  <2>2. at[s] = "elements" => Now(s).file \in FileName
    BY NowIsACall DEF Booked
  <2>3. at[s] = "elements" => Part(s, "data") \subseteq written'
    BY WrittenIsKept
  <2>4. at'[s] \in {"data", "elements"} =>
           LET f == Now(s).file
           IN  /\ Now(s).op \in WriteOps /\ handle'[s][f] = PARALLEL
               /\ coll'[s][f] # <<>> /\ coll'[s][f][Len(coll'[s][f])] = <<at'[s], f>>
    BY <1>1, <1>3, <1>4, <2>1 DEF InCollective, LastOf
  <2>5. ASSUME at'[s] = "elements"
        PROVE  LET f == Now(s).file
               IN  /\ Len(coll'[s][f]) > 1
                   /\ coll'[s][f][Len(coll'[s][f]) - 1] = <<"data", f>>
                   /\ Part(s, "data")' \subseteq written'
    BY <1>1, <1>3, <1>4, <2>1, <2>3, <2>5 DEF InCollective
  <2>6. ASSUME at'[s] = "elements"
        PROVE  Agreed(s, Now(s).file, Len(coll[s][Now(s).file]) - 1)'
    <3>1. Agreed(s, Now(s).file, Len(coll[s][Now(s).file]) - 1)
      BY <1>1, <2>1, <2>6 DEF InCollective
    <3>2. \A f \in FileName : Agreed(s, f, Len(coll[s][f]) - 1) =>
             \A t \in Rank : /\ Len(coll[s][f]) - 1 \in DOMAIN coll'[t][f]
                             /\ coll'[t][f][Len(coll[s][f]) - 1] = coll'[s][f][Len(coll[s][f]) - 1]
      BY <1>6 DEF Agreed
    <3> QED BY <1>1, <1>3, <1>4, <2>2, <2>6, <3>1, <3>2 DEF Agreed
  <2>7. at'[s] = "close" =>
           LET f == Now(s).file
           IN  /\ Now(s).op \in {"cg_close", "cg_is_cgns"}
               /\ coll'[s][f] # <<>> /\ coll'[s][f][Len(coll'[s][f])] = <<"close", f>>
    BY <1>1, <1>3, <1>4, <2>1 DEF InCollective, LastOf
  <2>8. at'[s] = "cleanup" =>
           LET g == NextToClose(s)
           IN  InParallel(s)' # {} /\ coll'[s][g] # <<>> /\ coll'[s][g][Len(coll'[s][g])] = <<"close", g>>
    BY <1>1, <1>3, <1>5, <2>1 DEF InCollective, LastOf
  <2>9. at'[s] = "barrier" => Now(s)'.op = "MPI_Barrier"
    BY <1>1, <1>4, <2>1 DEF InCollective
  <2> QED BY <1>3, <1>4, <1>5, <2>4, <2>5, <2>6, <2>7, <2>8, <2>9 DEF InCollective, LastOf
<1>8. ASSUME NEW f \in FileName PROVE LeftTogether(s, f)'
  <2>1. LeftTogether(s, f)
    BY DEF WrittenInv
  <2>2. Shut(s, f) => Shut(s, f)'
    BY <1>3, <1>6 DEF Shut, LastOf
  <2> QED BY <1>1, <1>4, <2>1, <2>2 DEF LeftTogether, ClosesTest
<1> QED BY <1>7, <1>8

\* A rank that is not waiting for a close has left its files with all others.
LEMMA LeftIsShut ==
    ASSUME WrittenInv, NEW r \in Rank, NEW f \in FileName, handle[r][f] # PARALLEL,
           at[r] # "close" \/ Now(r).file # f
    PROVE  Shut(r, f)
BY DEF WrittenInv, LeftTogether, ClosesTest

Together(r) == InCollective(r) /\ \A f \in FileName : LeftTogether(r, f)

\* A call is over: what is not open in parallel has been shut.
LEMMA OverIsTogether ==
    ASSUME NEW r, at'[r] \in {"call", "exit"}, coll' = coll,
           \A f \in FileName : handle'[r][f] # PARALLEL => Shut(r, f)
    PROVE  Together(r)'
<1>1. InCollective(r)'
  BY DEF InCollective
<1>2. \A f \in FileName : Shut(r, f) => Shut(r, f)'
  BY DEF Shut, LastOf, Agreed
<1> QED BY <1>1, <1>2 DEF Together, LeftTogether

\* So it is when the call leaves open in parallel what was.
LEMMA QuietIsTogether ==
    ASSUME ParInv, WrittenInv, NEW r \in Rank, at[r] # "close",
           NEW ok, NEW desert, Return(r, ok, desert), coll' = coll,
           \A f \in FileName : handle'[r][f] # PARALLEL => handle[r][f] # PARALLEL
    PROVE  Together(r)'
<1>1. at'[r] \in {"call", "exit"}
  BY DEF Return, ParInv, Typed
<1> QED BY <1>1, LeftIsShut, OverIsTogether

\* A rank waits for a collective that is of no file.
LEMMA AsideIsTogether ==
    ASSUME ParInv, WrittenInv, NEW r \in Rank, Adds(r), at[r] # "close",
           NEW c \in {Lib, World}, NEW e, NEW where \in {"open", "checked", "barrier"},
           Enter(r, c, e, where), handle' = handle,
           where = "barrier" => Now(r).op = "MPI_Barrier"
    PROVE  Together(r)'
<1>1. at'[r] = where /\ Now(r)' = Now(r)
  BY EnteredStands, Zenon
<1>2. InCollective(r)'
  BY <1>1 DEF InCollective
<1>3. ASSUME NEW f \in FileName PROVE LeftTogether(r, f)'
  <2>1. CollTyped
    BY DEF WrittenInv, CollTyped
  <2>2. coll'[r][f] = coll[r][f]
    BY <2>1, EnteredElsewhere
  <2>3. Shut(r, f) => Shut(r, f)'
    BY <2>1, <2>2, AgreementStays DEF Shut, LastOf
  <2> QED BY <2>3, LeftIsShut DEF LeftTogether
<1> QED BY <1>2, <1>3 DEF Together

\* A rank waits for a collective on a file that it has open, or tests.
LEMMA EnteredIsTogether ==
    ASSUME ParInv, WrittenInv, NEW r \in Rank, Adds(r), at[r] # "close",
           NEW f \in FileName, NEW e \in Entries, NEW where \in Places,
           Enter(r, f, e, where), handle' = handle,
           \/ handle[r][f] = PARALLEL
           \/ where = "close" /\ Now(r).op = "cg_is_cgns" /\ Now(r).file = f
    PROVE  \A g \in FileName : LeftTogether(r, g)'
<1>1. at'[r] = where /\ Now(r)' = Now(r)
  BY EnteredStands, Zenon
<1>2. CollTyped
  BY DEF WrittenInv, CollTyped
<1>3. LeftTogether(r, f)'
  BY <1>1 DEF LeftTogether, ClosesTest
<1>4. ASSUME NEW g \in FileName \ {f} PROVE LeftTogether(r, g)'
  <2>1. coll'[r][g] = coll[r][g]
    BY <1>2, EnteredIsLast
  <2>2. Shut(r, g) => Shut(r, g)'
    BY <1>2, <2>1, AgreementStays DEF Shut, LastOf
  <2> QED BY <2>2, LeftIsShut DEF LeftTogether
<1> QED BY <1>3, <1>4

\* The open of a file that the rank does not have open.
LEMMA FinishIsTogether ==
    ASSUME ParInv, WrittenInv, NEW r \in Rank, Adds(r), at[r] # "close",
           NEW mode, FinishOpen(r, mode), handle[r][Now(r).file] = NONE \/ Now(r).op = "cg_is_cgns"
    PROVE  Together(r)'
<1> DEFINE f == Now(r).file
<1>1. CASE Return(r, FALSE, FALSE) /\ handle' = handle /\ coll' = coll
  BY <1>1, QuietIsTogether
<1>2. CASE Enter(r, Lib, <<"open", f>>, "open") /\ handle' = handle
  BY <1>2, AsideIsTogether
<1>3. CASE /\ Return(r, TRUE, FALSE) /\ coll' = coll
           /\ handle' = IF Now(r).op = "cg_is_cgns" THEN handle
                        ELSE [handle EXCEPT ![r][f] = NATIVE]
  <2>1. \A g \in FileName : handle'[r][g] # PARALLEL => handle[r][g] # PARALLEL
    BY <1>3 DEF ParInv, Typed, NONE, PARALLEL
  <2> QED BY <1>3, <2>1, QuietIsTogether
<1> QED BY <1>1, <1>2, <1>3 DEF FinishOpen

\* A collective on f is complete: all ranks have entered the one r waits in.
LEMMA CompleteIsAgreed ==
    ASSUME NEW r \in Rank, NEW f, Complete(r, f)
    PROVE  Agreed(r, f, Len(coll[r][f]))
BY DEF Complete, Agreed

LEMMA OpeningIsTogether ==
    ASSUME KeepsRules, ParInv, Booked, WrittenInv, NEW r \in Rank,
           \/ OpenSerialWrite(r) \/ MakeFile(r) \/ OpenUnchecked(r) \/ CheckFile(r)
           \/ AwaitCheck(r) \/ Checked(r) \/ ParallelOpen(r)
    PROVE  Together(r)'
<1> DEFINE f == Now(r).file
<1>1. Step(r)
  BY DEF Step
<1>2. pos[r] <= Len(prog.calls) /\ f \in FileName /\ Adds(r)
  BY <1>1, StepsAreInCalls, NowIsACall, StepAdds
<1>3. OpensNow(r, f) => handle[r][f] = NONE
  BY <1>2, OpensWhatIsClosed
<1>4. CASE OpenSerialWrite(r)
  <2>1. /\ at[r] = "call" /\ coll' = coll /\ handle' = handle
        /\ at' = [at EXCEPT ![r] = "unlinked"]
    BY <1>4 DEF OpenSerialWrite, Calls
  <2>2. InCollective(r)'
    BY <2>1 DEF InCollective, ParInv, Typed
  <2>3. \A g \in FileName : Shut(r, g) => Shut(r, g)'
    BY <2>1 DEF Shut, LastOf, Agreed
  <2> QED BY <2>1, <2>2, <2>3, LeftIsShut DEF Together, LeftTogether
<1>9. CASE MakeFile(r)
  <2>1. at[r] = "unlinked" /\ coll' = coll
    BY <1>9 DEF MakeFile
  <2>2. OpensNow(r, f)
    BY <2>1 DEF ParInv, Waits, OpensNow, OpenOps
  <2>3. \/ Return(r, TRUE, FALSE) /\ handle' = [handle EXCEPT ![r][f] = MADE]
        \/ Return(r, FALSE, FALSE) /\ handle' = handle
    BY <1>9 DEF MakeFile
  <2>4. handle[r][f] # PARALLEL
    BY <1>3, <2>2 DEF NONE, PARALLEL
  <2>5. \A g \in FileName \ {f} : handle'[r][g] = handle[r][g]
    BY <2>3 DEF ParInv, Typed
  <2>6. \A g \in FileName : handle'[r][g] # PARALLEL => handle[r][g] # PARALLEL
    BY <2>4, <2>5
  <2> QED BY <2>1, <2>3, <2>6, QuietIsTogether
<1>5. CASE OpenUnchecked(r)
  BY <1>2, <1>3, <1>5, FinishIsTogether DEF OpenUnchecked, Calls, OpensNow, OpenOps
<1>6. CASE CheckFile(r) \/ AwaitCheck(r)
  <2>1. Probes(r) /\ at[r] = "call"
    BY <1>6 DEF CheckFile, AwaitCheck, Probes, Calls
  <2>2. handle[r][f] = NONE \/ Now(r).op = "cg_is_cgns"
    BY <1>3, <2>1, ProbesOpen DEF OpensNow, OpenOps
  <2>3. CASE FinishOpen(r, ModeForOpen(r))
    BY <1>2, <2>1, <2>2, <2>3, FinishIsTogether
  <2>4. CASE Enter(r, Lib, <<"bcast", f>>, "checked") /\ handle' = handle
    BY <1>2, <2>1, <2>4, AsideIsTogether
  <2>5. CASE Return(r, FALSE, TRUE) /\ handle' = handle /\ coll' = coll
    BY <2>1, <2>5, QuietIsTogether
  <2> QED BY <1>6, <2>3, <2>4, <2>5 DEF CheckFile, AwaitCheck
<1>7. CASE Checked(r)
  <2>1. at[r] = "checked" /\ FinishOpen(r, ctx[r].mode)
    BY <1>7 DEF Checked
  <2>2. Now(r).op \in {"cg_open", "cg_is_cgns"} /\ r \in Now(r).who
    BY <2>1 DEF ParInv, Waits
  <2>3. handle[r][f] = NONE \/ Now(r).op = "cg_is_cgns"
    BY <1>3, <2>2 DEF OpensNow, OpenOps
  <2> QED BY <1>2, <2>1, <2>3, FinishIsTogether
<1>8. CASE ParallelOpen(r)
  <2>1. at[r] = "call" /\ OpensNow(r, f)
    BY <1>8 DEF ParallelOpen, Calls, OpensNow, OpenOps
  <2>2. CASE FinishOpen(r, PARALLEL)
    BY <1>2, <1>3, <2>1, <2>2, FinishIsTogether
  <2>3. CASE Enter(r, Lib, <<"open", f>>, "open") /\ handle' = handle
    BY <1>2, <2>1, <2>3, AsideIsTogether
  <2> QED BY <1>8, <2>2, <2>3 DEF ParallelOpen
<1> QED BY <1>4, <1>5, <1>6, <1>7, <1>8, <1>9

LEMMA OpenedIsTogether ==
    ASSUME ParInv, Booked, WrittenInv, NEW r \in Rank, Opened(r)
    PROVE  Together(r)'
<1> DEFINE f == Now(r).file
<1>1. Step(r)
  BY DEF Step
<1>2. f \in FileName /\ Adds(r) /\ at[r] = "open"
  BY <1>1, StepsAreInCalls, NowIsACall, StepAdds DEF Opened
<1>3. CASE Now(r).op = "cg_is_cgns"
  <2>1. Enter(r, f, <<"close", f>>, "close") /\ handle' = handle
    BY <1>3 DEF Opened
  <2>2. <<"close", f>> \in Entries /\ "close" \in Places
    BY <1>2 DEF Entries, Places
  <2>3. \A g \in FileName : LeftTogether(r, g)'
    BY SMTT(60), <1>2, <1>3, <2>1, <2>2, EnteredIsTogether
  <2>4. at'[r] = "close" /\ Now(r)' = Now(r)
    BY <2>1, EnteredStands, Zenon
  <2>5. coll'[r][f] # <<>> /\ coll'[r][f][Len(coll'[r][f])] = <<"close", f>>
    BY <1>2, <2>1, <2>2, EnteredIsLast DEF WrittenInv, CollTyped, LastOf
  <2>6. InCollective(r)'
    BY <1>3, <2>4, <2>5 DEF InCollective, LastOf
  <2> QED BY <2>3, <2>6 DEF Together
<1>4. CASE Now(r).op # "cg_is_cgns"
  <2>1. /\ Return(r, TRUE, FALSE) /\ handle' = [handle EXCEPT ![r][f] = PARALLEL]
        /\ coll' = coll
    BY <1>4 DEF Opened
  <2>2. \A g \in FileName : handle'[r][g] # PARALLEL => handle[r][g] # PARALLEL
    BY <1>2, <2>1 DEF ParInv, Typed
  <2> QED BY <1>2, <2>1, <2>2, QuietIsTogether
<1> QED BY <1>3, <1>4

LEMMA TransferIsTogether ==
    ASSUME KeepsRules, ParInv, Booked, WrittenInv, NEW r \in Rank, Transfer(r)
    PROVE  Together(r)'
<1> DEFINE f == Now(r).file
<1>1. Step(r)
  BY DEF Step
<1>2. pos[r] <= Len(prog.calls) /\ f \in FileName /\ Adds(r)
  BY <1>1, StepsAreInCalls, NowIsACall, StepAdds
<1>3. /\ at[r] = "call" /\ Now(r).op \in WriteOps /\ r \in Now(r).who /\ handle[r][f] # NONE
      /\ Enter(r, f, <<"data", f>>, "data") /\ handle' = handle
  BY DEF Transfer, Calls
<1>4. handle[r][f] = PARALLEL
  BY <1>2, <1>3, WritesWhatIsParallel
<1>5. <<"data", f>> \in Entries /\ "data" \in Places
  BY <1>2 DEF Entries, Places
<1>6. \A g \in FileName : LeftTogether(r, g)'
  BY <1>2, <1>3, <1>4, <1>5, EnteredIsTogether, SMTT(60)
<1>7. at'[r] = "data" /\ Now(r)' = Now(r)
  BY <1>3, EnteredStands, Zenon
<1>8. coll'[r][f] # <<>> /\ coll'[r][f][Len(coll'[r][f])] = <<"data", f>>
  BY <1>2, <1>3, <1>5, EnteredIsLast DEF WrittenInv, CollTyped, LastOf
<1>9. InCollective(r)'
  BY <1>3, <1>4, <1>7, <1>8 DEF InCollective, LastOf
<1> QED BY <1>6, <1>9 DEF Together

LEMMA TransferredIsTogether ==
    ASSUME ParInv, Booked, WrittenInv, NEW r \in Rank, Transferred(r)
    PROVE  Together(r)'
<1> DEFINE f == Now(r).file
           n == Len(coll[r][f])
<1>1. Step(r)
  BY DEF Step
<1>2. pos[r] <= Len(prog.calls) /\ f \in FileName /\ Adds(r)
  BY <1>1, StepsAreInCalls, NowIsACall, StepAdds
<1>3. at[r] = "data" /\ Complete(r, f) /\ handle' = handle
      /\ written' = written \cup Part(r, "data")
  BY DEF Transferred
<1>4. CASE coll' = coll /\ \E ok, desert : Return(r, ok, desert)
  BY <1>3, <1>4, QuietIsTogether
<1>5. CASE Enter(r, f, <<"elements", f>>, "elements")
  <2>1. /\ Now(r).op \in WriteOps /\ handle[r][f] = PARALLEL
        /\ coll[r][f] # <<>> /\ coll[r][f][n] = <<"data", f>>
    BY <1>3 DEF WrittenInv, InCollective, LastOf
  <2>2. <<"elements", f>> \in Entries /\ "elements" \in Places
    BY <1>2 DEF Entries, Places
  <2>3. \A g \in FileName : LeftTogether(r, g)'
    BY <1>2, <1>3, <1>5, <2>1, <2>2, EnteredIsTogether
  <2>4. at'[r] = "elements" /\ Now(r)' = Now(r)
    BY <1>5, EnteredStands, Zenon
  <2>5. CollTyped /\ coll[r][f] \in Seq(Entries)
    BY <1>2 DEF WrittenInv, CollTyped, Comm
  <2>6. n \in Nat /\ n > 0 /\ n \in DOMAIN coll[r][f]
    BY <2>1, <2>5
  <2>7. /\ coll'[r][f] # <<>> /\ coll'[r][f][Len(coll'[r][f])] = <<"elements", f>>
        /\ Len(coll'[r][f]) = n + 1 /\ coll'[r][f][n] = coll[r][f][n]
    BY <1>2, <1>5, <2>2, <2>5, <2>6, EnteredIsLast, SMTT(60) DEF LastOf
  <2>8. \A s \in Rank : n \in DOMAIN coll'[s][f] /\ coll'[s][f][n] = coll'[r][f][n]
    <3>1. Agreed(r, f, n)
      BY <1>3, CompleteIsAgreed
    <3>2. \A s \in Rank : n \in DOMAIN coll[s][f] /\ coll[s][f][n] = coll[r][f][n]
      BY <3>1 DEF Agreed
    <3>3. \A s \in Rank : DOMAIN coll[s][f] \subseteq DOMAIN coll'[s][f]
                           /\ \A k \in DOMAIN coll[s][f] : coll'[s][f][k] = coll[s][f][k]
      BY <1>2, <2>5, Grown, Zenon
    <3>4. coll'[r][f][n] = coll[r][f][n]
      BY <2>7
    <3> HIDE DEF f, n
    <3> QED BY <3>2, <3>3, <3>4, Zenon
  <2>9. Part(r, "data")' = Part(r, "data") /\ Part(r, "data") \subseteq written'
    BY <1>3, <2>4 DEF Part, Offered
  <2>10. InCollective(r)'
    <3> DEFINE m == Len(coll'[r][f]) - 1
    <3>1. m = n /\ Len(coll'[r][f]) > 1 /\ coll'[r][f][m] = <<"data", f>>
      <4>1. Len(coll'[r][f]) = n + 1 /\ n \in Nat /\ n > 0
        BY <2>6, <2>7, Zenon
      <4>2. coll'[r][f][n] = <<"data", f>>
        BY <2>1, <2>7, Zenon
      <4>3. m = n /\ Len(coll'[r][f]) > 1
        <5> HIDE DEF f, n
        <5> QED BY <4>1
      <4> HIDE DEF n, m, f
      <4> QED BY <4>2, <4>3, Zenon
    <3>2. \A s \in Rank : m \in DOMAIN coll'[s][f] /\ coll'[s][f][m] = coll'[r][f][m]
      BY <2>8, <3>1
    <3>3. Now(r)'.op \in WriteOps /\ handle'[r][f] = PARALLEL /\ Now(r)'.file = f
      BY <1>3, <2>1, <2>4
    <3> QED BY <2>4, <2>7, <2>9, <3>1, <3>2, <3>3, ZenonT(90) DEF InCollective, LastOf, Agreed
  <2> QED BY <2>3, <2>10 DEF Together
<1> QED BY <1>4, <1>5 DEF Transferred

LEMMA QuietStepIsTogether ==
    ASSUME ParInv, WrittenInv, NEW r \in Rank,
           \/ Skip(r) \/ PioMode(r) \/ LeaveBarrier(r) \/ WriteRefused(r) \/ WriteAlone(r)
           \/ ElementsTransferred(r)
    PROVE  Together(r)'
<1>1. /\ at[r] # "close" /\ coll' = coll /\ handle' = handle
      /\ Skip(r) \/ \E ok, desert : Return(r, ok, desert)
  BY DEF Skip, PioMode, LeaveBarrier, WriteRefused, WriteAlone, ElementsTransferred, Calls
<1>2. CASE Skip(r)
  <2>1. at'[r] = "call"
    BY <1>2 DEF Skip
  <2> QED BY <1>1, <2>1, LeftIsShut, OverIsTogether
<1> QED BY <1>1, <1>2, QuietIsTogether

LEMMA BarrierIsTogether ==
    ASSUME ParInv, Booked, WrittenInv, NEW r \in Rank, Barrier(r)
    PROVE  Together(r)'
<1>1. Step(r)
  BY DEF Step
<1> QED BY <1>1, StepAdds, AsideIsTogether DEF Barrier, Calls

LEMMA CloseIsTogether ==
    ASSUME ParInv, Booked, WrittenInv, NEW r \in Rank, Close(r)
    PROVE  Together(r)'
<1> DEFINE f == Now(r).file
<1>1. Step(r)
  BY DEF Step
<1>2. f \in FileName /\ Adds(r) /\ at[r] = "call" /\ Now(r).op = "cg_close"
  BY <1>1, StepsAreInCalls, NowIsACall, StepAdds DEF Close, Calls
<1>3. CASE handle[r][f] = PARALLEL
  <2>1. Enter(r, f, <<"close", f>>, "close") /\ handle' = handle
    BY <1>3 DEF Close
  <2>2. <<"close", f>> \in Entries /\ "close" \in Places
    BY <1>2 DEF Entries, Places
  <2>3. \A g \in FileName : LeftTogether(r, g)'
    BY <1>2, <1>3, <2>1, <2>2, EnteredIsTogether
  <2>4. at'[r] = "close" /\ Now(r)' = Now(r)
    BY <2>1, EnteredStands, Zenon
  <2>5. coll'[r][f] # <<>> /\ coll'[r][f][Len(coll'[r][f])] = <<"close", f>>
    BY <1>2, <2>1, <2>2, EnteredIsLast DEF WrittenInv, CollTyped, LastOf
  <2>6. InCollective(r)'
    BY <1>2, <2>4, <2>5 DEF InCollective, LastOf
  <2> QED BY <2>3, <2>6 DEF Together
<1>4. CASE handle[r][f] # PARALLEL
  <2>1. /\ coll' = coll /\ handle' = [handle EXCEPT ![r][f] = NONE]
        /\ \E ok, desert : Return(r, ok, desert)
    BY <1>4 DEF Close
  <2>2. \A g \in FileName : handle'[r][g] # PARALLEL => handle[r][g] # PARALLEL
    BY <1>4, <2>1 DEF ParInv, Typed
  <2> QED BY <1>2, <2>1, <2>2, QuietIsTogether
<1> QED BY <1>3, <1>4

LEMMA ClosedIsTogether ==
    ASSUME ParInv, WrittenInv, NEW r \in Rank, Closed(r)
    PROVE  Together(r)'
<1> DEFINE f == Now(r).file
<1>1. /\ at[r] = "close" /\ Complete(r, f) /\ Return(r, TRUE, FALSE) /\ coll' = coll
      /\ handle' = [handle EXCEPT ![r][f] = NONE]
  BY DEF Closed
<1>2. Shut(r, f)
  BY <1>1, CompleteIsAgreed DEF WrittenInv, InCollective, Shut
<1>3. ASSUME NEW g \in FileName, g # f, handle'[r][g] # PARALLEL PROVE Shut(r, g)
  BY <1>1, <1>3, LeftIsShut DEF ParInv, Typed
<1>4. at'[r] \in {"call", "exit"}
  BY <1>1 DEF Return, ParInv, Typed
<1> QED BY <1>1, <1>2, <1>3, <1>4, OverIsTogether

LEMMA ErrorExitIsTogether ==
    ASSUME ParInv, Booked, WrittenInv, NEW r \in Rank, ErrorExit(r)
    PROVE  Together(r)'
<1> DEFINE g == NextToClose(r)
<1>1. Step(r) /\ at[r] = "exit" /\ handle' = handle
  BY DEF Step, ErrorExit
<1>2. Adds(r)
  BY <1>1, StepAdds
<1>3. CASE InParallel(r) = {}
  <2>1. at'[r] = "exit" /\ coll' = coll
    BY <1>1, <1>3 DEF ErrorExit
  <2> QED BY <1>1, <2>1, LeftIsShut, OverIsTogether
<1>4. CASE InParallel(r) # {}
  <2>1. Enter(r, g, <<"close", g>>, "cleanup")
    BY <1>4 DEF ErrorExit
  <2>2. g \in FileName /\ handle[r][g] = PARALLEL
    BY <1>4 DEF NextToClose, InParallel
  <2>3. <<"close", g>> \in Entries /\ "cleanup" \in Places
    BY <2>2 DEF Entries, Places
  <2>4. \A f \in FileName : LeftTogether(r, f)'
    BY <1>1, <1>2, <2>1, <2>2, <2>3, EnteredIsTogether
  <2>5. at'[r] = "cleanup"
    BY <2>1 DEF Enter, ParInv, Typed
  <2>6. InParallel(r)' = InParallel(r) /\ NextToClose(r)' = g
    BY <1>1 DEF InParallel, NextToClose
  <2>7. coll'[r][g] # <<>> /\ coll'[r][g][Len(coll'[r][g])] = <<"close", g>>
    BY <2>1, <2>2, <2>3, EnteredIsLast DEF WrittenInv, CollTyped, LastOf
  <2>8. InCollective(r)'
    BY <1>4, <2>5, <2>6, <2>7 DEF InCollective, LastOf
  <2> QED BY <2>4, <2>8 DEF Together
<1> QED BY <1>3, <1>4

LEMMA CleanedUpIsTogether ==
    ASSUME ParInv, WrittenInv, NEW r \in Rank, CleanedUp(r)
    PROVE  Together(r)'
<1> DEFINE g == NextToClose(r)
<1>1. /\ at[r] = "cleanup" /\ Complete(r, g) /\ coll' = coll
      /\ handle' = [handle EXCEPT ![r][g] = NONE] /\ at' = [at EXCEPT ![r] = "exit"]
  BY DEF CleanedUp
<1>2. Shut(r, g)
  BY <1>1, CompleteIsAgreed DEF WrittenInv, InCollective, Shut
<1>3. ASSUME NEW f \in FileName, f # g, handle'[r][f] # PARALLEL PROVE Shut(r, f)
  BY <1>1, <1>3, LeftIsShut DEF ParInv, Typed
<1>4. at'[r] = "exit"
  BY <1>1 DEF ParInv, Typed
<1> QED BY <1>1, <1>2, <1>3, <1>4, OverIsTogether

LEMMA StepIsTogether ==
    ASSUME KeepsRules, ParInv, Booked, WrittenInv, NEW r \in Rank, Step(r)
    PROVE  Together(r)'
BY QuietStepIsTogether, BarrierIsTogether, OpeningIsTogether, OpenedIsTogether,
   TransferIsTogether, TransferredIsTogether, CloseIsTogether, ClosedIsTogether,
   ErrorExitIsTogether, CleanedUpIsTogether DEF Step

----------------------------------------------------------------------------
(* What was claimed                                                        *)

LEMMA StepKeepsClaims ==
    ASSUME WrittenInv, NEW r \in Rank, Step(r)
    PROVE  OkIsInFile'
<1>1. claimed \subseteq written
  BY DEF WrittenInv, OkIsInFile
<1>2. CASE OpenSerialWrite(r) \/ ParallelOpen(r)
  BY <1>1, <1>2 DEF OpenSerialWrite, ParallelOpen, OkIsInFile
<1>3. CASE Transferred(r)
  BY <1>1, <1>3 DEF Transferred, OkIsInFile
<1>4. CASE ElementsTransferred(r)
  <2>1. Part(r, "data") \subseteq written
    BY <1>4 DEF ElementsTransferred, WrittenInv, InCollective
  <2>2. \A d \in Datasets(Now(r).op) : d = "data" \/ d = "elements"
    BY DatasetsAre
  <2>3. \A d \in Datasets(Now(r).op) : Part(r, d) \subseteq written'
    BY <1>4, <2>1, <2>2 DEF ElementsTransferred
  <2> QED BY <1>1, <1>4, <2>3 DEF ElementsTransferred, OkIsInFile
<1>5. CASE WriteAlone(r)
  <2> DEFINE parts == Datasets(Now(r).op)
             done == IF Offered(r) = "misfit" THEN parts \ {"elements"} ELSE parts
  <2>1. /\ written' = written \cup UNION {Part(r, d) : d \in done}
        /\ claimed' = IF done = parts THEN claimed \cup UNION {Part(r, d) : d \in parts}
                      ELSE claimed
    BY <1>5 DEF WriteAlone
  <2> HIDE DEF parts, done
  <2> QED BY <1>1, <2>1 DEF OkIsInFile
<1>6. CASE UNCHANGED <<written, claimed>>
  BY <1>1, <1>6 DEF OkIsInFile
<1> QED BY <1>2, <1>3, <1>4, <1>5, <1>6 DEF Step, Skip, PioMode, Barrier, LeaveBarrier,
        MakeFile, OpenUnchecked, CheckFile, AwaitCheck, Checked, Opened, WriteRefused, Transfer, Close,
        Closed, ErrorExit, CleanedUp

LEMMA NextKeepsWritten ==
    ASSUME KeepsRules
    PROVE  ParInv /\ Booked /\ WrittenInv /\ [Next]_vars => WrittenInv'
<1>1. ASSUME ParInv, Booked, WrittenInv, NEW r \in Rank, Step(r) PROVE WrittenInv'
  <2>1. CollTyped'
    BY <1>1, StepAdds, Grown DEF WrittenInv, CollTyped
  <2>2. Together(r)'
    BY <1>1, StepIsTogether
  <2>3. \A s \in Rank : s # r =>
           InCollective(s)' /\ \A f \in FileName : LeftTogether(s, f)'
    BY <1>1, OthersStay
  <2>4. OkIsInFile'
    BY <1>1, StepKeepsClaims
  <2> QED BY <2>1, <2>2, <2>3, <2>4 DEF WrittenInv, CollTyped, Together
<1>2. ASSUME WrittenInv, UNCHANGED vars PROVE WrittenInv'
  <2>1. /\ prog' = prog /\ pos' = pos /\ at' = at /\ handle' = handle /\ coll' = coll
        /\ written' = written /\ claimed' = claimed
    BY <1>2 DEF vars
  <2>2. ASSUME NEW r \in Rank PROVE InCollective(r)'
    <3>1. /\ Now(r)' = Now(r) /\ Part(r, "data")' = Part(r, "data")
          /\ InParallel(r)' = InParallel(r) /\ NextToClose(r)' = NextToClose(r)
      BY <2>1 DEF Now, Part, Offered, NextToClose, InParallel
    <3>2. InCollective(r)
      BY <1>2 DEF WrittenInv
    <3> QED BY <2>1, <3>1, <3>2 DEF InCollective, LastOf, Agreed
  <2>3. ASSUME NEW r \in Rank, NEW f \in FileName PROVE LeftTogether(r, f)'
    <3>1. LeftTogether(r, f)
      BY <1>2 DEF WrittenInv
    <3> QED BY <2>1, <3>1 DEF LeftTogether, Shut, LastOf, Agreed, ClosesTest, Now
  <2> QED BY <1>2, <2>1, <2>2, <2>3 DEF WrittenInv, OkIsInFile
<1> QED BY <1>1, <1>2 DEF Next

LEMMA InitWritten == Init => WrittenInv
<1> SUFFICES ASSUME Init PROVE WrittenInv
  OBVIOUS
<1>1. \A r \in Rank : InCollective(r)
  BY DEF Init, InCollective
<1>2. \A r \in Rank, f \in FileName : handle[r][f] = NONE /\ coll[r][f] = <<>>
  BY DEF Init, Comm
<1>3. \A r \in Rank, f \in FileName : LeftTogether(r, f)
  BY <1>2 DEF LeftTogether, Shut
<1>4. coll \in [Rank -> [Comm -> Seq(Entries)]]
  BY DEF Init
<1> QED BY <1>1, <1>3, <1>4 DEF WrittenInv, Init, OkIsInFile

\* What a rank was told is written is in the file, in both datasets of elements of
\* variable size, whatever ranks are refused or leave and however far the others
\* run ahead: none of them can open, and empty, the file of a rank that is between
\* the two, as long as the program closes a file before it opens it again and
\* writes in parallel only what it opened with cgp_open.
THEOREM OkWritesAreInFile ==
    ASSUME KeepsRules
    PROVE  Spec => []OkIsInFile
<1>1. WrittenInv => OkIsInFile
  BY DEF WrittenInv
<1>2. ParInv /\ Booked /\ WrittenInv /\ [Next]_vars => WrittenInv'
  BY NextKeepsWritten
<1> QED BY <1>1, <1>2, InitParInv, InitBooked, InitWritten, NextKeepsInv, NextKeepsBooked,
           PTL DEF Spec

----------------------------------------------------------------------------
(* The collectives of an orderly program.  What each call enters is fixed  *)
(* by the program (Script), and so is what comes before it (History): a    *)
(* rank is always at a place of its own in sequences that all have.        *)

\* What the program has done before call i, as far as it decides on collectives.
KnownAt(p, i) == \E j \in 1 .. i - 1 : p.calls[j].op = "cgp_open"
SerialAt(p, i) == \E j \in 1 .. i - 1 : p.calls[j].op = "cg_open" /\ p.calls[j].mode = "w"
ParallelAt(p, i) ==
    \E j \in 1 .. i - 1 : /\ p.calls[j].op = "cgp_open"
                          /\ \A k \in j + 1 .. i - 1 : p.calls[k].op # "cg_open"
EvenTo(p, i) ==
    \A j \in 1 .. i - 1 : p.calls[j].op \in {"cg_open", "cg_is_cgns"} => p.calls[j].who = Rank

\* Call i has its file tested by rank 0 for all, and opens it together.
TestedFor(p, i) ==
    /\ KnownAt(p, i)
    /\ \/ p.calls[i].op = "cg_is_cgns"
       \/ p.calls[i].op = "cg_open" /\ p.calls[i].mode = "r" /\ ~ SerialAt(p, i)
OpenedFor(p, i) ==
    \/ p.calls[i].op = "cgp_open"
    \/ p.calls[i].op = "cg_is_cgns" /\ ParallelAt(p, i)

\* The collectives of call i on communicator c.
Script(p, i, c) ==
    LET call == p.calls[i]
        f == call.file
    IN  IF c = Lib
        THEN (IF TestedFor(p, i) THEN << <<"bcast", f>> >> ELSE <<>>)
             \o (IF OpenedFor(p, i) THEN << <<"open", f>> >> ELSE <<>>)
        ELSE IF c = World
        THEN IF call.op = "MPI_Barrier" THEN << <<"barrier">> >> ELSE <<>>
        ELSE IF c # f THEN <<>>
        ELSE IF call.op = "cg_is_cgns" /\ ParallelAt(p, i) THEN << <<"close", f>> >>
        ELSE IF call.op = "cg_close" /\ HeldAt(p, i, f) THEN << <<"close", f>> >>
        ELSE IF call.op \in WriteOps /\ Pio(p) = CGP_COLLECTIVE
        THEN IF "elements" \in Datasets(call.op) THEN << <<"data", f>>, <<"elements", f>> >>
             ELSE << <<"data", f>> >>
        ELSE <<>>

----------------------------------------------------------------------------
(* The collectives of the program                                          *)

\* The sequences that a rank has entered when it comes to call 1, 2, ... n + 1, if it
\* follows the program.
IsHistory(p, H, n) ==
    /\ H \in [1 .. n + 1 -> [Comm -> Seq(Entries)]]
    /\ \A c \in Comm : H[1][c] = <<>>
    /\ \A i \in 1 .. n, c \in Comm : H[i + 1][c] = H[i][c] \o Script(p, i, c)

History(p) == CHOOSE H : IsHistory(p, H, Len(p.calls))

LEMMA LeastElement ==
    ASSUME NEW S \in SUBSET Nat, S # {}
    PROVE  \E n \in S : \A m \in S : n <= m
<1>1. PICK n \in S : \A m \in S : ~ (<<m, n>> \in OpToRel(<, Nat))
  BY WFMin, NatLessThanWellFounded, Zenon
<1>2. \A m \in S : ~ (m < n)
  BY <1>1, Zenon DEF OpToRel
<1>3. \A m \in S : n <= m
  BY <1>2
<1> QED BY <1>3

LEMMA CallIs ==
    ASSUME NEW p \in Programs
    PROVE  /\ Len(p.calls) \in Nat /\ DOMAIN p.calls = 1 .. Len(p.calls)
           /\ \A i \in 1 .. Len(p.calls) : p.calls[i].file \in FileName
<1>1. p.calls \in Seq(ProgramCall)
  BY ProgramAssumption
<1>2. \A i \in 1 .. Len(p.calls) : p.calls[i] \in ProgramCall
  BY <1>1
<1> QED BY <1>1, <1>2 DEF ProgramCall

LEMMA CommsDiffer == Lib # World /\ \A f \in FileName : f # Lib /\ f # World /\ f \in Comm
BY CommAssumption DEF Lib, World, Comm

LEMMA ScriptTyped ==
    ASSUME NEW p \in Programs, NEW i \in 1 .. Len(p.calls), NEW c \in Comm
    PROVE  Script(p, i, c) \in Seq(Entries)
<1> DEFINE f == p.calls[i].file
<1>1. f \in FileName
  BY CallIs
<1>2. \A what \in {"open", "bcast", "data", "elements", "close"} : <<what, f>> \in Entries
  BY <1>1 DEF Entries
<1>3. <<"barrier">> \in Entries
  BY DEF Entries
<1>4. \A e \in Entries : << e >> \in Seq(Entries)
  OBVIOUS
<1>5. <<>> \in Seq(Entries)
  OBVIOUS
<1>6. \A d, e \in Entries : << d, e >> \in Seq(Entries)
  OBVIOUS
<1>7. \A s, t \in Seq(Entries) : s \o t \in Seq(Entries)
  BY ConcatProperties
<1> DEFINE b == << <<"bcast", f>> >>
           o == << <<"open", f>> >>
           d == << <<"data", f>> >>
           de == << <<"data", f>>, <<"elements", f>> >>
           cl == << <<"close", f>> >>
           bar == << <<"barrier">> >>
<1>8. /\ b \in Seq(Entries) /\ o \in Seq(Entries) /\ d \in Seq(Entries)
      /\ de \in Seq(Entries) /\ cl \in Seq(Entries) /\ bar \in Seq(Entries)
  BY <1>2, <1>3, <1>4, <1>6
<1>9. \/ Script(p, i, c) \in {<<>>, d, de, cl, bar}
      \/ Script(p, i, c) = (IF TestedFor(p, i) THEN b ELSE <<>>) \o (IF OpenedFor(p, i) THEN o ELSE <<>>)
  BY DEF Script
<1>10. /\ (IF TestedFor(p, i) THEN b ELSE <<>>) \in Seq(Entries)
       /\ (IF OpenedFor(p, i) THEN o ELSE <<>>) \in Seq(Entries)
  BY <1>5, <1>8
<1> HIDE DEF b, o, d, de, cl, bar
<1> QED BY <1>5, <1>7, <1>8, <1>9, <1>10

LEMMA HistoryExists ==
    ASSUME NEW p \in Programs, NEW n \in 0 .. Len(p.calls)
    PROVE  \E H : IsHistory(p, H, n)
<1> DEFINE S == {m \in 0 .. Len(p.calls) : ~ \E H : IsHistory(p, H, m)}
<1> SUFFICES ASSUME S # {} PROVE FALSE
  OBVIOUS
<1>0. Len(p.calls) \in Nat
  BY CallIs
<1>1. S \in SUBSET Nat
  BY <1>0
<1>2. PICK m \in S : \A k \in S : m <= k
  BY <1>1, LeastElement
<1>3. m \in Nat /\ m <= Len(p.calls) /\ ~ \E H : IsHistory(p, H, m)
  BY <1>0, <1>2
<1>4. CASE m = 0
  <2> DEFINE H == [i \in 1 .. 1 |-> [c \in Comm |-> <<>>]]
  <2>1. H \in [1 .. m + 1 -> [Comm -> Seq(Entries)]]
    BY <1>4
  <2>2. IsHistory(p, H, m)
    BY <1>4, <2>1 DEF IsHistory
  <2> QED BY <1>3, <2>2
<1>5. CASE m # 0
  <2>1. m - 1 \in 0 .. Len(p.calls) /\ m - 1 \notin S
    BY <1>0, <1>2, <1>3, <1>5
  <2>2. PICK G : IsHistory(p, G, m - 1)
    BY <2>1
  <2>3. /\ G \in [1 .. m -> [Comm -> Seq(Entries)]] /\ \A c \in Comm : G[1][c] = <<>>
        /\ \A i \in 1 .. m - 1, c \in Comm : G[i + 1][c] = G[i][c] \o Script(p, i, c)
    <3>1. (m - 1) + 1 = m
      BY <1>3
    <3> QED BY <2>2, <3>1, Zenon DEF IsHistory
  <2> DEFINE next == [c \in Comm |-> G[m][c] \o Script(p, m, c)]
             H == [i \in 1 .. m + 1 |-> IF i <= m THEN G[i] ELSE next]
  <2>4. next \in [Comm -> Seq(Entries)]
    <3>1. m \in 1 .. Len(p.calls) /\ m \in 1 .. m
      BY <1>3, <1>5
    <3>2. \A c \in Comm : G[m][c] \in Seq(Entries) /\ Script(p, m, c) \in Seq(Entries)
      BY <2>3, <3>1, ScriptTyped
    <3>3. \A c \in Comm : G[m][c] \o Script(p, m, c) \in Seq(Entries)
      BY <3>2, ConcatProperties
    <3> QED BY <3>3
  <2>5. H \in [1 .. m + 1 -> [Comm -> Seq(Entries)]]
    <3> HIDE DEF next
    <3>1. \A i \in 1 .. m + 1 : i <= m => i \in 1 .. m
      BY <1>3
    <3> QED BY <2>3, <2>4, <3>1, SMTT(60)
  <2>6. \A c \in Comm : H[1][c] = <<>>
    <3>1. 1 \in 1 .. m + 1 /\ 1 <= m
      BY <1>3, <1>5
    <3>2. H[1] = G[1]
      <4> HIDE DEF next
      <4> QED BY <3>1
    <3>3. \A c \in Comm : G[1][c] = <<>>
      BY <2>3, ZenonT(60)
    <3> HIDE DEF next, H
    <3> QED BY <3>2, <3>3, Zenon
  <2>7. ASSUME NEW i \in 1 .. m, NEW c \in Comm
        PROVE  H[i + 1][c] = H[i][c] \o Script(p, i, c)
    <3>1. /\ i \in 1 .. m + 1 /\ i + 1 \in 1 .. m + 1 /\ i <= m
          /\ (i = m \/ (i \in 1 .. m - 1 /\ i + 1 <= m)) /\ ~ (m + 1 <= m)
      BY <1>3
    <3>2. H[i] = G[i]
      <4> HIDE DEF next
      <4> QED BY <3>1
    <3>3. CASE i = m
      <4>1. H[i + 1] = next
        <5> HIDE DEF next
        <5> QED BY <3>1, <3>3
      <4>2. next[c] = G[m][c] \o Script(p, m, c)
        OBVIOUS
      <4> HIDE DEF next, H
      <4> QED BY <3>2, <3>3, <4>1, <4>2
    <3>4. CASE i # m
      <4>1. H[i + 1] = G[i + 1]
        <5> HIDE DEF next
        <5> QED BY <3>1, <3>4
      <4> HIDE DEF next, H
      <4> QED BY <2>3, <3>1, <3>2, <3>4, <4>1
    <3> HIDE DEF next, H
    <3> QED BY <3>3, <3>4, Zenon
  <2>8. IsHistory(p, H, m)
    <3> HIDE DEF H
    <3> QED BY <2>5, <2>6, <2>7 DEF IsHistory
  <2> QED BY <1>3, <2>8
<1> QED BY <1>4, <1>5

LEMMA HistoryIs ==
    ASSUME NEW p \in Programs
    PROVE  IsHistory(p, History(p), Len(p.calls))
<1>1. Len(p.calls) \in 0 .. Len(p.calls)
  BY CallIs
<1>2. \E H : IsHistory(p, H, Len(p.calls))
  BY <1>1, HistoryExists
<1> QED BY <1>2 DEF History

\* What a rank has entered at call i, and has after it.
LEMMA HistoryStep ==
    ASSUME NEW p \in Programs, NEW c \in Comm
    PROVE  /\ \A i \in 1 .. Len(p.calls) + 1 : History(p)[i][c] \in Seq(Entries)
           /\ History(p)[1][c] = <<>>
           /\ \A i \in 1 .. Len(p.calls) : /\ History(p)[i + 1][c] = History(p)[i][c] \o Script(p, i, c)
                                           /\ Script(p, i, c) \in Seq(Entries)
<1>1. IsHistory(p, History(p), Len(p.calls))
  BY HistoryIs
<1>2. History(p) \in [1 .. Len(p.calls) + 1 -> [Comm -> Seq(Entries)]]
  BY <1>1, Zenon DEF IsHistory
<1>3. \A i \in 1 .. Len(p.calls) + 1 : History(p)[i][c] \in Seq(Entries)
  BY <1>2
<1>4. /\ History(p)[1][c] = <<>>
      /\ \A i \in 1 .. Len(p.calls) : History(p)[i + 1][c] = History(p)[i][c] \o Script(p, i, c)
  BY <1>1, Zenon DEF IsHistory
<1> QED BY <1>3, <1>4, ScriptTyped

\* A sequence that begins another one.
Within(a, b) == Len(a) <= Len(b) /\ \A k \in 1 .. Len(a) : a[k] = b[k]

LEMMA WithinWithin ==
    ASSUME NEW a \in Seq(Entries), NEW b \in Seq(Entries), NEW d \in Seq(Entries),
           Within(a, b), Within(b, d)
    PROVE  Within(a, d)
BY DEF Within

LEMMA WithinConcat ==
    ASSUME NEW a \in Seq(Entries), NEW b \in Seq(Entries)
    PROVE  Within(a, a \o b)
<1>1. Len(a) \in Nat /\ Len(b) \in Nat
  OBVIOUS
<1> QED BY <1>1, ConcatProperties DEF Within

LEMMA HistoryGrows ==
    ASSUME NEW p \in Programs, NEW c \in Comm,
           NEW i \in 1 .. Len(p.calls) + 1, NEW j \in i .. Len(p.calls) + 1
    PROVE  Within(History(p)[i][c], History(p)[j][c])
<1> DEFINE H(k) == History(p)[k][c]
           S == {k \in i .. Len(p.calls) + 1 : ~ Within(H(i), H(k))}
<1> SUFFICES ASSUME S # {} PROVE FALSE
  OBVIOUS
<1>0. Len(p.calls) \in Nat
  BY CallIs
<1>1. S \in SUBSET Nat
  BY <1>0
<1>2. PICK m \in S : \A k \in S : m <= k
  BY <1>1, LeastElement
<1>3. m # i
  <2>1. Within(H(i), H(i))
    BY HistoryStep DEF Within
  <2> QED BY <1>2, <2>1
<1>4. m - 1 \in i .. Len(p.calls) /\ m - 1 \notin S /\ m - 1 \in 1 .. Len(p.calls)
  BY <1>0, <1>2, <1>3
<1>5. Within(H(i), H(m - 1))
  BY <1>0, <1>4
<1>6. /\ H(i) \in Seq(Entries) /\ H(m - 1) \in Seq(Entries) /\ H(m) \in Seq(Entries)
      /\ H(m) = H(m - 1) \o Script(p, m - 1, c) /\ Script(p, m - 1, c) \in Seq(Entries)
  <2>1. m = (m - 1) + 1 /\ m \in 1 .. Len(p.calls) + 1 /\ m - 1 \in 1 .. Len(p.calls) + 1
    BY <1>0, <1>2, <1>4
  <2> QED BY <1>4, <2>1, HistoryStep
<1> HIDE DEF H
<1>7. Within(H(m - 1), H(m))
  BY <1>6, WithinConcat
<1>8. Within(H(i), H(m))
  BY <1>5, <1>6, <1>7, WithinWithin
<1> QED BY <1>2, <1>8
Gone(r) == at[r] \in {"exit", "cleanup"}

\* The collectives of the call rank r is in that it has entered.
Entered(r, c) ==
    LET f == Now(r).file
    IN  IF at[r] = "call" THEN <<>>
        ELSE IF at[r] = "checked" THEN IF c = Lib THEN << <<"bcast", f>> >> ELSE <<>>
        ELSE IF at[r] = "data" THEN IF c = f THEN << <<"data", f>> >> ELSE <<>>
        ELSE IF at[r] = "open" THEN IF c = Lib THEN Script(prog, pos[r], Lib) ELSE <<>>
        ELSE Script(prog, pos[r], c)

Before(r, c) == History(prog)[pos[r]][c]

InScript(r) ==
    /\ \A c \in Comm : coll[r][c] = Before(r, c) \o Entered(r, c)
    /\ at[r] = "checked" => TestedFor(prog, pos[r])
    /\ at[r] = "open" => OpenedFor(prog, pos[r])
    /\ at[r] = "close" => \/ Now(r).op = "cg_is_cgns" /\ ParallelAt(prog, pos[r])
                          \/ Now(r).op = "cg_close" /\ HeldAt(prog, pos[r], Now(r).file)
    /\ at[r] \in {"data", "elements"} => Now(r).op \in WriteOps /\ Pio(prog) = CGP_COLLECTIVE
    /\ at[r] = "elements" => "elements" \in Datasets(Now(r).op)
    /\ at[r] = "barrier" => Now(r).op = "MPI_Barrier"

\* Its settings and files are what the calls before have made them.
Settled(r) ==
    LET opening == at[r] # "call" /\ Now(r).op = "cgp_open"
    IN  /\ \A f \in FileName : handle[r][f] = PARALLEL <=> HeldAt(prog, pos[r], f)
        /\ ctx[r].init <=> KnownAt(prog, pos[r]) \/ opening
        /\ opening => ctx[r].mode = PARALLEL
        /\ (~ KnownAt(prog, pos[r]) /\ ~ opening) => ctx[r].mode = NATIVE
        /\ (EvenTo(prog, pos[r]) /\ ~ opening /\ (at[r] = "call" \/ Now(r).op # "cg_open")) =>
              (ctx[r].mode = PARALLEL <=> ParallelAt(prog, pos[r]))
        /\ EvenTo(prog, pos[r]) =>
              (ctx[r].type = NONE <=> ~ (SerialAt(prog, pos[r]) \/ at[r] = "unlinked"))
        /\ ctx[r].pio = IF pos[r] = 1 THEN CGP_COLLECTIVE ELSE Pio(prog)

\* A rank that leaves closes its files.  It does so in a call that is not opened
\* together, before the test of a file or after it.
Leaves(r) ==
    /\ prog.exits /\ MayFail(prog, pos[r]) /\ ~ OpenedFor(prog, pos[r])
    /\ coll[r][Lib] \in {Before(r, Lib), History(prog)[pos[r] + 1][Lib]}
    /\ coll[r][World] = Before(r, World)
    /\ \A f \in FileName :
          \/ coll[r][f] = Before(r, f)
          \/ /\ coll[r][f] = Append(Before(r, f), <<"close", f>>)
             /\ HeldAt(prog, pos[r], f)
             /\ handle[r][f] = PARALLEL => at[r] = "cleanup" /\ NextToClose(r) = f
    /\ \A f \in FileName : handle[r][f] = PARALLEL => HeldAt(prog, pos[r], f)

Follows(r) == IF Gone(r) THEN Leaves(r) ELSE InScript(r) /\ Settled(r)

\* Rank s has gone into call j, and has come to where the ranks open a file together.
Reached(s, j) == j < pos[s] \/ (j = pos[s] /\ at[s] # "call")
Joined(s, j) == j < pos[s] \/ (j = pos[s] /\ at[s] \notin {"call", "checked"})

\* No rank is past a barrier that another has not come to, nor past the opening of a
\* file that another has not joined.
Traces(r) ==
    \A j \in 1 .. Len(prog.calls) :
        /\ (prog.calls[j].op = "MPI_Barrier" /\ j < pos[r]) => \A s \in Rank : j <= pos[s]
        /\ (OpenedFor(prog, j) /\ (j < pos[r] \/ (j = pos[r] /\ at[r] = "close"))) =>
              \A s \in Rank : Joined(s, j)

\* Rank 0 has tested for all only what the program has made by then.
Broadcast ==
    \A j \in 1 .. Len(prog.calls) :
        (TestedFor(prog, j) /\ OpenedFor(prog, j) /\ Reached(Root, j)) =>
            ThereAt(prog, j, prog.calls[j].file)

\* There was a file f, or a rank has begun to make one.
Begun(f) ==
    \/ f \in Existing
    \/ \E s \in Rank, j \in 1 .. Len(prog.calls) :
          Makes(prog, j, f) /\ s \in prog.calls[j].who /\ Reached(s, j)

\* Rank t is making f: it has unlinked the file, and makes another one itself or with
\* the ranks that have still to come.
UnmadeBy(t, f) ==
    /\ Now(t).file = f
    /\ \/ at[t] = "unlinked"
       \/ /\ at[t] = "open" /\ Now(t).op = "cgp_open" /\ Now(t).mode = "w"
          /\ \E s \in Rank : ~ Reached(s, pos[t])

\* A file is there from when it was begun, unless a rank is making it.
FileKept(f) ==
    /\ f \in present => Begun(f)
    /\ Begun(f) => f \in present \/ \E t \in Rank : UnmadeBy(t, f)

Follow ==
    /\ \A r \in Rank : Follows(r) /\ Traces(r)
    /\ Broadcast
    /\ \A f \in FileName : FileKept(f)

AgreeInv == (Orderly(prog) /\ ~ UnevenProbe /\ ~ deserted) => Follow
----------------------------------------------------------------------------
(* The program from one call to the next                                   *)

LEMMA HeldStep ==
    ASSUME NEW p, NEW i \in Nat \ {0}, NEW f
    PROVE  HeldAt(p, i + 1, f) <=>
               \/ p.calls[i].op = "cgp_open" /\ p.calls[i].file = f
               \/ HeldAt(p, i, f) /\ ~ (p.calls[i].op = "cg_close" /\ p.calls[i].file = f)
<1> DEFINE Opens(j) == p.calls[j].op = "cgp_open" /\ p.calls[j].file = f
           Closes(k) == p.calls[k].op = "cg_close" /\ p.calls[k].file = f
<1>1. \A n : HeldAt(p, n, f) <=> \E j \in 1 .. n - 1 : Opens(j) /\ \A k \in j + 1 .. n - 1 : ~ Closes(k)
  BY DEF HeldAt
<1> HIDE DEF Opens, Closes
<1>2. ASSUME Opens(i) PROVE HeldAt(p, i + 1, f)
  <2>1. i \in 1 .. (i + 1) - 1 /\ i + 1 .. (i + 1) - 1 = {}
    OBVIOUS
  <2> QED BY <1>1, <1>2, <2>1
<1>3. ASSUME HeldAt(p, i, f), ~ Closes(i) PROVE HeldAt(p, i + 1, f)
  <2>1. PICK j \in 1 .. i - 1 : Opens(j) /\ \A k \in j + 1 .. i - 1 : ~ Closes(k)
    BY <1>1, <1>3
  <2>2. j \in 1 .. (i + 1) - 1 /\ \A k \in j + 1 .. (i + 1) - 1 : k \in j + 1 .. i - 1 \/ k = i
    OBVIOUS
  <2>3. \A k \in j + 1 .. (i + 1) - 1 : ~ Closes(k)
    BY <1>3, <2>1, <2>2
  <2> QED BY <1>1, <2>1, <2>2, <2>3
<1>4. ASSUME HeldAt(p, i + 1, f) PROVE Opens(i) \/ (HeldAt(p, i, f) /\ ~ Closes(i))
  <2>1. PICK j \in 1 .. (i + 1) - 1 : Opens(j) /\ \A k \in j + 1 .. (i + 1) - 1 : ~ Closes(k)
    BY <1>1, <1>4
  <2>2. CASE j = i
    BY <2>1, <2>2
  <2>3. CASE j # i
    <3>1. /\ j \in 1 .. i - 1 /\ i \in j + 1 .. (i + 1) - 1
          /\ \A k \in j + 1 .. i - 1 : k \in j + 1 .. (i + 1) - 1
      BY <2>3
    <3> QED BY <1>1, <2>1, <3>1
  <2> QED BY <2>2, <2>3
<1> QED BY <1>2, <1>3, <1>4 DEF Opens, Closes

LEMMA ParallelStep ==
    ASSUME NEW p, NEW i \in Nat \ {0}
    PROVE  ParallelAt(p, i + 1) <=> \/ p.calls[i].op = "cgp_open"
                                    \/ ParallelAt(p, i) /\ p.calls[i].op # "cg_open"
<1> DEFINE Opens(j) == p.calls[j].op = "cgp_open"
           Others1(k) == p.calls[k].op = "cg_open"
<1>1. \A n : ParallelAt(p, n) <=> \E j \in 1 .. n - 1 : Opens(j) /\ \A k \in j + 1 .. n - 1 : ~ Others1(k)
  BY DEF ParallelAt
<1> HIDE DEF Opens, Others1
<1>2. ASSUME Opens(i) PROVE ParallelAt(p, i + 1)
  <2>1. i \in 1 .. (i + 1) - 1 /\ i + 1 .. (i + 1) - 1 = {}
    OBVIOUS
  <2> QED BY <1>1, <1>2, <2>1
<1>3. ASSUME ParallelAt(p, i), ~ Others1(i) PROVE ParallelAt(p, i + 1)
  <2>1. PICK j \in 1 .. i - 1 : Opens(j) /\ \A k \in j + 1 .. i - 1 : ~ Others1(k)
    BY <1>1, <1>3
  <2>2. j \in 1 .. (i + 1) - 1 /\ \A k \in j + 1 .. (i + 1) - 1 : k \in j + 1 .. i - 1 \/ k = i
    OBVIOUS
  <2>3. \A k \in j + 1 .. (i + 1) - 1 : ~ Others1(k)
    BY <1>3, <2>1, <2>2
  <2> QED BY <1>1, <2>1, <2>2, <2>3
<1>4. ASSUME ParallelAt(p, i + 1) PROVE Opens(i) \/ (ParallelAt(p, i) /\ ~ Others1(i))
  <2>1. PICK j \in 1 .. (i + 1) - 1 : Opens(j) /\ \A k \in j + 1 .. (i + 1) - 1 : ~ Others1(k)
    BY <1>1, <1>4
  <2>2. CASE j = i
    BY <2>1, <2>2
  <2>3. CASE j # i
    <3>1. /\ j \in 1 .. i - 1 /\ i \in j + 1 .. (i + 1) - 1
          /\ \A k \in j + 1 .. i - 1 : k \in j + 1 .. (i + 1) - 1
      BY <2>3
    <3> QED BY <1>1, <2>1, <3>1
  <2> QED BY <2>2, <2>3
<1> QED BY <1>2, <1>3, <1>4 DEF Opens, Others1

LEMMA KnownStep ==
    ASSUME NEW p, NEW i \in Nat \ {0}
    PROVE  /\ KnownAt(p, i + 1) <=> KnownAt(p, i) \/ p.calls[i].op = "cgp_open"
           /\ SerialAt(p, i + 1) <=>
                 SerialAt(p, i) \/ (p.calls[i].op = "cg_open" /\ p.calls[i].mode = "w")
           /\ EvenTo(p, i + 1) <=>
                 EvenTo(p, i) /\ (p.calls[i].op \in {"cg_open", "cg_is_cgns"} => p.calls[i].who = Rank)
<1>0. /\ \A j \in 1 .. (i + 1) - 1 : j \in 1 .. i - 1 \/ j = i
      /\ \A j \in 1 .. i - 1 : j \in 1 .. (i + 1) - 1
      /\ i \in 1 .. (i + 1) - 1
  OBVIOUS
<1>1. KnownAt(p, i + 1) <=> KnownAt(p, i) \/ p.calls[i].op = "cgp_open"
  BY <1>0, Zenon DEF KnownAt
<1>2. SerialAt(p, i + 1) <=>
         SerialAt(p, i) \/ (p.calls[i].op = "cg_open" /\ p.calls[i].mode = "w")
  BY <1>0, Zenon DEF SerialAt
<1>3. EvenTo(p, i + 1) <=>
         EvenTo(p, i) /\ (p.calls[i].op \in {"cg_open", "cg_is_cgns"} => p.calls[i].who = Rank)
  BY <1>0, Zenon DEF EvenTo
<1> QED BY <1>1, <1>2, <1>3

\* Before the first call.
LEMMA AtFirst ==
    ASSUME NEW p
    PROVE  /\ ~ KnownAt(p, 1) /\ ~ SerialAt(p, 1) /\ ~ ParallelAt(p, 1) /\ EvenTo(p, 1)
           /\ \A f : ~ HeldAt(p, 1, f)
<1>1. 1 .. 1 - 1 = {}
  OBVIOUS
<1> QED BY <1>1, Zenon DEF KnownAt, SerialAt, ParallelAt, EvenTo, HeldAt

LEMMA HeldIsKnown ==
    ASSUME NEW p, NEW i
    PROVE  /\ ParallelAt(p, i) => KnownAt(p, i)
           /\ \A f : HeldAt(p, i, f) => KnownAt(p, i)
BY Zenon DEF ParallelAt, KnownAt, HeldAt

----------------------------------------------------------------------------
(* A rank that leaves through cgp_error_exit                               *)

\* After call i at which a rank left, the others enter nothing on a file that is open,
\* until they close it.
Waiting(p, i, j, f) ==
    LET a == History(p)[i][f]
        b == History(p)[j][f]
    IN  \/ b = a /\ HeldAt(p, j, f)
        \/ Len(a) < Len(b) /\ (\A k \in 1 .. Len(a) : b[k] = a[k]) /\ b[Len(a) + 1] = <<"close", f>>

LEMMA ScriptOfHeld ==
    ASSUME NEW p \in Programs, Orderly(p), p.exits, NEW i \in 1 .. Len(p.calls), MayFail(p, i),
           NEW f \in FileName, HeldAt(p, i, f),
           NEW j \in i .. Len(p.calls), HeldAt(p, j, f)
    PROVE  \/ Script(p, j, f) = <<>> /\ HeldAt(p, j + 1, f)
           \/ Script(p, j, f) = << <<"close", f>> >>
<1> DEFINE c == p.calls[j]
<1>1. Len(p.calls) \in Nat /\ DOMAIN p.calls = 1 .. Len(p.calls) /\ j \in 1 .. Len(p.calls)
      /\ j \in Nat \ {0}
  BY CallIs
<1>2. f \in Comm /\ f # Lib /\ f # World
  BY CommsDiffer
<1>3. c.file = f => c.op # "cg_is_cgns"
  BY <1>1 DEF Orderly
<1>4. ~ (c.file = f /\ c.op \in WriteOps /\ Pio(p) = CGP_COLLECTIVE)
  <2> SUFFICES ASSUME c.file = f, c.op \in WriteOps, Pio(p) = CGP_COLLECTIVE PROVE FALSE
    OBVIOUS
  <2>1. i # j
    BY DEF MayFail, WriteOps, CGP_COLLECTIVE, CGP_INDEPENDENT
  <2>2. i < j
    BY <1>1, <2>1
  <2> QED BY <1>1, <2>2 DEF Orderly
<1>5. CASE c.op = "cg_close" /\ c.file = f
  BY <1>2, <1>5 DEF Script
<1>6. CASE ~ (c.op = "cg_close" /\ c.file = f)
  <2>1. HeldAt(p, j + 1, f)
    BY <1>1, <1>6, HeldStep
  <2>2. Script(p, j, f) = <<>>
    BY <1>2, <1>3, <1>4, <1>6 DEF Script
  <2> QED BY <2>1, <2>2
<1> QED BY <1>5, <1>6

LEMMA WaitingStep ==
    ASSUME NEW p \in Programs, Orderly(p), p.exits, NEW i \in 1 .. Len(p.calls), MayFail(p, i),
           NEW f \in FileName, HeldAt(p, i, f),
           NEW j \in i .. Len(p.calls), Waiting(p, i, j, f)
    PROVE  Waiting(p, i, j + 1, f)
<1> DEFINE a == History(p)[i][f]
           b == History(p)[j][f]
           d == History(p)[j + 1][f]
           s == Script(p, j, f)
<1>1. /\ j \in 1 .. Len(p.calls) /\ j \in 1 .. Len(p.calls) + 1 /\ i \in 1 .. Len(p.calls) + 1
      /\ f \in Comm
  BY CallIs, CommsDiffer
<1>2. a \in Seq(Entries) /\ b \in Seq(Entries) /\ s \in Seq(Entries) /\ d = b \o s
  BY <1>1, HistoryStep
<1>3. CASE b = a /\ HeldAt(p, j, f)
  <2>1. CASE s = <<>> /\ HeldAt(p, j + 1, f)
    <3>1. d = a
      <4> HIDE DEF a, b, d, s
      <4> QED BY <1>2, <1>3, <2>1
    <3> QED BY <2>1, <3>1 DEF Waiting
  <2>2. CASE s = << <<"close", f>> >>
    <3>1. /\ Len(a) < Len(d) /\ (\A k \in 1 .. Len(a) : d[k] = a[k])
          /\ d[Len(a) + 1] = <<"close", f>>
      <4> HIDE DEF a, b, d, s
      <4> QED BY <1>2, <1>3, <2>2
    <3> QED BY <3>1 DEF Waiting
  <2> QED BY <1>3, <2>1, <2>2, ScriptOfHeld
<1>4. CASE Len(a) < Len(b) /\ (\A k \in 1 .. Len(a) : b[k] = a[k]) /\ b[Len(a) + 1] = <<"close", f>>
  <2>1. Len(b) <= Len(d) /\ \A k \in 1 .. Len(b) : d[k] = b[k]
    BY <1>2, WithinConcat DEF Within
  <2>2. /\ Len(a) < Len(d) /\ (\A k \in 1 .. Len(a) : d[k] = a[k])
        /\ d[Len(a) + 1] = <<"close", f>>
    <3>1. Len(a) \in Nat /\ Len(b) \in Nat /\ Len(d) \in Nat
      BY SMTT(60), <1>2, ConcatProperties
    <3>2. \A k \in 1 .. Len(a) : k \in 1 .. Len(b)
      BY SMTT(60), <1>4, <3>1
    <3>3. Len(a) + 1 \in 1 .. Len(b)
      BY SMTT(60), <1>4, <3>1
    <3> HIDE DEF a, b, d, s
    <3> QED BY <1>4, <2>1, <3>1, <3>2, <3>3
  <2> QED BY <2>2 DEF Waiting
<1>5. (b = a /\ HeldAt(p, j, f))
      \/ (Len(a) < Len(b) /\ (\A k \in 1 .. Len(a) : b[k] = a[k]) /\ b[Len(a) + 1] = <<"close", f>>)
  BY Zenon DEF Waiting
<1> HIDE DEF a, b, d, s
<1> QED BY <1>3, <1>4, <1>5, Zenon

LEMMA AfterFailure ==
    ASSUME NEW p \in Programs, Orderly(p), p.exits, NEW i \in 1 .. Len(p.calls), MayFail(p, i),
           NEW f \in FileName, HeldAt(p, i, f)
    PROVE  Waiting(p, i, Len(p.calls) + 1, f)
<1> DEFINE S == {j \in i .. Len(p.calls) + 1 : ~ Waiting(p, i, j, f)}
<1> SUFFICES ASSUME S # {} PROVE FALSE
  <2>1. Len(p.calls) + 1 \in i .. Len(p.calls) + 1
    BY CallIs
  <2> QED BY <2>1
<1>0. Len(p.calls) \in Nat
  BY CallIs
<1>1. S \in SUBSET Nat
  BY <1>0
<1>2. PICK m \in S : \A k \in S : m <= k
  BY <1>1, LeastElement
<1>3. Waiting(p, i, i, f)
  BY DEF Waiting
<1>4. m # i
  BY <1>2, <1>3
<1>5. m - 1 \in i .. Len(p.calls) /\ m - 1 \notin S /\ m - 1 \in i .. Len(p.calls) + 1
      /\ (m - 1) + 1 = m
  BY <1>0, <1>2, <1>4
<1>6. Waiting(p, i, m - 1, f)
  BY <1>5
<1>7. Waiting(p, i, m, f)
  BY <1>5, <1>6, WaitingStep
<1> QED BY <1>2, <1>7

----------------------------------------------------------------------------
(* All ranks enter the beginning of one and the same sequence              *)

LEMMA WithinAfter ==
    ASSUME NEW s \in Seq(Entries), NEW a \in Seq(Entries), NEW b \in Seq(Entries), Within(a, b)
    PROVE  Within(s \o a, s \o b)
<1>1. /\ Len(s \o a) = Len(s) + Len(a) /\ Len(s \o b) = Len(s) + Len(b)
      /\ Len(s) \in Nat /\ Len(a) \in Nat /\ Len(b) \in Nat
      /\ \A i \in 1 .. Len(s) + Len(a) : (s \o a)[i] = IF i <= Len(s) THEN s[i] ELSE a[i - Len(s)]
      /\ \A i \in 1 .. Len(s) + Len(b) : (s \o b)[i] = IF i <= Len(s) THEN s[i] ELSE b[i - Len(s)]
  BY ConcatProperties
<1>2. Len(a) <= Len(b) /\ \A k \in 1 .. Len(a) : a[k] = b[k]
  BY DEF Within
<1>3. ASSUME NEW i \in 1 .. Len(s) + Len(a) PROVE (s \o a)[i] = (s \o b)[i]
  <2>1. i \in 1 .. Len(s) + Len(b) /\ (i <= Len(s) \/ i - Len(s) \in 1 .. Len(a))
    BY <1>1, <1>2
  <2>2. CASE i <= Len(s)
    BY <1>1, <2>1, <2>2
  <2>3. CASE ~ (i <= Len(s))
    BY <1>1, <1>2, <2>1, <2>3
  <2> QED BY <2>2, <2>3
<1> HIDE DEF Within
<1>4. Len(s \o a) <= Len(s \o b)
  BY <1>1, <1>2
<1> QED BY <1>1, <1>3, <1>4 DEF Within

LEMMA EnteredIs ==
    ASSUME ParInv, Booked, NEW r \in Rank, NEW c \in Comm, at[r] # "call", InScript(r)
    PROVE  /\ pos[r] \in 1 .. Len(prog.calls)
           /\ Script(prog, pos[r], c) \in Seq(Entries) /\ Entered(r, c) \in Seq(Entries)
           /\ Within(Entered(r, c), Script(prog, pos[r], c))
<1> DEFINE s == Script(prog, pos[r], c)
           f == Now(r).file
<1>1. prog \in Programs /\ pos[r] \in 1 .. Len(prog.calls) /\ f \in FileName
  BY NowIsACall DEF Booked, ParInv, Typed
<1>2. s \in Seq(Entries)
  BY <1>1, ScriptTyped
<1>3. \A a \in Seq(Entries) : Within(<<>>, a) /\ Within(a, a)
  BY DEF Within
<1>4. \A d, e : Within(<< d >>, << d >>) /\ Within(<< d >>, << d, e >>)
  BY DEF Within
<1>5. <<"bcast", f>> \in Entries /\ <<"data", f>> \in Entries
  BY <1>1 DEF Entries
<1>6. << <<"bcast", f>> >> \in Seq(Entries) /\ << <<"data", f>> >> \in Seq(Entries) /\ <<>> \in Seq(Entries)
  BY <1>5
<1>7. f # Lib /\ f # World
  BY <1>1, CommsDiffer
<1>8. ASSUME at[r] = "checked", c = Lib
      PROVE  Entered(r, c) \in Seq(Entries) /\ Within(Entered(r, c), s)
  <2>1. Entered(r, c) = << <<"bcast", f>> >>
    BY <1>8 DEF Entered
  <2>2. TestedFor(prog, pos[r])
    BY <1>8 DEF InScript
  <2>3. s = << <<"bcast", f>> >> \o (IF OpenedFor(prog, pos[r]) THEN << <<"open", f>> >> ELSE <<>>)
    BY <1>8, <2>2 DEF Script, Now
  <2>4. (<<"open", f>>) \in Entries
    BY <1>1 DEF Entries
  <2>5. (IF OpenedFor(prog, pos[r]) THEN << <<"open", f>> >> ELSE <<>>) \in Seq(Entries)
    BY <2>4
  <2> HIDE DEF s, f
  <2> QED BY <1>6, <2>1, <2>3, <2>5, WithinConcat
<1>9. ASSUME at[r] = "data", c = f
      PROVE  Entered(r, c) \in Seq(Entries) /\ Within(Entered(r, c), s)
  <2>1. Entered(r, c) = << <<"data", f>> >>
    BY <1>9 DEF Entered
  <2>2. Now(r).op \in WriteOps /\ Pio(prog) = CGP_COLLECTIVE
    BY <1>9 DEF InScript
  <2>3. s = << <<"data", f>> >> \/ s = << <<"data", f>>, <<"elements", f>> >>
    BY <1>7, <1>9, <2>2 DEF Script, Now, WriteOps
  <2> HIDE DEF s, f
  <2> QED BY <1>4, <1>6, <2>1, <2>3
<1>10. ASSUME ~ (at[r] = "checked" /\ c = Lib), ~ (at[r] = "data" /\ c = f)
       PROVE  Entered(r, c) = s \/ Entered(r, c) = <<>>
  BY <1>10 DEF Entered
<1>11. Entered(r, c) \in Seq(Entries) /\ Within(Entered(r, c), s)
  <2> HIDE DEF s, f
  <2> QED BY <1>2, <1>3, <1>6, <1>8, <1>9, <1>10
<1> QED BY <1>1, <1>2, <1>11

\* A rank that follows the program has entered what all ranks enter up to the end of its call.
LEMMA EnteredSoFar ==
    ASSUME ParInv, Booked, NEW r \in Rank, NEW c \in Comm, InScript(r)
    PROVE  /\ Before(r, c) \in Seq(Entries)
           /\ at[r] = "call" => coll[r][c] = Before(r, c)
           /\ pos[r] <= Len(prog.calls) => Within(coll[r][c], History(prog)[pos[r] + 1][c])
           /\ Within(coll[r][c], History(prog)[Len(prog.calls) + 1][c])
<1> DEFINE L == Len(prog.calls)
           H == History(prog)
<1>1. /\ prog \in Programs /\ L \in Nat /\ pos[r] \in 1 .. L + 1
      /\ coll[r][c] = Before(r, c) \o Entered(r, c)
  BY SMTT(60), CallIs DEF Booked, ParInv, Typed, InScript
<1>2. Before(r, c) \in Seq(Entries)
  BY <1>1, HistoryStep DEF Before
<1>3. ASSUME at[r] = "call" PROVE coll[r][c] = Before(r, c)
  <2>1. Entered(r, c) = <<>>
    BY <1>3 DEF Entered
  <2> QED BY <1>1, <1>2, <2>1
<1>4. ASSUME pos[r] <= L PROVE Within(coll[r][c], H[pos[r] + 1][c])
  <2>1. pos[r] \in 1 .. L
    BY <1>1, <1>4
  <2>2. /\ H[pos[r] + 1][c] = Before(r, c) \o Script(prog, pos[r], c)
        /\ Script(prog, pos[r], c) \in Seq(Entries)
    BY <1>1, <2>1, HistoryStep DEF Before
  <2>3. CASE at[r] = "call"
    BY <1>2, <1>3, <2>2, <2>3, WithinConcat
  <2>4. CASE at[r] # "call"
    <3>1. Entered(r, c) \in Seq(Entries) /\ Within(Entered(r, c), Script(prog, pos[r], c))
      BY <2>4, EnteredIs
    <3>2. Within(Before(r, c) \o Entered(r, c), Before(r, c) \o Script(prog, pos[r], c))
      BY <1>2, <2>2, <3>1, WithinAfter
    <3> QED BY <1>1, <2>2, <3>2
  <2> QED BY <2>3, <2>4
<1>5. Within(coll[r][c], H[L + 1][c])
  <2>1. CASE pos[r] = L + 1
    <3>1. at[r] = "call"
      BY <1>1, <2>1 DEF Booked
    <3>2. coll[r][c] = H[L + 1][c] /\ coll[r][c] \in Seq(Entries)
      BY <1>2, <1>3, <2>1, <3>1 DEF Before
    <3> QED BY <3>2 DEF Within
  <2>2. CASE pos[r] # L + 1
    <3>1. pos[r] <= L /\ pos[r] + 1 \in 1 .. L + 1 /\ L + 1 \in pos[r] + 1 .. L + 1
      <4> DEFINE n == pos[r]
      <4>1. L \in Nat /\ n \in 1 .. L + 1 /\ n # L + 1
        BY <1>1, <2>2
      <4> HIDE DEF L, n
      <4>2. n <= L /\ n + 1 \in 1 .. L + 1 /\ L + 1 \in n + 1 .. L + 1
        BY <4>1
      <4> QED BY <4>2 DEF n
    <3>2. Within(coll[r][c], H[pos[r] + 1][c]) /\ Within(H[pos[r] + 1][c], H[L + 1][c])
      BY <1>1, <1>4, <3>1, HistoryGrows
    <3>3. H[pos[r] + 1][c] \in Seq(Entries) /\ H[L + 1][c] \in Seq(Entries)
      BY <1>1, <3>1, HistoryStep
    <3>4. coll[r][c] \in Seq(Entries)
      <4>1. at[r] # "call" => Entered(r, c) \in Seq(Entries)
        BY EnteredIs
      <4>2. CASE at[r] = "call"
        BY <1>2, <1>3, <4>2
      <4>3. CASE at[r] # "call"
        BY <1>1, <1>2, <4>1, <4>3, ConcatProperties
      <4> QED BY <4>2, <4>3
    <3> QED BY <3>2, <3>3, <3>4, WithinWithin
  <2> QED BY <2>1, <2>2
<1> QED BY <1>2, <1>3, <1>4, <1>5

\* What all ranks enter on a communicator; a file that is still open may be closed at the end.
Whole(c) ==
    LET a == History(prog)[Len(prog.calls) + 1][c]
    IN  IF c \in FileName THEN Append(a, <<"close", c>>) ELSE a

LEMMA WholeIs ==
    ASSUME prog \in Programs, NEW c \in Comm
    PROVE  /\ Whole(c) \in Seq(Entries)
           /\ \A a \in Seq(Entries) : Within(a, History(prog)[Len(prog.calls) + 1][c]) => Within(a, Whole(c))
<1> DEFINE b == History(prog)[Len(prog.calls) + 1][c]
<1>1. b \in Seq(Entries)
  <2>1. Len(prog.calls) + 1 \in 1 .. Len(prog.calls) + 1
    BY CallIs
  <2> QED BY <2>1, HistoryStep
<1> HIDE DEF b
<1>2. CASE c \in FileName
  <2> DEFINE e == <<"close", c>>
  <2>1. e \in Entries
    BY <1>2 DEF Entries
  <2>2. Whole(c) = Append(b, e)
    BY <1>2 DEF Whole, b
  <2> HIDE DEF e
  <2>3. Append(b, e) \in Seq(Entries) /\ Within(b, Append(b, e))
    BY <1>1, <2>1, AppendProperties DEF Within
  <2> QED BY <1>1, <2>2, <2>3, WithinWithin DEF b
<1>3. CASE c \notin FileName
  BY <1>1, <1>3 DEF Whole, b
<1> QED BY <1>2, <1>3

LEMMA EnteredByAll ==
    ASSUME ParInv, Booked, CollTyped, Orderly(prog), NEW r \in Rank, NEW c \in Comm, Follows(r)
    PROVE  Within(coll[r][c], Whole(c))
<1> DEFINE L == Len(prog.calls)
           H == History(prog)
<1>1. prog \in Programs /\ L \in Nat /\ pos[r] \in 1 .. L + 1 /\ coll[r][c] \in Seq(Entries)
  BY CallIs DEF Booked, ParInv, Typed, CollTyped
<1>2. CASE ~ Gone(r)
  <2>1. Within(coll[r][c], H[L + 1][c])
    BY <1>2, EnteredSoFar DEF Follows
  <2> QED BY <1>1, <2>1, WholeIs
<1>3. CASE Gone(r)
  <2> DEFINE n == pos[r]
  <2>1. Leaves(r) /\ n <= L
    BY <1>3 DEF Follows, Gone, Booked
  <2>2. n \in 1 .. L /\ n \in 1 .. L + 1 /\ L + 1 \in n .. L + 1
    <3>1. L \in Nat /\ n \in 1 .. L + 1 /\ n <= L
      BY <1>1, <2>1
    <3> HIDE DEF L, n
    <3> QED BY <3>1
  <2>3. Within(H[n][c], H[L + 1][c])
    BY <1>1, <2>2, HistoryGrows
  <2>4. ASSUME coll[r][c] = Before(r, c) PROVE Within(coll[r][c], Whole(c))
    BY <1>1, <2>3, <2>4, WholeIs DEF Before
  <2>7. ASSUME coll[r][c] = H[n + 1][c] PROVE Within(coll[r][c], Whole(c))
    <3>1. n + 1 \in 1 .. L + 1 /\ L + 1 \in n + 1 .. L + 1
      <4>1. L \in Nat
        BY <1>1
      <4> HIDE DEF L, n
      <4> QED BY <2>2, <4>1
    <3>2. Within(H[n + 1][c], H[L + 1][c])
      <4> HIDE DEF n
      <4> QED BY <1>1, <3>1, HistoryGrows
    <3> QED BY <1>1, <2>7, <3>2, WholeIs
  <2>5. ASSUME c \in FileName, coll[r][c] = Append(Before(r, c), <<"close", c>>), HeldAt(prog, n, c)
        PROVE  Within(coll[r][c], Whole(c))
    <3> DEFINE a == H[n][c]
               b == H[L + 1][c]
               e == <<"close", c>>
    <3>0. prog.exits /\ MayFail(prog, n)
      BY <2>1 DEF Leaves
    <3>1. Waiting(prog, n, L + 1, c)
      <4> HIDE DEF n
      <4> QED BY <1>1, <2>2, <2>5, <3>0, AfterFailure
    <3>2. b = a \/ (Len(a) < Len(b) /\ (\A k \in 1 .. Len(a) : b[k] = a[k]) /\ b[Len(a) + 1] = e)
      BY <3>1, Zenon DEF Waiting
    <3>3. a \in Seq(Entries) /\ b \in Seq(Entries)
      <4>1. L + 1 \in 1 .. L + 1
        BY <1>1
      <4> QED BY SMTT(60), <1>1, <2>2, <4>1, HistoryStep
    <3>4. e \in Entries
      BY <2>5 DEF Entries
    <3>5. coll[r][c] = Append(a, e) /\ Whole(c) = Append(b, e)
      BY <2>5, Zenon DEF Before, Whole
    <3> HIDE DEF a, b, e
    <3>6. CASE b = a
      BY <1>1, <3>5, <3>6 DEF Within
    <3>7. CASE Len(a) < Len(b) /\ (\A k \in 1 .. Len(a) : b[k] = a[k]) /\ b[Len(a) + 1] = e
      <4>1. /\ Len(a) \in Nat /\ Len(b) \in Nat /\ Append(a, e) \in Seq(Entries)
            /\ Len(Append(a, e)) = Len(a) + 1 /\ Append(a, e)[Len(a) + 1] = e
            /\ \A k \in 1 .. Len(a) : Append(a, e)[k] = a[k]
        BY <3>3, <3>4, AppendProperties
      <4>2. Within(Append(a, e), b)
        <5>1. Len(a) + 1 <= Len(b) /\ \A k \in 1 .. Len(a) + 1 : k \in 1 .. Len(a) \/ k = Len(a) + 1
          BY <3>7, <4>1
        <5> QED BY <3>7, <4>1, <5>1 DEF Within
      <4> QED BY <1>1, <3>5, <4>2, WholeIs DEF b
    <3> QED BY <3>2, <3>6, <3>7
  <2>6. c \in {Lib, World} \/ c \in FileName
    BY DEF Comm
  <2> QED BY <2>1, <2>4, <2>5, <2>6, <2>7 DEF Leaves
<1> QED BY <1>2, <1>3

\* So two ranks have the same collective at a place that both have come to.
LEMMA FollowersAgree ==
    ASSUME ParInv, Booked, CollTyped, Orderly(prog), NEW r \in Rank, NEW s \in Rank,
           Follows(r), Follows(s), NEW c \in Comm,
           NEW k, k \in DOMAIN coll[r][c], k \in DOMAIN coll[s][c]
    PROVE  coll[r][c][k] = coll[s][c][k]
<1>1. Within(coll[r][c], Whole(c)) /\ Within(coll[s][c], Whole(c))
  BY EnteredByAll
<1>2. coll[r][c] \in Seq(Entries) /\ coll[s][c] \in Seq(Entries)
  BY DEF CollTyped
<1>3. k \in 1 .. Len(coll[r][c]) /\ k \in 1 .. Len(coll[s][c])
  BY <1>2
<1> QED BY <1>1, <1>3 DEF Within

LEMMA FollowAgrees ==
    ASSUME ParInv, Booked, CollTyped, AgreeInv
    PROVE  Orderly(prog) => CollectivesAgree
<1> SUFFICES ASSUME Orderly(prog), ~ Excused,
                    NEW r \in Rank, NEW s \in Rank, NEW c \in Comm,
                    NEW k \in DOMAIN coll[r][c] \cap DOMAIN coll[s][c]
             PROVE  coll[r][c][k] = coll[s][c][k]
  BY DEF CollectivesAgree
<1>1. Follows(r) /\ Follows(s)
  BY DEF AgreeInv, Excused, Follow
<1> QED BY <1>1, FollowersAgree

----------------------------------------------------------------------------
(* The ranks that do not take the step                                     *)

\* What every rank follows, in an orderly program without uneven tests.
Good ==
    /\ ParInv /\ Booked /\ CollTyped
    /\ Orderly(prog) /\ ~ UnevenProbe /\ ~ deserted /\ Follow

LEMMA SameRank ==
    ASSUME NEW s \in Rank, Follows(s), prog' = prog, pos'[s] = pos[s], at'[s] = at[s],
           handle'[s] = handle[s], ctx'[s] = ctx[s], coll'[s] = coll[s]
    PROVE  Follows(s)'
<1>1. Gone(s)' <=> Gone(s)
  BY DEF Gone
<1>2. Now(s)' = Now(s)
  BY DEF Now
<1>3. \A c \in Comm : Before(s, c)' = Before(s, c) /\ Entered(s, c)' = Entered(s, c)
  BY <1>2 DEF Before, Entered
<1>4. InScript(s) => InScript(s)'
  BY <1>2, <1>3 DEF InScript
<1>5. Settled(s) => Settled(s)'
  BY <1>2 DEF Settled
<1>6. NextToClose(s)' = NextToClose(s)
  BY DEF NextToClose, InParallel
<1>7. Lib \in Comm /\ World \in Comm /\ \A f \in FileName : f \in Comm
  BY CommsDiffer DEF Comm
<1>8. Leaves(s) => Leaves(s)'
  <2>1. OpenedFor(prog, pos[s])' <=> OpenedFor(prog, pos[s])
    OBVIOUS
  <2>2. MayFail(prog, pos[s])' <=> MayFail(prog, pos[s])
    OBVIOUS
  <2> QED BY <1>3, <1>6, <1>7, <2>1, <2>2 DEF Leaves
<1> QED BY <1>1, <1>4, <1>5, <1>8 DEF Follows

LEMMA StepKeepsSettings ==
    ASSUME ParInv, NEW r \in Rank, Step(r), NEW s \in Rank, s # r
    PROVE  ctx'[s] = ctx[s]
<1>1. ASSUME NEW new, ctx' = [ctx EXCEPT ![r] = new] PROVE ctx'[s] = ctx[s]
  BY <1>1 DEF ParInv, Typed
<1>2. CASE UNCHANGED ctx
  BY <1>2
<1>3. CASE PioMode(r)
  BY <1>1, <1>3 DEF PioMode
<1>4. CASE OpenSerialWrite(r)
  BY <1>4 DEF OpenSerialWrite, ParInv, Typed
<1>5. CASE OpenUnchecked(r) \/ CheckFile(r) \/ AwaitCheck(r)
  BY <1>1, <1>5 DEF OpenUnchecked, CheckFile, AwaitCheck
<1>6. CASE ParallelOpen(r)
  BY <1>6 DEF ParallelOpen, ParInv, Typed
<1>7. CASE \/ Skip(r) \/ Barrier(r) \/ LeaveBarrier(r) \/ Checked(r) \/ Opened(r)
           \/ WriteRefused(r) \/ Transfer(r) \/ Transferred(r) \/ ElementsTransferred(r)
           \/ WriteAlone(r) \/ Close(r) \/ Closed(r) \/ ErrorExit(r) \/ CleanedUp(r) \/ MakeFile(r)
  BY <1>2, <1>7 DEF Skip, Barrier, LeaveBarrier, MakeFile, Checked, Opened, WriteRefused, Transfer,
     Transferred, ElementsTransferred, WriteAlone, Close, Closed, ErrorExit, CleanedUp
<1> QED BY <1>3, <1>4, <1>5, <1>6, <1>7 DEF Step

LEMMA StepGoesOn ==
    ASSUME ParInv, Booked, NEW r \in Rank, Step(r)
    PROVE  /\ prog' = prog
           /\ \A s \in Rank : pos'[s] \in Nat /\ pos[s] \in Nat /\ pos[s] <= pos'[s]
           /\ deserted => deserted'
<1>1. Moves(r)
  BY StepMoves
<1>2. \A s \in Rank : pos'[s] \in Nat /\ pos[s] \in Nat /\ pos[s] <= pos'[s]
  <2>1. pos \in [Rank -> Nat \ {0}]
    BY DEF ParInv, Typed
  <2> QED BY <1>1, <2>1 DEF Moves
<1>3. \A ok, desert : Return(r, ok, desert) => (deserted => deserted')
  BY DEF Return
<1>4. \A c, what, where : Enter(r, c, what, where) => (deserted => deserted')
  BY DEF Enter
<1>5. \A mode : FinishOpen(r, mode) => (deserted => deserted')
  BY <1>3, <1>4 DEF FinishOpen
<1>6. deserted => deserted'
  <2>1. CASE UNCHANGED deserted
    BY <2>1
  <2>2. CASE Skip(r) \/ CleanedUp(r)
    BY <2>1, <2>2 DEF Skip, CleanedUp
  <2>3. CASE ErrorExit(r)
    BY <1>4, <2>1, <2>3 DEF ErrorExit
  <2>4. CASE PioMode(r) \/ Barrier(r) \/ LeaveBarrier(r) \/ OpenSerialWrite(r) \/ MakeFile(r)
    BY <1>3, <1>4, <2>1, <2>4, Zenon DEF PioMode, Barrier, LeaveBarrier, OpenSerialWrite, MakeFile
  <2>5. CASE OpenUnchecked(r) \/ CheckFile(r) \/ AwaitCheck(r) \/ Checked(r)
    BY <1>3, <1>4, <1>5, <2>5, Zenon DEF OpenUnchecked, CheckFile, AwaitCheck, Checked
  <2>6. CASE ParallelOpen(r) \/ Opened(r) \/ WriteRefused(r) \/ Transfer(r)
    BY <1>3, <1>4, <1>5, <2>6, Zenon DEF ParallelOpen, Opened, WriteRefused, Transfer
  <2>7. CASE Transferred(r) \/ ElementsTransferred(r) \/ WriteAlone(r)
    BY <1>3, <1>4, <2>7, Zenon DEF Transferred, ElementsTransferred, WriteAlone
  <2>8. CASE Close(r) \/ Closed(r)
    BY <1>3, <1>4, <2>8, Zenon DEF Close, Closed
  <2> QED BY <2>2, <2>3, <2>4, <2>5, <2>6, <2>7, <2>8 DEF Step
<1> QED BY <1>1, <1>2, <1>6 DEF Moves

\* Where a rank goes that does not go on to the next call.
Onward(r) ==
    \/ pos'[r] = pos[r] + 1
    \/ at'[r] \notin {"call", "checked"}
    \/ at[r] = "call" /\ at'[r] = "checked"

LEMMA StepIsOnward ==
    ASSUME ParInv, NEW r \in Rank, Step(r)
    PROVE  Onward(r)
<1>1. \A ok, desert : Return(r, ok, desert) => Onward(r)
  BY DEF Return, Onward, ParInv, Typed
<1>2. \A where \in {"open", "close", "data", "elements", "barrier", "cleanup"} :
         \A c, what : Enter(r, c, what, where) => Onward(r)
  BY DEF Enter, Onward, ParInv, Typed
<1>3. \A c, what : Enter(r, c, what, "checked") /\ at[r] = "call" => Onward(r)
  BY DEF Enter, Onward, ParInv, Typed
<1>12. /\ \A c, what : Enter(r, c, what, "open") => Onward(r)
       /\ \A c, what : Enter(r, c, what, "close") => Onward(r)
       /\ \A c, what : Enter(r, c, what, "data") => Onward(r)
       /\ \A c, what : Enter(r, c, what, "elements") => Onward(r)
       /\ \A c, what : Enter(r, c, what, "barrier") => Onward(r)
       /\ \A c, what : Enter(r, c, what, "cleanup") => Onward(r)
  BY <1>2
<1>4. \A mode : FinishOpen(r, mode) => Onward(r)
  BY <1>1, <1>12 DEF FinishOpen
<1>5. CASE Skip(r)
  BY <1>5 DEF Skip, Onward, ParInv, Typed
<1>6. CASE OpenSerialWrite(r) \/ CleanedUp(r)
  BY <1>6 DEF OpenSerialWrite, CleanedUp, Onward, ParInv, Typed
<1>7. CASE OpenUnchecked(r) \/ CheckFile(r) \/ AwaitCheck(r) \/ Checked(r)
  BY <1>1, <1>3, <1>4, <1>7 DEF OpenUnchecked, CheckFile, AwaitCheck, Checked, Probes, Calls
<1>8. CASE ParallelOpen(r) \/ Opened(r) \/ Close(r)
  BY <1>1, <1>12, <1>4, <1>8 DEF ParallelOpen, Opened, Close
<1>9. CASE \/ PioMode(r) \/ LeaveBarrier(r) \/ MakeFile(r) \/ WriteRefused(r)
           \/ ElementsTransferred(r) \/ WriteAlone(r) \/ Closed(r)
  BY <1>1, <1>9 DEF PioMode, LeaveBarrier, MakeFile, WriteRefused, ElementsTransferred,
     WriteAlone, Closed
<1>10. CASE Barrier(r) \/ Transfer(r) \/ Transferred(r)
  BY <1>1, <1>12, <1>10 DEF Barrier, Transfer, Transferred
<1>11. CASE ErrorExit(r)
  <2>1. CASE InParallel(r) = {}
    BY <1>11, <2>1 DEF ErrorExit, Onward
  <2> QED BY <1>12, <1>11, <2>1 DEF ErrorExit
<1> QED BY <1>5, <1>6, <1>7, <1>8, <1>9, <1>10, <1>11 DEF Step

\* No rank goes back.
LEMMA JoinedStays ==
    ASSUME ParInv, Booked, NEW r \in Rank, Step(r), NEW s \in Rank, NEW j \in Nat
    PROVE  /\ j <= pos[s] => j <= pos'[s]
           /\ Reached(s, j) => Reached(s, j)'
           /\ Joined(s, j) => Joined(s, j)'
<1>1. Moves(r)
  BY StepMoves
<1>2. pos \in [Rank -> Nat \ {0}]
  BY DEF ParInv, Typed
<1>3. CASE s # r
  <2>1. pos'[s] = pos[s] /\ at'[s] = at[s]
    BY <1>3, StepIsOfOneRank
  <2> QED BY <2>1 DEF Reached, Joined
<1>4. CASE s = r /\ pos'[r] = pos[r] + 1
  <2>1. j <= pos[s] => j < pos'[s]
    BY <1>2, <1>4
  <2> QED BY <1>2, <1>4, <2>1 DEF Reached, Joined
<1>5. CASE s = r /\ pos'[r] = pos[r]
  <2>1. /\ at[r] # "call" => at'[r] # "call"
        /\ at[r] \notin {"call", "checked"} => at'[r] \notin {"call", "checked"}
    BY <1>2, <1>5, StepIsOnward DEF Onward
  <2> QED BY <1>5, <2>1 DEF Reached, Joined
<1> QED BY <1>1, <1>2, <1>3, <1>4, <1>5 DEF Moves

LEMMA OthersFollow ==
    ASSUME ParInv, Booked, CollTyped, NEW r \in Rank, Step(r), NEW s \in Rank, s # r,
           Follows(s), Traces(s)
    PROVE  Follows(s)' /\ Traces(s)'
<1>1. pos'[s] = pos[s] /\ at'[s] = at[s] /\ handle'[s] = handle[s] /\ prog' = prog
  BY StepIsOfOneRank
<1>2. coll'[s] = coll[s]
  BY StepAdds, Grown
<1>3. ctx'[s] = ctx[s]
  BY StepKeepsSettings
<1>4. Follows(s)'
  BY <1>1, <1>2, <1>3, SameRank
<1>5. \A j \in Nat, t \in Rank : /\ j <= pos[t] => j <= pos'[t]
                                 /\ Joined(t, j) => Joined(t, j)'
  BY JoinedStays
<1>6. \A j \in 1 .. Len(prog.calls) : j \in Nat
  OBVIOUS
<1>7. Traces(s)'
  BY <1>1, <1>5, <1>6 DEF Traces
<1> QED BY <1>4, <1>7

----------------------------------------------------------------------------
(* The rank that takes the step                                            *)

\* What the rules say of the call a rank is in.
LEMMA CallIsOrderly ==
    ASSUME Good, NEW r \in Rank, pos[r] <= Len(prog.calls), NEW i, i = pos[r]
    PROVE  /\ prog \in Programs /\ i \in 1 .. Len(prog.calls) /\ i \in Nat \ {0}
           /\ Len(prog.calls) \in Nat
           /\ Now(r) = prog.calls[i] /\ Now(r).file \in FileName
           /\ Now(r).op \in WriteOps \cup {"cgp_open", "cgp_pio_mode", "MPI_Barrier"} =>
                 Now(r).who = Rank
           /\ (Now(r).op = "cg_close" /\ HeldAt(prog, i, Now(r).file)) => Now(r).who = Rank
           /\ Now(r).op \in WriteOps => HeldAt(prog, i, Now(r).file)
           /\ Now(r).op \in OpenOps \cup {"cg_is_cgns"} => ~ HeldAt(prog, i, Now(r).file)
           /\ (Now(r).op = "cgp_open" /\ Now(r).mode # "w") =>
                 ThereAt(prog, i, Now(r).file) /\ DoneAt(prog, i, Now(r).file)
           /\ Now(r).op = "cgp_pio_mode" => i = 1
           /\ Now(r).op = "cg_is_cgns" => Now(r).mode = "r" /\ DoneAt(prog, i, Now(r).file)
<1>1. ParInv /\ Booked /\ Orderly(prog)
  BY DEF Good
<1>2. /\ Len(prog.calls) \in Nat /\ i \in DOMAIN prog.calls /\ DOMAIN prog.calls = 1 .. Len(prog.calls)
      /\ Now(r).file \in FileName
  BY <1>1, NowIsACall
<1>3. prog \in Programs /\ i \in Nat \ {0} /\ Now(r) = prog.calls[i]
  BY <1>1 DEF ParInv, Typed, Now
<1> QED BY <1>1, <1>2, <1>3 DEF Orderly

\* A test of a file concerns all ranks, as those before did, once MPI is known.
LEMMA ProbeIsEven ==
    ASSUME Good, NEW r \in Rank, pos[r] <= Len(prog.calls),
           Now(r).op \in {"cg_is_cgns", "cg_open"}, Now(r).mode = "r", KnownAt(prog, pos[r])
    PROVE  Now(r).who = Rank /\ EvenTo(prog, pos[r])
<1> DEFINE i == pos[r]
<1>1. i \in DOMAIN prog.calls /\ i \in Nat \ {0} /\ Now(r) = prog.calls[i]
  <2>1. ParInv /\ Booked
    BY DEF Good
  <2> QED BY <2>1, NowIsACall DEF ParInv, Typed, Now
<1>2. PICK j \in 1 .. i - 1 : prog.calls[j].op = "cgp_open"
  BY DEF KnownAt
<1>3. j \in 1 .. i /\ i \in 1 .. i /\ \A k \in 1 .. i - 1 : k \in 1 .. i
  BY <1>1
<1>4. \A k \in 1 .. i : prog.calls[k].op \in {"cg_open", "cg_is_cgns"} => prog.calls[k].who = Rank
  BY <1>1, <1>2, <1>3 DEF Good, UnevenProbe
<1> QED BY <1>1, <1>3, <1>4 DEF EvenTo

LEMMA ReturnIs ==
    ASSUME ParInv, NEW r \in Rank, NEW ok \in BOOLEAN, NEW desert \in BOOLEAN, Return(r, ok, desert)
    PROVE  /\ prog' = prog /\ (~ deserted' => ok \/ ~ desert)
           /\ \/ ok \/ ~ prog.exits
              \/ ~ ok /\ prog.exits
           /\ (ok \/ ~ prog.exits) => at'[r] = "call" /\ pos'[r] = pos[r] + 1
           /\ (~ ok /\ prog.exits) => at'[r] = "exit" /\ pos'[r] = pos[r]
BY DEF Return, ParInv, Typed

LEMMA EnterIs ==
    ASSUME ParInv, CollTyped, NEW r \in Rank, NEW d \in Comm, NEW e, NEW where, Enter(r, d, e, where)
    PROVE  /\ prog' = prog /\ pos'[r] = pos[r] /\ at'[r] = where
           /\ coll'[r][d] = Append(coll[r][d], e)
           /\ \A c \in Comm : c # d => coll'[r][c] = coll[r][c]
<1>1. coll[r] \in [Comm -> Seq(Entries)]
  BY DEF CollTyped
<1>2. coll'[r] = [coll[r] EXCEPT ![d] = Append(@, e)]
  BY DEF Enter, CollTyped
<1>3. at'[r] = where
  BY DEF Enter, ParInv, Typed
<1> QED BY <1>1, <1>2, <1>3 DEF Enter

\* A rank that has gone through its call has entered all that belongs to it.
LEMMA DoneInScript ==
    ASSUME Good, NEW r \in Rank, pos[r] <= Len(prog.calls), prog' = prog,
           at'[r] = "call", pos'[r] = pos[r] + 1,
           \A c \in Comm : coll'[r][c] = Before(r, c) \o Script(prog, pos[r], c)
    PROVE  InScript(r)'
<1>1. prog \in Programs /\ pos[r] \in 1 .. Len(prog.calls) /\ pos[r] + 1 \in 1 .. Len(prog.calls) + 1
  <2>1. prog \in Programs /\ pos[r] \in 1 .. Len(prog.calls)
    BY CallIsOrderly
  <2> QED BY <2>1
<1>2. ASSUME NEW c \in Comm PROVE coll'[r][c] = Before(r, c)' \o Entered(r, c)'
  <2>1. /\ History(prog)[pos[r] + 1][c] = Before(r, c) \o Script(prog, pos[r], c)
        /\ History(prog)[pos[r] + 1][c] \in Seq(Entries)
    BY <1>1, HistoryStep DEF Before
  <2>2. Before(r, c)' = History(prog)[pos[r] + 1][c] /\ Entered(r, c)' = <<>>
    BY DEF Before, Entered
  <2>3. coll'[r][c] \o <<>> = coll'[r][c]
    BY <2>1, ConcatEmptySeq
  <2> QED BY <2>1, <2>2, <2>3
<1> QED BY <1>2 DEF InScript

\* A rank that enters a collective of its call stays with it.
LEMMA EntersInScript ==
    ASSUME Good, NEW r \in Rank, pos[r] <= Len(prog.calls), InScript(r),
           prog' = prog, pos'[r] = pos[r], NEW d \in Comm, NEW e \in Entries,
           coll'[r][d] = Append(coll[r][d], e),
           \A c \in Comm : c # d => coll'[r][c] = coll[r][c],
           Entered(r, d)' = Append(Entered(r, d), e),
           \A c \in Comm : c # d => Entered(r, c)' = Entered(r, c)
    PROVE  \A c \in Comm : coll'[r][c] = Before(r, c)' \o Entered(r, c)'
<1> SUFFICES ASSUME NEW c \in Comm PROVE coll'[r][c] = Before(r, c)' \o Entered(r, c)'
  OBVIOUS
<1>1. Before(r, c)' = Before(r, c)
  BY DEF Before
<1>2. coll[r][c] = Before(r, c) \o Entered(r, c)
  BY DEF InScript
<1>3. CASE c # d
  BY <1>1, <1>2, <1>3
<1>4. CASE c = d
  <2>1. Before(r, c) \in Seq(Entries)
    BY EnteredSoFar DEF Good
  <2>2. Entered(r, c) \in Seq(Entries)
    <3>1. CASE at[r] = "call"
      BY <3>1 DEF Entered
    <3> QED BY <3>1, EnteredIs DEF Good
  <2> DEFINE a == Before(r, c)
             b == Entered(r, c)
  <2>3. Append(a \o b, e) = a \o Append(b, e)
    <3>1. a \in Seq(Entries) /\ b \in Seq(Entries) /\ a \o b \in Seq(Entries)
          /\ <<e>> \in Seq(Entries)
      BY <2>1, <2>2, ConcatProperties
    <3> HIDE DEF a, b
    <3>2. Append(a \o b, e) = (a \o b) \o <<e>> /\ Append(b, e) = b \o <<e>>
      BY <3>1, AppendIsConcat
    <3>3. (a \o b) \o <<e>> = a \o (b \o <<e>>)
      BY <3>1, ConcatAssociative, SMTT(60)
    <3> QED BY <3>2, <3>3
  <2> QED BY <1>1, <1>2, <1>4, <2>3
<1> QED BY <1>3, <1>4

\* A rank that returns from its call leaves what is asked of it for the next.
LEMMA DoneSettled ==
    ASSUME Good, NEW r \in Rank, pos[r] <= Len(prog.calls), prog' = prog, NEW i, i = pos[r] + 1,
           at'[r] = "call", pos'[r] = i,
           \A f \in FileName : handle'[r][f] = PARALLEL <=> HeldAt(prog, i, f),
           ctx'[r].init <=> KnownAt(prog, i),
           ~ KnownAt(prog, i) => ctx'[r].mode = NATIVE,
           EvenTo(prog, i) => /\ ctx'[r].mode = PARALLEL <=> ParallelAt(prog, i)
                              /\ ctx'[r].type = NONE <=> ~ SerialAt(prog, i),
           ctx'[r].pio = Pio(prog)
    PROVE  Settled(r)'
<1>1. i # 1
  BY CallIsOrderly
<1> QED BY <1>1 DEF Settled

LEMMA PioIs ==
    ASSUME Good, NEW r \in Rank, pos[r] <= Len(prog.calls), Settled(r), Now(r).op # "cgp_pio_mode"
    PROVE  ctx[r].pio = Pio(prog)
<1>1. Now(r) = prog.calls[pos[r]]
  BY DEF Now
<1> QED BY <1>1 DEF Settled, Pio

\* The file a rank closes in parallel apart, and the settings but for an open, stay.
LEMMA PlainSettled ==
    ASSUME Good, NEW r \in Rank, pos[r] <= Len(prog.calls), Settled(r), prog' = prog,
           at'[r] = "call", pos'[r] = pos[r] + 1, ctx'[r] = ctx[r],
           \A f \in FileName : handle'[r][f] = PARALLEL <=> handle[r][f] = PARALLEL,
           Now(r).op \notin {"cgp_open", "cgp_pio_mode"},
           Now(r).op = "cg_open" => at[r] = "call" /\ Now(r).who # Rank,
           ~ (Now(r).op = "cg_close" /\ HeldAt(prog, pos[r], Now(r).file))
    PROVE  Settled(r)'
<1> DEFINE i == pos[r]
<1>1. prog \in Programs /\ i \in 1 .. Len(prog.calls) /\ i \in Nat \ {0} /\ Now(r) = prog.calls[i]
  BY CallIsOrderly
<1>2. \A f \in FileName : HeldAt(prog, i + 1, f) <=> HeldAt(prog, i, f)
  BY SMTT(60), <1>1, HeldStep
<1>3. /\ KnownAt(prog, i + 1) <=> KnownAt(prog, i)
      /\ SerialAt(prog, i + 1) <=> SerialAt(prog, i) \/ (Now(r).op = "cg_open" /\ Now(r).mode = "w")
      /\ EvenTo(prog, i + 1) =>
            EvenTo(prog, i) /\ (Now(r).op \in {"cg_open", "cg_is_cgns"} => Now(r).who = Rank)
  BY <1>1, KnownStep
<1>4. ParallelAt(prog, i + 1) <=> ParallelAt(prog, i) /\ Now(r).op # "cg_open"
  BY <1>1, ParallelStep
<1>5. ctx[r].pio = Pio(prog)
  BY PioIs
<1>20. at[r] # "unlinked"
  BY DEF Good, ParInv, Waits
<1>6. /\ \A f \in FileName : handle[r][f] = PARALLEL <=> HeldAt(prog, i, f)
      /\ ctx[r].init <=> KnownAt(prog, i)
      /\ ~ KnownAt(prog, i) => ctx[r].mode = NATIVE
      /\ (EvenTo(prog, i) /\ (at[r] = "call" \/ Now(r).op # "cg_open")) =>
            (ctx[r].mode = PARALLEL <=> ParallelAt(prog, i))
      /\ EvenTo(prog, i) => (ctx[r].type = NONE <=> ~ SerialAt(prog, i))
  BY <1>20 DEF Settled
<1>7. EvenTo(prog, i + 1) => /\ ctx'[r].mode = PARALLEL <=> ParallelAt(prog, i + 1)
                             /\ ctx'[r].type = NONE <=> ~ SerialAt(prog, i + 1)
  BY <1>3, <1>4, <1>6
<1> HIDE DEF i
<1>8. /\ \A f \in FileName : handle'[r][f] = PARALLEL <=> HeldAt(prog, i + 1, f)
      /\ ctx'[r].init <=> KnownAt(prog, i + 1)
      /\ ~ KnownAt(prog, i + 1) => ctx'[r].mode = NATIVE
  BY <1>2, <1>3, <1>6
<1> QED BY <1>5, <1>7, <1>8, DoneSettled DEF i

\* cg_open leaves the native mode, and in CG_MODE_WRITE the file type.
LEMMA OpenSettled ==
    ASSUME Good, NEW r \in Rank, pos[r] <= Len(prog.calls), Settled(r), prog' = prog,
           at'[r] = "call", pos'[r] = pos[r] + 1, Now(r).op = "cg_open",
           ctx'[r].init = ctx[r].init, ctx'[r].pio = ctx[r].pio, ctx'[r].mode = NATIVE,
           ctx'[r].type = IF Now(r).mode = "w" THEN "hdf5" ELSE ctx[r].type,
           \A f \in FileName : handle'[r][f] = PARALLEL <=> handle[r][f] = PARALLEL
    PROVE  Settled(r)'
<1> DEFINE i == pos[r]
<1>1. prog \in Programs /\ i \in 1 .. Len(prog.calls) /\ i \in Nat \ {0} /\ Now(r) = prog.calls[i]
  BY CallIsOrderly
<1>2. \A f \in FileName : HeldAt(prog, i + 1, f) <=> HeldAt(prog, i, f)
  BY <1>1, HeldStep
<1>3. /\ KnownAt(prog, i + 1) <=> KnownAt(prog, i)
      /\ SerialAt(prog, i + 1) <=> SerialAt(prog, i) \/ Now(r).mode = "w"
      /\ EvenTo(prog, i + 1) => EvenTo(prog, i)
  BY <1>1, KnownStep
<1>4. ~ ParallelAt(prog, i + 1)
  BY <1>1, ParallelStep
<1>5. ctx[r].pio = Pio(prog)
  BY PioIs
<1>6. /\ \A f \in FileName : handle[r][f] = PARALLEL <=> HeldAt(prog, i, f)
      /\ ctx[r].init <=> KnownAt(prog, i)
      /\ EvenTo(prog, i) => (ctx[r].type = NONE <=> ~ (SerialAt(prog, i) \/ at[r] = "unlinked"))
  BY DEF Settled
<1>20. at[r] = "unlinked" => Now(r).mode = "w"
  BY DEF Good, ParInv, Waits
<1>7. EvenTo(prog, i + 1) => /\ ctx'[r].mode = PARALLEL <=> ParallelAt(prog, i + 1)
                             /\ ctx'[r].type = NONE <=> ~ SerialAt(prog, i + 1)
  BY <1>3, <1>4, <1>6, <1>20 DEF NATIVE, PARALLEL, NONE
<1> HIDE DEF i
<1>8. /\ \A f \in FileName : handle'[r][f] = PARALLEL <=> HeldAt(prog, i + 1, f)
      /\ ctx'[r].init <=> KnownAt(prog, i + 1)
  BY <1>2, <1>3, <1>6
<1> QED BY <1>5, <1>7, <1>8, DoneSettled DEF i

\* cgp_open leaves the parallel mode.
LEMMA ParallelSettled ==
    ASSUME Good, NEW r \in Rank, pos[r] <= Len(prog.calls), Settled(r), prog' = prog,
           at[r] # "call", at'[r] = "call", pos'[r] = pos[r] + 1, Now(r).op = "cgp_open",
           ctx'[r] = ctx[r],
           \A f \in FileName : handle'[r][f] = PARALLEL <=>
                                   (handle[r][f] = PARALLEL \/ f = Now(r).file)
    PROVE  Settled(r)'
<1> DEFINE i == pos[r]
<1>1. prog \in Programs /\ i \in 1 .. Len(prog.calls) /\ i \in Nat \ {0} /\ Now(r) = prog.calls[i]
  BY CallIsOrderly
<1>2. \A f \in FileName : HeldAt(prog, i + 1, f) <=> (HeldAt(prog, i, f) \/ f = Now(r).file)
  BY <1>1, HeldStep
<1>3. /\ KnownAt(prog, i + 1)
      /\ SerialAt(prog, i + 1) <=> SerialAt(prog, i)
      /\ EvenTo(prog, i + 1) => EvenTo(prog, i)
  BY <1>1, KnownStep
<1>4. ParallelAt(prog, i + 1)
  BY <1>1, ParallelStep
<1>5. ctx[r].pio = Pio(prog)
  BY PioIs
<1>20. at[r] # "unlinked"
  BY DEF Good, ParInv, Waits
<1>6. /\ \A f \in FileName : handle[r][f] = PARALLEL <=> HeldAt(prog, i, f)
      /\ ctx[r].init /\ ctx[r].mode = PARALLEL
      /\ EvenTo(prog, i) => (ctx[r].type = NONE <=> ~ SerialAt(prog, i))
  BY <1>20 DEF Settled
<1>7. EvenTo(prog, i + 1) => /\ ctx'[r].mode = PARALLEL <=> ParallelAt(prog, i + 1)
                             /\ ctx'[r].type = NONE <=> ~ SerialAt(prog, i + 1)
  BY <1>3, <1>4, <1>6
<1> HIDE DEF i
<1>8. /\ \A f \in FileName : handle'[r][f] = PARALLEL <=> HeldAt(prog, i + 1, f)
      /\ ctx'[r].init
  BY <1>2, <1>6
<1> QED BY <1>3, <1>5, <1>7, <1>8, DoneSettled DEF i

\* A parallel file that is closed is not open.
LEMMA ClosedSettled ==
    ASSUME Good, NEW r \in Rank, pos[r] <= Len(prog.calls), Settled(r), prog' = prog,
           at'[r] = "call", pos'[r] = pos[r] + 1, Now(r).op = "cg_close", ctx'[r] = ctx[r],
           \A f \in FileName : handle'[r][f] = PARALLEL <=>
                                   (handle[r][f] = PARALLEL /\ f # Now(r).file)
    PROVE  Settled(r)'
<1> DEFINE i == pos[r]
<1>1. prog \in Programs /\ i \in 1 .. Len(prog.calls) /\ i \in Nat \ {0} /\ Now(r) = prog.calls[i]
  BY CallIsOrderly
<1>2. \A f \in FileName : HeldAt(prog, i + 1, f) <=> (HeldAt(prog, i, f) /\ f # Now(r).file)
  BY <1>1, HeldStep
<1>3. /\ KnownAt(prog, i + 1) <=> KnownAt(prog, i)
      /\ SerialAt(prog, i + 1) <=> SerialAt(prog, i)
      /\ EvenTo(prog, i + 1) => EvenTo(prog, i)
  BY <1>1, KnownStep
<1>4. ParallelAt(prog, i + 1) <=> ParallelAt(prog, i)
  BY <1>1, ParallelStep
<1>5. ctx[r].pio = Pio(prog)
  BY PioIs
<1>20. at[r] # "unlinked"
  BY DEF Good, ParInv, Waits
<1>6. /\ \A f \in FileName : handle[r][f] = PARALLEL <=> HeldAt(prog, i, f)
      /\ ctx[r].init <=> KnownAt(prog, i)
      /\ ~ KnownAt(prog, i) => ctx[r].mode = NATIVE
      /\ EvenTo(prog, i) => (ctx[r].mode = PARALLEL <=> ParallelAt(prog, i))
      /\ EvenTo(prog, i) => (ctx[r].type = NONE <=> ~ SerialAt(prog, i))
  BY <1>20 DEF Settled
<1>7. EvenTo(prog, i + 1) => /\ ctx'[r].mode = PARALLEL <=> ParallelAt(prog, i + 1)
                             /\ ctx'[r].type = NONE <=> ~ SerialAt(prog, i + 1)
  BY <1>3, <1>4, <1>6
<1> HIDE DEF i
<1>8. /\ \A f \in FileName : handle'[r][f] = PARALLEL <=> HeldAt(prog, i + 1, f)
      /\ ctx'[r].init <=> KnownAt(prog, i + 1)
      /\ ~ KnownAt(prog, i + 1) => ctx'[r].mode = NATIVE
  BY <1>2, <1>3, <1>6
<1> QED BY <1>5, <1>7, <1>8, DoneSettled DEF i

\* The transfer mode is set by the first call.
LEMMA PioSettled ==
    ASSUME Good, NEW r \in Rank, pos[r] <= Len(prog.calls), Settled(r), prog' = prog,
           at'[r] = "call", pos'[r] = pos[r] + 1, Now(r).op = "cgp_pio_mode",
           ctx'[r] = [ctx[r] EXCEPT !.pio = Now(r).mode], handle' = handle
    PROVE  Settled(r)'
<1> DEFINE i == pos[r]
<1>1. prog \in Programs /\ i \in 1 .. Len(prog.calls) /\ i \in Nat \ {0} /\ Now(r) = prog.calls[i] /\ i = 1
  BY CallIsOrderly
<1>2. \A f \in FileName : HeldAt(prog, i + 1, f) <=> HeldAt(prog, i, f)
  BY <1>1, HeldStep
<1>3. /\ KnownAt(prog, i + 1) <=> KnownAt(prog, i)
      /\ SerialAt(prog, i + 1) <=> SerialAt(prog, i)
      /\ EvenTo(prog, i + 1) => EvenTo(prog, i)
  BY <1>1, KnownStep
<1>4. ParallelAt(prog, i + 1) <=> ParallelAt(prog, i)
  BY <1>1, ParallelStep
<1>0. ctx[r] \in Settings
  BY DEF Good, ParInv, Typed
<1>9. /\ ctx'[r].pio = Now(r).mode /\ ctx'[r].init = ctx[r].init /\ ctx'[r].mode = ctx[r].mode
      /\ ctx'[r].type = ctx[r].type
  BY <1>0 DEF Settings
<1>5. ctx'[r].pio = Pio(prog)
  <2>1. prog.calls # <<>>
    BY <1>1
  <2> QED BY <1>1, <1>9, <2>1 DEF Pio
<1>20. at[r] # "unlinked"
  BY DEF Good, ParInv, Waits
<1>6. /\ \A f \in FileName : handle[r][f] = PARALLEL <=> HeldAt(prog, i, f)
      /\ ctx[r].init <=> KnownAt(prog, i)
      /\ ~ KnownAt(prog, i) => ctx[r].mode = NATIVE
      /\ EvenTo(prog, i) => (ctx[r].mode = PARALLEL <=> ParallelAt(prog, i))
      /\ EvenTo(prog, i) => (ctx[r].type = NONE <=> ~ SerialAt(prog, i))
  BY <1>20 DEF Settled
<1>7. EvenTo(prog, i + 1) => /\ ctx'[r].mode = PARALLEL <=> ParallelAt(prog, i + 1)
                             /\ ctx'[r].type = NONE <=> ~ SerialAt(prog, i + 1)
  BY <1>3, <1>4, <1>6, <1>9
<1> HIDE DEF i
<1>8. /\ \A f \in FileName : handle'[r][f] = PARALLEL <=> HeldAt(prog, i + 1, f)
      /\ ctx'[r].init <=> KnownAt(prog, i + 1)
      /\ ~ KnownAt(prog, i + 1) => ctx'[r].mode = NATIVE
  BY <1>2, <1>3, <1>6, <1>9
<1> QED BY <1>5, <1>7, <1>8, DoneSettled DEF i

\* A call that concerns no other rank has no collective.
LEMMA NoScript ==
    ASSUME NEW p \in Programs, NEW i \in 1 .. Len(p.calls), ~ TestedFor(p, i), ~ OpenedFor(p, i),
           p.calls[i].op # "MPI_Barrier",
           ~ (p.calls[i].op = "cg_close" /\ HeldAt(p, i, p.calls[i].file)),
           ~ (p.calls[i].op \in WriteOps /\ Pio(p) = CGP_COLLECTIVE)
    PROVE  \A c \in Comm : Script(p, i, c) = <<>>
<1>1. <<>> \o <<>> = <<>>
  OBVIOUS
<1>2. ~ (p.calls[i].op = "cg_is_cgns" /\ ParallelAt(p, i))
  BY DEF OpenedFor
<1> QED BY <1>1, <1>2 DEF Script

\* The collectives of the library, and that a call has none beside those of its kind.
LEMMA LibScript ==
    ASSUME NEW p \in Programs, NEW i \in 1 .. Len(p.calls), NEW f, f = p.calls[i].file
    PROVE  /\ (~ TestedFor(p, i) /\ ~ OpenedFor(p, i)) => Script(p, i, Lib) = <<>>
           /\ (TestedFor(p, i) /\ ~ OpenedFor(p, i)) => Script(p, i, Lib) = << <<"bcast", f>> >>
           /\ (~ TestedFor(p, i) /\ OpenedFor(p, i)) => Script(p, i, Lib) = << <<"open", f>> >>
           /\ (TestedFor(p, i) /\ OpenedFor(p, i)) =>
                 Script(p, i, Lib) = Append(<< <<"bcast", f>> >>, <<"open", f>>)
<1> DEFINE b == <<"bcast", f>>
           o == <<"open", f>>
<1>1. /\ <<>> \o <<>> = <<>> /\ <<b>> \o <<>> = <<b>> /\ <<>> \o <<o>> = <<o>>
      /\ <<b>> \o <<o>> = Append(<<b>>, o)
  <2> HIDE DEF b, o
  <2> QED OBVIOUS
<1> QED BY <1>1 DEF Script

LEMMA OtherScripts ==
    ASSUME NEW p \in Programs, NEW i \in 1 .. Len(p.calls), NEW f, f = p.calls[i].file
    PROVE  /\ p.calls[i].op # "MPI_Barrier" => Script(p, i, World) = <<>>
           /\ p.calls[i].op = "MPI_Barrier" => Script(p, i, World) = << <<"barrier">> >>
           /\ \A c \in FileName : c # f => Script(p, i, c) = <<>>
<1>1. Lib # World /\ \A c \in FileName : c # Lib /\ c # World
  BY CommsDiffer
<1> QED BY <1>1 DEF Script

LEMMA FileScript ==
    ASSUME NEW p \in Programs, NEW i \in 1 .. Len(p.calls), NEW f, f = p.calls[i].file
    PROVE  /\ (p.calls[i].op = "cg_is_cgns" /\ ParallelAt(p, i)) =>
                 Script(p, i, f) = << <<"close", f>> >>
           /\ (p.calls[i].op = "cg_close" /\ HeldAt(p, i, f)) =>
                 Script(p, i, f) = << <<"close", f>> >>
           /\ (p.calls[i].op \in WriteOps /\ Pio(p) = CGP_COLLECTIVE) =>
                 /\ "elements" \notin Datasets(p.calls[i].op) => Script(p, i, f) = << <<"data", f>> >>
                 /\ "elements" \in Datasets(p.calls[i].op) =>
                       Script(p, i, f) = Append(<< <<"data", f>> >>, <<"elements", f>>)
           /\ (/\ ~ (p.calls[i].op = "cg_is_cgns" /\ ParallelAt(p, i))
               /\ ~ (p.calls[i].op = "cg_close" /\ HeldAt(p, i, f))
               /\ ~ (p.calls[i].op \in WriteOps /\ Pio(p) = CGP_COLLECTIVE)) => Script(p, i, f) = <<>>
<1>1. f \in FileName /\ f # Lib /\ f # World
  BY CallIs, CommsDiffer
<1>2. << <<"data", f>>, <<"elements", f>> >> = Append(<< <<"data", f>> >>, <<"elements", f>>)
  OBVIOUS
<1>3. \A op \in WriteOps : op # "cg_is_cgns" /\ op # "cg_close"
  BY DEF WriteOps
<1>4. Script(p, i, f) =
        IF p.calls[i].op = "cg_is_cgns" /\ ParallelAt(p, i) THEN << <<"close", f>> >>
        ELSE IF p.calls[i].op = "cg_close" /\ HeldAt(p, i, f) THEN << <<"close", f>> >>
        ELSE IF p.calls[i].op \in WriteOps /\ Pio(p) = CGP_COLLECTIVE
        THEN IF "elements" \in Datasets(p.calls[i].op) THEN << <<"data", f>>, <<"elements", f>> >>
             ELSE << <<"data", f>> >>
        ELSE <<>>
  BY <1>1 DEF Script
<1> QED BY <1>2, <1>3, <1>4, ZenonT(60)

\* A rank that has entered all that belongs to its call, and returns.
LEMMA GoesOn ==
    ASSUME Good, NEW r \in Rank, pos[r] <= Len(prog.calls), InScript(r), prog' = prog,
           at'[r] = "call", pos'[r] = pos[r] + 1, coll' = coll,
           \A c \in Comm : Entered(r, c) = Script(prog, pos[r], c)
    PROVE  InScript(r)'
<1>1. \A c \in Comm : coll'[r][c] = Before(r, c) \o Script(prog, pos[r], c)
  BY DEF InScript
<1> QED BY <1>1, DoneInScript

\* A rank to which a call returns CG_ERROR leaves before any collective of the call, or
\* after the test of its file.
LEMMA LeavesOnFailure ==
    ASSUME Good, NEW r \in Rank, pos[r] <= Len(prog.calls), Settled(r), prog.exits,
           MayFail(prog, pos[r]), ~ OpenedFor(prog, pos[r]),
           coll[r][Lib] \in {Before(r, Lib), History(prog)[pos[r] + 1][Lib]},
           \A c \in Comm : c # Lib => coll[r][c] = Before(r, c),
           prog' = prog, pos'[r] = pos[r], at'[r] = "exit", coll' = coll,
           \A f \in FileName : handle'[r][f] = PARALLEL => handle[r][f] = PARALLEL
    PROVE  Follows(r)'
<1>1. \A c \in Comm : Before(r, c)' = Before(r, c)
  BY DEF Before
<1>2. \A f \in FileName : handle'[r][f] = PARALLEL => HeldAt(prog, pos[r], f)
  BY DEF Settled
<1>3. /\ Lib \in Comm /\ World \in Comm /\ World # Lib
      /\ \A f \in FileName : f \in Comm /\ f # Lib
  BY CommsDiffer DEF Comm
<1>5. coll'[r][Lib] \in {Before(r, Lib)', History(prog)'[pos'[r] + 1][Lib]}
  BY <1>1, <1>3
<1>6. coll'[r][World] = Before(r, World)' /\ \A f \in FileName : coll'[r][f] = Before(r, f)'
  BY <1>1, <1>3
<1>7. MayFail(prog, pos[r])' /\ ~ OpenedFor(prog, pos[r])'
  OBVIOUS
<1>4. Leaves(r)'
  BY <1>2, <1>5, <1>6, <1>7 DEF Leaves
<1> QED BY <1>4 DEF Follows, Gone

\* A call without collectives that returns goes on or leaves.
LEMMA QuietCallFollows ==
    ASSUME Good, NEW r \in Rank, pos[r] <= Len(prog.calls), at[r] = "call", InScript(r), Settled(r),
           \A c \in Comm : Script(prog, pos[r], c) = <<>>, coll' = coll,
           NEW ok \in BOOLEAN, NEW desert \in BOOLEAN, Return(r, ok, desert),
           ok \/ (MayFail(prog, pos[r]) /\ ~ OpenedFor(prog, pos[r])),
           \A f \in FileName : handle'[r][f] = PARALLEL => handle[r][f] = PARALLEL,
           at'[r] = "call" => Settled(r)'
    PROVE  Follows(r)'
<1>1. ParInv
  BY DEF Good
<1>2. prog' = prog
  BY <1>1, ReturnIs
<1>3. CASE ok \/ ~ prog.exits
  <2>1. at'[r] = "call" /\ pos'[r] = pos[r] + 1
    BY <1>1, <1>3, ReturnIs
  <2>2. \A c \in Comm : Entered(r, c) = Script(prog, pos[r], c)
    BY DEF Entered
  <2>3. InScript(r)'
    BY <1>2, <2>1, <2>2, GoesOn
  <2> QED BY <2>1, <2>3 DEF Follows, Gone
<1>4. CASE ~ ok /\ prog.exits
  <2>1. at'[r] = "exit" /\ pos'[r] = pos[r]
    BY <1>1, <1>4, ReturnIs
  <2>2. \A c \in Comm : coll[r][c] = Before(r, c)
    BY EnteredSoFar DEF Good
  <2>3. Lib \in Comm
    BY DEF Comm
  <2> QED BY <1>2, <1>4, <2>1, <2>2, <2>3, LeavesOnFailure
<1> QED BY <1>3, <1>4

\* A rank that waits in a collective of its call has still its settings.
LEMMA StaysSettled ==
    ASSUME NEW r \in Rank, Settled(r), prog' = prog, pos'[r] = pos[r], at'[r] # "call",
           handle'[r] = handle[r], ctx'[r] = ctx[r],
           Now(r).op \in OpenOps => at[r] # "call", at[r] # "unlinked", at'[r] # "unlinked"
    PROVE  Settled(r)'
<1>1. Now(r)' = Now(r)
  BY DEF Now
<1>2. Now(r).op \in {"cgp_open", "cg_open"} => at[r] # "call"
  BY DEF OpenOps
<1> QED BY <1>1, <1>2 DEF Settled
----------------------------------------------------------------------------
(* Where the other ranks are                                               *)

\* A rank that has entered more than all enter before call i has come into that call.
LEMMA HasCome ==
    ASSUME Good, NEW s \in Rank, NEW c \in {Lib, World}, NEW i \in 1 .. Len(prog.calls),
           Len(History(prog)[i][c]) < Len(coll[s][c])
    PROVE  Reached(s, i)
<1> DEFINE n == Len(prog.calls)
           H(k) == History(prog)[k][c]
<1>0. /\ ParInv /\ Booked /\ CollTyped /\ c \in Comm /\ Follows(s) /\ prog \in Programs
      /\ coll[s][c] \in Seq(Entries)
  BY DEF Good, Follow, Comm, ParInv, Typed, CollTyped
<1>1. n \in Nat /\ pos[s] \in Nat \ {0}
  BY <1>0, CallIs DEF ParInv, Typed
<1> SUFFICES ASSUME ~ Reached(s, i) PROVE FALSE
  OBVIOUS
<1>2. pos[s] <= i /\ (pos[s] = i => at[s] = "call")
  BY <1>1 DEF Reached
<1>3. CASE pos[s] = i
  <2>1. ~ Gone(s)
    BY <1>2, <1>3 DEF Gone
  <2>2. coll[s][c] = H(i)
    BY <1>0, <1>2, <1>3, <2>1, EnteredSoFar DEF Follows, Before
  <2> HIDE DEF H
  <2> QED BY <1>0, <2>2 DEF H
<1>4. CASE pos[s] # i
  <2>1. /\ pos[s] <= n /\ pos[s] \in 1 .. n + 1 /\ pos[s] + 1 \in 1 .. n + 1 /\ i \in 1 .. n + 1
        /\ i \in pos[s] .. n + 1 /\ i \in pos[s] + 1 .. n + 1
    BY <1>1, <1>2, <1>4
  <2>2. Len(H(pos[s])) <= Len(H(i)) /\ Len(H(pos[s] + 1)) <= Len(H(i))
    BY <1>0, <2>1, HistoryGrows DEF Within
  <2>3. H(pos[s]) \in Seq(Entries) /\ H(pos[s] + 1) \in Seq(Entries) /\ H(i) \in Seq(Entries)
    BY <1>0, <2>1, HistoryStep
  <2>4. CASE Gone(s)
    <3>1. coll[s][c] \in {H(pos[s]), H(pos[s] + 1)}
      BY <1>0, <2>4 DEF Follows, Leaves, Before
    <3> HIDE DEF H
    <3>2. Len(coll[s][c]) <= Len(H(i)) /\ Len(coll[s][c]) \in Nat /\ Len(H(i)) \in Nat
      BY <2>2, <2>3, <3>1
    <3> QED BY <3>2 DEF H
  <2>5. CASE ~ Gone(s)
    <3>1. Len(coll[s][c]) <= Len(H(pos[s] + 1))
      BY <1>0, <2>1, <2>5, EnteredSoFar DEF Follows, Within
    <3> HIDE DEF H
    <3>2. /\ Len(coll[s][c]) \in Nat /\ Len(H(i)) \in Nat /\ Len(H(pos[s] + 1)) \in Nat
      BY <1>0, <2>3
    <3>3. Len(coll[s][c]) <= Len(H(i))
      BY <2>2, <3>1, <3>2
    <3> QED BY <3>2, <3>3 DEF H
  <2> QED BY <2>4, <2>5
<1> QED BY <1>3, <1>4

\* A rank that has joined the opening of a file has entered all that belongs to it.
LEMMA JoinedHas ==
    ASSUME Good, NEW s \in Rank, NEW i \in 1 .. Len(prog.calls), OpenedFor(prog, i), Joined(s, i)
    PROVE  Within(History(prog)[i + 1][Lib], coll[s][Lib])
<1> DEFINE n == Len(prog.calls)
           H(k) == History(prog)[k][Lib]
<1>0. /\ ParInv /\ Booked /\ CollTyped /\ Lib \in Comm /\ Follows(s) /\ prog \in Programs
      /\ coll[s][Lib] \in Seq(Entries) /\ Waits(s)
  BY DEF Good, Follow, Comm, ParInv, Typed, CollTyped
<1>1. n \in Nat /\ pos[s] \in 1 .. n + 1 /\ (at[s] # "call" => pos[s] <= n)
      /\ i + 1 \in 1 .. n + 1
  BY <1>0, CallIs, SMTT(60) DEF ParInv, Typed, Booked
<1>2. H(i + 1) \in Seq(Entries)
  BY <1>0, <1>1, HistoryStep
<1>3. CASE pos[s] = i
  <2>1. at[s] \notin {"call", "checked"} /\ ~ Gone(s)
    BY <1>0, <1>1, <1>3 DEF Joined, Follows, Leaves
  <2>2. InScript(s)
    BY <1>0, <2>1 DEF Follows
  <2>3. Now(s).op \in {"cgp_open", "cg_is_cgns"}
    BY <1>3 DEF OpenedFor, Now
  <2>4. at[s] # "data"
    BY <2>2, <2>3 DEF InScript, WriteOps
  <2>5. Entered(s, Lib) = Script(prog, i, Lib)
    BY <1>3, <2>1, <2>4 DEF Entered
  <2>6. coll[s][Lib] = H(i) \o Script(prog, i, Lib)
    BY <1>0, <1>3, <2>2, <2>5 DEF InScript, Before
  <2>7. coll[s][Lib] = H(i + 1)
    BY <1>0, <2>6, HistoryStep
  <2> HIDE DEF H
  <2>8. Within(H(i + 1), H(i + 1))
    BY <1>2 DEF Within
  <2> QED BY <2>7, <2>8 DEF H
<1>4. CASE pos[s] # i
  <2>1. i + 1 <= pos[s]
    BY <1>1, <1>4 DEF Joined
  <2>2. pos[s] \in i + 1 .. n + 1
    BY <1>1, <2>1
  <2>3. Within(H(i + 1), H(pos[s])) /\ H(pos[s]) \in Seq(Entries)
    BY <1>0, <1>1, <2>2, HistoryGrows, HistoryStep
  <2>4. CASE Gone(s)
    <3>1. coll[s][Lib] \in {H(pos[s]), H(pos[s] + 1)}
      BY <1>0, <2>4 DEF Follows, Leaves, Before
    <3>2. pos[s] + 1 \in i + 1 .. n + 1
      BY <1>1, <2>1, <2>4 DEF Gone
    <3>3. Within(H(i + 1), H(pos[s] + 1))
      BY <1>0, <1>1, <3>2, HistoryGrows
    <3> HIDE DEF H
    <3> QED BY <2>3, <3>1, <3>3 DEF H
  <2>5. CASE ~ Gone(s)
    <3>1. InScript(s)
      BY <1>0, <2>5 DEF Follows
    <3>2. coll[s][Lib] = H(pos[s]) \o Entered(s, Lib)
      BY <1>0, <3>1 DEF InScript, Before
    <3>3. Entered(s, Lib) \in Seq(Entries)
      <4>1. CASE at[s] = "call"
        BY <4>1 DEF Entered
      <4> QED BY <1>0, <3>1, <4>1, EnteredIs
    <3> HIDE DEF H
    <3>4. Within(H(pos[s]), coll[s][Lib])
      BY <2>3, <3>2, <3>3, WithinConcat
    <3>5. Within(H(i + 1), coll[s][Lib])
      BY <1>0, <1>2, <2>3, <3>4, WithinWithin
    <3> QED BY <3>5 DEF H
  <2> QED BY <2>4, <2>5
<1> QED BY <1>3, <1>4

\* What a rank has entered when it waits for a file to be opened.
LEMMA OpenHas ==
    ASSUME Good, NEW r \in Rank, pos[r] <= Len(prog.calls), at[r] = "open", NEW i, i = pos[r]
    PROVE  /\ OpenedFor(prog, i) /\ i \in 1 .. Len(prog.calls) /\ prog \in Programs
           /\ coll[r][Lib] = History(prog)[i + 1][Lib]
           /\ History(prog)[i][Lib] \in Seq(Entries) /\ coll[r][Lib] \in Seq(Entries)
           /\ Len(History(prog)[i][Lib]) < Len(coll[r][Lib])
           /\ TestedFor(prog, i) => Len(coll[r][Lib]) = Len(History(prog)[i][Lib]) + 2
<1> DEFINE a == History(prog)[i][Lib]
           s == Script(prog, i, Lib)
           f == prog.calls[i].file
           b == <<"bcast", f>>
           o == <<"open", f>>
<1>0. ParInv /\ Booked /\ CollTyped /\ Lib \in Comm /\ Follows(r) /\ ~ Gone(r)
  BY DEF Good, Follow, Comm, Gone
<1>1. InScript(r)
  BY <1>0 DEF Follows
<1>2. OpenedFor(prog, i) /\ i \in 1 .. Len(prog.calls) /\ prog \in Programs
  BY <1>1, CallIsOrderly DEF InScript
<1>3. coll[r][Lib] = a \o s
  BY <1>0, <1>1 DEF InScript, Entered, Before
<1>4. coll[r][Lib] = History(prog)[i + 1][Lib]
  BY <1>0, <1>2, <1>3, HistoryStep
<1>5. a \in Seq(Entries) /\ s \in Seq(Entries) /\ coll[r][Lib] \in Seq(Entries)
  <2>1. i \in 1 .. Len(prog.calls) + 1
    BY <1>2, CallIs
  <2> QED BY <1>0, <1>2, <2>1, HistoryStep DEF CollTyped
<1>6. /\ ~ TestedFor(prog, i) => s = <<o>>
      /\ TestedFor(prog, i) => s = Append(<<b>>, o)
  BY <1>2, LibScript
<1>7. (~ TestedFor(prog, i) => Len(s) = 1) /\ (TestedFor(prog, i) => Len(s) = 2)
  <2> HIDE DEF s, b, o
  <2> QED BY <1>6
<1>8. Len(coll[r][Lib]) = Len(a) + Len(s) /\ Len(a) \in Nat
  <2> HIDE DEF a, s
  <2> QED BY <1>3, <1>5, ConcatProperties
<1>9. Len(a) < Len(coll[r][Lib]) /\ (TestedFor(prog, i) => Len(coll[r][Lib]) = Len(a) + 2)
  <2> DEFINE k == Len(coll[r][Lib])
             l == Len(a)
             d == Len(s)
  <2>1. k = l + d /\ l \in Nat
    BY <1>8
  <2>2. d \in {1, 2} /\ (TestedFor(prog, i) => d = 2)
    BY <1>7
  <2> HIDE DEF k, l, d
  <2>3. l < k /\ (TestedFor(prog, i) => k = l + 2)
    BY <2>1, <2>2
  <2> HIDE DEF a
  <2> QED BY <2>3 DEF k, l
<1> QED BY <1>2, <1>4, <1>5, <1>9

\* A collective open is done when every rank has joined it.
LEMMA OpenIsMet ==
    ASSUME Good, NEW r \in Rank, pos[r] <= Len(prog.calls), at[r] = "open", Complete(r, Lib),
           NEW s \in Rank
    PROVE  Joined(s, pos[r])
<1> DEFINE i == pos[r]
           a == History(prog)[i][Lib]
           k == Len(coll[r][Lib])
<1>1. /\ OpenedFor(prog, i) /\ i \in 1 .. Len(prog.calls) /\ prog \in Programs
      /\ a \in Seq(Entries) /\ Len(a) < k /\ (TestedFor(prog, i) => k = Len(a) + 2)
  BY OpenHas
<1>2. coll[s][Lib] \in Seq(Entries) /\ k \in DOMAIN coll[s][Lib]
  BY DEF Complete, Good, CollTyped, Comm
<1>3. Len(a) < Len(coll[s][Lib]) /\ k <= Len(coll[s][Lib])
  <2> HIDE DEF a, k
  <2>1. Len(a) \in Nat /\ Len(coll[s][Lib]) \in Nat /\ k \in 1 .. Len(coll[s][Lib])
    BY <1>1, <1>2
  <2> QED BY <1>1, <2>1
<1>4. Reached(s, i)
  BY <1>1, <1>3, HasCome
<1> SUFFICES ASSUME ~ Joined(s, i) PROVE FALSE
  OBVIOUS
<1>5. pos[s] = i /\ at[s] = "checked"
  BY <1>4 DEF Reached, Joined
<1>6. InScript(s)
  BY <1>5 DEF Good, Follow, Follows, Gone
<1>7. TestedFor(prog, i) /\ coll[s][Lib] = a \o << <<"bcast", Now(s).file>> >>
  BY <1>5, <1>6 DEF InScript, Entered, Before, Comm
<1>8. Len(coll[s][Lib]) = Len(a) + 1
  <2> HIDE DEF a
  <2>1. \A e : Len(a \o <<e>>) = Len(a) + 1
    BY <1>1
  <2> QED BY <1>7, <2>1
<1>9. Len(a) \in Nat
  BY <1>1
<1> HIDE DEF a, k
<1> QED BY <1>1, <1>3, <1>7, <1>8, <1>9

\* A barrier is left when every rank has come to it.
LEMMA BarrierIsMet ==
    ASSUME Good, NEW r \in Rank, pos[r] <= Len(prog.calls), at[r] = "barrier", InScript(r),
           Complete(r, World), NEW s \in Rank
    PROVE  pos[r] <= pos[s]
<1> DEFINE i == pos[r]
           a == History(prog)[i][World]
<1>1. prog \in Programs /\ i \in 1 .. Len(prog.calls) /\ World \in Comm /\ ParInv /\ Booked
  BY CallIsOrderly DEF Comm, Good
<1>2. coll[r][World] = a \o << <<"barrier">> >>
  <2>1. Entered(r, World) = Script(prog, i, World)
    BY CommAssumption DEF Entered, World, Lib
  <2>2. Now(r).op = "MPI_Barrier"
    BY DEF InScript
  <2>3. Script(prog, i, World) = << <<"barrier">> >>
    BY <1>1, <2>2, OtherScripts DEF Now
  <2> QED BY <1>1, <2>1, <2>3 DEF InScript, Before
<1>3. a \in Seq(Entries)
  BY <1>1, EnteredSoFar DEF Before
<1>4. coll[s][World] \in Seq(Entries) /\ Len(coll[r][World]) \in DOMAIN coll[s][World]
  BY DEF Complete, Good, CollTyped, Comm
<1>5. Len(a) < Len(coll[s][World])
  <2> HIDE DEF a
  <2>1. Len(coll[r][World]) = Len(a) + 1 /\ Len(a) \in Nat
    BY <1>2, <1>3
  <2> QED BY <1>4, <2>1
<1>6. Reached(s, i)
  BY <1>1, <1>5, HasCome
<1> QED BY <1>1, <1>6 DEF Reached, ParInv, Typed

\* What a rank leaves behind: the barriers and the openings that all have come to.
LEMMA TracesStay ==
    ASSUME Good, NEW r \in Rank, Step(r), pos[r] <= Len(prog.calls),
           (pos'[r] # pos[r] /\ Now(r).op = "MPI_Barrier") => \A s \in Rank : pos[r] <= pos[s],
           (/\ pos'[r] # pos[r] \/ at'[r] = "close"
            /\ at[r] # "close" /\ OpenedFor(prog, pos[r])) => \A s \in Rank : Joined(s, pos[r])
    PROVE  Traces(r)'
<1>1. ParInv /\ Booked /\ Traces(r)
  BY DEF Good, Follow
<1>2. prog' = prog /\ pos[r] \in Nat \ {0}
  BY <1>1, StepGoesOn DEF ParInv, Typed
<1>3. pos'[r] = pos[r] \/ (pos'[r] = pos[r] + 1 /\ at'[r] = "call")
  BY <1>1, StepMoves DEF Moves, ParInv, Typed
<1>4. \A j \in Nat, t \in Rank : (j <= pos[t] => j <= pos'[t]) /\ (Joined(t, j) => Joined(t, j)')
  BY <1>1, JoinedStays
<1>5. ASSUME NEW j \in 1 .. Len(prog.calls)
      PROVE  /\ (prog.calls[j].op = "MPI_Barrier" /\ j < pos'[r]) => \A s \in Rank : j <= pos'[s]
             /\ (OpenedFor(prog, j) /\ (j < pos'[r] \/ (j = pos'[r] /\ at'[r] = "close"))) =>
                   \A s \in Rank : Joined(s, j)'
  <2>0. j \in Nat
    OBVIOUS
  <2>1. CASE j < pos[r]
    BY <1>1, <1>4, <2>0, <2>1 DEF Traces
  <2>2. CASE j = pos[r]
    <3>1. Now(r) = prog.calls[j]
      BY <2>2 DEF Now
    <3>2. (prog.calls[j].op = "MPI_Barrier" /\ j < pos'[r]) => \A s \in Rank : j <= pos[s]
      BY <1>2, <2>2, <3>1
    <3>3. (OpenedFor(prog, j) /\ (j < pos'[r] \/ (j = pos'[r] /\ at'[r] = "close"))) =>
              \A s \in Rank : Joined(s, j)
      BY <1>1, <1>2, <1>3, <2>2 DEF Traces
    <3> QED BY <1>4, <2>0, <3>2, <3>3
  <2>3. CASE j > pos[r]
    BY <1>2, <1>3, <2>0, <2>3
  <2> QED BY <1>2, <2>0, <2>1, <2>2, <2>3
<1> QED BY <1>2, <1>5 DEF Traces

\* A rank that has still to join the opening of a file that the program has made by
\* then finds it whole: what made it is behind every rank, and nothing makes it anew.
LEMMA LookIsSafe ==
    ASSUME Good, NEW s \in Rank, pos[s] <= Len(prog.calls), at[s] \in {"call", "checked"},
           NEW i, i = pos[s], NEW f \in FileName, f = Now(s).file, OpenedFor(prog, i),
           ~ (Now(s).op = "cgp_open" /\ Now(s).mode = "w"),
           ThereAt(prog, i, f), DoneAt(prog, i, f)
    PROVE  f \in present /\ ~ InTheMaking(f)
<1>0. /\ ParInv /\ Booked /\ FileKept(f) /\ prog \in Programs /\ i \in 1 .. Len(prog.calls)
      /\ i \in Nat \ {0} /\ Len(prog.calls) \in Nat /\ Now(s) = prog.calls[i] /\ Traces(s)
      /\ \A t \in Rank : pos[t] \in Nat \ {0} /\ Traces(t) /\ Waits(t)
      /\ \A t \in Rank : at[t] # "call" => pos[t] <= Len(prog.calls)
  BY CallIsOrderly DEF Good, Follow, ParInv, Typed, Booked
<1>1. ~ Joined(s, i)
  BY <1>0 DEF Joined
<1>2. \A t \in Rank : pos[t] <= i
  <2> SUFFICES ASSUME NEW t \in Rank, ~ (pos[t] <= i) PROVE FALSE
    OBVIOUS
  <2>1. i < pos[t]
    BY <1>0
  <2> QED BY <1>0, <1>1, <2>1 DEF Traces
<1>3. ASSUME NEW j \in 1 .. i - 1, Makes(prog, j, f), prog.calls[j].op = "cg_open"
      PROVE  \E k \in Nat : /\ j < k
                            /\ prog.calls[k].op = "cg_close" /\ prog.calls[k].file = f
                            /\ prog.calls[j].who \subseteq prog.calls[k].who
                            /\ \A t \in Rank : k < pos[t]
  <2>1. PICK k \in j + 1 .. i - 1, m \in j + 1 .. i - 1 :
           /\ k < m /\ prog.calls[m].op = "MPI_Barrier"
           /\ prog.calls[k].op = "cg_close" /\ prog.calls[k].file = f
           /\ prog.calls[j].who \subseteq prog.calls[k].who
    BY <1>3 DEF DoneAt
  <2>2. m \in 1 .. Len(prog.calls) /\ m < pos[s] /\ k \in Nat /\ j < k /\ m \in Nat
    BY <1>0
  <2>3. \A t \in Rank : m <= pos[t]
    BY <1>0, <2>1, <2>2 DEF Traces
  <2>4. \A t \in Rank : k < pos[t]
    BY <1>0, <2>1, <2>2, <2>3
  <2> QED BY <2>1, <2>2, <2>4
<1>4. \A j \in 1 .. i - 1, t \in Rank : prog.calls[j].op = "cgp_open" => Reached(t, j)
  <2> SUFFICES ASSUME NEW j \in 1 .. i - 1, NEW t \in Rank, prog.calls[j].op = "cgp_open"
               PROVE  Reached(t, j)
    OBVIOUS
  <2>1. j \in 1 .. Len(prog.calls) /\ j < pos[s]
    BY <1>0
  <2>2. Joined(t, j)
    BY <1>0, <2>1 DEF Traces, OpenedFor
  <2> QED BY <2>2 DEF Joined, Reached
<1>5. Begun(f)
  <2>1. CASE f \in Existing
    BY <2>1 DEF Begun
  <2>2. CASE f \notin Existing
    <3>1. PICK j \in 1 .. i - 1 : Makes(prog, j, f)
      BY <2>2 DEF ThereAt
    <3>2. j \in 1 .. Len(prog.calls) /\ j \in Nat
      BY <1>0
    <3>3. PICK t \in Rank : t \in prog.calls[j].who
      <4>1. prog.calls \in Seq(ProgramCall)
        BY <1>0, ProgramAssumption
      <4>2. prog.calls[j] \in ProgramCall
        BY <3>2, <4>1
      <4> QED BY <3>1, <4>2 DEF Makes, ProgramCall
    <3>4. Reached(t, j)
      <4>1. CASE prog.calls[j].op = "cg_open"
        <5>1. PICK k \in Nat : j < k /\ k < pos[t]
          BY <1>3, <3>1, <4>1
        <5> QED BY <1>0, <3>2, <5>1 DEF Reached
      <4>2. CASE prog.calls[j].op = "cgp_open"
        BY <1>4, <4>2
      <4> QED BY <3>1, <4>1, <4>2 DEF Makes, OpenOps
    <3> QED BY <3>1, <3>2, <3>3, <3>4 DEF Begun
  <2> QED BY <2>1, <2>2
<1>6. ASSUME NEW t \in Rank, UnmadeBy(t, f) PROVE FALSE
  <2>1. Now(t).file = f /\ at[t] # "call" /\ Now(t) = prog.calls[pos[t]] /\ pos[t] <= i
    BY <1>2, <1>6 DEF UnmadeBy, Now
  <2>2. CASE at[t] = "unlinked"
    <3>1. Now(t).op = "cg_open" /\ Now(t).mode = "w" /\ t \in Now(t).who
      BY <1>0, <2>2 DEF Waits
    <3>2. pos[t] # i
      BY <2>1, <3>1 DEF OpenedFor
    <3>3. pos[t] \in 1 .. i - 1 /\ Makes(prog, pos[t], f)
      BY <1>0, <2>1, <3>1, <3>2 DEF Makes, OpenOps
    <3>4. PICK k \in Nat : pos[t] < k /\ k < pos[t]
      BY <1>3, <2>1, <3>1, <3>3
    <3> QED BY <1>0, <3>4
  <2>3. CASE at[t] # "unlinked"
    <3>1. Now(t).op = "cgp_open" /\ Now(t).mode = "w" /\ \E q \in Rank : ~ Reached(q, pos[t])
      BY <1>6, <2>3 DEF UnmadeBy
    <3>2. pos[t] # i
      BY <1>0, <2>1, <3>1
    <3>3. pos[t] \in 1 .. i - 1
      BY <1>0, <2>1, <3>2
    <3> QED BY <1>4, <2>1, <3>1, <3>3
  <2> QED BY <2>2, <2>3
<1>7. ASSUME NEW t \in Rank, handle[t][f] = MADE PROVE FALSE
  <2>1. handle[t][f] # NONE
    BY <1>7 DEF MADE, NONE
  <2>2. PICK j \in OpenCalls(t, f) :
           /\ \A k \in j + 1 .. pos[t] - 1 : ~ ClosesIn(prog, k, t, f)
           /\ prog.calls[j].op = "cg_open" /\ prog.calls[j].mode = "w"
    BY <1>0, <1>7, <2>1 DEF ParInv, AskedFor
  <2>3. /\ j \in 1 .. pos[t] - 1 /\ prog.calls[j].file = f /\ t \in prog.calls[j].who
        /\ j \in Nat
    BY DEF OpenCalls
  <2>4. j \in 1 .. i - 1 /\ Makes(prog, j, f)
    BY <1>0, <1>2, <2>2, <2>3 DEF Makes, OpenOps
  <2>5. PICK k \in Nat : /\ j < k /\ k < pos[t]
                         /\ prog.calls[k].op = "cg_close" /\ prog.calls[k].file = f
                         /\ prog.calls[j].who \subseteq prog.calls[k].who
    BY <1>3, <2>2, <2>4
  <2>6. k \in j + 1 .. pos[t] - 1 /\ ClosesIn(prog, k, t, f)
    BY <1>0, <2>3, <2>5 DEF ClosesIn
  <2> QED BY <2>2, <2>6
<1>8. f \in present
  BY <1>0, <1>5, <1>6 DEF FileKept
<1> QED BY <1>7, <1>8 DEF InTheMaking

\* The mode in which a rank opens a file once it is tested.
LEMMA CheckedMode ==
    ASSUME Good, NEW r \in Rank, at[r] = "checked", pos[r] <= Len(prog.calls)
    PROVE  /\ TestedFor(prog, pos[r]) /\ KnownAt(prog, pos[r])
           /\ Now(r).op \in {"cg_open", "cg_is_cgns"} /\ Now(r).mode = "r"
           /\ Now(r).op = "cg_open" => ctx[r].mode = NATIVE
           /\ ctx[r].mode = PARALLEL <=> OpenedFor(prog, pos[r])
<1> DEFINE i == pos[r]
<1>1. ~ Gone(r)
  BY DEF Gone
<1>2. ParInv /\ InScript(r) /\ Settled(r) /\ Waits(r)
  BY <1>1 DEF Good, Follow, Follows, ParInv
<1>3. TestedFor(prog, i)
  BY <1>2 DEF InScript
<1>5. /\ prog \in Programs /\ i \in 1 .. Len(prog.calls) /\ Now(r) = prog.calls[i]
      /\ Now(r).op = "cg_is_cgns" => Now(r).mode = "r"
  BY CallIsOrderly
<1>6. /\ Now(r).op \in {"cg_open", "cg_is_cgns"} /\ Now(r).mode = "r"
      /\ KnownAt(prog, i)
      /\ Now(r).op = "cg_open" => ctx[r].mode = NATIVE
  BY <1>2, <1>3, <1>5 DEF TestedFor, Waits
<1>7. ctx[r].mode = PARALLEL <=> OpenedFor(prog, i)
  <2>1. CASE Now(r).op = "cg_open"
    BY <1>5, <1>6, <2>1 DEF OpenedFor, NATIVE, PARALLEL
  <2>2. CASE Now(r).op = "cg_is_cgns"
    <3>1. EvenTo(prog, i)
      BY <1>6, ProbeIsEven
    <3>2. ctx[r].mode = PARALLEL <=> ParallelAt(prog, i)
      BY <1>2, <2>2, <3>1 DEF Settled
    <3> QED BY <1>5, <2>2, <3>2 DEF OpenedFor
  <2> QED BY <1>6, <2>1, <2>2
<1> QED BY <1>3, <1>6, <1>7

\* A rank that goes from the test of a file to the opening finds the file: rank 0 has
\* tested what the program had made.
LEMMA CheckedIsThere ==
    ASSUME Good, NEW r \in Rank, Checked(r), pos[r] <= Len(prog.calls), OpenedFor(prog, pos[r])
    PROVE  Now(r).file \in present /\ ~ InTheMaking(Now(r).file)
<1> DEFINE i == pos[r]
           k == Len(coll[r][Lib])
           a == History(prog)[i][Lib]
<1>1. at[r] = "checked" /\ ~ Gone(r) /\ (r # Root => k \in DOMAIN coll[Root][Lib])
  BY DEF Checked, Gone
<1>2. TestedFor(prog, i) /\ Now(r).op = "cg_is_cgns"
  BY <1>1, CheckedMode DEF OpenedFor, Now
<1>3. /\ prog \in Programs /\ i \in 1 .. Len(prog.calls) /\ i \in Nat \ {0} /\ Now(r) = prog.calls[i]
      /\ Now(r).file \in FileName /\ DoneAt(prog, i, Now(r).file) /\ ParInv /\ Booked /\ Broadcast
      /\ Lib \in {Lib, World} /\ Lib \in Comm
  BY <1>2, CallIsOrderly DEF Good, Follow, Comm
<1>4. Reached(Root, i)
  <2>1. CASE r = Root
    BY <1>1, <2>1 DEF Reached
  <2>2. CASE r # Root
    <3>1. InScript(r) /\ a \in Seq(Entries)
      BY <1>1, <1>3, EnteredSoFar DEF Good, Follow, Follows, Before
    <3>2. coll[r][Lib] = a \o << <<"bcast", Now(r).file>> >>
      BY <1>1, <1>3, <3>1 DEF InScript, Entered, Before
    <3>3. coll[Root][Lib] \in Seq(Entries)
      BY <1>3, RankAssumption DEF Good, CollTyped
    <3>4. Len(a) < Len(coll[Root][Lib])
      <4> HIDE DEF a
      <4>1. k = Len(a) + 1 /\ Len(a) \in Nat
        BY <3>1, <3>2
      <4> QED BY <1>1, <2>2, <3>3, <4>1
    <3> QED BY <1>3, <3>4, HasCome, RankAssumption
  <2> QED BY <2>1, <2>2
<1>5. ThereAt(prog, i, Now(r).file)
  BY <1>2, <1>3, <1>4 DEF Broadcast
<1> QED BY <1>1, <1>2, <1>3, <1>5, LookIsSafe

LEMMA OpenedIsThere ==
    ASSUME Good, NEW r \in Rank, at[r] = "call", pos[r] <= Len(prog.calls),
           Now(r).op = "cgp_open", Now(r).mode # "w"
    PROVE  Now(r).file \in present /\ ~ InTheMaking(Now(r).file)
<1>1. /\ prog \in Programs /\ pos[r] \in 1 .. Len(prog.calls) /\ Now(r) = prog.calls[pos[r]]
      /\ Now(r).file \in FileName
      /\ ThereAt(prog, pos[r], Now(r).file) /\ DoneAt(prog, pos[r], Now(r).file)
  BY CallIsOrderly
<1>2. OpenedFor(prog, pos[r])
  BY <1>1 DEF OpenedFor
<1> QED BY <1>1, <1>2, LookIsSafe

----------------------------------------------------------------------------
(* The files that are there                                                *)

\* Rank r is in a call that makes f.
Making(r, f) ==
    Now(r).op \in OpenOps /\ Now(r).mode = "w" /\ Now(r).file = f /\ r \in Now(r).who

LEMMA RankMoves ==
    ASSUME ParInv, Booked, NEW r \in Rank, Step(r)
    PROVE  /\ pos[r] \in Nat \ {0}
           /\ pos'[r] = pos[r] \/ (pos'[r] = pos[r] + 1 /\ at'[r] = "call")
BY StepMoves DEF Moves, ParInv, Typed

\* A rank comes into a call only by the step it takes from before it.
LEMMA ComesInto ==
    ASSUME ParInv, Booked, NEW r \in Rank, Step(r), NEW s \in Rank, NEW j \in Nat,
           Reached(s, j)', ~ Reached(s, j)
    PROVE  s = r /\ j = pos[r] /\ at[r] = "call"
<1>1. CASE s # r
  <2>1. pos'[s] = pos[s] /\ at'[s] = at[s]
    BY <1>1, StepIsOfOneRank
  <2> QED BY <2>1 DEF Reached
<1>2. CASE s = r
  BY <1>2, RankMoves DEF Reached
<1> QED BY <1>1, <1>2

\* A file that is begun stays so, and is begun by a rank that comes into a call that
\* makes it.
LEMMA BegunGrows ==
    ASSUME Good, NEW r \in Rank, Step(r), NEW f
    PROVE  /\ Begun(f) => Begun(f)'
           /\ Begun(f)' => Begun(f) \/ (Making(r, f) /\ at[r] = "call")
<1>1. ParInv /\ Booked /\ prog' = prog
  BY StepGoesOn DEF Good
<1>2. \A s \in Rank, j \in Nat : Reached(s, j) => Reached(s, j)'
  BY <1>1, JoinedStays
<1>3. \A s \in Rank, j \in Nat :
         Reached(s, j)' => Reached(s, j) \/ (s = r /\ j = pos[r] /\ at[r] = "call")
  BY <1>1, ComesInto
<1>4. \A j \in 1 .. Len(prog.calls) : j \in Nat
  OBVIOUS
<1>5. ASSUME Makes(prog, pos[r], f), r \in prog.calls[pos[r]].who PROVE Making(r, f)
  BY <1>5 DEF Makes, Making, Now
<1> QED BY <1>1, <1>2, <1>3, <1>4, <1>5 DEF Begun

\* What another rank is making it goes on making.
LEMMA UnmadeStays ==
    ASSUME Good, NEW r \in Rank, Step(r), NEW f, ~ (Making(r, f) /\ at[r] = "call"),
           NEW t \in Rank, t # r, UnmadeBy(t, f)
    PROVE  UnmadeBy(t, f)'
<1>1. ParInv /\ Booked
  BY DEF Good
<1>2. pos'[t] = pos[t] /\ at'[t] = at[t] /\ prog' = prog
  BY <1>1, StepIsOfOneRank
<1>3. Now(t)' = Now(t) /\ Now(t).file = f
  BY <1>2 DEF Now, UnmadeBy
<1>4. CASE at[t] = "unlinked"
  BY <1>2, <1>3, <1>4 DEF UnmadeBy
<1>5. CASE at[t] # "unlinked"
  <2>1. at[t] = "open" /\ Now(t).op = "cgp_open" /\ Now(t).mode = "w"
    BY <1>5 DEF UnmadeBy
  <2>2. PICK q \in Rank : ~ Reached(q, pos[t])
    BY <1>5 DEF UnmadeBy
  <2>3. pos[t] \in Nat /\ pos[t] <= Len(prog.calls)
    BY <1>1, <2>1 DEF ParInv, Typed, Booked
  <2>5. PICK j \in Nat : j = pos[t]
    BY <2>3
  <2>4. ~ Reached(q, j)'
    <3> SUFFICES ASSUME Reached(q, j)' PROVE FALSE
      OBVIOUS
    <3>2. q = r /\ j = pos[r] /\ at[r] = "call"
      BY <1>1, <2>2, <2>5, ComesInto
    <3>3. Now(r) = Now(t)
      BY <2>5, <3>2 DEF Now
    <3>4. Now(t).who = Rank
      BY <2>1, <2>3, CallIsOrderly
    <3> QED BY <1>3, <2>1, <3>2, <3>3, <3>4 DEF Making, OpenOps
  <2>6. j = pos'[t]
    BY <1>2, <2>5
  <2>7. at'[t] = "open" /\ Now(t)'.op = "cgp_open" /\ Now(t)'.mode = "w" /\ Now(t)'.file = f
    BY <1>2, <1>3, <2>1
  <2> QED BY <2>4, <2>6, <2>7 DEF UnmadeBy
<1> QED BY <1>4, <1>5

\* A step that neither begins to make a file nor ends it.
LEMMA BesideKept ==
    ASSUME Good, NEW r \in Rank, Step(r), NEW f \in FileName, f \in present' <=> f \in present,
           ~ UnmadeBy(r, f), ~ (Making(r, f) /\ at[r] = "call")
    PROVE  FileKept(f)'
<1>1. FileKept(f)
  BY DEF Good, Follow
<1>2. Begun(f)' <=> Begun(f)
  BY BegunGrows
<1>3. \A t \in Rank : UnmadeBy(t, f) => UnmadeBy(t, f)'
  BY UnmadeStays
<1> QED BY <1>1, <1>2, <1>3 DEF FileKept

\* A rank that is in a call that makes f has begun it.
LEMMA MakingBegins ==
    ASSUME Good, NEW r \in Rank, pos[r] <= Len(prog.calls), NEW f, Making(r, f), prog' = prog,
           NEW i, i = pos[r], Reached(r, i)'
    PROVE  Begun(f)'
<1>1. i \in 1 .. Len(prog.calls) /\ Makes(prog, i, f) /\ r \in prog.calls[i].who
  BY CallIsOrderly DEF Making, Makes
<1> QED BY <1>1 DEF Begun

\* When all ranks have come to make a file together, it is made.
LEMMA LastIsComplete ==
    ASSUME Good, NEW r \in Rank, Step(r), pos[r] <= Len(prog.calls), Now(r).op = "cgp_open",
           pos'[r] = pos[r], at'[r] = "open", Follows(r)',
           \A q \in Rank : Reached(q, pos[r])'
    PROVE  Complete(r, Lib)'
<1> DEFINE i == pos[r]
           h == History(prog)[i + 1][Lib]
<1>1. /\ ParInv /\ Booked /\ CollTyped /\ prog' = prog /\ Lib \in Comm
      /\ prog \in Programs /\ i \in 1 .. Len(prog.calls) /\ Now(r) = prog.calls[i]
      /\ i + 1 \in 1 .. Len(prog.calls) + 1 /\ Len(prog.calls) \in Nat
  <2>1. ParInv /\ Booked /\ CollTyped
    BY DEF Good
  <2> QED BY <2>1, StepGoesOn, CallIsOrderly DEF Comm
<1>2. OpenedFor(prog, i) /\ ~ TestedFor(prog, i)
  BY <1>1 DEF OpenedFor, TestedFor
<1>3. h = History(prog)[i][Lib] \o Script(prog, i, Lib) /\ History(prog)[i][Lib] \in Seq(Entries)
      /\ h \in Seq(Entries)
  <2>1. i \in 1 .. Len(prog.calls) + 1
    BY <1>1
  <2> QED BY <1>1, <2>1, HistoryStep
<1>4. coll'[r][Lib] = h
  <2>1. InScript(r)'
    BY DEF Follows, Gone
  <2>2. coll'[r][Lib] = Before(r, Lib)' \o Entered(r, Lib)'
    BY <1>1, <2>1 DEF InScript
  <2>3. Before(r, Lib)' = History(prog)[i][Lib] /\ Entered(r, Lib)' = Script(prog, i, Lib)
    BY <1>1 DEF Before, Entered
  <2> QED BY <1>3, <2>2, <2>3
<1>5. Len(h) \in 1 .. Len(h)
  <2>1. Script(prog, i, Lib) = << <<"open", Now(r).file>> >>
    BY <1>1, <1>2, LibScript, Zenon
  <2> DEFINE a == History(prog)[i][Lib]
             o == <<"open", Now(r).file>>
  <2>2. h = a \o <<o>> /\ a \in Seq(Entries)
    BY <1>3, <2>1
  <2> HIDE DEF h, a, o
  <2>3. Len(h) = Len(a) + 1 /\ Len(a) \in Nat
    BY <2>2
  <2> QED BY <2>3
<1>6. ASSUME NEW q \in Rank PROVE Within(h, coll'[q][Lib])
  <2>1. CASE q = r
    <3>1. Within(h, h)
      <4> HIDE DEF h
      <4> QED BY <1>3 DEF Within
    <3> HIDE DEF h
    <3> QED BY <1>4, <2>1, <3>1
  <2>2. CASE q # r
    <3>1. pos'[q] = pos[q] /\ at'[q] = at[q]
      BY <1>1, <2>2, StepIsOfOneRank
    <3>2. coll'[q] = coll[q]
      BY <1>1, <2>2, StepAdds, Grown
    <3>3. Reached(q, i)'
      OBVIOUS
    <3>4. Reached(q, i)
      BY <3>1, <3>3 DEF Reached
    <3>5. Joined(q, i)
      <4>1. (pos[q] = i /\ at[q] = "checked") => FALSE
        <5> SUFFICES ASSUME pos[q] = i, at[q] = "checked" PROVE FALSE
          OBVIOUS
        <5>1. Now(q).op \in {"cg_open", "cg_is_cgns"}
          BY <1>1 DEF ParInv, Waits
        <5> QED BY <5>1 DEF Now
      <4> QED BY <3>4, <4>1 DEF Reached, Joined
    <3> QED BY <1>1, <1>2, <3>2, <3>5, JoinedHas
  <2> QED BY <2>1, <2>2
<1>7. \A q \in Rank : /\ Len(h) \in DOMAIN coll'[q][Lib]
                      /\ coll'[q][Lib][Len(h)] = h[Len(h)]
  <2> TAKE q \in Rank
  <2>1. coll'[q][Lib] \in Seq(Entries)
    <3>1. CASE q = r
      BY <1>3, <1>4, <3>1
    <3>2. CASE q # r
      <4>1. coll'[q] = coll[q]
        BY <1>1, <3>2, StepAdds, Grown
      <4> QED BY <1>1, <4>1 DEF CollTyped
    <3> QED BY <3>1, <3>2
  <2>2. Within(h, coll'[q][Lib])
    BY <1>6
  <2> HIDE DEF h
  <2> QED BY <1>5, <2>1, <2>2 DEF Within
<1> HIDE DEF h
<1> QED BY <1>4, <1>7 DEF Complete
----------------------------------------------------------------------------
(* Each step, on the rank that takes it                                    *)

\* A rank that has not turned to cgp_error_exit is in the script.
LEMMA InCall ==
    ASSUME Good, NEW r \in Rank, ~ Gone(r)
    PROVE  /\ ParInv /\ Booked /\ CollTyped /\ InScript(r) /\ Settled(r)
           /\ at[r] = "call" => \A c \in Comm : Entered(r, c) = <<>>
BY DEF Good, Follow, Follows, Entered

\* A rank enters the next collective of its call.
LEMMA EntersFollows ==
    ASSUME Good, NEW r \in Rank, pos[r] <= Len(prog.calls), ~ Gone(r),
           NEW d \in Comm, NEW e \in Entries, NEW where, Enter(r, d, e, where),
           where \notin {"call", "exit", "cleanup"},
           Entered(r, d)' = Append(Entered(r, d), e),
           \A c \in Comm : c # d => Entered(r, c)' = Entered(r, c),
           where = "checked" => TestedFor(prog, pos[r]),
           where = "open" => OpenedFor(prog, pos[r]),
           where = "close" => \/ Now(r).op = "cg_is_cgns" /\ ParallelAt(prog, pos[r])
                              \/ Now(r).op = "cg_close" /\ HeldAt(prog, pos[r], Now(r).file),
           where \in {"data", "elements"} => Now(r).op \in WriteOps /\ Pio(prog) = CGP_COLLECTIVE,
           where = "elements" => "elements" \in Datasets(Now(r).op),
           where = "barrier" => Now(r).op = "MPI_Barrier",
           Settled(r)'
    PROVE  Follows(r)'
<1>1. InScript(r) /\ ParInv /\ CollTyped
  BY InCall
<1>2. /\ prog' = prog /\ pos'[r] = pos[r] /\ at'[r] = where
      /\ coll'[r][d] = Append(coll[r][d], e) /\ \A c \in Comm : c # d => coll'[r][c] = coll[r][c]
  BY <1>1, EnterIs
<1>3. \A c \in Comm : coll'[r][c] = Before(r, c)' \o Entered(r, c)'
  BY <1>1, <1>2, EntersInScript
<1>4. Now(r)' = Now(r)
  BY <1>2 DEF Now
<1>5. InScript(r)'
  BY <1>2, <1>3, <1>4 DEF InScript
<1> QED BY <1>2, <1>5 DEF Follows, Gone

\* A rank returns from a call of which it has entered all collectives.
LEMMA ReturnsFollows ==
    ASSUME Good, NEW r \in Rank, pos[r] <= Len(prog.calls), ~ Gone(r),
           Return(r, TRUE, FALSE), coll' = coll,
           \A c \in Comm : Entered(r, c) = Script(prog, pos[r], c),
           at'[r] = "call" /\ pos'[r] = pos[r] + 1 => Settled(r)'
    PROVE  Follows(r)'
<1>1. InScript(r) /\ ParInv
  BY InCall
<1>2. prog' = prog /\ at'[r] = "call" /\ pos'[r] = pos[r] + 1
  BY <1>1, ReturnIs
<1>3. InScript(r)'
  BY <1>1, <1>2, GoesOn
<1> QED BY <1>2, <1>3 DEF Follows, Gone

LEMMA SkipFollows ==
    ASSUME Good, NEW r \in Rank, Skip(r), pos[r] <= Len(prog.calls)
    PROVE  Follows(r)'
<1> DEFINE i == pos[r]
<1>1. /\ at[r] = "call" /\ r \notin Now(r).who /\ ~ Gone(r)
      /\ prog' = prog /\ at'[r] = "call" /\ pos'[r] = i + 1 /\ ctx' = ctx /\ handle' = handle
      /\ coll' = coll
  BY DEF Skip, Gone, Good, ParInv, Typed
<1>2. InScript(r) /\ Settled(r) /\ \A c \in Comm : Entered(r, c) = <<>>
  BY <1>1, InCall
<1>3. /\ prog \in Programs /\ i \in 1 .. Len(prog.calls) /\ Now(r) = prog.calls[i]
      /\ Now(r).op \notin WriteOps \cup {"cgp_open", "cgp_pio_mode", "MPI_Barrier"}
      /\ ~ (Now(r).op = "cg_close" /\ HeldAt(prog, i, Now(r).file))
      /\ Now(r).op = "cg_is_cgns" => Now(r).mode = "r"
  BY <1>1, CallIsOrderly
<1>4. ~ (Now(r).op \in {"cg_is_cgns", "cg_open"} /\ Now(r).mode = "r" /\ KnownAt(prog, i))
  BY <1>1, ProbeIsEven
<1>5. ~ TestedFor(prog, i) /\ ~ OpenedFor(prog, i)
  BY <1>3, <1>4, HeldIsKnown DEF TestedFor, OpenedFor
<1>6. \A c \in Comm : Script(prog, i, c) = <<>>
  BY <1>3, <1>5, NoScript
<1>7. InScript(r)'
  BY <1>1, <1>2, <1>6, GoesOn
<1>8. Settled(r)'
  BY <1>1, <1>2, <1>3, PlainSettled
<1> QED BY <1>1, <1>7, <1>8 DEF Follows, Gone

LEMMA PioModeFollows ==
    ASSUME Good, NEW r \in Rank, PioMode(r), pos[r] <= Len(prog.calls)
    PROVE  Follows(r)'
<1> DEFINE i == pos[r]
<1>1. /\ at[r] = "call" /\ ~ Gone(r) /\ Now(r).op = "cgp_pio_mode"
      /\ handle' = handle /\ coll' = coll /\ Return(r, TRUE, FALSE)
      /\ ctx'[r] = [ctx[r] EXCEPT !.pio = Now(r).mode]
  BY DEF PioMode, Calls, Gone, Good, ParInv, Typed
<1>2. ParInv /\ InScript(r) /\ Settled(r) /\ \A c \in Comm : Entered(r, c) = <<>>
  BY <1>1, InCall
<1>3. prog \in Programs /\ i \in 1 .. Len(prog.calls) /\ Now(r) = prog.calls[i]
  BY CallIsOrderly
<1>4. \A c \in Comm : Script(prog, i, c) = <<>>
  BY <1>1, <1>3, NoScript DEF TestedFor, OpenedFor, WriteOps
<1>5. at'[r] = "call" /\ pos'[r] = i + 1 => Settled(r)'
  BY <1>1, <1>2, PioSettled DEF Return
<1> QED BY <1>1, <1>2, <1>4, <1>5, ReturnsFollows

LEMMA BarrierFollows ==
    ASSUME Good, NEW r \in Rank, Barrier(r), pos[r] <= Len(prog.calls)
    PROVE  Follows(r)'
<1> DEFINE i == pos[r]
<1>1. /\ at[r] = "call" /\ ~ Gone(r) /\ Now(r).op = "MPI_Barrier"
      /\ handle' = handle /\ ctx' = ctx /\ Enter(r, World, <<"barrier">>, "barrier")
  BY DEF Barrier, Calls, Gone
<1>2. ParInv /\ CollTyped /\ Settled(r) /\ \A c \in Comm : Entered(r, c) = <<>>
  BY <1>1, InCall
<1>3. World \in Comm /\ <<"barrier">> \in Entries /\ World # Lib
  BY CommsDiffer DEF Comm, Entries
<1>4. prog' = prog /\ pos'[r] = i /\ at'[r] = "barrier"
  BY <1>1, <1>2, <1>3, EnterIs
<1>5. prog \in Programs /\ i \in 1 .. Len(prog.calls) /\ Now(r) = prog.calls[i]
  BY CallIsOrderly
<1>6. \A c \in Comm : c # World => Script(prog, i, c) = <<>>
  <2>1. Script(prog, i, Lib) = <<>>
    BY <1>1, <1>5, LibScript DEF TestedFor, OpenedFor
  <2>2. Script(prog, i, Now(r).file) = <<>>
    BY <1>1, <1>5, FileScript DEF WriteOps
  <2> QED BY <1>5, <2>1, <2>2, OtherScripts DEF Comm
<1>7. Script(prog, i, World) = Append(<<>>, <<"barrier">>)
  BY <1>1, <1>5, OtherScripts
<1>8. \A c \in Comm : Entered(r, c)' = Script(prog, i, c)
  BY <1>4 DEF Entered
<1>9. Settled(r)'
  BY <1>1, <1>2, <1>4, StaysSettled DEF OpenOps
<1> QED BY <1>1, <1>2, <1>3, <1>6, <1>7, <1>8, <1>9, EntersFollows

LEMMA LeaveBarrierFollows ==
    ASSUME Good, NEW r \in Rank, LeaveBarrier(r), pos[r] <= Len(prog.calls)
    PROVE  Follows(r)'
<1>1. /\ at[r] = "barrier" /\ ~ Gone(r) /\ handle' = handle /\ ctx' = ctx /\ coll' = coll
      /\ Return(r, TRUE, FALSE)
  BY DEF LeaveBarrier, Gone
<1>2. InScript(r) /\ Settled(r)
  BY <1>1, InCall
<1>3. Now(r).op = "MPI_Barrier"
  BY <1>1, <1>2 DEF InScript
<1>4. \A c \in Comm : Entered(r, c) = Script(prog, pos[r], c)
  BY <1>1 DEF Entered
<1>5. at'[r] = "call" /\ pos'[r] = pos[r] + 1 => Settled(r)'
  BY <1>1, <1>2, <1>3, PlainSettled DEF Return
<1> QED BY <1>1, <1>4, <1>5, ReturnsFollows

LEMMA OpenSerialWriteFollows ==
    ASSUME Good, NEW r \in Rank, OpenSerialWrite(r), pos[r] <= Len(prog.calls)
    PROVE  Follows(r)'
<1> DEFINE i == pos[r]
<1>1. /\ at[r] = "call" /\ ~ Gone(r) /\ Now(r).op = "cg_open" /\ Now(r).mode = "w"
      /\ coll' = coll /\ handle' = handle /\ prog' = prog /\ pos' = pos
      /\ ModeForOpen(r) = NATIVE
      /\ ctx' = [ctx EXCEPT ![r].mode = NATIVE, ![r].type = "hdf5"]
  BY DEF OpenSerialWrite, Calls, Gone, ModeForOpen
<1>2. ParInv /\ InScript(r) /\ Settled(r) /\ \A c \in Comm : Entered(r, c) = <<>>
  BY <1>1, InCall
<1>3. /\ prog \in Programs /\ i \in 1 .. Len(prog.calls) /\ Now(r) = prog.calls[i]
      /\ at'[r] = "unlinked" /\ Now(r)' = Now(r)
  BY <1>1, <1>2, CallIsOrderly DEF OpenSerialWrite, ParInv, Typed, Now
<1>4. /\ ctx'[r].init = ctx[r].init /\ ctx'[r].pio = ctx[r].pio /\ ctx'[r].mode = NATIVE
      /\ ctx'[r].type = "hdf5"
  BY <1>1, <1>2 DEF ParInv, Typed, Settings
<1>5. \A c \in Comm : Script(prog, i, c) = <<>>
  BY <1>1, <1>3, NoScript DEF TestedFor, OpenedFor, WriteOps
<1>6. InScript(r)'
  <2>1. \A c \in Comm : Entered(r, c)' = Entered(r, c) /\ Before(r, c)' = Before(r, c)
    BY <1>1, <1>2, <1>3, <1>5 DEF Entered, Before
  <2> QED BY <1>1, <1>2, <1>3, <2>1 DEF InScript
<1>7. Settled(r)'
  BY <1>1, <1>2, <1>3, <1>4 DEF Settled, NONE, PARALLEL, NATIVE
<1> QED BY <1>3, <1>6, <1>7 DEF Follows, Gone

\* A rank that has entered the test of a file, or nothing, is refused the file itself.
LEMMA RefusedFollows ==
    ASSUME Good, NEW r \in Rank, pos[r] <= Len(prog.calls), ~ Gone(r),
           NEW ok \in BOOLEAN, Return(r, ok, FALSE), coll' = coll,
           MayFail(prog, pos[r]), ~ OpenedFor(prog, pos[r]),
           \A c \in Comm : Entered(r, c) = Script(prog, pos[r], c),
           \A c \in Comm : c # Lib => Script(prog, pos[r], c) = <<>>,
           \A f \in FileName : handle'[r][f] = PARALLEL => handle[r][f] = PARALLEL,
           at'[r] = "call" /\ pos'[r] = pos[r] + 1 => Settled(r)'
    PROVE  Follows(r)'
<1> DEFINE i == pos[r]
<1>1. ParInv /\ Booked /\ CollTyped /\ InScript(r) /\ Settled(r)
  BY InCall
<1>2. prog' = prog /\ prog \in Programs /\ i \in 1 .. Len(prog.calls)
      /\ i \in 1 .. Len(prog.calls) + 1
  <2>1. prog' = prog /\ prog \in Programs /\ i \in 1 .. Len(prog.calls)
    BY <1>1, CallIsOrderly, ReturnIs
  <2> QED BY <2>1, CallIs
<1>3. CASE ok \/ ~ prog.exits
  <2>1. at'[r] = "call" /\ pos'[r] = i + 1
    BY <1>1, <1>3, ReturnIs
  <2>2. InScript(r)'
    BY <1>1, <1>2, <2>1, GoesOn
  <2> QED BY <2>1, <2>2 DEF Follows, Gone
<1>4. CASE ~ ok /\ prog.exits
  <2>1. at'[r] = "exit" /\ pos'[r] = i
    BY <1>1, <1>4, ReturnIs
  <2>2. ASSUME NEW c \in Comm PROVE coll[r][c] = History(prog)[i + 1][c]
    BY <1>1, <1>2, HistoryStep DEF InScript, Before
  <2>3. ASSUME NEW c \in Comm, c # Lib PROVE coll[r][c] = Before(r, c)
    <3>1. History(prog)[i][c] \in Seq(Entries)
      BY <1>2, HistoryStep
    <3>2. History(prog)[i + 1][c] = History(prog)[i][c] \o <<>>
      BY <1>2, <2>3, HistoryStep
    <3> QED BY <2>2, <3>1, <3>2, ConcatEmptySeq DEF Before
  <2>4. Lib \in Comm
    BY DEF Comm
  <2> QED BY <1>1, <1>2, <1>4, <2>1, <2>2, <2>3, <2>4, LeavesOnFailure
<1> QED BY <1>3, <1>4

LEMMA MakeFileFollows ==
    ASSUME Good, NEW r \in Rank, MakeFile(r), pos[r] <= Len(prog.calls)
    PROVE  Follows(r)'
<1> DEFINE i == pos[r]
           f == Now(r).file
<1>1. /\ at[r] = "unlinked" /\ ~ Gone(r) /\ ctx' = ctx /\ coll' = coll
      /\ \E ok \in BOOLEAN : Return(r, ok, FALSE)
      /\ handle' = handle \/ handle' = [handle EXCEPT ![r][f] = MADE]
  BY DEF MakeFile, Gone
<1>2. ParInv /\ InScript(r) /\ Settled(r) /\ Waits(r)
  BY <1>1, InCall DEF ParInv
<1>3. /\ Now(r).op = "cg_open" /\ Now(r).mode = "w"
      /\ ctx[r].mode = NATIVE /\ ctx[r].type = "hdf5"
  BY <1>1, <1>2 DEF Waits
<1>4. prog \in Programs /\ i \in 1 .. Len(prog.calls) /\ Now(r) = prog.calls[i] /\ f \in FileName
      /\ ~ HeldAt(prog, i, f)
  BY <1>3, CallIsOrderly DEF OpenOps
<1>5. \A g \in FileName : handle'[r][g] = PARALLEL <=> handle[r][g] = PARALLEL
  <2>1. handle[r][f] # PARALLEL /\ MADE # PARALLEL
    BY <1>2, <1>4 DEF Settled, MADE, PARALLEL
  <2>2. CASE handle' = [handle EXCEPT ![r][f] = MADE]
    <3>1. \A g \in FileName : handle'[r][g] = IF g = f THEN MADE ELSE handle[r][g]
      BY <1>2, <1>4, <2>2 DEF ParInv, Typed
    <3> QED BY <2>1, <3>1
  <2> QED BY <1>1, <2>2
<1>6. ~ OpenedFor(prog, i) /\ MayFail(prog, i)
  BY <1>3, <1>4 DEF OpenedFor, MayFail
<1>7. \A c \in Comm : Script(prog, i, c) = <<>>
  BY <1>3, <1>4, NoScript DEF TestedFor, OpenedFor, WriteOps
<1>8. \A c \in Comm : Entered(r, c) = Script(prog, i, c)
  BY <1>1 DEF Entered
<1>9. at'[r] = "call" /\ pos'[r] = i + 1 => Settled(r)'
  <2>1. prog' = prog
    BY <1>1 DEF Return
  <2> QED BY <1>1, <1>2, <1>3, <1>5, <2>1, OpenSettled
<1> QED BY <1>1, <1>5, <1>6, <1>7, <1>8, <1>9, RefusedFollows

\* An open or a test that is not collective returns.
LEMMA NativeFollows ==
    ASSUME Good, NEW r \in Rank, pos[r] <= Len(prog.calls), at[r] = "call",
           Now(r).op \in {"cg_open", "cg_is_cgns"}, Now(r).mode = "r",
           ~ TestedFor(prog, pos[r]), ~ OpenedFor(prog, pos[r]),
           Now(r).op = "cg_is_cgns" => ctx[r].mode = NATIVE,
           ctx' = [ctx EXCEPT ![r].mode = NATIVE],
           NEW ok \in BOOLEAN, Return(r, ok, FALSE), coll' = coll,
           \/ handle' = handle
           \/ Now(r).op = "cg_open" /\ handle' = [handle EXCEPT ![r][Now(r).file] = NATIVE]
    PROVE  Follows(r)'
<1> DEFINE i == pos[r]
           f == Now(r).file
<1>1. ~ Gone(r)
  BY DEF Gone
<1>2. ParInv /\ InScript(r) /\ Settled(r)
  BY <1>1, InCall
<1>3. prog \in Programs /\ i \in 1 .. Len(prog.calls) /\ Now(r) = prog.calls[i] /\ f \in FileName
      /\ ~ HeldAt(prog, i, f)
  BY CallIsOrderly DEF OpenOps
<1>4. \A c \in Comm : Script(prog, i, c) = <<>>
  BY <1>3, NoScript DEF WriteOps
<1>5. MayFail(prog, i)
  BY <1>3 DEF MayFail
<1>6. /\ ctx'[r].init = ctx[r].init /\ ctx'[r].pio = ctx[r].pio /\ ctx'[r].mode = NATIVE
      /\ ctx'[r].type = ctx[r].type
  BY <1>2 DEF ParInv, Typed, Settings
<1>7. \A g \in FileName : handle'[r][g] = PARALLEL <=> handle[r][g] = PARALLEL
  <2>1. handle[r][f] # PARALLEL /\ NATIVE # PARALLEL
    BY <1>2, <1>3 DEF Settled, NATIVE, PARALLEL
  <2>2. CASE handle' = [handle EXCEPT ![r][f] = NATIVE]
    <3>1. \A g \in FileName : handle'[r][g] = IF g = f THEN NATIVE ELSE handle[r][g]
      BY <1>2, <1>3, <2>2 DEF ParInv, Typed
    <3> QED BY <2>1, <3>1
  <2> QED BY <2>2
<1>8. ASSUME at'[r] = "call" PROVE Settled(r)'
  <2>1. prog' = prog /\ pos'[r] = i + 1
    <3>1. ok \/ ~ prog.exits
      BY <1>2, <1>8, ReturnIs
    <3> QED BY <1>2, <3>1, ReturnIs
  <2>2. CASE Now(r).op = "cg_open"
    BY <1>2, <1>6, <1>7, <1>8, <2>1, <2>2, OpenSettled
  <2>3. CASE Now(r).op = "cg_is_cgns"
    <3>1. ctx'[r] = ctx[r]
      BY <1>2, <2>3 DEF ParInv, Typed, Settings
    <3> QED BY <1>2, <1>7, <1>8, <2>1, <2>3, <3>1, PlainSettled
  <2> QED BY <2>2, <2>3
<1> QED BY <1>2, <1>4, <1>5, <1>7, <1>8, QuietCallFollows

\* The settings under which a rank comes to an open or a test.
LEMMA ProbeSettings ==
    ASSUME Good, NEW r \in Rank, pos[r] <= Len(prog.calls), at[r] = "call",
           Now(r).op \in {"cg_open", "cg_is_cgns"}, Now(r).mode = "r"
    PROVE  /\ ctx[r].init <=> KnownAt(prog, pos[r])
           /\ ~ ctx[r].init => /\ ctx[r].mode = NATIVE
                               /\ ~ TestedFor(prog, pos[r]) /\ ~ OpenedFor(prog, pos[r])
           /\ ctx[r].init => (ctx[r].type = NONE <=> ~ SerialAt(prog, pos[r]))
           /\ TestedFor(prog, pos[r]) <=>
                 ctx[r].init /\ (Now(r).op = "cg_is_cgns" \/ ctx[r].type = NONE)
           /\ Now(r).op = "cg_open" => ~ OpenedFor(prog, pos[r])
<1> DEFINE i == pos[r]
<1>1. ~ Gone(r)
  BY DEF Gone
<1>2. Settled(r)
  BY <1>1, InCall
<1>3. Now(r) = prog.calls[i]
  BY DEF Now
<1>4. ctx[r].init <=> KnownAt(prog, i)
  BY <1>2 DEF Settled
<1>5. ~ KnownAt(prog, i) => /\ ctx[r].mode = NATIVE /\ ~ TestedFor(prog, i)
                            /\ ~ OpenedFor(prog, i)
  BY <1>2, <1>3, HeldIsKnown DEF Settled, TestedFor, OpenedFor
<1>6. KnownAt(prog, i) => EvenTo(prog, i)
  BY ProbeIsEven
<1>7. KnownAt(prog, i) => (ctx[r].type = NONE <=> ~ SerialAt(prog, i))
  BY <1>2, <1>6 DEF Settled
<1>8. TestedFor(prog, i) <=> KnownAt(prog, i) /\ (Now(r).op = "cg_is_cgns" \/ ctx[r].type = NONE)
  BY <1>3, <1>7 DEF TestedFor
<1>9. Now(r).op = "cg_open" => ~ OpenedFor(prog, i)
  BY <1>3 DEF OpenedFor
<1> QED BY <1>4, <1>5, <1>7, <1>8, <1>9

LEMMA OpenUncheckedFollows ==
    ASSUME Good, NEW r \in Rank, OpenUnchecked(r), pos[r] <= Len(prog.calls)
    PROVE  Follows(r)'
<1>1. /\ at[r] = "call" /\ Now(r).op = "cg_open" /\ Now(r).mode = "r" /\ ctx[r].type # NONE
      /\ ctx' = [ctx EXCEPT ![r].mode = NATIVE] /\ FinishOpen(r, NATIVE)
  BY DEF OpenUnchecked, Calls, ModeForOpen
<1>2. ~ TestedFor(prog, pos[r]) /\ ~ OpenedFor(prog, pos[r])
  BY <1>1, ProbeSettings
<1>3. /\ \E ok \in BOOLEAN : Return(r, ok, FALSE)
      /\ coll' = coll
      /\ handle' = handle \/ handle' = [handle EXCEPT ![r][Now(r).file] = NATIVE]
  BY <1>1 DEF FinishOpen, NATIVE, PARALLEL
<1> QED BY <1>1, <1>2, <1>3, NativeFollows

\* A rank comes to a test that rank 0 makes for all.
LEMMA BroadcastFollows ==
    ASSUME Good, NEW r \in Rank, pos[r] <= Len(prog.calls), at[r] = "call",
           Now(r).op \in {"cg_open", "cg_is_cgns"}, Now(r).mode = "r", TestedFor(prog, pos[r]),
           ctx' = [ctx EXCEPT ![r].mode = ModeForOpen(r)], handle' = handle,
           Enter(r, Lib, <<"bcast", Now(r).file>>, "checked")
    PROVE  Follows(r)'
<1> DEFINE i == pos[r]
           f == Now(r).file
<1>1. ~ Gone(r)
  BY DEF Gone
<1>2. ParInv /\ CollTyped /\ Settled(r) /\ \A c \in Comm : Entered(r, c) = <<>>
  BY <1>1, InCall
<1>3. f \in FileName
  BY CallIsOrderly
<1>4. Lib \in Comm /\ <<"bcast", f>> \in Entries
  BY <1>3 DEF Comm, Entries
<1>5. prog' = prog /\ pos'[r] = i /\ at'[r] = "checked"
  BY <1>2, <1>4, EnterIs
<1>6. Now(r)' = Now(r)
  BY <1>5 DEF Now
<1>7. /\ Entered(r, Lib)' = << <<"bcast", f>> >>
      /\ \A c \in Comm : c # Lib => Entered(r, c)' = <<>>
  BY <1>5, <1>6 DEF Entered
<1>8. Settled(r)'
  <2>1. CASE Now(r).op = "cg_is_cgns"
    <3>1. ctx'[r] = ctx[r]
      BY <1>2, <2>1 DEF ModeForOpen, ParInv, Typed, Settings
    <3> QED BY <1>2, <1>5, <2>1, <3>1, StaysSettled DEF OpenOps
  <2>2. CASE Now(r).op = "cg_open"
    <3>1. /\ ctx'[r].init = ctx[r].init /\ ctx'[r].pio = ctx[r].pio /\ ctx'[r].mode = NATIVE
          /\ ctx'[r].type = ctx[r].type
      BY <1>2, <2>2 DEF ModeForOpen, ParInv, Typed, Settings
    <3> QED BY <1>2, <1>5, <1>6, <2>2, <3>1 DEF Settled
  <2> QED BY <2>1, <2>2
<1>9. Entered(r, Lib)' = Append(Entered(r, Lib), <<"bcast", f>>)
  BY <1>2, <1>4, <1>7
<1> QED BY <1>1, <1>2, <1>4, <1>7, <1>8, <1>9, EntersFollows

LEMMA CheckFileFollows ==
    ASSUME Good, NEW r \in Rank, CheckFile(r), pos[r] <= Len(prog.calls), ~ deserted'
    PROVE  Follows(r)'
<1> DEFINE f == Now(r).file
<1>1. /\ at[r] = "call" /\ ctx' = [ctx EXCEPT ![r].mode = ModeForOpen(r)]
      /\ \/ Now(r).op = "cg_open" /\ Now(r).mode = "r" /\ ctx[r].type = NONE
         \/ Now(r).op = "cg_is_cgns"
  BY DEF CheckFile, Probes, Calls
<1>2. Now(r).op \in {"cg_open", "cg_is_cgns"} /\ Now(r).mode = "r"
  BY <1>1, CallIsOrderly
<1>3. CASE f \in present /\ ctx[r].init
  <2>1. Enter(r, Lib, <<"bcast", f>>, "checked") /\ handle' = handle
    BY <1>3 DEF CheckFile
  <2>2. TestedFor(prog, pos[r])
    BY <1>1, <1>2, <1>3, ProbeSettings
  <2> QED BY <1>1, <1>2, <2>1, <2>2, BroadcastFollows
<1>4. CASE ~ ctx[r].init
  <2>1. ctx[r].mode = NATIVE /\ ~ TestedFor(prog, pos[r]) /\ ~ OpenedFor(prog, pos[r])
    BY <1>1, <1>2, <1>4, ProbeSettings
  <2>2. ModeForOpen(r) = NATIVE
    BY <2>1 DEF ModeForOpen
  <2>3. /\ \E ok \in BOOLEAN : Return(r, ok, FALSE)
        /\ coll' = coll
        /\ \/ handle' = handle
           \/ Now(r).op = "cg_open" /\ handle' = [handle EXCEPT ![r][f] = NATIVE]
    <3>1. FinishOpen(r, NATIVE)
      BY <1>4, <2>2 DEF CheckFile
    <3> QED BY <1>2, <3>1 DEF FinishOpen, NATIVE, PARALLEL
  <2> QED BY <1>1, <1>2, <2>1, <2>2, <2>3, NativeFollows
<1>5. CASE f \notin present /\ ctx[r].init
  <2>1. Return(r, FALSE, TRUE)
    BY <1>5 DEF CheckFile
  <2> QED BY <1>5, <2>1 DEF Return
<1> QED BY <1>3, <1>4, <1>5

LEMMA AwaitCheckFollows ==
    ASSUME Good, NEW r \in Rank, AwaitCheck(r), pos[r] <= Len(prog.calls)
    PROVE  Follows(r)'
<1>1. /\ at[r] = "call" /\ ctx' = [ctx EXCEPT ![r].mode = ModeForOpen(r)] /\ ctx[r].init
      /\ handle' = handle /\ Enter(r, Lib, <<"bcast", Now(r).file>>, "checked")
      /\ \/ Now(r).op = "cg_open" /\ Now(r).mode = "r" /\ ctx[r].type = NONE
         \/ Now(r).op = "cg_is_cgns"
  BY DEF AwaitCheck, Probes, Calls
<1>2. Now(r).op \in {"cg_open", "cg_is_cgns"} /\ Now(r).mode = "r"
  BY <1>1, CallIsOrderly
<1>3. TestedFor(prog, pos[r])
  BY <1>1, <1>2, ProbeSettings
<1> QED BY <1>1, <1>2, <1>3, BroadcastFollows

LEMMA CheckedFollows ==
    ASSUME Good, NEW r \in Rank, Checked(r), pos[r] <= Len(prog.calls)
    PROVE  Follows(r)'
<1> DEFINE i == pos[r]
           f == Now(r).file
<1>1. at[r] = "checked" /\ ~ Gone(r) /\ FinishOpen(r, ctx[r].mode) /\ ctx' = ctx
  BY DEF Checked, Gone
<1>2. ParInv /\ CollTyped /\ InScript(r) /\ Settled(r)
  BY <1>1, InCall
<1>3. /\ TestedFor(prog, i) /\ Now(r).op \in {"cg_open", "cg_is_cgns"} /\ Now(r).mode = "r"
      /\ Now(r).op = "cg_open" => ctx[r].mode = NATIVE
      /\ ctx[r].mode = PARALLEL <=> OpenedFor(prog, i)
  BY <1>1, CheckedMode
<1>5. prog \in Programs /\ i \in 1 .. Len(prog.calls) /\ Now(r) = prog.calls[i] /\ f \in FileName
  BY CallIsOrderly
<1>8. /\ Entered(r, Lib) = << <<"bcast", f>> >>
      /\ \A c \in Comm : c # Lib => Entered(r, c) = <<>>
  BY <1>1 DEF Entered
<1>9. CASE ctx[r].mode = PARALLEL
  <2>1. Enter(r, Lib, <<"open", f>>, "open") /\ handle' = handle
    <3>1. f \in present /\ ~ InTheMaking(f)
      BY <1>3, <1>9, CheckedIsThere
    <3> QED BY <1>1, <1>9, <3>1 DEF FinishOpen
  <2>2. Lib \in Comm /\ <<"open", f>> \in Entries
    BY <1>5 DEF Comm, Entries
  <2>3. prog' = prog /\ pos'[r] = i /\ at'[r] = "open"
    BY <1>2, <2>1, <2>2, EnterIs
  <2>4. /\ Entered(r, Lib)' = Script(prog, i, Lib)
        /\ \A c \in Comm : c # Lib => Entered(r, c)' = <<>>
    BY <2>3 DEF Entered
  <2>5. Script(prog, i, Lib) = Append(<< <<"bcast", f>> >>, <<"open", f>>)
    BY <1>3, <1>5, <1>9, LibScript
  <2>6. Settled(r)'
    BY <1>1, <1>2, <2>1, <2>3, StaysSettled
  <2>7. Entered(r, Lib)' = Append(Entered(r, Lib), <<"open", f>>)
    BY <1>8, <2>4, <2>5, Zenon
  <2>8. \A c \in Comm : c # Lib => Entered(r, c)' = Entered(r, c)
    BY <1>8, <2>4
  <2>9. OpenedFor(prog, i)
    BY <1>3, <1>9
  <2> HIDE DEF i, f
  <2> QED BY <1>1, <2>1, <2>2, <2>6, <2>7, <2>8, <2>9, EntersFollows DEF i
<1>10. CASE ctx[r].mode # PARALLEL
  <2>1. /\ \E ok \in BOOLEAN : Return(r, ok, FALSE)
        /\ coll' = coll
        /\ \/ handle' = handle
           \/ handle' = [handle EXCEPT ![r][f] = NATIVE]
    BY <1>1, <1>10 DEF FinishOpen
  <2>2. Script(prog, i, Lib) = << <<"bcast", f>> >>
    BY <1>3, <1>5, <1>10, LibScript
  <2>3. ~ (Now(r).op = "cg_is_cgns" /\ ParallelAt(prog, i))
    BY <1>3, <1>5, <1>10 DEF OpenedFor
  <2>4. Script(prog, i, f) = <<>>
    BY <1>3, <1>5, <2>3, FileScript DEF WriteOps
  <2>5. \A c \in Comm : c # Lib => Script(prog, i, c) = <<>>
    BY <1>3, <1>5, <2>4, OtherScripts DEF Comm
  <2>6. \A c \in Comm : Entered(r, c) = Script(prog, i, c)
    BY <1>8, <2>2, <2>5
  <2>7. \A g \in FileName : handle'[r][g] = PARALLEL <=> handle[r][g] = PARALLEL
    <3>1. handle[r][f] # PARALLEL /\ NATIVE # PARALLEL
      <4>1. ~ HeldAt(prog, i, f)
        BY <1>3, CallIsOrderly DEF OpenOps
      <4> QED BY <1>2, <1>5, <4>1 DEF Settled, NATIVE, PARALLEL
    <3>2. CASE handle' = [handle EXCEPT ![r][f] = NATIVE]
      <4>1. \A g \in FileName : handle'[r][g] = IF g = f THEN NATIVE ELSE handle[r][g]
        BY <1>2, <1>5, <3>2 DEF ParInv, Typed
      <4> QED BY <3>1, <4>1
    <3> QED BY <2>1, <3>2
  <2>8. at'[r] = "call" /\ pos'[r] = i + 1 => Settled(r)'
    <3> SUFFICES ASSUME at'[r] = "call", pos'[r] = i + 1 PROVE Settled(r)'
      OBVIOUS
    <3>1. prog' = prog
      BY <2>1 DEF Return
    <3>2. CASE Now(r).op = "cg_open"
      <4>1. ctx'[r].type = IF Now(r).mode = "w" THEN "hdf5" ELSE ctx[r].type
        BY <1>1, <1>3
      <4> QED BY <1>1, <1>2, <1>3, <2>7, <3>1, <3>2, <4>1, OpenSettled
    <3>3. CASE Now(r).op = "cg_is_cgns"
      BY <1>1, <1>2, <2>7, <3>1, <3>3, PlainSettled
    <3> QED BY <1>3, <3>2, <3>3
  <2>9. MayFail(prog, i) /\ ~ OpenedFor(prog, i)
    BY <1>3, <1>5, <1>10 DEF MayFail
  <2> QED BY <1>1, <2>1, <2>5, <2>6, <2>7, <2>8, <2>9, RefusedFollows
<1> QED BY <1>9, <1>10

LEMMA ParallelOpenFollows ==
    ASSUME Good, NEW r \in Rank, ParallelOpen(r), pos[r] <= Len(prog.calls)
    PROVE  Follows(r)'
<1> DEFINE i == pos[r]
           f == Now(r).file
<1>1. /\ at[r] = "call" /\ ~ Gone(r) /\ Now(r).op = "cgp_open"
      /\ ctx' = [ctx EXCEPT ![r].init = TRUE, ![r].mode = PARALLEL]
  BY DEF ParallelOpen, Calls, Gone
<1>2. Enter(r, Lib, <<"open", f>>, "open") /\ handle' = handle
  <2>1. CASE Now(r).mode = "w"
    BY <2>1 DEF ParallelOpen
  <2>2. CASE Now(r).mode # "w"
    <3>1. f \in present /\ ~ InTheMaking(f)
      BY <1>1, <2>2, OpenedIsThere
    <3> QED BY <2>2, <3>1 DEF ParallelOpen, FinishOpen
  <2> QED BY <2>1, <2>2
<1>3. ParInv /\ CollTyped /\ Settled(r) /\ \A c \in Comm : Entered(r, c) = <<>>
  BY <1>1, InCall
<1>4. prog \in Programs /\ i \in 1 .. Len(prog.calls) /\ Now(r) = prog.calls[i] /\ f \in FileName
  BY CallIsOrderly
<1>5. Lib \in Comm /\ <<"open", f>> \in Entries
  BY <1>4 DEF Comm, Entries
<1>6. prog' = prog /\ pos'[r] = i /\ at'[r] = "open"
  BY <1>2, <1>3, <1>5, EnterIs
<1>7. Now(r)' = Now(r)
  BY <1>6 DEF Now
<1>8. OpenedFor(prog, i) /\ ~ TestedFor(prog, i)
  BY <1>1, <1>4 DEF OpenedFor, TestedFor
<1>9. Script(prog, i, Lib) = Append(<<>>, <<"open", f>>)
  <2>1. Script(prog, i, Lib) = << <<"open", f>> >>
    BY <1>4, <1>8, LibScript, Zenon
  <2> QED BY <2>1
<1>10. /\ Entered(r, Lib)' = Script(prog, i, Lib)
       /\ \A c \in Comm : c # Lib => Entered(r, c)' = <<>>
  BY <1>6 DEF Entered
<1>11. Settled(r)'
  <2>1. /\ ctx'[r].init /\ ctx'[r].pio = ctx[r].pio /\ ctx'[r].mode = PARALLEL
        /\ ctx'[r].type = ctx[r].type
    BY <1>1, <1>3 DEF ParInv, Typed, Settings
  <2> QED BY <1>1, <1>2, <1>3, <1>6, <1>7, <2>1 DEF Settled
<1>12. Entered(r, Lib)' = Append(Entered(r, Lib), <<"open", f>>)
  BY <1>3, <1>5, <1>9, <1>10
<1> QED BY <1>1, <1>2, <1>3, <1>5, <1>8, <1>10, <1>11, <1>12, EntersFollows

LEMMA OpenedFollows ==
    ASSUME Good, NEW r \in Rank, Opened(r), pos[r] <= Len(prog.calls)
    PROVE  Follows(r)'
<1> DEFINE i == pos[r]
<1>0. PICK f \in FileName : f = Now(r).file
  BY CallIsOrderly
<1>1. at[r] = "open" /\ ~ Gone(r) /\ ctx' = ctx
  BY DEF Opened, Gone
<1>2. ParInv /\ CollTyped /\ InScript(r) /\ Settled(r) /\ Waits(r)
  BY <1>1, InCall DEF ParInv
<1>3. OpenedFor(prog, i) /\ Now(r).op \in {"cgp_open", "cg_is_cgns"}
  BY <1>1, <1>2 DEF InScript, Waits
<1>4. prog \in Programs /\ i \in 1 .. Len(prog.calls) /\ Now(r) = prog.calls[i]
      /\ f = prog.calls[i].file
  BY <1>0, CallIsOrderly
<1>5. /\ Entered(r, Lib) = Script(prog, i, Lib)
      /\ \A c \in Comm : c # Lib => Entered(r, c) = <<>>
  BY <1>1 DEF Entered
<1>6. \A c \in Comm : (c # Lib /\ c # f) => Script(prog, i, c) = <<>>
  BY <1>3, <1>4, OtherScripts DEF Comm
<1>7. CASE Now(r).op = "cg_is_cgns"
  <2>1. Enter(r, f, <<"close", f>>, "close") /\ handle' = handle
    BY <1>0, <1>7 DEF Opened
  <2>2. f \in Comm /\ <<"close", f>> \in Entries /\ f # Lib
    BY <1>4, CommsDiffer DEF Comm, Entries
  <2>3. prog' = prog /\ pos'[r] = i /\ at'[r] = "close"
    BY <1>2, <2>1, <2>2, EnterIs
  <2>4. \A c \in Comm : Entered(r, c)' = Script(prog, i, c)
    BY <2>3 DEF Entered
  <2>5. ParallelAt(prog, i) /\ prog.calls[i].op = "cg_is_cgns"
    BY <1>3, <1>4, <1>7 DEF OpenedFor
  <2>6. Settled(r)'
    BY <1>1, <1>2, <1>7, <2>1, <2>3, StaysSettled
  <2>7. Script(prog, i, f) = << <<"close", f>> >>
    BY <1>4, <2>5, FileScript
  <2>8. Entered(r, f) = <<>> /\ Entered(r, f)' = << <<"close", f>> >>
    BY <1>5, <2>2, <2>4, <2>7
  <2>9. Entered(r, f)' = Append(Entered(r, f), <<"close", f>>)
    <3>1. Append(<<>>, <<"close", f>>) = << <<"close", f>> >>
      OBVIOUS
    <3> QED BY <2>8, <3>1, Zenon
  <2>10. \A c \in Comm : c # f => Entered(r, c)' = Entered(r, c)
    <3>1. \A c \in Comm : (c # Lib /\ c # f) => Entered(r, c) = <<>> /\ Script(prog, i, c) = <<>>
      BY <1>5, <1>6
    <3> QED BY <1>5, <2>4, <3>1
  <2> QED BY <1>1, <1>7, <2>1, <2>2, <2>5, <2>6, <2>9, <2>10, EntersFollows
<1>8. CASE Now(r).op = "cgp_open"
  <2>1. /\ handle' = [handle EXCEPT ![r][f] = PARALLEL] /\ coll' = coll
        /\ Return(r, TRUE, FALSE)
    BY <1>0, <1>8 DEF Opened
  <2>2. Script(prog, i, f) = <<>>
    BY <1>4, <1>8, FileScript DEF WriteOps
  <2>3. \A c \in Comm : Entered(r, c) = Script(prog, i, c)
    BY <1>5, <1>6, <2>2
  <2>4. \A g \in FileName : handle'[r][g] = PARALLEL <=> (handle[r][g] = PARALLEL \/ g = f)
    BY <1>2, <1>4, <2>1 DEF ParInv, Typed
  <2>5. at'[r] = "call" /\ pos'[r] = i + 1 => Settled(r)'
    BY <1>0, <1>1, <1>2, <1>8, <2>1, <2>4, ParallelSettled DEF Return
  <2> QED BY <1>1, <2>1, <2>3, <2>5, ReturnsFollows
<1> QED BY <1>3, <1>7, <1>8

\* A rank comes to a write of a file that is open in parallel.
LEMMA AtWrite ==
    ASSUME Good, NEW r \in Rank, pos[r] <= Len(prog.calls), Now(r).op \in WriteOps, ~ Gone(r)
    PROVE  /\ ctx[r].pio = Pio(prog)
           /\ handle[r][Now(r).file] = PARALLEL /\ Now(r).op \notin OpenOps \cup {"cg_close", "MPI_Barrier"}
           /\ ~ TestedFor(prog, pos[r]) /\ ~ OpenedFor(prog, pos[r])
           /\ Pio(prog) # CGP_COLLECTIVE =>
                 /\ MayFail(prog, pos[r])
                 /\ \A c \in Comm : Script(prog, pos[r], c) = <<>>
<1> DEFINE i == pos[r]
<1>1. Settled(r)
  BY InCall
<1>2. /\ prog \in Programs /\ i \in 1 .. Len(prog.calls) /\ Now(r) = prog.calls[i]
      /\ Now(r).file \in FileName /\ HeldAt(prog, i, Now(r).file)
  BY CallIsOrderly
<1>3. Now(r).op \notin OpenOps \cup {"cg_close", "MPI_Barrier", "cgp_pio_mode", "cg_is_cgns"}
  BY DEF WriteOps, OpenOps
<1>4. ctx[r].pio = Pio(prog)
  BY <1>1, <1>3, PioIs
<1>5. handle[r][Now(r).file] = PARALLEL
  BY <1>1, <1>2 DEF Settled
<1>6. ~ TestedFor(prog, i) /\ ~ OpenedFor(prog, i)
  BY <1>2, <1>3 DEF TestedFor, OpenedFor, OpenOps
<1>7. ASSUME Pio(prog) # CGP_COLLECTIVE
      PROVE  MayFail(prog, i) /\ \A c \in Comm : Script(prog, i, c) = <<>>
  <2>1. Pio(prog) = CGP_INDEPENDENT
    BY <1>4, <1>7 DEF Good, ParInv, Typed, Settings
  <2>2. MayFail(prog, i)
    BY <1>2, <2>1 DEF MayFail
  <2>3. \A c \in Comm : Script(prog, i, c) = <<>>
    BY <1>2, <1>3, <1>6, <1>7, NoScript
  <2> QED BY <2>2, <2>3
<1> QED BY <1>3, <1>4, <1>5, <1>6, <1>7

\* The collectives of a write.
LEMMA WriteScript ==
    ASSUME Good, NEW r \in Rank, pos[r] <= Len(prog.calls), Now(r).op \in WriteOps, ~ Gone(r),
           Pio(prog) = CGP_COLLECTIVE, NEW f, f = Now(r).file
    PROVE  /\ \A c \in Comm : c # f => Script(prog, pos[r], c) = <<>>
           /\ "elements" \notin Datasets(Now(r).op) => Script(prog, pos[r], f) = << <<"data", f>> >>
           /\ "elements" \in Datasets(Now(r).op) =>
                 Script(prog, pos[r], f) = Append(<< <<"data", f>> >>, <<"elements", f>>)
<1> DEFINE i == pos[r]
<1>1. prog \in Programs /\ i \in 1 .. Len(prog.calls) /\ Now(r) = prog.calls[i] /\ f = prog.calls[i].file
  BY CallIsOrderly
<1>2. ~ TestedFor(prog, i) /\ ~ OpenedFor(prog, i) /\ Now(r).op # "MPI_Barrier"
  BY AtWrite
<1>3. Script(prog, i, Lib) = <<>>
  BY <1>1, <1>2, LibScript
<1>4. Script(prog, i, World) = <<>> /\ \A c \in FileName : c # f => Script(prog, i, c) = <<>>
  BY <1>1, <1>2, OtherScripts
<1>5. \A c \in Comm : c # f => Script(prog, i, c) = <<>>
  BY <1>3, <1>4 DEF Comm
<1>6. /\ "elements" \notin Datasets(Now(r).op) => Script(prog, i, f) = << <<"data", f>> >>
      /\ "elements" \in Datasets(Now(r).op) =>
            Script(prog, i, f) = Append(<< <<"data", f>> >>, <<"elements", f>>)
  BY <1>1, FileScript
<1> QED BY <1>5, <1>6

\* A write that returns without a collective of its own.
LEMMA AloneFollows ==
    ASSUME Good, NEW r \in Rank, pos[r] <= Len(prog.calls), Now(r).op \in WriteOps, at[r] = "call",
           Pio(prog) # CGP_COLLECTIVE, NEW ok \in BOOLEAN, NEW desert \in BOOLEAN,
           Return(r, ok, desert), ctx' = ctx, handle' = handle, coll' = coll
    PROVE  Follows(r)'
<1>1. ~ Gone(r)
  BY DEF Gone
<1>2. ParInv /\ InScript(r) /\ Settled(r)
  BY <1>1, InCall
<1>3. /\ MayFail(prog, pos[r]) /\ \A c \in Comm : Script(prog, pos[r], c) = <<>>
      /\ ~ OpenedFor(prog, pos[r])
      /\ Now(r).op \notin {"cgp_open", "cgp_pio_mode", "cg_open", "cg_close"}
  BY <1>1, AtWrite DEF WriteOps
<1>4. ASSUME at'[r] = "call" PROVE Settled(r)'
  <2>1. ok \/ ~ prog.exits
    BY <1>2, <1>4, ReturnIs
  <2>2. prog' = prog /\ pos'[r] = pos[r] + 1
    BY <1>2, <2>1, ReturnIs
  <2> QED BY <1>2, <1>3, <1>4, <2>2, PlainSettled
<1> QED BY <1>2, <1>3, <1>4, QuietCallFollows

LEMMA WriteRefusedFollows ==
    ASSUME Good, NEW r \in Rank, WriteRefused(r), pos[r] <= Len(prog.calls), ~ deserted'
    PROVE  Follows(r)'
<1>1. /\ at[r] = "call" /\ ~ Gone(r) /\ Now(r).op \in WriteOps
      /\ ctx' = ctx /\ handle' = handle /\ coll' = coll
      /\ Return(r, FALSE, handle[r][Now(r).file] = PARALLEL /\ Collective(r))
  BY DEF WriteRefused, Calls, Gone, WriteOps
<1>2. ctx[r].pio = Pio(prog) /\ handle[r][Now(r).file] = PARALLEL
  BY <1>1, AtWrite
<1>3. ~ Collective(r)
  BY <1>1, <1>2 DEF Return
<1>4. Pio(prog) # CGP_COLLECTIVE
  BY <1>2, <1>3 DEF Collective
<1>5. (handle[r][Now(r).file] = PARALLEL /\ Collective(r)) \in BOOLEAN
  OBVIOUS
<1> QED BY <1>1, <1>4, <1>5, AloneFollows

LEMMA WriteAloneFollows ==
    ASSUME Good, NEW r \in Rank, WriteAlone(r), pos[r] <= Len(prog.calls)
    PROVE  Follows(r)'
<1>1. /\ at[r] = "call" /\ ~ Gone(r) /\ Now(r).op \in WriteOps /\ ~ Collective(r)
      /\ ctx' = ctx /\ handle' = handle /\ coll' = coll
      /\ \E ok \in BOOLEAN : Return(r, ok, FALSE)
  BY DEF WriteAlone, Calls, Gone, WriteOps
<1>2. Pio(prog) # CGP_COLLECTIVE
  BY <1>1, AtWrite DEF Collective
<1> QED BY <1>1, <1>2, AloneFollows

LEMMA TransferFollows ==
    ASSUME Good, NEW r \in Rank, Transfer(r), pos[r] <= Len(prog.calls)
    PROVE  Follows(r)'
<1> DEFINE i == pos[r]
<1>0. PICK f \in FileName : f = Now(r).file
  BY CallIsOrderly
<1>1. /\ at[r] = "call" /\ ~ Gone(r) /\ Now(r).op \in WriteOps /\ Collective(r)
      /\ ctx' = ctx /\ handle' = handle /\ Enter(r, f, <<"data", f>>, "data")
  BY <1>0 DEF Transfer, Calls, Gone, WriteOps
<1>2. ParInv /\ CollTyped /\ Settled(r) /\ \A c \in Comm : Entered(r, c) = <<>>
  BY <1>1, InCall
<1>3. Pio(prog) = CGP_COLLECTIVE /\ Now(r).op \notin OpenOps
  BY <1>1, AtWrite DEF Collective
<1>4. f \in Comm /\ <<"data", f>> \in Entries /\ f # Lib
  BY CommsDiffer DEF Comm, Entries
<1>5. prog' = prog /\ pos'[r] = i /\ at'[r] = "data"
  BY <1>1, <1>2, <1>4, EnterIs
<1>6. Now(r)' = Now(r)
  BY <1>5 DEF Now
<1>7. Entered(r, f)' = << <<"data", f>> >> /\ \A c \in Comm : c # f => Entered(r, c)' = <<>>
  BY <1>0, <1>5, <1>6 DEF Entered
<1>8. Entered(r, f)' = Append(Entered(r, f), <<"data", f>>)
  BY <1>2, <1>4, <1>7
<1>9. Settled(r)'
  BY <1>1, <1>2, <1>3, <1>5, StaysSettled
<1> QED BY <1>1, <1>2, <1>3, <1>4, <1>7, <1>8, <1>9, EntersFollows

LEMMA TransferredFollows ==
    ASSUME Good, NEW r \in Rank, Transferred(r), pos[r] <= Len(prog.calls), ~ deserted'
    PROVE  Follows(r)'
<1> DEFINE i == pos[r]
<1>0. PICK f \in FileName : f = Now(r).file
  BY CallIsOrderly
<1>1. at[r] = "data" /\ ~ Gone(r) /\ ctx' = ctx /\ handle' = handle
  BY DEF Transferred, Gone
<1>2. ParInv /\ CollTyped /\ InScript(r) /\ Settled(r)
  BY <1>1, InCall
<1>3. Now(r).op \in WriteOps /\ Pio(prog) = CGP_COLLECTIVE
  BY <1>1, <1>2 DEF InScript
<1>4. f \in Comm /\ <<"elements", f>> \in Entries /\ f # Lib
  BY CommsDiffer DEF Comm, Entries
<1>5. Entered(r, f) = << <<"data", f>> >> /\ \A c \in Comm : c # f => Entered(r, c) = <<>>
  BY <1>0, <1>1 DEF Entered
<1>6. \A c \in Comm : c # f => Script(prog, i, c) = <<>>
  BY <1>0, <1>1, <1>3, WriteScript
<1>7. CASE "elements" \notin Datasets(Now(r).op)
  <2>1. Return(r, TRUE, FALSE) /\ coll' = coll
    BY <1>7 DEF Transferred
  <2>2. Script(prog, i, f) = << <<"data", f>> >>
    BY <1>0, <1>1, <1>3, <1>7, WriteScript
  <2>3. \A c \in Comm : Entered(r, c) = Script(prog, i, c)
    BY <1>5, <1>6, <2>2
  <2>4. at'[r] = "call" /\ pos'[r] = i + 1 => Settled(r)'
    BY <1>1, <1>2, <1>3, <2>1, PlainSettled DEF Return, WriteOps
  <2> QED BY <1>1, <2>1, <2>3, <2>4, ReturnsFollows
<1>8. CASE "elements" \in Datasets(Now(r).op)
  <2>1. Offered(r) # "misfit"
    BY <1>8 DEF Transferred, Return
  <2>2. Enter(r, f, <<"elements", f>>, "elements")
    BY <1>0, <1>8, <2>1 DEF Transferred
  <2>3. prog' = prog /\ pos'[r] = i /\ at'[r] = "elements"
    BY <1>2, <1>4, <2>2, EnterIs
  <2>4. \A c \in Comm : Entered(r, c)' = Script(prog, i, c)
    BY <2>3 DEF Entered
  <2>5. Script(prog, i, f) = Append(<< <<"data", f>> >>, <<"elements", f>>)
    BY <1>0, <1>1, <1>3, <1>8, WriteScript
  <2>6. Entered(r, f)' = Append(Entered(r, f), <<"elements", f>>)
    BY <1>4, <1>5, <2>4, <2>5, Zenon
  <2>7. \A c \in Comm : c # f => Entered(r, c)' = Entered(r, c)
    BY <1>5, <1>6, <2>4
  <2>8. Settled(r)'
    BY <1>1, <1>2, <2>2, <2>3, StaysSettled DEF Enter
  <2> QED BY <1>1, <1>3, <1>4, <1>8, <2>2, <2>6, <2>7, <2>8, EntersFollows
<1> QED BY <1>7, <1>8

LEMMA ElementsTransferredFollows ==
    ASSUME Good, NEW r \in Rank, ElementsTransferred(r), pos[r] <= Len(prog.calls)
    PROVE  Follows(r)'
<1>1. /\ at[r] = "elements" /\ ~ Gone(r) /\ ctx' = ctx /\ handle' = handle /\ coll' = coll
      /\ Return(r, TRUE, FALSE)
  BY DEF ElementsTransferred, Gone
<1>2. InScript(r) /\ Settled(r)
  BY <1>1, InCall
<1>3. Now(r).op \in WriteOps
  BY <1>1, <1>2 DEF InScript
<1>4. \A c \in Comm : Entered(r, c) = Script(prog, pos[r], c)
  BY <1>1 DEF Entered
<1>5. at'[r] = "call" /\ pos'[r] = pos[r] + 1 => Settled(r)'
  BY <1>1, <1>2, <1>3, PlainSettled DEF Return, WriteOps
<1> QED BY <1>1, <1>4, <1>5, ReturnsFollows

LEMMA CloseFollows ==
    ASSUME Good, NEW r \in Rank, Close(r), pos[r] <= Len(prog.calls)
    PROVE  Follows(r)'
<1> DEFINE i == pos[r]
<1>0. PICK f \in FileName : f = Now(r).file
  BY CallIsOrderly
<1>1. at[r] = "call" /\ ~ Gone(r) /\ Now(r).op = "cg_close" /\ ctx' = ctx
  BY DEF Close, Calls, Gone
<1>2. ParInv /\ CollTyped /\ InScript(r) /\ Settled(r) /\ \A c \in Comm : Entered(r, c) = <<>>
  BY <1>1, InCall
<1>3. prog \in Programs /\ i \in 1 .. Len(prog.calls) /\ Now(r) = prog.calls[i]
      /\ f = prog.calls[i].file
  BY <1>0, CallIsOrderly
<1>4. handle[r][f] = PARALLEL <=> HeldAt(prog, i, f)
  BY <1>2 DEF Settled
<1>5. ~ TestedFor(prog, i) /\ ~ OpenedFor(prog, i)
  BY <1>1, <1>3 DEF TestedFor, OpenedFor
<1>6. CASE handle[r][f] = PARALLEL
  <2>1. Enter(r, f, <<"close", f>>, "close") /\ handle' = handle
    BY <1>0, <1>6 DEF Close
  <2>2. f \in Comm /\ <<"close", f>> \in Entries /\ f # Lib
    BY CommsDiffer DEF Comm, Entries
  <2>3. prog' = prog /\ pos'[r] = i /\ at'[r] = "close"
    BY <1>2, <2>1, <2>2, EnterIs
  <2>4. \A c \in Comm : Entered(r, c)' = Script(prog, i, c)
    BY <2>3 DEF Entered
  <2>5. Script(prog, i, f) = << <<"close", f>> >>
    BY <1>1, <1>3, <1>4, <1>6, FileScript
  <2>6. Script(prog, i, Lib) = <<>>
    BY <1>3, <1>5, LibScript
  <2>7. \A c \in Comm : c # f => Script(prog, i, c) = <<>>
    BY <1>1, <1>3, <2>6, OtherScripts DEF Comm
  <2>8. Entered(r, f)' = Append(Entered(r, f), <<"close", f>>)
    <3>1. Entered(r, f) = <<>> /\ Entered(r, f)' = << <<"close", f>> >>
      BY <1>2, <2>2, <2>4, <2>5
    <3>2. Append(<<>>, <<"close", f>>) = << <<"close", f>> >>
      OBVIOUS
    <3> QED BY <3>1, <3>2, Zenon
  <2>9. \A c \in Comm : c # f => Entered(r, c)' = Entered(r, c)
    BY <1>2, <2>4, <2>7
  <2>10. Settled(r)'
    BY <1>1, <1>2, <2>1, <2>3, StaysSettled DEF OpenOps
  <2> QED BY SMTT(60), <1>0, <1>1, <1>4, <1>6, <2>1, <2>2, <2>8, <2>9, <2>10, EntersFollows
<1>7. CASE handle[r][f] # PARALLEL
  <2>1. /\ handle' = [handle EXCEPT ![r][f] = NONE] /\ coll' = coll
        /\ Return(r, handle[r][f] # NONE, FALSE)
    BY <1>0, <1>7 DEF Close
  <2>2. \A g \in FileName : handle'[r][g] = PARALLEL <=> handle[r][g] = PARALLEL
    <3>1. \A g \in FileName : handle'[r][g] = IF g = f THEN NONE ELSE handle[r][g]
      BY <1>2, <2>1 DEF ParInv, Typed
    <3> QED BY <1>7, <3>1 DEF NONE, PARALLEL
  <2>3. \A c \in Comm : Script(prog, i, c) = <<>>
    BY <1>1, <1>3, <1>4, <1>5, <1>7, NoScript DEF WriteOps
  <2>4. MayFail(prog, i)
    BY <1>1, <1>3, <1>4, <1>7 DEF MayFail
  <2>5. ASSUME at'[r] = "call" PROVE Settled(r)'
    <3>1. (handle[r][f] # NONE) \in BOOLEAN
      OBVIOUS
    <3>2. (handle[r][f] # NONE) \/ ~ prog.exits
      BY <1>2, <2>1, <2>5, <3>1, ReturnIs
    <3>3. prog' = prog /\ pos'[r] = i + 1
      BY <1>2, <2>1, <3>1, <3>2, ReturnIs
    <3> QED BY <1>0, <1>1, <1>2, <1>4, <1>7, <2>2, <2>5, <3>3, PlainSettled
  <2>6. (handle[r][f] # NONE) \in BOOLEAN
    OBVIOUS
  <2> QED BY <1>1, <1>2, <1>5, <2>1, <2>2, <2>3, <2>4, <2>5, <2>6, QuietCallFollows
<1> QED BY <1>6, <1>7

LEMMA ClosedFollows ==
    ASSUME Good, NEW r \in Rank, Closed(r), pos[r] <= Len(prog.calls)
    PROVE  Follows(r)'
<1> DEFINE i == pos[r]
<1>0. PICK f \in FileName : f = Now(r).file
  BY CallIsOrderly
<1>1. /\ at[r] = "close" /\ ~ Gone(r) /\ ctx' = ctx /\ coll' = coll /\ Return(r, TRUE, FALSE)
      /\ handle' = [handle EXCEPT ![r][f] = NONE]
  BY <1>0 DEF Closed, Gone
<1>2. ParInv /\ InScript(r) /\ Settled(r)
  BY <1>1, InCall
<1>3. \/ Now(r).op = "cg_is_cgns"
      \/ Now(r).op = "cg_close" /\ HeldAt(prog, i, f)
  BY <1>0, <1>1, <1>2 DEF InScript
<1>4. \A c \in Comm : Entered(r, c) = Script(prog, i, c)
  BY <1>1 DEF Entered
<1>5. \A g \in FileName : handle'[r][g] = PARALLEL <=> (handle[r][g] = PARALLEL /\ g # f)
  <2>1. \A g \in FileName : handle'[r][g] = IF g = f THEN NONE ELSE handle[r][g]
    BY <1>1, <1>2 DEF ParInv, Typed
  <2> QED BY <2>1 DEF NONE, PARALLEL
<1>6. at'[r] = "call" /\ pos'[r] = i + 1 => Settled(r)'
  <2>1. CASE Now(r).op = "cg_is_cgns"
    <3>1. handle[r][f] # PARALLEL
      <4>1. ~ HeldAt(prog, i, f)
        BY <1>0, <2>1, CallIsOrderly
      <4> QED BY <1>2, <4>1 DEF Settled
    <3>2. \A g \in FileName : handle'[r][g] = PARALLEL <=> handle[r][g] = PARALLEL
      BY <1>5, <3>1
    <3> QED BY <1>1, <1>2, <2>1, <3>2, PlainSettled DEF Return
  <2>2. CASE Now(r).op = "cg_close" /\ HeldAt(prog, i, f)
    BY <1>0, <1>1, <1>2, <1>5, <2>2, ClosedSettled DEF Return
  <2> QED BY <1>3, <2>1, <2>2
<1> QED BY <1>1, <1>4, <1>6, ReturnsFollows

\* cgp_error_exit enters the close of a file that is still open.
LEMMA ErrorExitFollows ==
    ASSUME Good, NEW r \in Rank, ErrorExit(r), pos[r] <= Len(prog.calls)
    PROVE  Follows(r)'
<1>0. ParInv /\ CollTyped /\ Follows(r)
  BY DEF Good, Follow
<1>1. at[r] = "exit" /\ Gone(r) /\ ctx' = ctx /\ handle' = handle
  BY DEF ErrorExit, Gone
<1>2. Leaves(r)
  BY <1>0, <1>1 DEF Follows
<1>3. CASE InParallel(r) = {}
  <2>1. at' = at /\ coll' = coll /\ pos' = pos /\ prog' = prog
    BY <1>3 DEF ErrorExit
  <2> QED BY <1>0, <1>1, <2>1, SameRank
<1>4. CASE InParallel(r) # {}
  <2>1. PICK f \in FileName : f = NextToClose(r) /\ handle[r][f] = PARALLEL
    BY <1>4 DEF NextToClose, InParallel
  <2>2. Enter(r, f, <<"close", f>>, "cleanup")
    BY <1>4, <2>1 DEF ErrorExit
  <2>3. f \in Comm /\ f # Lib /\ f # World /\ \A g \in FileName : g \in Comm
    BY CommsDiffer
  <2>4. /\ prog' = prog /\ pos'[r] = pos[r] /\ at'[r] = "cleanup"
        /\ coll'[r][f] = Append(coll[r][f], <<"close", f>>)
        /\ \A c \in Comm : c # f => coll'[r][c] = coll[r][c]
    BY <1>0, <2>2, <2>3, EnterIs
  <2>5. NextToClose(r)' = f
    BY <1>1, <2>1 DEF NextToClose, InParallel
  <2>6. \A c \in Comm : Before(r, c)' = Before(r, c)
    BY <2>4 DEF Before
  <2>7. coll[r][f] = Before(r, f) /\ HeldAt(prog, pos[r], f)
    BY <1>1, <1>2, <2>1 DEF Leaves
  <2>8. \A g \in FileName : g # f =>
           \/ coll[r][g] = Before(r, g)
           \/ /\ coll[r][g] = Append(Before(r, g), <<"close", g>>)
              /\ HeldAt(prog, pos[r], g) /\ handle[r][g] # PARALLEL
    BY <1>1, <1>2 DEF Leaves
  <2>9. ASSUME NEW g \in FileName
        PROVE  \/ coll'[r][g] = Before(r, g)'
               \/ /\ coll'[r][g] = Append(Before(r, g)', <<"close", g>>)
                  /\ HeldAt(prog', pos'[r], g)
                  /\ handle'[r][g] = PARALLEL => at'[r] = "cleanup" /\ NextToClose(r)' = g
    <3>1. CASE g = f
      BY <2>3, <2>4, <2>5, <2>6, <2>7, <3>1
    <3>2. CASE g # f
      BY <1>1, <2>3, <2>4, <2>6, <2>8, <3>2
    <3> QED BY <3>1, <3>2
  <2>10. /\ coll'[r][Lib] \in {Before(r, Lib)', History(prog')[pos'[r] + 1][Lib]}
         /\ coll'[r][World] = Before(r, World)'
    <3>1. Lib \in Comm /\ Lib # f /\ World \in Comm /\ World # f
      BY <2>3 DEF Comm
    <3>2. coll'[r][Lib] = coll[r][Lib] /\ coll'[r][World] = coll[r][World]
      BY <2>4, <3>1
    <3>3. /\ coll[r][Lib] \in {Before(r, Lib), History(prog)[pos[r] + 1][Lib]}
          /\ coll[r][World] = Before(r, World)
      BY <1>2 DEF Leaves
    <3>4. History(prog')[pos'[r] + 1][Lib] = History(prog)[pos[r] + 1][Lib]
      BY <2>4
    <3> QED BY <2>6, <3>1, <3>2, <3>3, <3>4
  <2>11. /\ prog'.exits /\ MayFail(prog', pos'[r]) /\ ~ OpenedFor(prog', pos'[r])
         /\ \A g \in FileName : handle'[r][g] = PARALLEL => HeldAt(prog', pos'[r], g)
    BY <1>1, <1>2, <2>4 DEF Leaves
  <2>12. Leaves(r)'
    BY <2>9, <2>10, <2>11, Zenon DEF Leaves
  <2> QED BY <2>4, <2>12 DEF Follows, Gone
<1> QED BY <1>3, <1>4

LEMMA CleanedUpFollows ==
    ASSUME Good, NEW r \in Rank, CleanedUp(r), pos[r] <= Len(prog.calls)
    PROVE  Follows(r)'
<1>0. ParInv /\ Follows(r)
  BY DEF Good, Follow
<1>1. /\ at[r] = "cleanup" /\ Gone(r) /\ at'[r] = "exit" /\ prog' = prog /\ pos' = pos /\ coll' = coll
      /\ handle' = [handle EXCEPT ![r][NextToClose(r)] = NONE]
  BY <1>0 DEF CleanedUp, Gone, ParInv, Typed
<1>2. Leaves(r)
  BY <1>0, <1>1 DEF Follows
<1>3. \A c \in Comm : Before(r, c)' = Before(r, c)
  BY <1>1 DEF Before
<1>4. \A g \in FileName : handle'[r][g] = PARALLEL => handle[r][g] = PARALLEL /\ g # NextToClose(r)
  BY <1>0, <1>1 DEF ParInv, Typed, NONE, PARALLEL
<1>5. ASSUME NEW g \in FileName
      PROVE  \/ coll'[r][g] = Before(r, g)'
             \/ /\ coll'[r][g] = Append(Before(r, g)', <<"close", g>>)
                /\ HeldAt(prog', pos'[r], g)
                /\ handle'[r][g] = PARALLEL => at'[r] = "cleanup" /\ NextToClose(r)' = g
  <2>1. g \in Comm
    BY DEF Comm
  <2>2. \/ coll[r][g] = Before(r, g)
        \/ /\ coll[r][g] = Append(Before(r, g), <<"close", g>>)
           /\ HeldAt(prog, pos[r], g) /\ (handle[r][g] = PARALLEL => NextToClose(r) = g)
    BY <1>2 DEF Leaves
  <2> QED BY <1>1, <1>3, <1>4, <2>1, <2>2
<1>6. /\ prog'.exits /\ MayFail(prog', pos'[r]) /\ ~ OpenedFor(prog', pos'[r])
      /\ \A g \in FileName : handle'[r][g] = PARALLEL => HeldAt(prog', pos'[r], g)
  BY <1>1, <1>2, <1>4 DEF Leaves
<1>7. /\ coll'[r][Lib] \in {Before(r, Lib)', History(prog')[pos'[r] + 1][Lib]}
      /\ coll'[r][World] = Before(r, World)'
  <2>1. /\ coll[r][Lib] \in {Before(r, Lib), History(prog)[pos[r] + 1][Lib]}
        /\ coll[r][World] = Before(r, World)
    BY <1>2 DEF Leaves
  <2>2. History(prog')[pos'[r] + 1][Lib] = History(prog)[pos[r] + 1][Lib]
    BY <1>1
  <2>3. Lib \in Comm /\ World \in Comm
    BY DEF Comm
  <2> QED BY <1>1, <1>3, <2>1, <2>2, <2>3
<1>8. Leaves(r)'
  BY <1>5, <1>6, <1>7, Zenon DEF Leaves
<1> QED BY <1>1, <1>8 DEF Follows, Gone

----------------------------------------------------------------------------
(* All ranks                                                               *)

LEMMA StepFollows ==
    ASSUME Good, NEW r \in Rank, Step(r), ~ deserted'
    PROVE  Follows(r)'
<1>1. pos[r] <= Len(prog.calls)
  BY StepsAreInCalls DEF Good
<1>2. CASE Skip(r) \/ PioMode(r) \/ Barrier(r) \/ LeaveBarrier(r)
  BY <1>1, <1>2, SkipFollows, PioModeFollows, BarrierFollows, LeaveBarrierFollows
<1>3. CASE \/ OpenSerialWrite(r) \/ MakeFile(r) \/ OpenUnchecked(r) \/ CheckFile(r)
           \/ AwaitCheck(r) \/ Checked(r)
  BY <1>1, <1>3, OpenSerialWriteFollows, MakeFileFollows, OpenUncheckedFollows, CheckFileFollows,
     AwaitCheckFollows, CheckedFollows
<1>4. CASE ParallelOpen(r) \/ Opened(r)
  BY <1>1, <1>4, ParallelOpenFollows, OpenedFollows
<1>5. CASE WriteRefused(r) \/ Transfer(r) \/ Transferred(r) \/ ElementsTransferred(r) \/ WriteAlone(r)
  BY <1>1, <1>5, WriteRefusedFollows, TransferFollows, TransferredFollows,
     ElementsTransferredFollows, WriteAloneFollows
<1>6. CASE Close(r) \/ Closed(r) \/ ErrorExit(r) \/ CleanedUp(r)
  BY <1>1, <1>6, CloseFollows, ClosedFollows, ErrorExitFollows, CleanedUpFollows
<1> QED BY <1>2, <1>3, <1>4, <1>5, <1>6 DEF Step


\* A rank goes past a barrier only when all ranks have come to it, and past the opening
\* of a file only when all have joined it.
LEMMA StepTraces ==
    ASSUME Good, NEW r \in Rank, Step(r), ~ deserted'
    PROVE  Traces(r)'
<1>0. ParInv /\ Booked /\ CollTyped /\ pos[r] <= Len(prog.calls) /\ pos \in [Rank -> Nat \ {0}]
      /\ at \in [Rank -> Places]
  BY StepsAreInCalls DEF Good, ParInv, Typed
<1>1. ~ Gone(r) => InScript(r)
  BY InCall
<1>2. /\ Now(r) = prog.calls[pos[r]]
      /\ Now(r).op \in {"cgp_open", "MPI_Barrier"} => Now(r).who = Rank
      /\ Now(r).op = "cg_is_cgns" => Now(r).mode = "r"
  BY <1>0, CallIsOrderly
<1>3. \A c, what, where : Enter(r, c, what, where) => pos'[r] = pos[r] /\ at'[r] = where
  BY <1>0 DEF Enter
<1>4. Now(r).op \notin {"cgp_open", "cg_is_cgns"} => ~ OpenedFor(prog, pos[r])
  BY <1>2 DEF OpenedFor
<1>5. ASSUME pos'[r] = pos[r], at'[r] # "close" PROVE Traces(r)'
  BY <1>0, <1>5, TracesStay
<1>6. ASSUME Now(r).op # "MPI_Barrier", ~ OpenedFor(prog, pos[r]) PROVE Traces(r)'
  BY <1>0, <1>6, TracesStay
<1>7. ASSUME NEW c, NEW what, NEW where, Enter(r, c, what, where), where # "close" PROVE Traces(r)'
  BY <1>3, <1>5, <1>7
<1>8. CASE Skip(r)
  <2>1. r \notin Now(r).who
    BY <1>8 DEF Skip
  <2>2. ~ OpenedFor(prog, pos[r])
    <3> SUFFICES ASSUME OpenedFor(prog, pos[r]) PROVE FALSE
      OBVIOUS
    <3>1. Now(r).op = "cg_is_cgns" /\ Now(r).mode = "r" /\ ParallelAt(prog, pos[r])
      BY <1>2, <2>1 DEF OpenedFor
    <3>2. KnownAt(prog, pos[r])
      BY <3>1, HeldIsKnown
    <3> QED BY <1>0, <2>1, <3>1, <3>2, ProbeIsEven
  <2> QED BY <1>2, <1>6, <2>1, <2>2
<1>9. CASE LeaveBarrier(r)
  <2>1. at[r] = "barrier" /\ ~ Gone(r) /\ Complete(r, World)
    BY <1>9 DEF LeaveBarrier, Gone
  <2>2. InScript(r) /\ Now(r).op = "MPI_Barrier"
    BY <1>1, <2>1 DEF InScript
  <2>3. ~ OpenedFor(prog, pos[r])
    BY <1>4, <2>2
  <2>4. \A s \in Rank : pos[r] <= pos[s]
    BY <1>0, <2>1, <2>2, BarrierIsMet
  <2> QED BY <1>0, <2>3, <2>4, TracesStay
<1>10. CASE Barrier(r) \/ AwaitCheck(r) \/ Transfer(r)
  BY <1>7, <1>10 DEF Barrier, AwaitCheck, Transfer
<1>11. CASE CheckFile(r)
  <2>1. CASE OpenedFor(prog, pos[r])
    <3>1. /\ at[r] = "call" /\ Now(r).op = "cg_is_cgns" /\ Now(r).mode = "r"
      BY <1>2, <1>11, <2>1 DEF CheckFile, Probes, Calls, OpenedFor
    <3>2. ctx[r].init
      BY <1>0, <2>1, <3>1, ProbeSettings
    <3>3. ~ Return(r, FALSE, TRUE)
      BY DEF Return
    <3>4. Enter(r, Lib, <<"bcast", Now(r).file>>, "checked")
      BY <1>11, <3>2, <3>3 DEF CheckFile
    <3> QED BY <1>7, <3>4
  <2>2. CASE ~ OpenedFor(prog, pos[r])
    <3>1. Now(r).op # "MPI_Barrier"
      BY <1>11 DEF CheckFile, Probes, Calls
    <3> QED BY <1>6, <2>2, <3>1
  <2> QED BY <2>1, <2>2
<1>12. CASE Checked(r)
  <2>1. at[r] = "checked" /\ FinishOpen(r, ctx[r].mode)
    BY <1>12 DEF Checked
  <2>2. /\ Now(r).op \in {"cg_open", "cg_is_cgns"}
        /\ ctx[r].mode = PARALLEL <=> OpenedFor(prog, pos[r])
    BY <1>0, <2>1, CheckedMode
  <2>3. CASE OpenedFor(prog, pos[r])
    <3>1. Now(r).file \in present /\ ~ InTheMaking(Now(r).file)
      BY <1>0, <1>12, <2>3, CheckedIsThere
    <3>2. Enter(r, Lib, <<"open", Now(r).file>>, "open")
      BY <2>1, <2>2, <2>3, <3>1 DEF FinishOpen
    <3> QED BY <1>7, <3>2
  <2>4. CASE ~ OpenedFor(prog, pos[r])
    BY <1>6, <2>2, <2>4
  <2> QED BY <2>3, <2>4
<1>13. CASE ParallelOpen(r)
  <2>1. Enter(r, Lib, <<"open", Now(r).file>>, "open")
    <3>1. CASE Now(r).mode = "w"
      BY <1>13, <3>1 DEF ParallelOpen
    <3>2. CASE Now(r).mode # "w"
      <4>1. Now(r).file \in present /\ ~ InTheMaking(Now(r).file)
        BY <1>0, <1>13, <3>2, OpenedIsThere DEF ParallelOpen, Calls
      <4> QED BY <1>13, <3>2, <4>1 DEF ParallelOpen, FinishOpen
    <3> QED BY <3>1, <3>2
  <2> QED BY <1>7, <2>1
<1>14. CASE Opened(r)
  <2>1. at[r] = "open" /\ Complete(r, Lib) /\ Now(r).op \in {"cgp_open", "cg_is_cgns"}
    BY <1>0, <1>14 DEF Opened, ParInv, Waits
  <2>2. \A s \in Rank : Joined(s, pos[r])
    BY <1>0, <2>1, OpenIsMet
  <2> QED BY <1>0, <2>1, <2>2, TracesStay
<1>15. CASE Closed(r)
  <2>1. at[r] = "close" /\ ~ Gone(r)
    BY <1>15 DEF Closed, Gone
  <2>2. Now(r).op # "MPI_Barrier"
    BY <1>1, <2>1 DEF InScript
  <2> QED BY <1>0, <2>1, <2>2, TracesStay
<1>16. CASE MakeFile(r)
  <2>1. Now(r).op = "cg_open"
    BY <1>0, <1>16 DEF MakeFile, ParInv, Waits
  <2> QED BY <1>4, <1>6, <2>1
<1>17. CASE Transferred(r) \/ ElementsTransferred(r)
  <2>1. at[r] \in {"data", "elements"} /\ ~ Gone(r)
    BY <1>17 DEF Transferred, ElementsTransferred, Gone
  <2>2. Now(r).op \in WriteOps
    BY <1>1, <2>1 DEF InScript
  <2> QED BY <1>4, <1>6, <2>2 DEF WriteOps
<1>18. CASE \/ PioMode(r) \/ OpenSerialWrite(r) \/ OpenUnchecked(r) \/ WriteRefused(r)
            \/ WriteAlone(r) \/ Close(r)
  <2>1. Now(r).op \in WriteOps \cup {"cgp_pio_mode", "cg_open", "cg_close"}
    BY <1>18 DEF PioMode, OpenSerialWrite, OpenUnchecked, WriteRefused, WriteAlone, Close, Calls
  <2> QED BY <1>4, <1>6, <2>1 DEF WriteOps
<1>19. CASE ErrorExit(r) \/ CleanedUp(r)
  <2>1. pos' = pos /\ at'[r] # "close"
    BY <1>0, <1>3, <1>19 DEF ErrorExit, CleanedUp, Enter
  <2> QED BY <1>5, <2>1
<1> QED BY <1>8, <1>9, <1>10, <1>11, <1>12, <1>13, <1>14, <1>15, <1>16, <1>17, <1>18, <1>19 DEF Step

\* Rank 0 sends the result of a test only of a file that it has found, and what it finds
\* the program has made before: no rank is past the test.
LEMMA StepBroadcasts ==
    ASSUME Good, NEW r \in Rank, Step(r), ~ deserted'
    PROVE  Broadcast'
<1>0. ParInv /\ Booked /\ Broadcast /\ prog' = prog /\ Root \in Rank
  BY RankAssumption, StepGoesOn DEF Good, Follow
<1>1. ASSUME NEW j \in 1 .. Len(prog.calls), TestedFor(prog, j), OpenedFor(prog, j),
             Reached(Root, j)', ~ Reached(Root, j)
      PROVE  ThereAt(prog, j, prog.calls[j].file)
  <2> DEFINE f == prog.calls[j].file
  <2>1. j \in Nat /\ Root = r /\ j = pos[r] /\ at[r] = "call" /\ pos[r] <= Len(prog.calls)
    <3>1. j \in Nat
      OBVIOUS
    <3>2. Root = r /\ j = pos[r] /\ at[r] = "call"
      BY <1>0, <1>1, <3>1, ComesInto
    <3> QED BY <3>1, <3>2
  <2>2. Now(r) = prog.calls[j] /\ Now(r).op = "cg_is_cgns" /\ KnownAt(prog, j)
    BY <1>1, <2>1 DEF TestedFor, OpenedFor, Now
  <2>3. Now(r).mode = "r" /\ f \in FileName
    BY <2>1, <2>2, CallIsOrderly
  <2>4. Now(r).who = Rank /\ ctx[r].init
    BY <1>1, <2>1, <2>2, <2>3, ProbeIsEven, ProbeSettings
  <2>5. CheckFile(r)
    BY <2>1, <2>2, <2>4 DEF Step, Skip, PioMode, Barrier, LeaveBarrier, OpenSerialWrite,
       MakeFile, OpenUnchecked, AwaitCheck, Checked, ParallelOpen, Opened,
       WriteRefused, Transfer, Transferred, ElementsTransferred, WriteAlone, Close,
       Closed, ErrorExit, CleanedUp, Calls, WriteOps
  <2>6. f \in present
    <3>1. ~ Return(r, FALSE, TRUE)
      BY DEF Return
    <3> QED BY <2>2, <2>4, <2>5, <3>1 DEF CheckFile
  <2>7. Begun(f)
    BY <2>3, <2>6 DEF Good, Follow, FileKept
  <2>8. CASE f \in Existing
    BY <2>8 DEF ThereAt
  <2>9. CASE f \notin Existing
    <3>1. PICK t \in Rank, m \in 1 .. Len(prog.calls) : Makes(prog, m, f) /\ Reached(t, m)
      BY <2>7, <2>9 DEF Begun
    <3>2. pos[t] \in Nat /\ Traces(t) /\ m \in Nat
      BY <1>0 DEF Good, Follow, ParInv, Typed
    <3>3. ~ Joined(Root, j)
      BY <1>0, <2>1, <3>2 DEF Joined
    <3>4. ~ (j < pos[t])
      BY <1>0, <1>1, <3>2, <3>3 DEF Traces
    <3>5. m <= pos[t]
      BY <3>1, <3>2 DEF Reached
    <3>6. m # j
      BY <2>2, <3>1 DEF Makes, OpenOps
    <3>7. m \in 1 .. j - 1
      BY <2>1, <3>2, <3>4, <3>5, <3>6
    <3> QED BY <3>1, <3>7 DEF ThereAt
  <2> QED BY <2>8, <2>9
<1>2. ASSUME NEW j \in 1 .. Len(prog.calls), TestedFor(prog, j), OpenedFor(prog, j),
             Reached(Root, j)'
      PROVE  ThereAt(prog, j, prog.calls[j].file)
  BY <1>0, <1>1, <1>2 DEF Broadcast
<1> QED BY <1>0, <1>2 DEF Broadcast

\* A file is away only while a rank makes it.
LEMMA StepKeepsFiles ==
    ASSUME Good, NEW r \in Rank, Step(r), ~ deserted', NEW f \in FileName
    PROVE  FileKept(f)'
<1>0. /\ ParInv /\ Booked /\ prog' = prog /\ pos[r] <= Len(prog.calls) /\ FileKept(f)
      /\ pos \in [Rank -> Nat \ {0}] /\ at \in [Rank -> Places] /\ Waits(r)
  BY StepsAreInCalls, StepGoesOn DEF Good, Follow, ParInv, Typed
<1>1. PICK i \in Nat : i = pos[r]
  BY <1>0
<1>2. Begun(f) => Begun(f)'
  BY BegunGrows
<1>3. ASSUME f \in present' <=> f \in present,
             at[r] = "call" => ~ Making(r, f), at[r] = "unlinked" => Now(r).file # f,
             at[r] = "open" => ~ (Making(r, f) /\ Now(r).op = "cgp_open")
      PROVE  FileKept(f)'
  <2>1. ~ UnmadeBy(r, f)
    BY <1>0, <1>3 DEF UnmadeBy, Making, Waits, OpenOps
  <2> QED BY <1>3, <2>1, BesideKept
<1>4. CASE OpenSerialWrite(r)
  <2>1. /\ at[r] = "call" /\ Now(r).op = "cg_open" /\ at'[r] = "unlinked" /\ pos' = pos
        /\ present' = present \ {Now(r).file}
    BY <1>0, <1>4 DEF OpenSerialWrite, Calls
  <2>2. CASE f = Now(r).file
    <3>1. f \notin present'
      BY <2>1, <2>2
    <3>2. Now(r)' = Now(r)
      BY <1>0, <2>1 DEF Now
    <3>3. UnmadeBy(r, f)'
      BY <2>1, <2>2, <3>2 DEF UnmadeBy
    <3> QED BY <3>1, <3>3 DEF FileKept
  <2>3. CASE f # Now(r).file
    <3>1. f \in present' <=> f \in present
      BY <2>1, <2>3
    <3> QED BY <1>3, <2>1, <2>3, <3>1 DEF Making
  <2> QED BY <2>2, <2>3
<1>5. CASE MakeFile(r)
  <2>1. at[r] = "unlinked"
    BY <1>5 DEF MakeFile
  <2>2. CASE f = Now(r).file
    <3>1. f \in present'
      BY <1>5, <2>2 DEF MakeFile
    <3>2. Begun(f)
      <4>1. Makes(prog, i, f) /\ r \in prog.calls[i].who
        BY <1>0, <1>1, <2>1, <2>2 DEF Waits, Makes, Now, OpenOps
      <4>2. Reached(r, i) /\ i \in 1 .. Len(prog.calls)
        BY <1>0, <1>1, <2>1, CallIsOrderly DEF Reached
      <4> QED BY <4>1, <4>2 DEF Begun
    <3> QED BY <1>2, <3>1, <3>2 DEF FileKept
  <2>3. CASE f # Now(r).file
    <3>1. f \in present' <=> f \in present
      BY <1>5, <2>3 DEF MakeFile
    <3> QED BY <1>3, <2>1, <2>3, <3>1
  <2> QED BY <2>2, <2>3
<1>6. CASE ParallelOpen(r)
  <2>1. at[r] = "call" /\ Now(r).op = "cgp_open" /\ r \in Now(r).who
    BY <1>6 DEF ParallelOpen, Calls
  <2>2. CASE Now(r).mode = "w" /\ f = Now(r).file
    <3>1. Enter(r, Lib, <<"open", f>>, "open")
          /\ present' = IF Complete(r, Lib)' THEN present \cup {f} ELSE present \ {f}
      BY <1>6, <2>2 DEF ParallelOpen
    <3>2. pos' = pos /\ at'[r] = "open" /\ Now(r)' = Now(r)
      BY <1>0, <3>1 DEF Enter, Now
    <3>3. CASE Complete(r, Lib)'
      <4>1. Begun(f)'
        <5>1. Making(r, f) /\ Reached(r, i)'
          BY <1>1, <2>1, <2>2, <3>2 DEF Making, OpenOps, Reached
        <5> QED BY <1>0, <1>1, <5>1, MakingBegins
      <4>2. f \in present'
        BY <3>1, <3>3
      <4> QED BY <4>1, <4>2 DEF FileKept
    <3>4. CASE ~ Complete(r, Lib)'
      <4>1. f \notin present'
        BY <3>1, <3>4
      <4>2. Follows(r)'
        BY StepFollows
      <4>3. \E q \in Rank : ~ Reached(q, pos[r])'
        BY <1>0, <2>1, <3>2, <3>4, <4>2, LastIsComplete
      <4>4. UnmadeBy(r, f)'
        BY <2>1, <2>2, <3>2, <4>3 DEF UnmadeBy
      <4> QED BY <4>1, <4>4 DEF FileKept
    <3> QED BY <3>3, <3>4
  <2>3. CASE ~ (Now(r).mode = "w" /\ f = Now(r).file)
    <3>1. f \in present' <=> f \in present
      BY <1>6, <2>3 DEF ParallelOpen
    <3> QED BY <1>3, <2>1, <2>3, <3>1 DEF Making
  <2> QED BY <2>2, <2>3
<1>7. CASE Opened(r)
  <2>1. at[r] = "open" /\ Complete(r, Lib) /\ present' = present
    BY <1>7 DEF Opened
  <2>2. \A s \in Rank : Joined(s, pos[r])
    BY <1>0, <2>1, OpenIsMet
  <2>3. ~ UnmadeBy(r, f)
    BY <2>1, <2>2 DEF UnmadeBy, Joined, Reached
  <2> QED BY <2>1, <2>3, BesideKept
<1>8. CASE \/ Skip(r) \/ PioMode(r) \/ Barrier(r) \/ OpenUnchecked(r) \/ CheckFile(r)
           \/ AwaitCheck(r) \/ WriteRefused(r) \/ Transfer(r) \/ WriteAlone(r) \/ Close(r)
  <2>1. /\ present' = present /\ at[r] = "call"
        /\ \/ r \notin Now(r).who
           \/ Now(r).op \in WriteOps \cup {"cgp_pio_mode", "MPI_Barrier", "cg_is_cgns", "cg_close"}
           \/ Now(r).mode = "r"
    BY <1>8 DEF Skip, PioMode, Barrier, OpenUnchecked, CheckFile, AwaitCheck, WriteRefused,
       Transfer, WriteAlone, Close, Probes, Calls
  <2>2. ~ Making(r, f)
    BY <2>1 DEF Making, OpenOps, WriteOps
  <2> QED BY <1>3, <2>1, <2>2
<1>9. CASE \/ LeaveBarrier(r) \/ Checked(r) \/ Transferred(r) \/ ElementsTransferred(r)
           \/ Closed(r) \/ ErrorExit(r) \/ CleanedUp(r)
  <2>1. present' = present /\ at[r] \notin {"call", "unlinked", "open"}
    BY <1>9 DEF LeaveBarrier, Checked, Transferred, ElementsTransferred, Closed, ErrorExit, CleanedUp
  <2> QED BY <1>3, <2>1
<1> QED BY <1>4, <1>5, <1>6, <1>7, <1>8, <1>9 DEF Step

LEMMA NextKeepsAgree ==
    ParInv /\ Booked /\ CollTyped /\ AgreeInv /\ [Next]_vars => CollTyped' /\ AgreeInv'
<1> SUFFICES ASSUME ParInv, Booked, CollTyped, AgreeInv, [Next]_vars PROVE CollTyped' /\ AgreeInv'
  OBVIOUS
<1>1. CASE UNCHANGED vars
  <2>1. /\ prog' = prog /\ pos' = pos /\ at' = at /\ handle' = handle /\ ctx' = ctx /\ coll' = coll
        /\ present' = present /\ deserted' = deserted
    BY <1>1 DEF vars
  <2>2. \A s \in Rank : Follows(s) => Follows(s)'
    BY <2>1, SameRank
  <2>3. \A s \in Rank : Traces(s) => Traces(s)'
    BY <2>1 DEF Traces, Joined
  <2>4. Broadcast => Broadcast'
    BY <2>1 DEF Broadcast, Reached
  <2>5. CollTyped' /\ (UnevenProbe' <=> UnevenProbe)
    BY <2>1 DEF CollTyped, UnevenProbe
  <2>7. \A f \in FileName : FileKept(f) => FileKept(f)'
    <3>2. \A f \in FileName : Begun(f)' <=> Begun(f)
      BY <2>1 DEF Begun, Reached
    <3>3. \A t \in Rank, f \in FileName : UnmadeBy(t, f)' <=> UnmadeBy(t, f)
      BY <2>1 DEF UnmadeBy, Now, Reached
    <3> QED BY <2>1, <3>2, <3>3 DEF FileKept
  <2>6. Follow => Follow'
    BY <2>2, <2>3, <2>4, <2>7 DEF Follow
  <2> QED BY <2>1, <2>5, <2>6, Zenon DEF AgreeInv
<1>2. CASE Next
  <2>1. PICK r \in Rank : Step(r)
    BY <1>2 DEF Next
  <2>2. CollTyped'
    BY <2>1, StepAdds, Grown
  <2>3. prog' = prog /\ (deserted => deserted')
    BY <2>1, StepGoesOn
  <2>4. ASSUME Orderly(prog'), ~ UnevenProbe', ~ deserted'
        PROVE  Follow'
    <3>1. Orderly(prog) /\ ~ UnevenProbe /\ ~ deserted
      BY <2>3, <2>4 DEF UnevenProbe
    <3>2. Good
      BY <3>1 DEF Good, AgreeInv
    <3>3. Follows(r)' /\ Traces(r)' /\ Broadcast' /\ \A f \in FileName : FileKept(f)'
      BY <2>1, <2>4, <3>2, StepFollows, StepTraces, StepBroadcasts, StepKeepsFiles
    <3>4. \A s \in Rank : s # r => Follows(s)' /\ Traces(s)'
      BY <2>1, <3>2, OthersFollow DEF Good, Follow
    <3> QED BY <3>3, <3>4 DEF Follow
  <2> QED BY <2>2, <2>4 DEF AgreeInv
<1> QED BY <1>1, <1>2

LEMMA InitAgree == Init => CollTyped /\ AgreeInv
<1> SUFFICES ASSUME Init PROVE CollTyped /\ AgreeInv
  OBVIOUS
<1>1. CollTyped
  BY DEF Init, CollTyped
<1>2. /\ prog \in Programs /\ \A r \in Rank : pos[r] = 1 /\ at[r] = "call" /\ ctx[r] = Settings0
      /\ \A r \in Rank : \A f \in FileName : handle[r][f] = NONE
      /\ \A r \in Rank : \A c \in Comm : coll[r][c] = <<>>
  BY DEF Init
<1>3. ASSUME NEW r \in Rank PROVE InScript(r)
  <2>1. \A c \in Comm : Before(r, c) = <<>> /\ Entered(r, c) = <<>>
    BY <1>2, HistoryStep DEF Before, Entered
  <2>2. <<>> \o <<>> = <<>>
    OBVIOUS
  <2> QED BY <1>2, <2>1, <2>2 DEF InScript
<1>4. ASSUME NEW r \in Rank PROVE Settled(r)
  BY <1>2, AtFirst DEF Settled, Settings0, NATIVE, PARALLEL, NONE
<1>5. ASSUME NEW r \in Rank PROVE Traces(r)
  BY <1>2 DEF Traces
<1>6. \A s \in Rank, j \in Nat \ {0} : ~ Reached(s, j)
  BY <1>2 DEF Reached
<1>7. \A j \in 1 .. Len(prog.calls) : j \in Nat \ {0}
  BY <1>2, CallIs
<1>8. Broadcast
  BY <1>6, <1>7, RankAssumption DEF Broadcast
<1>9. ASSUME NEW f \in FileName PROVE FileKept(f)
  <2>1. f \in present <=> f \in Existing
    BY DEF Init
  <2>2. Begun(f) <=> f \in Existing
    BY <1>6, <1>7 DEF Begun
  <2> QED BY <2>1, <2>2 DEF FileKept
<1> QED BY <1>1, <1>2, <1>3, <1>4, <1>5, <1>8, <1>9 DEF AgreeInv, Follow, Follows, Gone

\* In a program that keeps the rules of Orderly the ranks enter the same collectives in
\* the same order on each communicator, those that run ahead and those that leave
\* through cgp_error_exit, too, with the exceptions that CollectivesAgree names.
THEOREM OrderlyProgramsAgree == Spec => [](Orderly(prog) => CollectivesAgree)
<1>1. Init => ParInv /\ Booked /\ CollTyped /\ AgreeInv
  BY InitParInv, InitBooked, InitAgree
<1>2. ParInv /\ Booked /\ CollTyped /\ AgreeInv /\ [Next]_vars
         => (ParInv /\ Booked /\ CollTyped /\ AgreeInv)'
  BY NextKeepsInv, NextKeepsBooked, NextKeepsAgree
<1>3. ParInv /\ Booked /\ CollTyped /\ AgreeInv => (Orderly(prog) => CollectivesAgree)
  BY FollowAgrees
<1> QED BY <1>1, <1>2, <1>3, PTL DEF Spec
============================================================================
