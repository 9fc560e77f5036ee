----------------------------- MODULE CgioProofs -----------------------------
(***************************************************************************)
(* What a rewrite never loses, for any number of contents written and      *)
(* rewritten: the properties of the run of CgioRewrite, from an invariant  *)
(* that says for every step of rewrite_file where the saved content is.    *)
(* And which links a change of the search path leaves as they are, for any *)
(* directories and paths: the properties of the run of SearchPath.         *)
(***************************************************************************)
EXTENDS CgioRewrite, SearchPath, SequenceTheorems, WellFoundedInduction, TLAPS

----------------------------------------------------------------------------
(* The rewrite of a database                                               *)


Copying == {"copy", "close_temp"}
Ready == {"close_input", "unlink_dest", "rename"}

\* Where the database is.  A flush that is refused leaves nothing saved.
FileInv ==
    /\ step = "flush" =>
          disk["file"] # Absent /\ disk["file"].version = version /\ saved = 0
    /\ step \in {"unlink_temp", "open_temp", "abandon_temp"} \cup Copying \cup Ready
          => saved = version
    /\ step \in {"unlink_temp", "open_temp", "abandon_temp", "close_input", "unlink_dest"}
                \cup Copying
          => HoldsSaved("file")
    /\ step = "fail" => saved = 0 \/ HoldsSaved("file")
    /\ step = "rename" => Dest = "file" \/ HoldsSaved("file")

\* Where the copy is.
TempInv ==
    /\ step = "open_temp" => disk[Temp] = Absent
    /\ step \in Copying => disk[Temp] = Db(saved, FALSE, TRUE)
    /\ step \in Ready /\ sealed => disk[Temp] = Db(saved, TRUE, TRUE)
    /\ step = "fail" /\ saved > 0 => disk[Temp] = Absent

Inv == TypeOK /\ FileInv /\ TempInv /\ SavedSurvives

----------------------------------------------------------------------------
\* The names rewrite_file works on are files of the directory, and the
\* temporary one is neither the database nor the file it is renamed to.
LEMMA NamesDiffer ==
    /\ Dest \in FileName /\ Temp \in FileName
    /\ Temp # "file" /\ Temp # Dest /\ "file" \in FileName
BY DEF Dest, Temp, FileName

\* A database is a record of its fields, and is there.
LEMMA DbIsDatabase ==
    ASSUME NEW v \in 0 .. MaxVersion, NEW w \in BOOLEAN, NEW c \in BOOLEAN
    PROVE  /\ Db(v, w, c) \in Database /\ Db(v, w, c) # Absent
           /\ Db(v, w, c).version = v /\ Db(v, w, c).whole = w /\ Db(v, w, c).compact = c
BY AbsentAssumption DEF Db, Database

\* The whole copy of a content is there, whole.
LEMMA CopyIsWhole ==
    ASSUME NEW v \in 0 .. MaxVersion
    PROVE  /\ Db(v, TRUE, TRUE) # Absent /\ Db(v, TRUE, TRUE).version = v
           /\ Db(v, TRUE, TRUE).whole
<1>1. Db(v, TRUE, TRUE) # Absent /\ Db(v, TRUE, TRUE).version = v
  BY DbIsDatabase
<1>2. Db(v, TRUE, TRUE).whole
  BY DEF Db
<1> QED BY <1>1, <1>2

\* Making a database whole changes nothing else of it.
LEMMA WholeIsDatabase ==
    ASSUME NEW d \in Database, NEW w \in BOOLEAN
    PROVE  /\ [d EXCEPT !.whole = w] = Db(d.version, w, d.compact)
           /\ d.version \in 0 .. MaxVersion /\ d.compact \in BOOLEAN
BY DEF Db, Database

LEMMA InitEstablishesInv == Init => Inv
<1> SUFFICES ASSUME Init PROVE Inv
  OBVIOUS
<1>1. 0 \in 0 .. MaxVersion
  BY VersionAssumption
<1>2. Db(0, TRUE, FALSE) \in Database
  BY <1>1, DbIsDatabase
<1>3. TypeOK
  <2>1. disk \in [FileName -> Database \cup {Absent}]
    BY <1>2 DEF Init
  <2>2. version \in 0 .. MaxVersion /\ saved \in 0 .. version
    BY <1>1 DEF Init
  <2>3. copied \in BOOLEAN /\ sealed \in BOOLEAN
    BY Zenon DEF Init
  <2> QED BY <2>1, <2>2, <2>3 DEF Init, TypeOK
<1>4. FileInv /\ TempInv /\ SavedSurvives
  BY DEF Init, FileInv, TempInv, SavedSurvives, Copying, Ready
<1> QED BY <1>3, <1>4 DEF Inv

LEMMA ChangeKeepsInv ==
    ASSUME Inv, Change(Db(version + 1, FALSE, FALSE))
    PROVE  Inv'
<1> DEFINE db == Db(version + 1, FALSE, FALSE)
<1>1. version' = version + 1 /\ version' \in 0 .. MaxVersion
  BY VersionAssumption DEF Inv, TypeOK, Change
<1>2. db \in Database /\ db # Absent /\ db.version = version + 1
  BY <1>1, DbIsDatabase
<1>3. disk' = [disk EXCEPT !["file"] = db]
  BY DEF Change, Put
<1>4. step' = "flush" /\ rc' = "none" /\ saved' = 0 /\ sealed' = TRUE
      /\ link' = link /\ copied' = copied
  BY DEF Change
<1> HIDE DEF db
<1>5. TypeOK'
  <2>1. disk' \in [FileName -> Database \cup {Absent}]
    BY <1>2, <1>3 DEF Inv, TypeOK
  <2>2. saved' \in 0 .. version'
    BY <1>1, <1>4
  <2>3. copied' \in BOOLEAN /\ sealed' \in BOOLEAN
    BY <1>4, Zenon DEF Inv, TypeOK
  <2> QED BY <1>1, <1>4, <2>1, <2>2, <2>3 DEF Inv, TypeOK
<1>6. disk'["file"] = db
  BY <1>3, NamesDiffer DEF Inv, TypeOK
<1>7. FileInv' /\ TempInv' /\ SavedSurvives'
  BY <1>1, <1>2, <1>4, <1>6 DEF FileInv, TempInv, SavedSurvives, Copying, Ready
<1> QED BY <1>5, <1>7 DEF Inv

LEMMA FlushKeepsInv ==
    ASSUME Inv, Flush
    PROVE  Inv'
<1> DEFINE db == [disk["file"] EXCEPT !.whole = TRUE]
<1>1. disk["file"] \in Database /\ disk["file"].version = version /\ saved = 0
  BY NamesDiffer DEF Inv, TypeOK, FileInv, Flush
<1>2. db \in Database /\ db # Absent /\ db.version = version /\ db.whole
  <2>1. /\ db = Db(version, TRUE, disk["file"].compact)
        /\ version \in 0 .. MaxVersion /\ disk["file"].compact \in BOOLEAN
    BY <1>1, WholeIsDatabase
  <2> HIDE DEF db
  <2> QED BY <2>1, DbIsDatabase
<1> HIDE DEF db
<1>3. link' = link /\ version' = version /\ rc' = rc /\ copied' = copied
      /\ sealed' = sealed
  BY DEF Flush, Goto
<1>4. CASE disk' = [disk EXCEPT !["file"] = db] /\ saved' = version
           /\ step' = "unlink_temp"
  <2>1. TypeOK'
    <3>1. disk' \in [FileName -> Database \cup {Absent}]
      BY <1>2, <1>4 DEF Inv, TypeOK
    <3>2. version' \in 0 .. MaxVersion /\ saved' \in 0 .. version'
      BY <1>3, <1>4, VersionAssumption DEF Inv, TypeOK
    <3>3. copied' \in BOOLEAN /\ sealed' \in BOOLEAN
      BY <1>3, Zenon DEF Inv, TypeOK
    <3> QED BY <1>3, <1>4, <3>1, <3>2, <3>3 DEF Inv, TypeOK
  <2>2. HoldsSaved("file")'
    BY <1>2, <1>3, <1>4, NamesDiffer DEF Inv, TypeOK, HoldsSaved, IsWhole
  <2>3. FileInv' /\ TempInv' /\ SavedSurvives'
    BY <2>2, <1>3, <1>4 DEF FileInv, TempInv, SavedSurvives, Copying, Ready
  <2> QED BY <2>1, <2>3 DEF Inv
<1>5. CASE disk' = disk /\ saved' = saved /\ step' = "fail"
  <2>1. TypeOK'
    BY <1>3, <1>5 DEF Inv, TypeOK
  <2>2. FileInv' /\ TempInv' /\ SavedSurvives'
    BY <1>1, <1>3, <1>5 DEF FileInv, TempInv, SavedSurvives, Copying, Ready
  <2> QED BY <2>1, <2>2 DEF Inv
<1> QED BY <1>4, <1>5 DEF Flush, Put, Goto, db

\* The steps that touch at most the temporary file, while the database holds
\* what is saved.
LEMMA TempStepKeepsInv ==
    ASSUME Inv, HoldsSaved("file"),
           step \in {"unlink_temp", "open_temp", "abandon_temp", "close_input"} \cup Copying,
           step' \in {"open_temp", "fail", "abandon_temp", "close_input",
                      "unlink_dest"} \cup Copying,
           NEW db \in Database \cup {Absent}, disk' = [disk EXCEPT ![Temp] = db],
           link' = link, version' = version, rc' = rc, saved' = saved,
           copied' \in BOOLEAN, sealed' \in BOOLEAN,
           step' \in {"open_temp", "fail"} => db = Absent,
           step' \in Copying => db = Db(saved, FALSE, TRUE),
           step' \in Ready /\ sealed' => db = Db(saved, TRUE, TRUE)
    PROVE  Inv'
<1>1. TypeOK'
  BY DEF Inv, TypeOK, Copying
<1>2. Temp' = Temp /\ disk'[Temp] = db /\ disk'["file"] = disk["file"]
  BY NamesDiffer DEF Inv, TypeOK, Temp
<1>3. HoldsSaved("file")' /\ saved' = version'
  BY <1>2 DEF HoldsSaved, IsWhole, Inv, FileInv, Copying, Ready
<1>4. FileInv' /\ SavedSurvives'
  BY <1>3 DEF FileInv, SavedSurvives, Copying
<1>5. TempInv'
  BY <1>2 DEF TempInv, Copying, Ready
<1> QED BY <1>1, <1>4, <1>5 DEF Inv

LEMMA CopyStepsKeepInv ==
    ASSUME Inv, UnlinkTemp \/ OpenTemp \/ Copy \/ CloseTemp \/ AbandonTemp \/ CloseInput
    PROVE  Inv'
<1>1. /\ step \in {"unlink_temp", "open_temp", "abandon_temp", "close_input"} \cup Copying
      /\ link' = link /\ version' = version /\ rc' = rc /\ saved' = saved
  BY DEF UnlinkTemp, OpenTemp, Copy, CloseTemp, AbandonTemp, CloseInput, Goto, Copying
<1>2. HoldsSaved("file") /\ saved = version
  <2>1. HoldsSaved("file")
    BY <1>1 DEF Inv, FileInv
  <2>2. saved = version
    BY <1>1 DEF Inv, FileInv, Ready
  <2> QED BY <2>1, <2>2
<1>3. /\ disk \in [FileName -> Database \cup {Absent}] /\ saved \in 0 .. MaxVersion
      /\ copied \in BOOLEAN /\ sealed \in BOOLEAN
  BY <1>2 DEF Inv, TypeOK
<1>4. /\ Db(saved, FALSE, TRUE) \in Database /\ Db(saved, TRUE, TRUE) \in Database
      /\ [Db(saved, FALSE, TRUE) EXCEPT !.whole = TRUE] = Db(saved, TRUE, TRUE)
      /\ [Db(saved, FALSE, TRUE) EXCEPT !.whole = FALSE] = Db(saved, FALSE, TRUE)
  <2>1. Db(saved, FALSE, TRUE) \in Database /\ Db(saved, TRUE, TRUE) \in Database
    BY <1>3, DbIsDatabase
  <2>2. Db(saved, FALSE, TRUE).version = saved /\ Db(saved, FALSE, TRUE).compact = TRUE
    BY <1>3, DbIsDatabase
  <2> QED BY <2>1, <2>2, WholeIsDatabase
<1>5. disk = [disk EXCEPT ![Temp] = disk[Temp]] /\ disk[Temp] \in Database \cup {Absent}
  BY <1>3, NamesDiffer
<1>6. CASE UnlinkTemp
  BY <1>1, <1>2, <1>3, <1>6, TempStepKeepsInv DEF UnlinkTemp, Put, Goto, Copying, Ready
<1>7. CASE OpenTemp
  BY <1>1, <1>2, <1>3, <1>4, <1>7, TempStepKeepsInv DEF OpenTemp, Put, Goto, Copying, Ready
<1>8. CASE Copy
  <2>1. disk[Temp] = Db(saved, FALSE, TRUE)
    BY <1>8 DEF Copy, Inv, TempInv, Copying
  <2> QED BY <2>1, <1>1, <1>2, <1>3, <1>5, <1>8, TempStepKeepsInv
          DEF Copy, Goto, Copying, Ready
<1>9. CASE CloseTemp
  <2>1. disk[Temp] = Db(saved, FALSE, TRUE)
    BY <1>9 DEF CloseTemp, Inv, TempInv, Copying
  <2>2. \/ disk' = [disk EXCEPT ![Temp] = Db(saved, copied, TRUE)] /\ sealed' = sealed
        \/ disk' = disk /\ sealed' = ~ copied
    <3>1. [disk[Temp] EXCEPT !.whole = copied] = Db(saved, copied, TRUE)
      <4>1. Db(saved, FALSE, TRUE).version = saved /\ Db(saved, FALSE, TRUE).compact = TRUE
        BY <1>3, DbIsDatabase
      <4> QED BY <2>1, <4>1, <1>3, <1>4, WholeIsDatabase
    <3> QED BY <3>1, <1>9 DEF CloseTemp, Put
  <2>3. step' = (IF copied THEN "close_input" ELSE "abandon_temp") /\ copied' = copied
    BY <1>9 DEF CloseTemp, Goto
  <2>4. CASE disk' = [disk EXCEPT ![Temp] = Db(saved, copied, TRUE)] /\ sealed' = sealed
    <3>1. CASE copied
      <4>1. Db(saved, copied, TRUE) = Db(saved, TRUE, TRUE)
        BY <1>3, <3>1
      <4> QED BY <2>3, <2>4, <3>1, <4>1, <1>1, <1>2, <1>3, <1>4, TempStepKeepsInv
              DEF Copying, Ready
    <3>2. CASE ~ copied
      <4>1. Db(saved, copied, TRUE) \in Database
        BY <1>3, DbIsDatabase
      <4> QED BY <2>3, <2>4, <3>2, <4>1, <1>1, <1>2, <1>3, TempStepKeepsInv
              DEF Copying, Ready
    <3> QED BY <3>1, <3>2
  <2>5. CASE disk' = disk /\ sealed' = ~ copied
    <3>1. step' = "abandon_temp" \/ ~ sealed'
      BY <2>3, <2>5
    <3> QED BY <2>3, <2>5, <3>1, <1>1, <1>2, <1>3, <1>5, TempStepKeepsInv
            DEF Copying, Ready
  <2> QED BY <2>2, <2>4, <2>5
<1>10. CASE AbandonTemp
  BY <1>1, <1>2, <1>3, <1>10, TempStepKeepsInv DEF AbandonTemp, Put, Goto, Copying, Ready
<1>11. CASE CloseInput
  <2>1. sealed => disk[Temp] = Db(saved, TRUE, TRUE)
    BY <1>11 DEF CloseInput, Inv, TempInv, Ready
  <2> QED BY <2>1, <1>1, <1>2, <1>3, <1>5, <1>11, TempStepKeepsInv
          DEF CloseInput, Goto, Copying, Ready
<1> QED BY <1>6, <1>7, <1>8, <1>9, <1>10, <1>11

LEMMA UnlinkDestKeepsInv ==
    ASSUME Inv, UnlinkDest
    PROVE  Inv'
<1>1. /\ disk' = [disk EXCEPT ![Dest] = Absent] /\ step' = "rename"
      /\ link' = link /\ version' = version /\ rc' = rc
      /\ copied' = copied /\ saved' = saved /\ sealed' = sealed
  BY DEF UnlinkDest, Put, Goto
<1>2. /\ HoldsSaved("file") /\ saved = version /\ step = "unlink_dest"
      /\ sealed => disk[Temp] = Db(saved, TRUE, TRUE)
  BY DEF UnlinkDest, Inv, FileInv, TempInv, Ready
<1>3. TypeOK'
  BY <1>1 DEF Inv, TypeOK
<1>4. Temp' = Temp /\ Dest' = Dest /\ disk'[Temp] = disk[Temp]
  BY <1>1, NamesDiffer DEF Inv, TypeOK, Temp, Dest
<1>5. Dest = "file" \/ disk'["file"] = disk["file"]
  BY <1>1, NamesDiffer DEF Inv, TypeOK
<1>6. Dest' = "file" \/ HoldsSaved("file")'
  BY <1>1, <1>2, <1>4, <1>5 DEF HoldsSaved, IsWhole
<1>7. saved \in 0 .. MaxVersion
  BY <1>2 DEF Inv, TypeOK
<1>8. sealed' => disk'[Temp'] = Db(saved', TRUE, TRUE) /\ HoldsSaved(Temp)'
  BY ZenonT(60), <1>1, <1>2, <1>4, <1>7, CopyIsWhole DEF HoldsSaved, IsWhole
<1>9. FileInv' /\ TempInv' /\ SavedSurvives'
  BY <1>1, <1>2, <1>6, <1>8 DEF FileInv, TempInv, SavedSurvives, Copying, Ready
<1> QED BY <1>3, <1>9 DEF Inv

\* A call that returns, or dies, without touching the directory.
LEMMA ReturnKeepsInv ==
    ASSUME Inv, NEW code \in {"none", "ok", "error"}, Return(code), disk' = disk
    PROVE  Inv'
<1>1. TypeOK'
  BY DEF Inv, TypeOK, Return
<1>2. SavedSurvives'
  BY DEF Inv, SavedSurvives, HoldsSaved, IsWhole, Temp, Return
<1>3. FileInv' /\ TempInv'
  BY DEF FileInv, TempInv, Copying, Ready, Return
<1> QED BY <1>1, <1>2, <1>3 DEF Inv

LEMMA RenameKeepsInv ==
    ASSUME Inv, Rename
    PROVE  Inv'
<1>1. CASE disk' = [disk EXCEPT ![Dest] = disk[Temp], ![Temp] = Absent] /\ Return("ok")
  <2>1. TypeOK'
    BY <1>1, NamesDiffer DEF Inv, TypeOK, Return
  <2>2. disk'["file"] = IF Dest = "file" THEN disk[Temp] ELSE disk["file"]
    BY <1>1, NamesDiffer DEF Inv, TypeOK
  <2>3. /\ saved \in 0 .. MaxVersion
        /\ sealed => disk[Temp] = Db(saved, TRUE, TRUE)
        /\ Dest = "file" \/ HoldsSaved("file")
    BY DEF Rename, Inv, TypeOK, FileInv, TempInv, Ready
  <2>4. sealed => HoldsSaved("file")'
    BY <2>2, <2>3, <1>1, CopyIsWhole DEF HoldsSaved, IsWhole, Return
  <2>5. SavedSurvives'
    BY <2>4, <1>1 DEF SavedSurvives, Return
  <2>6. FileInv' /\ TempInv'
    BY <1>1 DEF FileInv, TempInv, Copying, Ready, Return
  <2> QED BY <2>1, <2>5, <2>6 DEF Inv
<1>2. CASE disk' = disk /\ Return("error")
  BY <1>2, ReturnKeepsInv
<1> QED BY <1>1, <1>2 DEF Rename

LEMMA NextKeepsInv == Inv /\ [Next]_vars => Inv'
<1> SUFFICES ASSUME Inv, [Next]_vars PROVE Inv'
  OBVIOUS
<1>1. CASE Create \/ Modify
  BY <1>1, ChangeKeepsInv DEF Create, Modify
<1>2. CASE Rewrite
  <2>1. CASE Flush
    BY <2>1, FlushKeepsInv
  <2>2. CASE UnlinkTemp \/ OpenTemp \/ Copy \/ CloseTemp \/ AbandonTemp \/ CloseInput
    BY <2>2, CopyStepsKeepInv
  <2>3. CASE UnlinkDest
    BY <2>3, UnlinkDestKeepsInv
  <2>4. CASE Rename
    BY <2>4, RenameKeepsInv
  <2>5. CASE Fail
    BY <2>5, ReturnKeepsInv DEF Fail
  <2> QED BY <1>2, <2>1, <2>2, <2>3, <2>4, <2>5 DEF Rewrite
<1>3. CASE Crash
  BY <1>3, ReturnKeepsInv DEF Crash
<1>4. CASE UNCHANGED vars
  BY <1>4, ZenonT(90) DEF vars, Inv, TypeOK, FileInv, TempInv, SavedSurvives, HoldsSaved, IsWhole,
              Temp, Dest
<1> QED BY <1>1, <1>2, <1>3, <1>4 DEF Next

----------------------------------------------------------------------------
\* What the first flush of rewrite_file has saved is whole under the name of
\* the database or of the copy, wherever the rewrite stops, unless a close of
\* the copy was refused.
THEOREM SavedIsNeverLost == Spec => []SavedSurvives
<1>1. Inv => SavedSurvives
  BY DEF Inv
<1> QED BY <1>1, InitEstablishesInv, NextKeepsInv, PTL DEF Spec

\* During a rewrite the name of the database either loses its file while a
\* whole copy stands ready, or gets that copy.
THEOREM DatabaseIsReplacedWhole == Spec => ReplacedByWholeCopy
<1> DEFINE Replaced == step \notin {"idle", "flush"} /\ sealed
                       /\ disk'["file"] # disk["file"] =>
                          \/ disk'["file"] = Absent /\ HoldsSaved(Temp)
                          \/ disk'["file"] = Db(saved, TRUE, TRUE)
<1>1. Inv /\ [Next]_vars => [Replaced]_vars
  <2> SUFFICES ASSUME Inv, Next, step \notin {"idle", "flush"}, sealed,
                      disk'["file"] # disk["file"]
               PROVE  \/ disk'["file"] = Absent /\ HoldsSaved(Temp)
                      \/ disk'["file"] = Db(saved, TRUE, TRUE)
    OBVIOUS
  <2>1. disk \in [FileName -> Database \cup {Absent}]
    BY DEF Inv, TypeOK
  <2>2. ~ (\E db : disk' = [disk EXCEPT ![Temp] = db]) /\ disk' # disk
    BY <2>1, NamesDiffer
  <2>3. UnlinkDest \/ Rename
    BY <2>2 DEF Next, Create, Modify, Change, Rewrite, Flush, UnlinkTemp, OpenTemp, Copy,
                CloseTemp, AbandonTemp, CloseInput, Fail, Crash, Put
  <2>4. /\ disk[Temp] = Db(saved, TRUE, TRUE) /\ saved \in 0 .. MaxVersion
    BY <2>3 DEF UnlinkDest, Rename, Inv, TypeOK, FileInv, TempInv, Ready
  <2>5. HoldsSaved(Temp)
    BY <2>4, DbIsDatabase, ZenonT(90) DEF HoldsSaved, IsWhole
  <2>6. CASE UnlinkDest
    BY <2>1, <2>5, <2>6, NamesDiffer DEF UnlinkDest, Put
  <2>7. CASE Rename
    BY <2>1, <2>2, <2>4, <2>7, NamesDiffer DEF Rename
  <2> QED BY <2>3, <2>6, <2>7
<1> QED BY <1>1, InitEstablishesInv, NextKeepsInv, PTL DEF Spec, ReplacedByWholeCopy

\* A rewrite that gives up leaves the saved database under its name and no
\* temporary file.
THEOREM FailuresAreClean == Spec => FailureIsClean
<1> DEFINE Clean == step = "fail" /\ rc' = "error" /\ saved > 0 =>
                       disk[Temp] = Absent /\ HoldsSaved("file")
<1>1. Inv => Clean
  BY DEF Inv, TypeOK, FileInv, TempInv
<1> QED BY <1>1, InitEstablishesInv, NextKeepsInv, PTL DEF Spec, FailureIsClean

----------------------------------------------------------------------------
(* Lists of lists                                                          *)

LEMMA LeastElement ==
    ASSUME NEW S \in SUBSET Nat, S # {}
    PROVE  \E n \in S : \A m \in S : n <= m
<1>1. PICK n \in S : \A m \in S : ~ (<<m, n>> \in OpToRel(<, Nat))
  BY WFMin, NatLessThanWellFounded, Zenon
<1>2. \A m \in S : ~ (m < n)
  BY <1>1, Zenon DEF OpToRel
<1> QED BY <1>2

\* A set of numbers that has 0 and with every number the next has all of them.
LEMMA AllNumbers ==
    ASSUME NEW S \in SUBSET Nat, 0 \in S, \A n \in S : n + 1 \in S
    PROVE  S = Nat
<1> SUFFICES ASSUME Nat \ S # {} PROVE FALSE
  OBVIOUS
<1>1. PICK n \in Nat \ S : \A m \in Nat \ S : n <= m
  BY LeastElement
<1>2. n # 0 /\ n - 1 \in Nat /\ n - 1 \in S
  BY <1>1
<1> QED BY <1>1, <1>2

\* f has what the first n lists of q are, one after the other.
Joins(f, q, n) ==
    \A i \in 0 .. n : f[i] = IF i = 0 THEN <<>> ELSE f[i - 1] \o q[i]

LEMMA JoinsSteps ==
    ASSUME NEW f, NEW q, NEW n \in Nat, Joins(f, q, n)
    PROVE  f[0] = <<>> /\ \A i \in 1 .. n : f[i] = f[i - 1] \o q[i]
<1>1. 0 \in 0 .. n /\ \A i \in 1 .. n : i \in 0 .. n /\ i # 0
  OBVIOUS
<1>2. \A i \in 0 .. n : f[i] = IF i = 0 THEN <<>> ELSE f[i - 1] \o q[i]
  BY DEF Joins
<1>3. f[0] = <<>>
  BY <1>1, <1>2
<1>4. ASSUME NEW i \in 1 .. n PROVE f[i] = f[i - 1] \o q[i]
  BY <1>1, <1>2, Zenon
<1> QED BY <1>3, <1>4

LEMMA JoinExists ==
    ASSUME NEW D, NEW q \in Seq(Seq(D))
    PROVE  \E f \in [0 .. Len(q) -> Seq(D)] : Joins(f, q, Len(q))
<1> DEFINE S == {m \in Nat : m <= Len(q) =>
                               \E f \in [0 .. m -> Seq(D)] : Joins(f, q, m)}
<1>1. 0 \in S
  <2>1. [i \in 0 .. 0 |-> <<>>] \in [0 .. 0 -> Seq(D)]
    OBVIOUS
  <2>2. Joins([i \in 0 .. 0 |-> <<>>], q, 0)
    BY DEF Joins
  <2> QED BY <2>1, <2>2
<1>2. ASSUME NEW m \in S PROVE m + 1 \in S
  <2> SUFFICES ASSUME m + 1 <= Len(q)
               PROVE  \E f \in [0 .. m + 1 -> Seq(D)] : Joins(f, q, m + 1)
    OBVIOUS
  <2>1. m \in Nat /\ m <= Len(q) /\ m + 1 \in 1 .. Len(q)
    OBVIOUS
  <2>2. PICK w \in [0 .. m -> Seq(D)] : Joins(w, q, m)
    BY <2>1
  <2>3. q[m + 1] \in Seq(D)
    BY <2>1
  <2>4. PICK v : v = [i \in 0 .. m + 1 |-> IF i = m + 1 THEN w[m] \o q[m + 1] ELSE w[i]]
    OBVIOUS
  <2>5. w[m] \o q[m + 1] \in Seq(D)
    BY <2>1, <2>2, <2>3
  <2>6. v \in [0 .. m + 1 -> Seq(D)]
    BY <2>1, <2>2, <2>4, <2>5
  <2>7. \A i \in 0 .. m : v[i] = w[i]
    BY <2>1, <2>4
  <2>8. ASSUME NEW i \in 0 .. m + 1
        PROVE  v[i] = IF i = 0 THEN <<>> ELSE v[i - 1] \o q[i]
    <3>1. CASE i = m + 1
      <4>1. v[i] = w[m] \o q[m + 1] /\ i - 1 = m /\ m \in 0 .. m
        BY SMTT(60), <2>1, <2>4, <3>1
      <4>2. v[m] = w[m]
        BY <2>7, <4>1
      <4>3. i # 0 /\ q[i] = q[m + 1] /\ v[i - 1] = v[m]
        BY <2>1, <3>1, <4>1
      <4> QED BY <4>1, <4>2, <4>3, Zenon
    <3>2. CASE i \in 0 .. m
      <4>1. w[i] = IF i = 0 THEN <<>> ELSE w[i - 1] \o q[i]
        BY <2>2, <3>2 DEF Joins
      <4>2. i # 0 => i - 1 \in 0 .. m
        BY <2>1, <3>2
      <4>3. v[i] = w[i] /\ (i # 0 => v[i - 1] = w[i - 1])
        BY <2>7, <3>2, <4>2
      <4>4. CASE i = 0
        BY <4>1, <4>3, <4>4, Zenon
      <4>5. CASE i # 0
        BY <4>1, <4>3, <4>5, Zenon
      <4> QED BY <4>4, <4>5
    <3> QED BY <2>1, <3>1, <3>2
  <2>9. Joins(v, q, m + 1)
    BY <2>8 DEF Joins
  <2> QED BY <2>6, <2>9
<1>3. S = Nat
  <2> HIDE DEF S
  <2>1. S \in SUBSET Nat
    BY DEF S
  <2> QED BY <1>1, <1>2, <2>1, AllNumbers
<1> QED BY SMTT(60), <1>3

LEMMA Flattened ==
    ASSUME NEW D, NEW q \in Seq(Seq(D))
    PROVE  \E f \in [0 .. Len(q) -> Seq(D)] :
              Joins(f, q, Len(q)) /\ FlattenSeq(q) = f[Len(q)]
<1>1. PICK f \in [0 .. Len(q) -> Seq(D)] : Joins(f, q, Len(q))
  BY JoinExists
<1>2. Len(q) \in Nat
  OBVIOUS
<1>5. f[0] = <<>> /\ \A i \in 1 .. Len(q) : f[i] = f[i - 1] \o q[i]
  BY <1>1, <1>2, JoinsSteps, Zenon
<1>3. CASE Len(q) = 0
  <2>1. q = <<>> /\ f[0] = <<>>
    BY <1>1, <1>3 DEF Joins
  <2>2. FlattenSeq(q) = q
    BY <1>3 DEF FlattenSeq
  <2> QED BY <1>1, <1>3, <2>1, <2>2
<1>4. CASE Len(q) # 0
  <2> DEFINE Steps(c) == c = [i \in 1 .. Len(q) |-> IF i = 1 THEN q[i] ELSE c[i - 1] \o q[i]]
  <2>1. \E c : Steps(c)
    <3>1. PICK c : c = [i \in 1 .. Len(q) |-> f[i]]
      OBVIOUS
    <3>2. ASSUME NEW i \in 1 .. Len(q)
          PROVE  f[i] = IF i = 1 THEN q[i] ELSE c[i - 1] \o q[i]
      <4>1. i \in 0 .. Len(q) /\ i # 0
        BY <1>2
      <4>2. f[i] = f[i - 1] \o q[i]
        BY <1>5
      <4>3. CASE i = 1
        <5>1. f[0] = <<>> /\ 1 - 1 = 0
          BY <1>5
        <5>2. q[1] \in Seq(D)
          BY <4>3
        <5>3. <<>> \o q[1] = q[1]
          BY <5>2, ConcatEmptySeq
        <5> QED BY <4>2, <4>3, <5>1, <5>3
      <4>4. CASE i # 1
        <5>1. i - 1 \in 1 .. Len(q)
          BY <1>2, <4>4
        <5> QED BY <3>1, <4>2, <4>4, <5>1
      <4> QED BY <4>3, <4>4
    <3>3. Steps(c)
      BY <3>1, <3>2
    <3> QED BY <3>3
  <2>2. FlattenSeq(q) = (CHOOSE c : Steps(c))[Len(q)]
    BY <1>4, Zenon DEF FlattenSeq
  <2>3. PICK c : Steps(c) /\ FlattenSeq(q) = c[Len(q)]
    <3> HIDE DEF Steps
    <3> QED BY <2>1, <2>2, Zenon
  <2> DEFINE S == {j \in Nat : \A i \in 1 .. Len(q) : i = j + 1 => c[i] = f[i]}
  <2>4. 0 \in S
    <3>1. 1 \in 1 .. Len(q) /\ 1 \in 0 .. Len(q) /\ 0 \in 0 .. Len(q)
      BY <1>2, <1>4
    <3>2. c[1] = q[1]
      BY <2>3, <3>1
    <3>3. f[1] = f[0] \o q[1] /\ f[0] = <<>>
      <4>1. f[1] = f[1 - 1] \o q[1] /\ f[0] = <<>>
        BY <1>5, <3>1
      <4>2. 1 - 1 = 0
        OBVIOUS
      <4> QED BY <4>1, <4>2, Zenon
    <3>4. q[1] \in Seq(D)
      BY <3>1
    <3>5. <<>> \o q[1] = q[1]
      BY <3>4, ConcatEmptySeq
    <3> QED BY <3>2, <3>3, <3>5
  <2>5. ASSUME NEW j \in S PROVE j + 1 \in S
    <3> SUFFICES ASSUME NEW i \in 1 .. Len(q), i = (j + 1) + 1 PROVE c[i] = f[i]
      OBVIOUS
    <3>1. j \in Nat /\ i - 1 \in 1 .. Len(q) /\ i - 1 = j + 1 /\ i # 1
      BY <1>2
    <3>2. c[i] = c[i - 1] \o q[i]
      BY <2>3, <3>1
    <3>3. f[i] = f[i - 1] \o q[i]
      BY <1>5
    <3>4. c[i - 1] = f[i - 1]
      BY <3>1
    <3> QED BY <3>2, <3>3, <3>4
  <2>6. S = Nat
    <3> HIDE DEF S
    <3>1. S \in SUBSET Nat
      BY DEF S
    <3> QED BY <2>4, <2>5, <3>1, AllNumbers
  <2>7. Len(q) - 1 \in Nat /\ (Len(q) - 1) + 1 = Len(q) /\ Len(q) \in 1 .. Len(q)
    BY <1>2, <1>4
  <2>8. c[Len(q)] = f[Len(q)]
    BY <1>2, <2>6, <2>7
  <2> QED BY <1>1, <2>3, <2>8
<1> QED BY <1>3, <1>4

SameLists(q, q2, n) == \A i \in 1 .. n : q[i] = q2[i]

\* Two joins are the same as far as the lists are.
LEMMA JoinsAgree ==
    ASSUME NEW q, NEW q2, NEW f, NEW f2, NEW n \in Nat,
           Joins(f, q, n), Joins(f2, q2, n), SameLists(q, q2, n)
    PROVE  f[n] = f2[n]
<1> DEFINE S == {i \in Nat : i <= n => f[i] = f2[i]}
<1>1. 0 \in S
  BY DEF Joins
<1>2. ASSUME NEW i \in S PROVE i + 1 \in S
  <2> SUFFICES ASSUME i + 1 <= n PROVE f[i + 1] = f2[i + 1]
    OBVIOUS
  <2>1. i + 1 \in 0 .. n /\ i + 1 \in 1 .. n /\ i + 1 # 0 /\ (i + 1) - 1 = i /\ i <= n
    OBVIOUS
  <2>2. f[i + 1] = f[i] \o q[i + 1] /\ f2[i + 1] = f2[i] \o q2[i + 1]
    BY <2>1 DEF Joins
  <2>3. q[i + 1] = q2[i + 1]
    BY <2>1 DEF SameLists
  <2> QED BY <2>1, <2>2, <2>3
<1>3. S = Nat
  <2> HIDE DEF S
  <2>1. S \in SUBSET Nat
    BY DEF S
  <2> QED BY <1>1, <1>2, <2>1, AllNumbers
<1> QED BY <1>3

\* A list put behind the others is behind what they give.
LEMMA FlattenAppended ==
    ASSUME NEW D, NEW q \in Seq(Seq(D)), NEW p \in Seq(D)
    PROVE  FlattenSeq(Append(q, p)) = FlattenSeq(q) \o p /\ FlattenSeq(q) \in Seq(D)
<1> DEFINE n == Len(q)
<1>1. /\ Append(q, p) \in Seq(Seq(D)) /\ Len(Append(q, p)) = n + 1 /\ n \in Nat
      /\ \A i \in 1 .. n : Append(q, p)[i] = q[i]
      /\ Append(q, p)[n + 1] = p
  BY AppendProperties
<1>2. PICK f \in [0 .. n -> Seq(D)] : Joins(f, q, n) /\ FlattenSeq(q) = f[n]
  BY Flattened
<1>3. PICK f2 : /\ Joins(f2, Append(q, p), n + 1)
                /\ FlattenSeq(Append(q, p)) = f2[n + 1]
  BY <1>1, Flattened
<1>4. Joins(f2, Append(q, p), n)
  BY <1>1, <1>3 DEF Joins
<1>5. f[n] = f2[n]
  <2> HIDE DEF n
  <2>1. n \in Nat /\ SameLists(q, Append(q, p), n)
    BY <1>1 DEF SameLists
  <2> QED BY <1>2, <1>4, <2>1, JoinsAgree
<1>6. f2[n + 1] = f2[n] \o p
  <2>1. n + 1 \in Nat /\ n + 1 \in 1 .. n + 1 /\ (n + 1) - 1 = n
    BY <1>1
  <2>2. \A i \in 1 .. n + 1 : f2[i] = f2[i - 1] \o Append(q, p)[i]
    BY <1>3, <2>1, JoinsSteps, Zenon
  <2>3. f2[n + 1] = f2[(n + 1) - 1] \o Append(q, p)[n + 1]
    BY <2>1, <2>2
  <2> QED BY <1>1, <2>1, <2>3
<1>7. n \in 0 .. n
  BY <1>1
<1> QED BY <1>2, <1>3, <1>5, <1>6, <1>7

LEMMA Regrouped ==
    ASSUME NEW D
    PROVE  \A s, t, u \in Seq(D) : (s \o t) \o u = s \o (t \o u)
BY SMTT(60), ConcatAssociative

Emptied(q, k) == [q EXCEPT ![k] = <<>>]

\* A list that is emptied is taken out of what they give, and nothing else is.
LEMMA FlattenEmptied ==
    ASSUME NEW D, NEW q \in Seq(Seq(D)), NEW k \in 1 .. Len(q)
    PROVE  \E a, b \in Seq(D) : /\ FlattenSeq(q) = a \o (q[k] \o b)
                                /\ FlattenSeq(Emptied(q, k)) = a \o b
<1>14. \A s, t, u \in Seq(D) : (s \o t) \o u = s \o (t \o u)
  BY Regrouped, SMTT(60)
<1>1. PICK q2 : q2 = [q EXCEPT ![k] = <<>>]
  OBVIOUS
<1>2. PICK n : n = Len(q)
  OBVIOUS
<1>3. /\ n \in Nat /\ k \in 1 .. n /\ k - 1 \in Nat /\ q2 \in Seq(Seq(D)) /\ Len(q2) = n
      /\ q2[k] = <<>> /\ \A i \in 1 .. n : q[i] \in Seq(D) /\ (i # k => q2[i] = q[i])
  BY <1>1, <1>2
<1>15. \A g, g2 : \A h \in Nat :
          Joins(g, q, h) /\ Joins(g2, q2, h) /\ SameLists(q, q2, h) => g[h] = g2[h]
  BY JoinsAgree
<1>4. PICK f \in [0 .. n -> Seq(D)] : Joins(f, q, n) /\ FlattenSeq(q) = f[n]
  BY <1>2, Flattened
<1>5. PICK f2 \in [0 .. n -> Seq(D)] : Joins(f2, q2, n) /\ FlattenSeq(q2) = f2[n]
  BY <1>3, Flattened
<1>13. /\ f[0] = <<>> /\ \A i \in 1 .. n : f[i] = f[i - 1] \o q[i]
       /\ f2[0] = <<>> /\ \A i \in 1 .. n : f2[i] = f2[i - 1] \o q2[i]
  BY <1>3, <1>4, <1>5, JoinsSteps, ZenonT(90)
<1>6. PICK a : a = f[k - 1]
  OBVIOUS
<1>7. a \in Seq(D)
  BY <1>3, <1>4, <1>6
<1>8. a = f2[k - 1]
  <2>1. Joins(f, q, k - 1) /\ Joins(f2, q2, k - 1)
    <3>1. \A i \in 0 .. k - 1 : i \in 0 .. n
      BY <1>3
    <3> QED BY <1>4, <1>5, <3>1 DEF Joins
  <2>2. ASSUME NEW i \in 1 .. k - 1 PROVE q[i] = q2[i]
    <3>1. i \in 1 .. n /\ i # k
      BY <1>3
    <3> QED BY <1>3, <3>1
  <2>3. f[k - 1] = f2[k - 1]
    <3>1. SameLists(q, q2, k - 1)
      BY <2>2 DEF SameLists
    <3>2. PICK h \in Nat : h = k - 1
      BY <1>3
    <3>3. Joins(f, q, h) /\ Joins(f2, q2, h) /\ SameLists(q, q2, h)
      BY <2>1, <3>1, <3>2, Zenon
    <3>4. f[h] = f2[h]
      BY <1>15, <3>3, Zenon
    <3> QED BY <3>2, <3>4, Zenon
  <2> QED BY <1>6, <2>3
<1> DEFINE Both(i) == \E b \in Seq(D) : f[i] = a \o (q[k] \o b) /\ f2[i] = a \o b
           S == {j \in Nat : \A i \in 1 .. n : i = k + j => Both(i)}
<1>9. 0 \in S
  <2>1. k \in 1 .. n /\ k + 0 = k
    BY <1>3
  <2>2. f[k] = a \o q[k] /\ f2[k] = a \o <<>>
    BY <1>3, <1>6, <1>8, <1>13, <2>1
  <2>3. q[k] \o <<>> = q[k] /\ <<>> \in Seq(D)
    BY <1>3, ConcatEmptySeq
  <2>4. Both(k)
    BY <2>2, <2>3
  <2> QED BY <2>1, <2>4
<1>10. ASSUME NEW j \in S PROVE j + 1 \in S
  <2> SUFFICES ASSUME NEW i1 \in 1 .. n, i1 = k + (j + 1) PROVE Both(i1)
    <3> HIDE DEF Both
    <3> QED OBVIOUS
  <2>1. PICK i : i = k + j /\ j \in Nat
    OBVIOUS
  <2>2. i \in 1 .. n /\ i1 = i + 1 /\ i1 - 1 = i /\ i1 # k
    BY <1>3, <2>1
  <2>3. PICK b \in Seq(D) : f[i] = a \o (q[k] \o b) /\ f2[i] = a \o b
    BY <2>1, <2>2
  <2>4. PICK x \in Seq(D) : x = q[i1] /\ x = q2[i1]
    BY <1>3, <2>2
  <2>5. f[i1] = f[i] \o x /\ f2[i1] = f2[i] \o x
    BY <1>13, <2>2, <2>4
  <2>6. a \in Seq(D) /\ b \in Seq(D) /\ x \in Seq(D) /\ q[k] \in Seq(D)
    BY <1>3, <1>7, <2>3, <2>4
  <2>7. (a \o b) \o x = a \o (b \o x)
    BY <2>6, <1>14, ZenonT(90)
  <2>8. q[k] \o b \in Seq(D) /\ b \o x \in Seq(D)
    BY <2>6, ConcatProperties, Zenon
  <2>9. (a \o (q[k] \o b)) \o x = a \o ((q[k] \o b) \o x)
    BY <2>6, <2>8, <1>14, ZenonT(90)
  <2>10. (q[k] \o b) \o x = q[k] \o (b \o x)
    BY <2>6, <1>14, ZenonT(90)
  <2>11. f[i1] = a \o (q[k] \o (b \o x)) /\ f2[i1] = a \o (b \o x)
    BY <2>3, <2>5, <2>7, <2>9, <2>10
  <2> QED BY <2>8, <2>11
<1>11. S = Nat
  <2> HIDE DEF S
  <2>1. S \in SUBSET Nat
    BY DEF S
  <2> QED BY <1>9, <1>10, <2>1, AllNumbers
<1>12. Both(n)
  <2>1. n - k \in Nat /\ k + (n - k) = n /\ n \in 1 .. n
    BY <1>3
  <2> HIDE DEF Both
  <2> QED BY <1>11, <2>1
<1>16. Emptied(q, k) = q2
  BY <1>1 DEF Emptied
<1> QED BY <1>4, <1>5, <1>7, <1>12, <1>16

----------------------------------------------------------------------------
(* The search                                                              *)

\* The places of P at which a search ends.
EndsIn(P) == {n \in DOMAIN P : P[n] \in Long \/ files[P[n]] = "file"}

\* The search of the places P that ends in ends, as in Find.
FindAt(P, ends) ==
    LET first == CHOOSE n \in ends : \A m \in ends : n <= m
    IN  IF ends = {} THEN "not_found"
        ELSE IF P[first] \in Long THEN "too_small" ELSE P[first]
FindIn(P) == FindAt(P, EndsIn(P))

\* What the search gives at a place where it ends.
Given(d) == IF d \in Long THEN "too_small" ELSE d

LEMMA FindIsFindIn ==
    Find = IF files[Parent] = "file" /\ Parent \notin Long THEN Parent
           ELSE IF files[Cwd] = "file" THEN Cwd
           ELSE FindIn(Places)
BY Zenon DEF Find, FindIn, FindAt, EndsIn

\* A search that ends nowhere finds nothing; another ends at the first place it can.
LEMMA FindInEnds ==
    ASSUME NEW P \in Seq(Dir)
    PROVE  /\ EndsIn(P) = {} => FindIn(P) = "not_found"
           /\ \A n \in EndsIn(P) : (\A m \in EndsIn(P) : n <= m) => FindIn(P) = Given(P[n])
           /\ EndsIn(P) # {} => \E n \in EndsIn(P) : \A m \in EndsIn(P) : n <= m
<1>1. EndsIn(P) \in SUBSET Nat
  BY DEF EndsIn
<1>2. EndsIn(P) # {} => \E n \in EndsIn(P) : \A m \in EndsIn(P) : n <= m
  BY <1>1, LeastElement
<1>3. ASSUME EndsIn(P) = {} PROVE FindIn(P) = "not_found"
  BY <1>3, Zenon DEF FindIn, FindAt
<1>4. ASSUME NEW n \in EndsIn(P), \A m \in EndsIn(P) : n <= m
      PROVE  FindIn(P) = Given(P[n])
  <2>1. PICK first : /\ first = CHOOSE k \in EndsIn(P) : \A m \in EndsIn(P) : k <= m
                     /\ first \in EndsIn(P) /\ \A m \in EndsIn(P) : first <= m
    BY <1>4, Zenon
  <2>2. first = n
    BY <1>1, <1>4, <2>1
  <2>3. FindIn(P) = IF P[n] \in Long THEN "too_small" ELSE P[n]
    BY <1>4, <2>1, <2>2 DEF FindIn, FindAt
  <2> QED BY <2>3 DEF Given
<1> QED BY <1>2, <1>3, <1>4

\* What comes after a place where the search ends does not matter.
LEMMA FindInFront ==
    ASSUME NEW P \in Seq(Dir), NEW Q \in Seq(Dir), EndsIn(P) # {}
    PROVE  FindIn(P \o Q) = FindIn(P)
<1>1. /\ P \o Q \in Seq(Dir) /\ Len(P \o Q) = Len(P) + Len(Q)
      /\ \A i \in 1 .. Len(P) + Len(Q) : (P \o Q)[i] = IF i <= Len(P) THEN P[i] ELSE Q[i - Len(P)]
  BY ConcatProperties
<1>2. PICK n \in EndsIn(P) : \A m \in EndsIn(P) : n <= m
  BY FindInEnds
<1>3. n \in 1 .. Len(P) /\ Len(P) \in Nat /\ Len(Q) \in Nat
  BY <1>2 DEF EndsIn
<1>4. n \in EndsIn(P \o Q) /\ (P \o Q)[n] = P[n]
  BY <1>1, <1>2, <1>3 DEF EndsIn
<1>5. ASSUME NEW m \in EndsIn(P \o Q) PROVE n <= m
  <2>1. m \in 1 .. Len(P) + Len(Q)
    BY <1>1 DEF EndsIn
  <2>2. CASE m <= Len(P)
    <3>1. m \in EndsIn(P)
      BY <1>1, <1>3, <2>1, <2>2 DEF EndsIn
    <3> QED BY <1>2, <3>1
  <2> QED BY <1>3, <2>1, <2>2
<1>6. FindIn(P \o Q) = Given((P \o Q)[n])
  BY <1>1, <1>4, <1>5, FindInEnds
<1>7. FindIn(P) = Given(P[n])
  BY <1>2, FindInEnds
<1> QED BY <1>4, <1>6, <1>7

\* Places where the search does not end do not matter.
LEMMA FindInRest ==
    ASSUME NEW P \in Seq(Dir), NEW Q \in Seq(Dir), EndsIn(P) = {}
    PROVE  FindIn(P \o Q) = FindIn(Q)
<1>1. /\ P \o Q \in Seq(Dir) /\ Len(P \o Q) = Len(P) + Len(Q)
      /\ \A i \in 1 .. Len(P) + Len(Q) : (P \o Q)[i] = IF i <= Len(P) THEN P[i] ELSE Q[i - Len(P)]
  BY ConcatProperties
<1>2. Len(P) \in Nat /\ Len(Q) \in Nat
  OBVIOUS
<1>3. ASSUME NEW m \in EndsIn(P \o Q)
      PROVE  m - Len(P) \in EndsIn(Q) /\ m > Len(P) /\ m \in Nat
  <2>1. m \in 1 .. Len(P) + Len(Q)
    BY <1>1 DEF EndsIn
  <2>2. ~ (m <= Len(P))
    <3> SUFFICES ASSUME m <= Len(P) PROVE FALSE
      OBVIOUS
    <3>1. m \in EndsIn(P)
      BY <1>1, <1>2, <2>1 DEF EndsIn
    <3> QED BY <3>1
  <2>3. (P \o Q)[m] = Q[m - Len(P)] /\ m - Len(P) \in 1 .. Len(Q)
    BY <1>1, <1>2, <2>1, <2>2
  <2> QED BY <1>2, <2>1, <2>2, <2>3 DEF EndsIn
<1>4. ASSUME NEW n \in EndsIn(Q)
      PROVE  n + Len(P) \in EndsIn(P \o Q) /\ (P \o Q)[n + Len(P)] = Q[n] /\ n \in Nat
  <2>1. n \in 1 .. Len(Q)
    BY DEF EndsIn
  <2>2. /\ n + Len(P) \in 1 .. Len(P) + Len(Q) /\ ~ (n + Len(P) <= Len(P))
        /\ (n + Len(P)) - Len(P) = n
    BY <1>2, <2>1
  <2>3. (P \o Q)[n + Len(P)] = Q[n]
    BY <1>1, <2>2
  <2> QED BY <1>1, <2>1, <2>2, <2>3 DEF EndsIn
<1>5. CASE EndsIn(Q) = {}
  <2>1. EndsIn(P \o Q) = {}
    BY <1>3, <1>5
  <2>2. FindIn(P \o Q) = "not_found" /\ FindIn(Q) = "not_found"
    BY <1>1, <1>5, <2>1, FindInEnds
  <2> QED BY <2>2
<1>6. CASE EndsIn(Q) # {}
  <2>1. PICK n \in EndsIn(Q) : \A m \in EndsIn(Q) : n <= m
    BY <1>6, FindInEnds
  <2>2. PICK h : h = n + Len(P)
    OBVIOUS
  <2>3. h \in EndsIn(P \o Q) /\ (P \o Q)[h] = Q[n] /\ n \in Nat
    BY <1>4, <2>1, <2>2
  <2>4. ASSUME NEW m \in EndsIn(P \o Q) PROVE h <= m
    <3>1. m - Len(P) \in EndsIn(Q) /\ m \in Nat
      BY <1>3
    <3>2. n <= m - Len(P)
      BY <2>1, <3>1
    <3> QED BY <1>2, <2>2, <2>3, <3>1, <3>2
  <2>5. FindIn(P \o Q) = Given((P \o Q)[h])
    BY <1>1, <2>3, <2>4, FindInEnds
  <2>6. FindIn(Q) = Given(Q[n])
    BY <2>1, FindInEnds
  <2> QED BY <2>3, <2>5, <2>6
<1> QED BY <1>5, <1>6

\* A search that changes when p is taken out ended in p.
LEMMA FindWithout ==
    ASSUME NEW front \in Seq(Dir), NEW p \in Seq(Dir), NEW b \in Seq(Dir),
           FindIn(front \o (p \o b)) # FindIn(front \o b)
    PROVE  \E n \in EndsIn(p) : FindIn(front \o (p \o b)) = Given(p[n])
<1>1. p \o b \in Seq(Dir)
  BY ConcatProperties
<1>2. EndsIn(front) = {}
  <2> SUFFICES ASSUME EndsIn(front) # {} PROVE FALSE
    OBVIOUS
  <2>1. FindIn(front \o (p \o b)) = FindIn(front)
    BY <1>1, FindInFront
  <2>2. FindIn(front \o b) = FindIn(front)
    BY FindInFront
  <2> QED BY <2>1, <2>2
<1>3. FindIn(front \o (p \o b)) = FindIn(p \o b)
  BY <1>1, <1>2, FindInRest
<1>4. FindIn(front \o b) = FindIn(b)
  BY <1>2, FindInRest
<1>5. EndsIn(p) # {}
  <2> SUFFICES ASSUME EndsIn(p) = {} PROVE FALSE
    OBVIOUS
  <2>1. FindIn(p \o b) = FindIn(b)
    BY FindInRest
  <2> QED BY <1>3, <1>4, <2>1
<1>6. FindIn(p \o b) = FindIn(p)
  BY <1>5, FindInFront
<1>7. PICK n \in EndsIn(p) : FindIn(p) = Given(p[n])
  BY <1>5, FindInEnds
<1> QED BY <1>3, <1>6, <1>7

----------------------------------------------------------------------------
(* The paths                                                               *)

PathInv == cgio_paths \in Seq(Path \cup {NULL})

PathsListed(paths) == [n \in DOMAIN paths |-> Listed(paths[n])]

LEMMA ListedAreLists ==
    ASSUME NEW paths \in Seq(Path \cup {NULL})
    PROVE  /\ PathsListed(paths) \in Seq(Seq(Dir)) /\ Len(PathsListed(paths)) = Len(paths)
           /\ \A n \in 1 .. Len(paths) : PathsListed(paths)[n] = Listed(paths[n])
<1>1. paths \in [1 .. Len(paths) -> Path \cup {NULL}] /\ Len(paths) \in Nat
  OBVIOUS
<1>2. \A n \in 1 .. Len(paths) : Listed(paths[n]) \in Seq(Dir)
  BY <1>1, PathAssumption DEF Listed
<1>3. PathsListed(paths) = [n \in 1 .. Len(paths) |-> Listed(paths[n])]
  BY <1>1 DEF PathsListed
<1> QED BY <1>1, <1>2, <1>3

LEMMA AddIsAppend ==
    ASSUME PathInv, NEW p \in Path, AddPath(p)
    PROVE  /\ Places \in Seq(Dir) /\ p \in Seq(Dir) /\ Places' = Places \o p
           /\ files' = files /\ cgio_paths' \in Seq(Path \cup {NULL})
<1> DEFINE q == PathsListed(cgio_paths)
<1>1. cgio_paths \in Seq(Path \cup {NULL}) /\ cgio_paths' = Append(cgio_paths, p)
  BY DEF PathInv, AddPath, Added
<1>2. cgio_paths' \in Seq(Path \cup {NULL})
  BY <1>1
<1>3. p \in Seq(Dir) /\ Listed(p) = p /\ LinkEnv \in Seq(Dir)
  BY PathAssumption DEF Listed
<1>4. q \in Seq(Seq(Dir)) /\ Len(q) = Len(cgio_paths)
  BY <1>1, ListedAreLists
<1>5. PathsListed(cgio_paths') = Append(q, p)
  <2>1. /\ Len(cgio_paths') = Len(cgio_paths) + 1 /\ Len(cgio_paths) \in Nat
        /\ \A n \in 1 .. Len(cgio_paths) : cgio_paths'[n] = cgio_paths[n]
        /\ cgio_paths'[Len(cgio_paths) + 1] = p
    BY <1>1
  <2>2. /\ PathsListed(cgio_paths') \in Seq(Seq(Dir))
        /\ Len(PathsListed(cgio_paths')) = Len(cgio_paths')
        /\ \A n \in 1 .. Len(cgio_paths') : PathsListed(cgio_paths')[n] = Listed(cgio_paths'[n])
    <3>1. PICK ps : ps = cgio_paths'
      OBVIOUS
    <3> QED BY <1>2, <3>1, ListedAreLists
  <2>3. /\ Append(q, p) \in Seq(Seq(Dir)) /\ Len(Append(q, p)) = Len(q) + 1
        /\ \A n \in 1 .. Len(q) : Append(q, p)[n] = q[n]
        /\ Append(q, p)[Len(q) + 1] = p
    BY <1>3, <1>4, AppendProperties
  <2>4. \A n \in 1 .. Len(cgio_paths) : q[n] = Listed(cgio_paths[n])
    BY <1>1, ListedAreLists
  <2>5. ASSUME NEW n \in 1 .. Len(cgio_paths')
        PROVE  PathsListed(cgio_paths')[n] = Append(q, p)[n]
    <3> HIDE DEF q
    <3>1. CASE n = Len(cgio_paths) + 1
      BY <1>3, <1>4, <2>1, <2>2, <2>3, <3>1
    <3>2. CASE n \in 1 .. Len(cgio_paths)
      BY <1>4, <2>1, <2>2, <2>3, <2>4, <3>2
    <3>3. PICK l \in Nat : l = Len(cgio_paths) /\ Len(cgio_paths') = l + 1
      BY <2>1
    <3>4. n = l + 1 \/ n \in 1 .. l
      BY <3>3
    <3> QED BY <3>1, <3>2, <3>3, <3>4, Zenon
  <2> HIDE DEF q
  <2> QED BY <1>4, <2>1, <2>2, <2>3, <2>5, SeqEqual
<1>6. FlattenSeq(Append(q, p)) = FlattenSeq(q) \o p /\ FlattenSeq(q) \in Seq(Dir)
  BY <1>3, <1>4, FlattenAppended
<1>7. Places = LinkEnv \o FlattenSeq(q) /\ Places' = LinkEnv \o FlattenSeq(PathsListed(cgio_paths'))
  BY DEF Places, PathsListed
<1>8. (LinkEnv \o FlattenSeq(q)) \o p = LinkEnv \o (FlattenSeq(q) \o p)
  <2> HIDE DEF q
  <2>1. \A s, t, u \in Seq(Dir) : (s \o t) \o u = s \o (t \o u)
    BY SMTT(60), Regrouped
  <2> QED BY <1>3, <1>6, <2>1
<1>9. Places \in Seq(Dir)
  BY <1>3, <1>6, <1>7
<1> QED BY <1>2, <1>3, <1>5, <1>6, <1>7, <1>8, <1>9 DEF AddPath, Called

LEMMA DeleteIsCut ==
    ASSUME PathInv, NEW p \in Path, DeletePath(p)
    PROVE  /\ files' = files /\ cgio_paths' \in Seq(Path \cup {NULL})
           /\ \/ cgio_paths' = cgio_paths
              \/ \E front, b \in Seq(Dir) : Places = front \o (p \o b) /\ Places' = front \o b
<1> DEFINE q == PathsListed(cgio_paths)
           same == {n \in DOMAIN cgio_paths : cgio_paths[n] = p}
<1>1. cgio_paths \in Seq(Path \cup {NULL}) /\ files' = files
  BY DEF PathInv, DeletePath, Called
<1>4. \A s \in Seq(Seq(Dir)) : \A h \in 1 .. Len(s) :
         \E a, b \in Seq(Dir) : /\ FlattenSeq(s) = a \o (s[h] \o b)
                                /\ FlattenSeq(Emptied(s, h)) = a \o b
  <2> HIDE DEF q
  <2> QED BY ZenonT(60), FlattenEmptied
<1>2. CASE same = {}
  BY <1>1, <1>2 DEF DeletePath, Deleted
<1>3. CASE same # {}
  <2>1. same \in SUBSET Nat
    BY <1>1
  <2>2. \E n \in same : \A m \in same : n <= m
    <3> HIDE DEF same
    <3> QED BY <1>3, <2>1, LeastElement
  <2>3. PICK k : k = CHOOSE n \in same : \A m \in same : n <= m
    OBVIOUS
  <2>4. k \in same
    <3> HIDE DEF same
    <3> QED BY <2>2, <2>3, Zenon
  <2>5. k \in 1 .. Len(cgio_paths) /\ cgio_paths[k] = p /\ Len(cgio_paths) \in Nat
    BY <1>1, <2>4
  <2>6. cgio_paths' = [cgio_paths EXCEPT ![k] = NULL]
    <3>1. Deleted(cgio_paths, p) = [cgio_paths EXCEPT ![k] = NULL]
      BY <1>3, <2>3, Zenon DEF Deleted
    <3> QED BY <3>1 DEF DeletePath
  <2>7. cgio_paths' \in Seq(Path \cup {NULL}) /\ Len(cgio_paths') = Len(cgio_paths)
    BY <1>1, <2>5, <2>6
  <2>8. p \in Seq(Dir) /\ Listed(p) = p /\ Listed(NULL) = <<>> /\ LinkEnv \in Seq(Dir)
    BY PathAssumption DEF Listed
  <2>9. /\ q \in Seq(Seq(Dir)) /\ Len(q) = Len(cgio_paths)
        /\ \A n \in 1 .. Len(cgio_paths) : q[n] = Listed(cgio_paths[n])
    BY <1>1, ListedAreLists
  <2>10. PathsListed(cgio_paths') = Emptied(q, k)
    <3>1. /\ PathsListed(cgio_paths') \in Seq(Seq(Dir))
          /\ Len(PathsListed(cgio_paths')) = Len(cgio_paths)
          /\ \A n \in 1 .. Len(cgio_paths) : PathsListed(cgio_paths')[n] = Listed(cgio_paths'[n])
      <4>1. PICK ps : ps = cgio_paths'
        OBVIOUS
      <4> QED BY <2>7, <4>1, ListedAreLists
    <3> HIDE DEF q
    <3>2. /\ Emptied(q, k) \in Seq(Seq(Dir)) /\ Len(Emptied(q, k)) = Len(q)
          /\ \A n \in 1 .. Len(q) : Emptied(q, k)[n] = IF n = k THEN <<>> ELSE q[n]
      BY <2>5, <2>9 DEF Emptied
    <3>3. \A n \in 1 .. Len(cgio_paths) :
             cgio_paths'[n] = IF n = k THEN NULL ELSE cgio_paths[n]
      BY <1>1, <2>6
    <3>4. ASSUME NEW n \in 1 .. Len(cgio_paths)
          PROVE  PathsListed(cgio_paths')[n] = Emptied(q, k)[n]
      <4>1. CASE n = k
        BY <2>8, <2>9, <3>1, <3>2, <3>3, <4>1
      <4>2. CASE n # k
        BY <2>9, <3>1, <3>2, <3>3, <4>2
      <4> QED BY <4>1, <4>2
    <3> QED BY <2>9, <3>1, <3>2, <3>4, SeqEqual
  <2>11. q[k] = p /\ k \in 1 .. Len(q)
    BY <2>5, <2>8, <2>9
  <2>12. PICK a, b \in Seq(Dir) : /\ FlattenSeq(q) = a \o (q[k] \o b)
                                  /\ FlattenSeq(Emptied(q, k)) = a \o b
    <3> HIDE DEF q
    <3>1. PICK s : s = q
      OBVIOUS
    <3>2. s \in Seq(Seq(Dir)) /\ k \in 1 .. Len(s)
      BY <2>9, <2>11, <3>1, Zenon
    <3>3. \E a, b \in Seq(Dir) : /\ FlattenSeq(s) = a \o (s[k] \o b)
                                 /\ FlattenSeq(Emptied(s, k)) = a \o b
      BY <1>4, <3>2, Zenon
    <3> QED BY <3>1, <3>3, Zenon
  <2>13. /\ Places = LinkEnv \o (a \o (p \o b))
         /\ Places' = LinkEnv \o (a \o b)
    <3>1. /\ Places = LinkEnv \o FlattenSeq(q)
          /\ Places' = LinkEnv \o FlattenSeq(PathsListed(cgio_paths'))
      BY DEF Places, PathsListed
    <3> HIDE DEF q
    <3> QED BY <2>10, <2>11, <2>12, <3>1
  <2>14. /\ LinkEnv \o a \in Seq(Dir) /\ p \o b \in Seq(Dir)
         /\ LinkEnv \o (a \o (p \o b)) = (LinkEnv \o a) \o (p \o b)
         /\ LinkEnv \o (a \o b) = (LinkEnv \o a) \o b
    <3>1. \A s, t, u \in Seq(Dir) : (s \o t) \o u = s \o (t \o u)
      BY Regrouped, SMTT(60)
    <3>2. LinkEnv \o a \in Seq(Dir) /\ p \o b \in Seq(Dir)
      BY <2>8, <2>12
    <3> HIDE DEF q
    <3> QED BY <2>8, <2>12, <3>1, <3>2, ZenonT(90)
  <2> HIDE DEF q, same
  <2> QED BY <1>1, <2>7, <2>12, <2>13, <2>14
<1> QED BY <1>2, <1>3

LEMMA PathInvAlways == PathSpec => []PathInv
<1>1. PathInit => PathInv
  BY DEF PathInit, PathInv
<1>2. PathInv /\ [PathNext]_pathVars => PathInv'
  <2> SUFFICES ASSUME PathInv, [PathNext]_pathVars PROVE cgio_paths' \in Seq(Path \cup {NULL})
    BY DEF PathInv
  <2>1. ASSUME NEW p \in Path \cup {NULL}, SetPath(p) PROVE cgio_paths' \in Seq(Path \cup {NULL})
    <3>1. <<>> \in Seq(Path \cup {NULL})
      OBVIOUS
    <3>2. Append(<<>>, p) \in Seq(Path \cup {NULL})
      BY <3>1, AppendProperties, Zenon
    <3> QED BY <2>1, <3>1, <3>2, Zenon DEF SetPath, Added
  <2>2. ASSUME NEW p \in Path, AddPath(p) PROVE cgio_paths' \in Seq(Path \cup {NULL})
    BY <2>2, AddIsAppend
  <2>3. ASSUME NEW p \in Path, DeletePath(p) PROVE cgio_paths' \in Seq(Path \cup {NULL})
    BY <2>3, DeleteIsCut
  <2>4. CASE UNCHANGED cgio_paths
    BY <2>4 DEF PathInv
  <2>5. ASSUME NEW p \in Path \cup {NULL}, SetPathCall(p) PROVE SetPath(p)
    BY <2>5 DEF SetPathCall
  <2>6. ASSUME NEW option, NEW p \in Path \cup {NULL}, Configure(option, p) PROVE SetPath(p)
    BY <2>6 DEF Configure
  <2>7. ASSUME NEW d, NEW what, FileChanges(d, what) PROVE UNCHANGED cgio_paths
    BY <2>7 DEF FileChanges
  <2>8. UNCHANGED pathVars => UNCHANGED cgio_paths
    BY DEF pathVars
  <2>9. CASE PathNext
    <3>1. CASE \E p \in Path : AddPath(p) \/ DeletePath(p)
      BY <2>2, <2>3, <3>1
    <3>2. CASE \E p \in Path \cup {NULL} : SetPath(p)
      BY <2>1, <3>2
    <3>3. \/ \E p \in Path : AddPath(p) \/ DeletePath(p)
          \/ \E p \in Path \cup {NULL} : SetPath(p)
          \/ UNCHANGED cgio_paths
      BY <2>5, <2>6, <2>7, <2>9 DEF PathNext
    <3> QED BY <2>4, <3>1, <3>2, <3>3
  <2> QED BY <2>4, <2>8, <2>9
<1> QED BY <1>1, <1>2, PTL DEF PathSpec

\* A link that was found in the list is found at the same place after a path was put
\* behind it.
THEOREM AddingKeepsLinks == PathSpec => AddKeepsLinks
<1>1. PathInv /\ [PathNext]_pathVars
        => [call' = "add" /\ Find \in Dir => Find' = Find]_pathVars
  <2> SUFFICES ASSUME PathInv, PathNext, call' = "add", Find \in Dir PROVE Find' = Find
    OBVIOUS
  <2>1. PICK p \in Path : AddPath(p)
    BY DEF PathNext, AddPath, DeletePath, SetPathCall, Configure, FileChanges, Called
  <2>2. /\ Places \in Seq(Dir) /\ p \in Seq(Dir) /\ Places' = Places \o p /\ files' = files
    BY <2>1, AddIsAppend
  <2>3. FindIn(Places)' = FindIn(Places \o p)
    BY <2>2 DEF FindIn, EndsIn
  <2>4. CASE files[Parent] = "file" /\ Parent \notin Long
    BY <2>2, <2>4 DEF Find
  <2>5. CASE ~ (files[Parent] = "file" /\ Parent \notin Long) /\ files[Cwd] = "file"
    BY <2>2, <2>5 DEF Find
  <2>6. CASE ~ (files[Parent] = "file" /\ Parent \notin Long) /\ files[Cwd] # "file"
    <3>1. Find = FindIn(Places)
      BY <2>6, FindIsFindIn
    <3>2. Find' = FindIn(Places)'
      BY <2>2, <2>6, Zenon DEF Find, FindIn, FindAt, EndsIn
    <3>3. EndsIn(Places) # {}
      BY <2>2, <3>1, FindInEnds, PathAssumption
    <3>4. FindIn(Places \o p) = FindIn(Places)
      BY <2>2, <3>3, FindInFront
    <3> QED BY <2>3, <3>1, <3>2, <3>4
  <2> QED BY <2>4, <2>5, <2>6
<1> QED BY PathInvAlways, <1>1, PTL DEF PathSpec, AddKeepsLinks

\* A link that leads elsewhere after a path was deleted was found in that path, or was
\* stopped by a name too long in it.
THEOREM DeletingKeepsOthers == PathSpec => DeleteKeepsOtherLinks
<1> DEFINE Kept == call' = "delete" /\ Find' # Find =>
              \E p \in Path :
                 /\ cgio_paths' = Deleted(cgio_paths, p) /\ cgio_paths' # cgio_paths
                 /\ IF Find = "too_small" THEN Range(p) \cap Long # {}
                                          ELSE Find \in Range(p)
<1>1. PathInv /\ [PathNext]_pathVars => [Kept]_pathVars
  <2> SUFFICES ASSUME PathInv, PathNext, call' = "delete", Find' # Find
               PROVE  \E p \in Path :
                         /\ cgio_paths' = Deleted(cgio_paths, p) /\ cgio_paths' # cgio_paths
                         /\ IF Find = "too_small" THEN Range(p) \cap Long # {}
                                                  ELSE Find \in Range(p)
    OBVIOUS
  <2>1. PICK p \in Path : DeletePath(p)
    BY DEF PathNext, AddPath, DeletePath, SetPathCall, Configure, FileChanges, Called
  <2>2. files' = files /\ cgio_paths' = Deleted(cgio_paths, p)
    BY <2>1 DEF DeletePath, Called
  <2>3. cgio_paths' # cgio_paths
    <3> SUFFICES ASSUME cgio_paths' = cgio_paths PROVE FALSE
      OBVIOUS
    <3>1. Places' = Places
      BY DEF Places
    <3>2. Find' = Find
      <4>1. FindIn(Places)' = FindIn(Places)
        <5>1. PICK P : P = Places /\ Places' = P
          BY <3>1
        <5>2. EndsIn(Places)' = EndsIn(P)
          BY <2>2, <5>1 DEF EndsIn
        <5>3. FindIn(Places)' = FindIn(P)
          BY <5>1, <5>2, ZenonT(90) DEF FindIn
        <5> QED BY <5>1, <5>3, Zenon
      <4>2. CASE (files[Parent] = "file" /\ Parent \notin Long) \/ files[Cwd] = "file"
        BY <2>2, <4>2, ZenonT(60) DEF Find
      <4>3. CASE ~ (files[Parent] = "file" /\ Parent \notin Long) /\ files[Cwd] # "file"
        <5>1. Find' = FindIn(Places)'
          BY <2>2, <4>3, Zenon DEF Find, FindIn, FindAt, EndsIn
        <5>2. Find = FindIn(Places)
          BY <4>3, FindIsFindIn
        <5> QED BY <4>1, <5>1, <5>2
      <4> QED BY <4>2, <4>3
    <3> QED BY <3>2
  <2>4. PICK front, b \in Seq(Dir) : Places = front \o (p \o b) /\ Places' = front \o b
    BY <2>1, <2>3, DeleteIsCut
  <2>5. p \in Seq(Dir)
    BY PathAssumption
  <2>6. ~ (files[Parent] = "file" /\ Parent \notin Long) /\ files[Cwd] # "file"
    BY <2>2 DEF Find
  <2>7. Find = FindIn(Places)
    BY <2>6, FindIsFindIn
  <2>8. Find' = FindIn(Places)'
    BY <2>2, <2>6, Zenon DEF Find, FindIn, FindAt, EndsIn
  <2>9. FindIn(Places)' = FindIn(front \o b)
    BY <2>2, <2>4 DEF FindIn, EndsIn
  <2>10. FindIn(front \o (p \o b)) # FindIn(front \o b)
    BY <2>4, <2>7, <2>8, <2>9
  <2>11. PICK n \in EndsIn(p) : Find = Given(p[n])
    BY <2>4, <2>5, <2>7, <2>10, FindWithout
  <2>12. n \in DOMAIN p /\ p[n] \in Range(p) /\ p[n] \in Dir
    BY <2>5, <2>11 DEF EndsIn, Range
  <2>13. IF Find = "too_small" THEN Range(p) \cap Long # {} ELSE Find \in Range(p)
    <3>1. p[n] # "too_small"
      BY <2>12, PathAssumption
    <3> QED BY <2>11, <2>12, <3>1 DEF Given
  <2> QED BY <2>2, <2>3, <2>13
<1> QED BY PathInvAlways, <1>1, PTL DEF PathSpec, DeleteKeepsOtherLinks
=============================================================================
