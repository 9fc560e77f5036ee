---------------------------- MODULE CgioRewrite ----------------------------
(***************************************************************************)
(* Rewriting a database to drop its unused space: cgio_compress_file and   *)
(* rewrite_file of src/src/cgns_io.c, which cg_close calls, one system     *)
(* call or library call to a step, with a crash between any two.  What     *)
(* CgioFiles has as the single step CompressFile on the table is here the  *)
(* sequence of effects on the directory.                                   *)
(*                                                                         *)
(* One database is followed, under the name "file".  The path the program  *)
(* gives may be a symbolic link to it; rewrite_file then works on the text *)
(* of the link, which names "file" only if the link lies in the directory  *)
(* the program runs in, or holds a full path ("beside").  Otherwise        *)
(* ("elsewhere") it names another file of that directory, "other".         *)
(***************************************************************************)
EXTENDS Integers

CONSTANTS Absent,       \* no such file
          MaxVersion    \* bound: contents the program writes

ASSUME VersionAssumption == MaxVersion \in Nat \ {0}

Link == {"none", "beside", "elsewhere"}
FileName == {"file", "file.temp", "other", "other.temp"}

VARIABLES
    disk,     \* name -> Absent, or the database of that name
    link,     \* what the path given to the library is
    step,     \* what is done next, "idle" outside of the library
    copied,   \* ierr of rewrite_file after recurse_nodes: the copy is complete
    rc,       \* what the call returned
    version,  \* number of the last content written
    saved,    \* the content a flush has reported safe, 0 if there is none
    sealed    \* no close of a copy has been refused since

vars == <<disk, link, step, copied, rc, version, saved, sealed>>

\* A database: its content, whether all of it has reached the disk, and
\* whether it has been rewritten since it was last modified.
Database == [version : 0 .. MaxVersion, whole : BOOLEAN, compact : BOOLEAN]
ASSUME AbsentAssumption == Absent \notin Database

Db(v, whole, compact) == [version |-> v, whole |-> whole, compact |-> compact]

\* filename or, when the path is a link, linkfile; and tmpfile.
Dest == IF link = "elsewhere" THEN "other" ELSE "file"
Temp == IF link = "elsewhere" THEN "other.temp" ELSE "file.temp"

Put(name, db) == disk' = [disk EXCEPT ![name] = db]
Goto(s) == step' = s /\ UNCHANGED <<link, version, rc>>

IsWhole(name) == disk[name] # Absent /\ disk[name].whole

----------------------------------------------------------------------------
\* The program: a database made with CGIO_MODE_WRITE, or one opened with
\* CGIO_MODE_MODIFY, is changed in place and handed to cgio_compress_file.
Change(db) ==
    /\ step = "idle"
    /\ version < MaxVersion
    /\ version' = version + 1
    /\ Put("file", db)
    /\ step' = "flush" /\ rc' = "none"
    /\ saved' = 0 /\ sealed' = TRUE
    /\ UNCHANGED <<link, copied>>

Create == link = "none" /\ Change(Db(version + 1, FALSE, FALSE))
Modify == IsWhole("file") /\ Change(Db(version + 1, FALSE, FALSE))

----------------------------------------------------------------------------
\* cgio_flush_to_disk of the input; a refusal ends the rewrite.
Flush ==
    /\ step = "flush"
    /\ \/ /\ Put("file", [disk["file"] EXCEPT !.whole = TRUE])
          /\ saved' = version
          /\ Goto("unlink_temp")
       \/ /\ Goto("fail")
          /\ UNCHANGED <<disk, saved>>
    /\ UNCHANGED <<copied, sealed>>

\* Mutant: the database itself is removed before it is copied.
UnlinkDestFirst ==
    /\ step = "unlink_temp"
    /\ Put(Dest, Absent)
    /\ Goto("open_temp")
    /\ UNCHANGED <<copied, saved, sealed>>

UnlinkTemp ==
    /\ step = "unlink_temp"
    /\ Put(Temp, Absent)
    /\ Goto("open_temp")
    /\ UNCHANGED <<copied, saved, sealed>>

\* cgio_open_file(tmpfile, CGIO_MODE_WRITE, ...)
OpenTemp ==
    /\ step = "open_temp"
    /\ \/ /\ Put(Temp, Db(version, FALSE, TRUE))
          /\ Goto("copy")
       \/ /\ Put(Temp, Absent)
          /\ Goto("fail")
    /\ UNCHANGED <<copied, saved, sealed>>

\* recurse_nodes, which may fail half way.
Copy ==
    /\ step = "copy"
    /\ copied' \in BOOLEAN
    /\ Goto("close_temp")
    /\ UNCHANGED <<disk, saved, sealed>>

\* Mutant: the result of the copy is not looked at either.
CloseTempGoesOn ==
    /\ step = "close_temp"
    /\ Goto("close_input")
    /\ \/ /\ Put(Temp, [disk[Temp] EXCEPT !.whole = copied])
          /\ UNCHANGED sealed
       \/ /\ sealed' = ~ copied
          /\ UNCHANGED disk
    /\ UNCHANGED <<copied, saved>>

\* cgio_close_file(cgout) writes what is still buffered.  Its result is not
\* looked at.
CloseTemp ==
    /\ step = "close_temp"
    /\ Goto(IF copied THEN "close_input" ELSE "abandon_temp")
    /\ \/ /\ Put(Temp, [disk[Temp] EXCEPT !.whole = copied])
          /\ UNCHANGED sealed
       \/ /\ sealed' = ~ copied
          /\ UNCHANGED disk
    /\ UNCHANGED <<copied, saved>>

\* Mutant: the unfinished copy is left behind.
LeaveTemp ==
    /\ step = "abandon_temp"
    /\ Goto("fail")
    /\ UNCHANGED <<disk, copied, saved, sealed>>

AbandonTemp ==
    /\ step = "abandon_temp"
    /\ Put(Temp, Absent)
    /\ Goto("fail")
    /\ UNCHANGED <<copied, saved, sealed>>

\* cgio_close_file(cginp): all of it was flushed, so the disk keeps as it is
\* whether the close is refused or not.
CloseInput ==
    /\ step = "close_input"
    /\ Goto("unlink_dest")
    /\ UNCHANGED <<disk, copied, saved, sealed>>

UnlinkDest ==
    /\ step = "unlink_dest"
    /\ Put(Dest, Absent)
    /\ Goto("rename")
    /\ UNCHANGED <<copied, saved, sealed>>

Return(code) ==
    /\ step' = "idle" /\ rc' = code
    /\ UNCHANGED <<link, copied, version, saved, sealed>>

Rename ==
    /\ step = "rename"
    /\ \/ /\ disk' = [disk EXCEPT ![Dest] = disk[Temp], ![Temp] = Absent]
          /\ Return("ok")
       \/ /\ UNCHANGED disk
          /\ Return("error")

\* cgio_compress_file after a failed rewrite: the input is closed.
Fail ==
    /\ step = "fail"
    /\ UNCHANGED disk
    /\ Return("error")

\* The process dies: what is on disk stays.
Crash ==
    /\ step # "idle"
    /\ UNCHANGED disk
    /\ Return("none")

Rewrite == Flush \/ UnlinkTemp \/ OpenTemp \/ Copy \/ CloseTemp \/ AbandonTemp
           \/ CloseInput \/ UnlinkDest \/ Rename \/ Fail

Init ==
    /\ link \in Link
    /\ disk \in [FileName -> {Absent, Db(0, TRUE, FALSE)}]
    /\ disk["file"] # Absent /\ disk["file.temp"] = Absent /\ disk["other.temp"] = Absent
    /\ step = "idle" /\ rc = "none"
    /\ copied = FALSE /\ sealed = TRUE
    /\ version = 0 /\ saved = 0

Next == Create \/ Modify \/ Rewrite \/ Crash

Spec == Init /\ [][Next]_vars

----------------------------------------------------------------------------
\* Types: a rewrite is at one of its steps, and what a flush has saved was
\* written before.
TypeOK ==
    /\ disk \in [FileName -> Database \cup {Absent}]
    /\ link \in Link
    /\ step \in {"idle", "flush", "unlink_temp", "open_temp", "copy", "close_temp",
                 "abandon_temp", "close_input", "unlink_dest", "rename", "fail"}
    /\ rc \in {"none", "ok", "error"}
    /\ copied \in BOOLEAN /\ sealed \in BOOLEAN
    /\ version \in 0 .. MaxVersion /\ saved \in 0 .. version

\* A content that the flush at the start of a rewrite reported safe is never
\* lost: wherever the rewrite fails or the process dies, the whole of it is on
\* disk, under the name of the database or of the temporary file.  The one
\* exception is a copy whose close was refused.
HoldsSaved(name) == IsWhole(name) /\ disk[name].version = saved
SavedSurvives ==
    saved # 0 /\ sealed => HoldsSaved("file") \/ HoldsSaved(Temp)

\* Under its own name the database changes during a rewrite in two ways only:
\* it goes away while a copy stands ready, or it comes back as the same
\* content, rewritten.  No half-copied file ever appears there.
ReplacedByWholeCopy ==
    [][step \notin {"idle", "flush"} /\ sealed /\ disk'["file"] # disk["file"] =>
          \/ disk'["file"] = Absent /\ HoldsSaved(Temp)
          \/ disk'["file"] = Db(saved, TRUE, TRUE)]_vars

\* A call that fails gives back everything it took: unless the rename itself
\* failed, the database is under its name and no temporary file is left.
FailureIsClean ==
    [][step = "fail" /\ rc' = "error" /\ saved > 0 =>
          disk[Temp] = Absent /\ HoldsSaved("file")]_vars
============================================================================
