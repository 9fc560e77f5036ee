------------------------------ MODULE MllFiles ------------------------------
(***************************************************************************)
(* The open files of the mid-level library: cgns_files, n_cgns_files (the  *)
(* length of cgns_files here), n_open and the global                       *)
(* settings, with cg_open, cg_close, cg_is_cgns, cg_save_as and            *)
(* cg_set_file_type of src/src/cgnslib.c, over the table of CgioFiles.     *)
(*                                                                         *)
(* A file number is a position in cgns_files here; the offset that is      *)
(* added to it, which differs between sessions, is left out.               *)
(***************************************************************************)
EXTENDS CgioFiles

CONSTANTS HDF5,             \* CG_FILE_HDF5
          FileName,
          Absent,           \* no such file
          MaxFiles,         \* bound: files opened in one session
          CompressSettings  \* values a program gives cg_set_compress

ASSUME MllAssumption ==
    HDF5 \in FileType /\ MaxFiles \in Nat \ {0} /\ CompressSettings \subseteq Int

CLOSED == "closed"          \* CG_MODE_CLOSED
DefaultType == HDF5         \* of a build with HDF5, CGNS_FILETYPE not set
MaxDeleted == 1             \* bound of cg->deleted

VARIABLES cgns_files, n_open,
          cgns_filetype, cgns_compress,
          disk,             \* name -> Absent, or its type and whether it has a
                            \* CGNSLibraryVersion node
          ret               \* of the last call

mllVars == <<cgns_files, n_open, cgns_filetype, cgns_compress, disk, ret>>
settings == <<cgns_filetype, cgns_compress>>
vars == <<cgioVars, mllVars>>

IsOpen(i) == i \in DOMAIN cgns_files /\ cgns_files[i].mode # CLOSED
OpenNow == {i \in DOMAIN cgns_files : cgns_files[i].mode # CLOSED}

Result(op, ok, i) == [op |-> op, ok |-> ok, file |-> i]
NoResult == Result("none", TRUE, 0)

\* Root ids are compared for equality only and stand for openings here: any
\* one that is neither open nor listed in cgns_files will do for the next.
FreeRoots == RootId \ (backend \cup {cgns_files[i].rootid : i \in DOMAIN cgns_files})
NewRoot == CHOOSE r \in FreeRoots : TRUE

\* Mutant: the call closes the first file of the table instead of its own.
OpenAndCloseFirst == CloseFile(1)

\* A database opened and closed by one call: the table is as long as if it had
\* stayed open, unless the close was that of the last file.
OpenAndClose ==
    /\ iolist' = IF num_open = 0 THEN <<>>
                 ELSE Store(iolist, FirstFree(iolist), FreeSlot)
    /\ UNCHANGED <<num_open, backend, abandoned>>

----------------------------------------------------------------------------
\* cg_set_file_type, also with CG_FILE_NONE.
SetFileType(t) ==
    /\ cgns_filetype' = IF t = NONE THEN DefaultType ELSE t
    /\ ret' = NoResult
    /\ UNCHANGED <<cgioVars, cgns_files, n_open, cgns_compress, disk>>

\* cg_set_compress
SetCompress(c) ==
    /\ cgns_compress' = c
    /\ ret' = NoResult
    /\ UNCHANGED <<cgioVars, cgns_files, n_open, cgns_filetype, disk>>

\* cgi_open: CG_MODE_WRITE sets the file type that is not set yet.
FileTypeFor(m) ==
    IF m = WRITE /\ cgns_filetype = NONE THEN DefaultType ELSE cgns_filetype

\* cgio_open_file takes an existing file for HDF5 without a look when that is
\* the type asked for, and finds out its type otherwise.
OpensAs(name) == IF cgns_filetype = HDF5 THEN HDF5 ELSE disk[name].type

\* The call of cgio_open_file in cgi_open fails: the file is absent or not of
\* the type it is taken for, or the backend refuses it.
OpenRefused(name, m) ==
    /\ cgns_filetype' = FileTypeFor(m)
    /\ disk' = IF m = WRITE THEN [disk EXCEPT ![name] = Absent] ELSE disk
    /\ ret' = Result("open", FALSE, 0)
    /\ UNCHANGED <<cgioVars, cgns_files, n_open, cgns_compress>>

\* The rest of cgi_open may still fail (complete is FALSE): the version is too
\* new, the version node is not written, or cgi_read finds a flaw.  The file is
\* in cgns_files by then and stays there.
Open(name, m, complete) ==
    LET r == NewRoot
        type == IF m = WRITE THEN FileTypeFor(m) ELSE OpensAs(name)
        file == [mode |-> m, cgio |-> FirstFree(Table), rootid |-> r, deleted |-> 0]
    IN  /\ Len(cgns_files) < MaxFiles /\ FreeRoots # {}
        /\ m # WRITE => disk[name] # Absent /\ disk[name].type = type
        /\ OpenFile(r, type, m)
        /\ n_open' = n_open + 1
        /\ cgns_files' = Append(cgns_files, file)
        /\ cgns_filetype' = FileTypeFor(m)
        /\ disk' = IF m = WRITE
                   THEN [disk EXCEPT ![name] = [type |-> type, cgns |-> complete]]
                   ELSE disk
        /\ ret' = Result("open", complete, Len(cgns_files'))
        /\ UNCHANGED cgns_compress

\* A node of a file open in CG_MODE_MODIFY is deleted or overwritten.
DeleteNode(i) ==
    /\ IsOpen(i)
    /\ cgns_files[i].mode = MODIFY
    /\ cgns_files[i].deleted < MaxDeleted
    /\ cgns_files' = [cgns_files EXCEPT ![i].deleted = @ + 1]
    /\ ret' = NoResult
    /\ UNCHANGED <<cgioVars, n_open, settings, disk>>

----------------------------------------------------------------------------
\* cg_close, once the cgio file is closed.
Forget(i) ==
    /\ n_open' = n_open - 1
    /\ IF n_open' = 0
       THEN cgns_files' = <<>>
       ELSE cgns_files' = [cgns_files EXCEPT ![i].mode = CLOSED]

\* Mutant: a close that fails is counted.
KeepButCount == n_open' = n_open - 1 /\ UNCHANGED cgns_files

Keep == UNCHANGED <<cgns_files, n_open>>

Rewrites(f) ==
    /\ cgns_compress # 0
    /\ f.mode = MODIFY
    /\ f.deleted >= cgns_compress \/ cgns_compress < 0

\* cg_close goes by the cgio number alone.  A number whose slot is free, or a
\* close that the backend refuses, is an error and changes nothing.
Close(i) ==
    /\ IsOpen(i)
    /\ UNCHANGED <<settings, disk>>
    /\ LET f == cgns_files[i]
       IN \/ /\ UNCHANGED cgioVars
             /\ ret' = Result("close", FALSE, i)
             /\ Keep
          \/ /\ ~ Rewrites(f)
             /\ CloseFile(f.cgio)
             /\ ret' = Result("close", TRUE, i)
             /\ Forget(i)
          \/ \* the rewrite stops before it has a second file
             /\ Rewrites(f)
             /\ CloseFile(f.cgio)
             /\ ret' = Result("close", FALSE, i)
             /\ Keep
          \/ /\ Rewrites(f)
             /\ FreeRoots # {}
             /\ \E closed \in SUBSET (1 .. Len(iolist) + 1) :
                   CompressFile(f.cgio, NewRoot, closed)
             /\ \/ ret' = Result("close", TRUE, i) /\ Forget(i)
                \/ ret' = Result("close", FALSE, i) /\ Keep

----------------------------------------------------------------------------
\* cg_is_cgns: the type is found by cgio_check_file, and the result of the
\* close is not looked at.
IsCgns(name) ==
    /\ UNCHANGED <<cgns_files, n_open, settings, disk>>
    /\ \/ /\ UNCHANGED cgioVars
          /\ ret' = Result("is_cgns", FALSE, 0)
       \/ /\ disk[name] # Absent
          /\ FreeRoots # {}
          /\ OpenAndClose \/ OpenFile(NewRoot, disk[name].type, READ)
          /\ ret' = Result("is_cgns", disk[name].cgns, 0)

\* cg_save_as: the copy stays open when copying or closing it fails.
SaveAs(i, name, t) ==
    LET type == IF t = NONE THEN cgns_filetype ELSE t
    IN  /\ IsOpen(i)
        /\ UNCHANGED <<cgns_files, n_open, settings>>
        /\ \/ /\ UNCHANGED cgioVars
              /\ disk' = IF type = NONE THEN disk ELSE [disk EXCEPT ![name] = Absent]
              /\ ret' = Result("save_as", FALSE, i)
           \/ /\ type # NONE /\ FreeRoots # {}
              /\ \/ /\ OpenAndClose
                    /\ ret' = Result("save_as", TRUE, i)
                 \/ /\ OpenFile(NewRoot, type, WRITE)
                    /\ ret' = Result("save_as", FALSE, i)
              /\ \E cgns \in BOOLEAN :
                    disk' = [disk EXCEPT ![name] = [type |-> type, cgns |-> cgns]]

\* cg_error_exit: cgio_cleanup closes what it can, and the process ends.
ErrorExit(refused) ==
    /\ Cleanup(refused)
    /\ cgns_files' = <<>> /\ n_open' = 0
    /\ ret' = Result("exit", FALSE, 0)
    /\ UNCHANGED <<settings, disk>>

\* The next process finds the files and nothing else.
Restart ==
    /\ iolist' = <<>> /\ num_open' = 0 /\ backend' = {} /\ abandoned' = {}
    /\ cgns_files' = <<>> /\ n_open' = 0
    /\ cgns_filetype' = NONE /\ cgns_compress' = 0
    /\ ret' = NoResult
    /\ UNCHANGED disk

Init ==
    /\ CgioInit
    /\ cgns_files = <<>> /\ n_open = 0
    /\ cgns_filetype = NONE /\ cgns_compress = 0
    /\ disk \in [FileName -> {Absent} \cup [type : FileType, cgns : BOOLEAN]]
    /\ ret = NoResult

Call ==
    \/ \E t \in FileType \cup {NONE} : SetFileType(t)
    \/ \E c \in CompressSettings : SetCompress(c)
    \/ \E name \in FileName, m \in Mode : OpenRefused(name, m)
    \/ \E name \in FileName, m \in Mode, complete \in BOOLEAN : Open(name, m, complete)
    \/ \E i \in 1 .. MaxFiles : DeleteNode(i) \/ Close(i)
    \/ \E name \in FileName : IsCgns(name)
    \/ \E i \in 1 .. MaxFiles, name \in FileName, t \in FileType \cup {NONE} :
          SaveAs(i, name, t)
    \/ \E refused \in SUBSET Live : ErrorExit(refused)

Next ==
    \/ ret.op # "exit" /\ Call
    \/ ret.op = "exit" /\ Restart

Spec == Init /\ [][Next]_vars

----------------------------------------------------------------------------
CgnsFile == [mode : Mode \cup {CLOSED}, cgio : Nat \ {0}, rootid : RootId,
             deleted : 0 .. MaxDeleted]

\* Types: every file listed in cgns_files was opened on a database, and the
\* settings are ones cg_set_file_type and cg_set_compress accept.
TypeOK ==
    /\ CgioTypeOK
    /\ cgns_files \in Seq(CgnsFile)
    /\ n_open \in Nat
    /\ cgns_filetype \in FileType \cup {NONE}
    /\ cgns_compress \in CompressSettings \cup {0}
    /\ disk \in [FileName -> {Absent} \cup [type : FileType, cgns : BOOLEAN]]

\* n_open, on which cg_close decides to free cgns_files, counts the files that
\* are not closed, through every open that failed half way and every close that
\* failed, and cgns_files is there as long as one is.
OpenCountsFiles ==
    /\ n_open = Cardinality(OpenNow)
    /\ cgns_files = <<>> <=> n_open = 0

Owns(i) ==
    /\ cgns_files[i].cgio \in Live
    /\ iolist[cgns_files[i].cgio].rootid = cgns_files[i].rootid

\* An open file goes on naming the database it was opened with, whatever is
\* opened, tested, copied and closed beside it.  It loses the database only by
\* its own close failing after a rewrite has closed the cgio file under it, or
\* by the repeated close of a file that lost its own.
SlotLostByFailedRewriteOnly ==
    [][\A i \in OpenNow :
          (Owns(i) /\ i \in OpenNow' /\ ~ Owns(i)') =>
              /\ ret'.op = "close"
              /\ IF ret'.file = i THEN ~ ret'.ok /\ Rewrites(cgns_files[i])
                                  ELSE ~ Owns(ret'.file)]_vars
============================================================================
