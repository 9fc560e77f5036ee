----------------------------- MODULE SearchPath -----------------------------
(***************************************************************************)
(* The list of directories in which the file of a link is looked for:      *)
(* cgio_paths of src/src/cgns_io.c with cgio_path_add, cgio_path_delete    *)
(* and cgio_find_file, and cg_set_path, cg_add_path and cg_configure of    *)
(* src/src/cgnslib.c above them.                                           *)
(*                                                                         *)
(* The file looked for is fixed and has a relative name; what varies is in *)
(* which directories there is a file of that name.                         *)
(***************************************************************************)
EXTENDS Integers, Sequences, SequencesExt

CONSTANTS Dir,
          Long,        \* those whose name does not fit the caller's buffer
          Parent, Cwd, \* directory of the linking file, of the process
          LinkEnv,     \* directories of ADF_LINK_PATH or HDF5_LINK_PATH and then
                       \* of CGNS_LINK_PATH, in order
          Path,        \* what a program adds: lists of directories, as in PATH
          NULL,
          MaxPaths     \* bound: length of cgio_paths

ASSUME PathAssumption ==
    /\ {Parent, Cwd} \cup Long \subseteq Dir
    /\ LinkEnv \in Seq(Dir)
    /\ Path \subseteq Seq(Dir) \ {<<>>}
    /\ NULL \notin Path
    /\ "not_found" \notin Dir /\ "too_small" \notin Dir
    /\ MaxPaths \in Nat

VARIABLES cgio_paths,  \* elements: a path, or NULL where one was deleted
          files,       \* Dir -> "none", "other" type, or "file" of the type wanted
          call         \* the last call

pathVars == <<cgio_paths, files, call>>

Called(what) == call' = what /\ UNCHANGED files

----------------------------------------------------------------------------
Listed(path) == IF path = NULL THEN <<>> ELSE path
Places == LinkEnv \o FlattenSeq([n \in DOMAIN cgio_paths |-> Listed(cgio_paths[n])])

\* cgio_find_file: the directory of the parent file, if it fits, and the
\* current one; then the places in order.  A file of another type is passed
\* over, but a place that does not fit ends the search.
Find ==
    IF files[Parent] = "file" /\ Parent \notin Long THEN Parent
    ELSE IF files[Cwd] = "file" THEN Cwd
    ELSE LET Ends(n) == Places[n] \in Long \/ files[Places[n]] = "file"
             found   == {n \in DOMAIN Places : Ends(n)}
             first   == CHOOSE n \in found : \A m \in found : n <= m
         IN  IF found = {} THEN "not_found"
             ELSE IF Places[first] \in Long THEN "too_small" ELSE Places[first]

----------------------------------------------------------------------------
\* Mutant: the path is put first.
AddedFirst(paths, p) == <<p>> \o paths

Added(paths, p) == Append(paths, p)

\* Mutant: the list ends where a path was deleted.
DeletedToEnd(paths, p) ==
    LET same == {n \in DOMAIN paths : paths[n] = p}
    IN  IF same = {} THEN paths
        ELSE SubSeq(paths, 1, (CHOOSE n \in same : \A m \in same : n <= m) - 1)

\* cgio_path_delete of a path: the first that is equal is freed, and its place
\* stays in the list.
Deleted(paths, p) ==
    LET same == {n \in DOMAIN paths : paths[n] = p}
    IN  IF same = {} THEN paths
        ELSE [paths EXCEPT ![CHOOSE n \in same : \A m \in same : n <= m] = NULL]

\* cg_set_path: all paths are deleted, and a path that is not empty is added.
SetPath(p) == cgio_paths' = IF p = NULL THEN <<>> ELSE Added(<<>>, p)

\* cgio_path_add and cg_add_path
AddPath(p) ==
    /\ Len(cgio_paths) < MaxPaths
    /\ cgio_paths' = Added(cgio_paths, p)
    /\ Called("add")

DeletePath(p) ==
    /\ cgio_paths' = Deleted(cgio_paths, p)
    /\ Called("delete")

\* cgio_path_delete(NULL), and with it cg_set_path(NULL).
SetPathCall(p) == SetPath(p) /\ Called("set")

\* cg_configure with CG_CONFIG_SET_PATH or CG_CONFIG_ADD_PATH.
Configure(option, p) ==
    /\ option \in {"config_set", "config_add"}
    /\ SetPath(p)
    /\ Called(option)

\* Outside of the library files come and go.
FileChanges(d, what) ==
    /\ files' = [files EXCEPT ![d] = what]
    /\ call' = "none"
    /\ UNCHANGED cgio_paths

PathInit ==
    /\ cgio_paths = <<>>
    /\ files = [d \in Dir |-> "none"]
    /\ call = "none"

PathNext ==
    \/ \E p \in Path : AddPath(p)
    \/ \E p \in Path : DeletePath(p)
    \/ \E p \in Path \cup {NULL} : SetPathCall(p)
    \/ \E option \in {"config_set", "config_add"}, p \in Path \cup {NULL} :
          Configure(option, p)
    \/ \E d \in Dir, what \in {"none", "other", "file"} : FileChanges(d, what)

PathSpec == PathInit /\ [][PathNext]_pathVars

----------------------------------------------------------------------------
\* Adding a path with cgio_path_add or cg_add_path never changes which file an
\* existing link leads to: a link that was found is still found, at the same place.
\* This is not said of CG_CONFIG_ADD_PATH ("config_add"), which replaces the list.
AddKeepsLinks ==
    [][call' = "add" /\ Find \in Dir => Find' = Find]_pathVars

\* Deleting a path affects only the links that were found, or were stopped by
\* a name too long, in it: holes in the list neither end a search nor reorder
\* the paths that are left.
DeleteKeepsOtherLinks ==
    [][call' = "delete" /\ Find' # Find =>
          \E p \in Path :
             /\ cgio_paths' = Deleted(cgio_paths, p) /\ cgio_paths' # cgio_paths
             /\ IF Find = "too_small" THEN Range(p) \cap Long # {}
                                      ELSE Find \in Range(p)]_pathVars
=============================================================================
