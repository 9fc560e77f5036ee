----------------------------- MODULE MCMllFiles -----------------------------
(* Two open files of one name for TLC, with room for the copy that a       *)
(* rewrite or a cg_save_as makes.                                          *)
EXTENDS MllFiles

CONSTANTS adf, hdf5, cgnsfile
=============================================================================
