---------------------------- MODULE MCSearchPath ----------------------------
(* Directories for TLC: of the linking file, of the process, of an         *)
(* environment variable, and three that paths name, one of them too long.  *)
EXTENDS SearchPath

CONSTANTS here, cwd, env, d1, d2, long

MCDir == {here, cwd, env, d1, d2, long}
MCLinkEnv == <<env>>
MCPath == {<<d1>>, <<d2, d1>>, <<long, d2>>}
=============================================================================
