----------------------------- MODULE MCAdfFiles -----------------------------
(* Three files for TLC: a has a link into b and one to a place c has not,  *)
(* b has a link into c, c has a link to itself and data.                   *)
EXTENDS AdfFiles, TLC

CONSTANTS a, b, c, h1, h2

MCTarget ==
    (<<a, 1>> :> <<b, 1>>) @@ (<<a, 2>> :> <<c, 9>>) @@
    (<<b, 1>> :> <<c, 1>>) @@ (<<b, 2>> :> Plain) @@
    (<<c, 1>> :> Plain) @@ (<<c, 2>> :> <<c, 2>>)

Handles == Permutations(Handle)
============================================================================
