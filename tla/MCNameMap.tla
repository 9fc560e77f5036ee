----------------------------- MODULE MCNameMap -----------------------------
(* A small NameMap for TLC: three names, two of which collide in an        *)
(* 8-slot table, one with a hash above 31 so that perturb matters.         *)
EXTENDS NameMap

CONSTANTS a, b, c

MCKey == {a, b, c}
MCHashOf == [k \in MCKey |-> CASE k = a -> 3 [] k = b -> 11 [] OTHER -> 75]
============================================================================
