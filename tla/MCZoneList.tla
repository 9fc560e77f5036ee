---------------------------- MODULE MCZoneList ----------------------------
(* A base with three names for TLC, two of which collide; the last one is  *)
(* also the name of a Family_t, so that the file can refuse a zone.        *)
EXTENDS ZoneList

CONSTANTS za, zb, zc

MCOrder == <<za, zb, zc>>
MCHashOf == [k \in {za, zb, zc} |-> CASE k = za -> 3 [] k = zb -> 11 [] OTHER -> 75]
============================================================================
