----------------------------- MODULE MCAdfTree ------------------------------
(* Three nodes below the root and three names for TLC, one of them the      *)
(* first with a blank before it: a table of two entries grows to three, at  *)
(* every depth of the tree.                                                 *)
EXTENDS AdfTree

CONSTANTS x, y, blankX

MCTrim == [name \in Name |-> IF name = blankX THEN x ELSE name]
============================================================================
