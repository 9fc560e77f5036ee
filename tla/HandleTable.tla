---------------------------- MODULE HandleTable ----------------------------
(***************************************************************************)
(* What the cgio layer promises about handles: every open returns a handle *)
(* that no open file has, and it names that file until it is closed.       *)
(***************************************************************************)
CONSTANT File

VARIABLE open      \* handle -> the file it names

Open(h, f) ==
    /\ h \notin DOMAIN open
    /\ open' = [x \in DOMAIN open \cup {h} |-> IF x = h THEN f ELSE open[x]]

Close(h) ==
    /\ h \in DOMAIN open
    /\ open' = [x \in DOMAIN open \ {h} |-> open[x]]

\* A rewrite that closed the file but could not close the copy it made leaves a
\* handle nobody was given.
CloseAndLeak(h, g, f) ==
    /\ h \in DOMAIN open
    /\ g \notin DOMAIN open
    /\ open' = [x \in (DOMAIN open \cup {g}) \ {h} |-> IF x = g THEN f ELSE open[x]]

\* cgio_cleanup: every handle is void afterwards.
CloseAll == open' = [x \in {} |-> x]

Init == open = [x \in {} |-> x]
Next == \/ \E h \in DOMAIN open', f \in File : Open(h, f)
        \/ \E h \in DOMAIN open : Close(h)
        \/ \E h \in DOMAIN open, g \in DOMAIN open', f \in File :
              CloseAndLeak(h, g, f)
        \/ CloseAll
Spec == Init /\ [][Next]_open
============================================================================
