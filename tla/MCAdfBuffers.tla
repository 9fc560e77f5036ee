----------------------------- MODULE MCAdfBuffers -----------------------------
\* Instance of AdfBuffers: a file of three blocks of two cells, with the header,
\* a chunk of data over each of the two boundaries and a record at the end; and
\* a file of a header alone to take the buffers away.
EXTENDS AdfBuffers

CONSTANTS x, y

MCSize == [f \in {x, y} |-> IF f = x THEN 6 ELSE 1]
MCRecords == [f \in {x, y} |-> IF f = x THEN {<<0, 0>>, <<5, 5>>} ELSE {<<0, 0>>}]
MCData == [f \in {x, y} |-> IF f = x THEN {<<1, 2>>, <<3, 4>>} ELSE {}]
=============================================================================
