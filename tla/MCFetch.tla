------------------------------ MODULE MCFetch ------------------------------
(* A result in which every way a row can differ from the one before occurs:  *)
(* not at all, a NULL that is filled, a value that becomes NULL, all changed. *)
EXTENDS Fetch

CONSTANTS c1, c2, x, y

MCColumn == {c1, c2}
MCValue == {x, y, None}
MCRow(v1, v2) == [c \in MCColumn |-> IF c = c1 THEN v1 ELSE v2]
MCTable == <<MCRow(x, None), MCRow(x, None), MCRow(x, y), MCRow(None, y)>>
=============================================================================
