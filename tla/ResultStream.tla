---------------------------- MODULE ResultStream ----------------------------
(***************************************************************************)
(* What a query promises its caller: the rows of the result, in the order  *)
(* of the server, each once and with its own values; all of them when the  *)
(* query returns, an exception otherwise.  Fetch.tla implements this.      *)
(***************************************************************************)
EXTENDS Naturals, Sequences

CONSTANT Table                    \* the rows of the result

VARIABLES
  rows,        \* the rows decoded so far
  status       \* "running", "complete" or "failed"

vars == <<rows, status>>

Init == rows = <<>> /\ status = "running"

\* The next row arrives.
Deliver ==
  /\ status = "running" /\ Len(rows) < Len(Table)
  /\ rows' = Append(rows, Table[Len(rows) + 1])
  /\ UNCHANGED status

\* The query returns.
Complete ==
  /\ status = "running" /\ rows = Table
  /\ status' = "complete"
  /\ UNCHANGED rows

\* The query raises.
Fail ==
  /\ status = "running"
  /\ status' = "failed"
  /\ UNCHANGED rows

Next == Deliver \/ Complete \/ Fail

Spec == Init /\ [][Next]_vars

\* A query that was started ends.
FairSpec == Spec /\ WF_vars(Next)
=============================================================================
