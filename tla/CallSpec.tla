------------------------------ MODULE CallSpec ------------------------------
(***************************************************************************)
(* What the driver's request/response layer promises to the statements     *)
(* that use it: calls are made one at a time, the server executes each at  *)
(* most once and in order, and a call ends either with the whole response  *)
(* to that call or with an exception.  Session.tla implements this.        *)
(***************************************************************************)
EXTENDS Naturals, Sequences

CONSTANT NumCalls                 \* bound on the calls of a behaviour

VARIABLES
  call,        \* number of the latest call, 0 before the first
  status,      \* "idle" or "pending"
  executed,    \* history: the calls the server executed, in order
  reply        \* how the latest finished call ended

vars == <<call, status, executed, reply>>

Init ==
  /\ call = 0
  /\ status = "idle"
  /\ executed = <<>>
  /\ reply = "none"

\* The latest call the server executed, 0 for none.
Latest == IF executed = <<>> THEN 0 ELSE executed[Len(executed)]

\* The application starts the next call.
Begin ==
  /\ status = "idle"
  /\ call < NumCalls
  /\ call' = call + 1
  /\ status' = "pending"
  /\ reply' = "none"
  /\ UNCHANGED executed

\* The server executes a call it was sent: never one at or before the latest
\* it executed, so none twice; possibly one the client has already given up.
Execute ==
  /\ \E c \in (Latest + 1) .. call : executed' = Append(executed, c)
  /\ UNCHANGED <<call, status, reply>>

\* The call returns its own response, whole.
Answer ==
  /\ status = "pending"
  /\ Latest = call
  /\ status' = "idle"
  /\ reply' = "answered"
  /\ UNCHANGED <<call, executed>>

\* The call raises.
Fail ==
  /\ status = "pending"
  /\ status' = "idle"
  /\ reply' = "failed"
  /\ UNCHANGED <<call, executed>>

Next == Begin \/ Execute \/ Answer \/ Fail

Spec == Init /\ [][Next]_vars

\* A call that was started ends.
FairSpec == Spec /\ WF_vars(Answer \/ Fail)
=============================================================================
