--------------------------- MODULE RequestOutcome ---------------------------
(***************************************************************************)
(* What the error codes of the native transport promise the caller of a    *)
(* logical request: a request reported free of effect has none and gets    *)
(* none, an uncertain one can be settled by looking, and no request has    *)
(* its effect twice. Nothing is promised of a request in doubt: its caller *)
(* was not told of a transport error, and did not wait for the process.    *)
(***************************************************************************)
EXTENDS Naturals

CONSTANT Requests

VARIABLES
  status,   \* what the caller knows: free, sent, unknown or done; or doubtful
  applied   \* how often the database holds the effect

Init ==
  /\ status = [r \in Requests |-> "free"]
  /\ applied = [r \in Requests |-> 0]

Send(r) ==
  /\ status[r] = "free"
  /\ status' = [status EXCEPT ![r] = "sent"]
  /\ UNCHANGED applied

\* An effect may appear only while its outcome is open.
Apply(r) ==
  /\ status[r] \in {"sent", "unknown"}
  /\ applied[r] = 0
  /\ applied' = [applied EXCEPT ![r] = 1]
  /\ UNCHANGED status

Lose(r) ==
  /\ status[r] = "sent"
  /\ status' = [status EXCEPT ![r] = "unknown"]
  /\ UNCHANGED applied

\* An answer, or a look at the database, tells what is the case.
Settle(r) ==
  /\ status[r] \in {"sent", "unknown"}
  /\ status' = [status EXCEPT ![r] = IF applied[r] = 1 THEN "done" ELSE "free"]
  /\ UNCHANGED applied

\* The uncertain ones fall in doubt together, and stay there.
Forfeit ==
  /\ status' = [r \in Requests |-> IF status[r] = "unknown" THEN "doubtful" ELSE status[r]]
  /\ UNCHANGED applied

Drift(r) ==
  /\ status[r] = "doubtful"
  /\ applied' = [applied EXCEPT ![r] = @ + 1]
  /\ UNCHANGED status

Next ==
  \/ \E r \in Requests : Send(r) \/ Apply(r) \/ Lose(r) \/ Settle(r) \/ Drift(r)
  \/ Forfeit

Spec == Init /\ [][Next]_<<status, applied>>

=============================================================================
