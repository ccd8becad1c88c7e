----------------------------- MODULE PromptDesk -----------------------------
(***************************************************************************)
(* What a run promises the tools that ask its user something: a question   *)
(* is parked only while the run takes answers, it is settled once, by an   *)
(* answer or by a cancellation, and it never waits for ever.  When the run *)
(* is stopped, times out or ends, everything parked is given back at once. *)
(***************************************************************************)
CONSTANT Requests

VARIABLES
  taking,   \* the run still takes answers
  outcome   \* what became of each request

deskVars == <<taking, outcome>>

Init ==
  /\ taking = TRUE
  /\ outcome = [q \in Requests |-> "idle"]

Ask(q) ==
  /\ outcome[q] = "idle"
  /\ outcome' = [outcome EXCEPT ![q] = IF taking THEN "parked" ELSE "cancelled"]
  /\ UNCHANGED taking

Reply(q) ==
  /\ taking /\ outcome[q] = "parked"
  /\ outcome' = [outcome EXCEPT ![q] = "answered"]
  /\ UNCHANGED taking

GiveUp(q) ==
  /\ outcome[q] = "parked"
  /\ outcome' = [outcome EXCEPT ![q] = "cancelled"]
  /\ UNCHANGED taking

Shut ==
  /\ taking
  /\ taking' = FALSE
  /\ outcome' = [q \in Requests |-> IF outcome[q] = "parked" THEN "cancelled" ELSE outcome[q]]

Next == Shut \/ \E q \in Requests : Ask(q) \/ Reply(q) \/ GiveUp(q)

Spec == Init /\ [][Next]_deskVars /\ \A q \in Requests : WF_deskVars(GiveUp(q))
=============================================================================
