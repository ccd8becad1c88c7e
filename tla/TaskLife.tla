----------------------------- MODULE TaskLife -----------------------------
(***************************************************************************)
(* What the personal task API promises about one accepted instruction: it  *)
(* waits, is taken and perhaps put back, ends once and for all, is written *)
(* into its thread at most once and run at most once.                      *)
(***************************************************************************)
EXTENDS Integers

CONSTANT Tasks

VARIABLES
  state,    \* of each task, the status its caller reads; "gone" with its thread
  written,  \* how often its instruction was written into the thread
  ran       \* how often a run was opened on it

Settled == {"succeeded", "failed", "cancelled"}

Moves ==
  {<<"none", "queued">>, <<"queued", "running">>, <<"running", "queued">>}
    \cup {"queued", "running"} \X {"failed", "cancelled"}
    \cup {<<"running", "succeeded">>}
    \cup ({"queued", "running"} \cup Settled) \X {"gone"}

Init ==
  /\ state = [t \in Tasks |-> "none"]
  /\ written = [t \in Tasks |-> 0]
  /\ ran = [t \in Tasks |-> 0]

\* A run is opened on a task that is taken and whose instruction is written,
\* and only a task that was run succeeds.
Step(t) ==
  /\ state'[t] = state[t] \/ <<state[t], state'[t]>> \in Moves
  /\ written'[t] \in written[t] .. 1
  /\ ran'[t] \in ran[t] .. 1
  /\ ran'[t] # ran[t] => state[t] = "running" /\ state'[t] = "running" /\ written'[t] = 1
  /\ <<state[t], state'[t]>> = <<"running", "succeeded">> => ran[t] = 1

Next == \A t \in Tasks : Step(t)

Spec == Init /\ [][Next]_<<state, written, ran>>
=============================================================================
