----------------------------- MODULE FifoLock -----------------------------
(***************************************************************************)
(* What a per-key lock promises its callers: one operation at a time on a  *)
(* key, in the order in which they asked, and keys that never wait for     *)
(* each other.  There is no queue in it: each waiting operation names the  *)
(* ones it has to let go first.                                            *)
(***************************************************************************)

CONSTANTS
  Ops,     \* the calls that take the lock
  KeyOf    \* the key each of them locks

VARIABLES
  turn,    \* of each operation: "out", "waiting" or "holding"
  ahead    \* of each operation: those that asked for its key before it

fifoVars == <<turn, ahead>>

Init ==
  /\ turn = [o \in Ops |-> "out"]
  /\ ahead = [o \in Ops |-> {}]

\* An operation asks, behind everyone who is there already.
Ask(o) ==
  /\ turn[o] = "out"
  /\ turn' = [turn EXCEPT ![o] = "waiting"]
  /\ ahead' = [ahead EXCEPT ![o] =
       {p \in Ops : turn[p] # "out" /\ KeyOf[p] = KeyOf[o]}]

\* It holds the key once nobody is ahead of it.
Hold(o) ==
  /\ turn[o] = "waiting"
  /\ ahead[o] = {}
  /\ turn' = [turn EXCEPT ![o] = "holding"]
  /\ UNCHANGED ahead

\* It is done, well or badly, and out of everyone's way.
Leave(o) ==
  /\ turn[o] = "holding"
  /\ turn' = [turn EXCEPT ![o] = "out"]
  /\ ahead' = [p \in Ops |-> ahead[p] \ {o}]

\* The process ends, and every call with it.
Restart ==
  /\ turn' = [o \in Ops |-> "out"]
  /\ ahead' = [o \in Ops |-> {}]

Next == Restart \/ \E o \in Ops : Ask(o) \/ Hold(o) \/ Leave(o)

Spec == Init /\ [][Next]_fifoVars
=============================================================================
