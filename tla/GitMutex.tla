----------------------------- MODULE GitMutex -----------------------------
(***************************************************************************)
(* The lock around the git commands of one clone (gitMutex.ts).  A call    *)
(* is chained behind the promise that the map holds for its key and puts   *)
(* its own there; once that promise has settled, a later callback takes it *)
(* out of the map, unless another call has been chained behind it.         *)
(***************************************************************************)

CONSTANTS
  Ops,     \* the calls of withRepoLock
  Keys,    \* the clone paths
  KeyOf,   \* the path each call locks
  None

\* What the modules that take the lock owe it.
LockConstants == KeyOf \in [Ops -> Keys] /\ None \notin Ops

VARIABLES
  chains,  \* the tail of the chain of each key
  prior,   \* the unsettled promise each call is chained behind
  stage,   \* of each call: "idle", "queued", "running" or "settled"
  ahead    \* history: the calls of its key that were there when it came

lockVars == <<chains, prior, stage, ahead>>

Active(o) == stage[o] \in {"queued", "running"}

Init ==
  /\ chains = [k \in Keys |-> None]
  /\ prior = [o \in Ops |-> None]
  /\ stage = [o \in Ops |-> "idle"]
  /\ ahead = [o \in Ops |-> {}]

\* withRepoLock: everything up to its return.  A promise that has settled
\* already holds nobody up.
Call(o) ==
  LET k == KeyOf[o]
      tail == chains[k]
  IN  /\ stage[o] = "idle"
      /\ prior' = [prior EXCEPT ![o] =
           IF tail # None /\ stage[tail] = "settled" THEN None ELSE tail]
      /\ chains' = [chains EXCEPT ![k] = o]
      /\ stage' = [stage EXCEPT ![o] = "queued"]
      /\ ahead' = [ahead EXCEPT ![o] =
           {p \in Ops : Active(p) /\ KeyOf[p] = k}]

\* The promise it was chained behind has settled, either way: fn runs.
Start(o) ==
  /\ stage[o] = "queued"
  /\ prior[o] = None
  /\ stage' = [stage EXCEPT ![o] = "running"]
  /\ UNCHANGED <<chains, prior, ahead>>

\* fn ends, well or badly: next is settled.
Settle(o) ==
  /\ stage[o] = "running"
  /\ stage' = [stage EXCEPT ![o] = "settled"]
  /\ prior' = [p \in Ops |-> IF prior[p] = o THEN None ELSE prior[p]]
  /\ ahead' = [p \in Ops |-> ahead[p] \ {o}]
  /\ UNCHANGED chains

\* Variant of Drop: the entry goes whoever's it is.
DropAny(o) ==
  /\ stage[o] = "settled"
  /\ stage' = [stage EXCEPT ![o] = "idle"]
  /\ chains' = [chains EXCEPT ![KeyOf[o]] = None]
  /\ UNCHANGED <<prior, ahead>>

\* The callback of next: the entry goes only if it is still this call's.
Drop(o) ==
  /\ stage[o] = "settled"
  /\ stage' = [stage EXCEPT ![o] = "idle"]
  /\ chains' = [chains EXCEPT ![KeyOf[o]] = IF @ = o THEN None ELSE @]
  /\ UNCHANGED <<prior, ahead>>

\* A new process starts with an empty map.
Restart ==
  /\ chains' = [k \in Keys |-> None]
  /\ prior' = [o \in Ops |-> None]
  /\ stage' = [o \in Ops |-> "idle"]
  /\ ahead' = [o \in Ops |-> {}]

Next == Restart \/ \E o \in Ops : Call(o) \/ Start(o) \/ Settle(o) \/ Drop(o)

Spec == Init /\ [][Next]_lockVars

-----------------------------------------------------------------------------
TypeOK ==
  /\ chains \in [Keys -> Ops \cup {None}]
  /\ prior \in [Ops -> Ops \cup {None}]
  /\ stage \in [Ops -> {"idle", "queued", "running", "settled"}]
  /\ ahead \in [Ops -> SUBSET Ops]

\* Never two calls of one key in their functions at once: two git commands
\* in one working tree would take each other's index.
OneAtATime ==
  \A o, p \in Ops :
    stage[o] = "running" /\ stage[p] = "running" /\ KeyOf[o] = KeyOf[p]
      => o = p

\* The chain of promises is a first-come-first-served lock.
Fifo == INSTANCE FifoLock WITH
  turn <- [o \in Ops |-> CASE stage[o] = "queued" -> "waiting"
                           [] stage[o] = "running" -> "holding"
                           [] OTHER -> "out"]
IsAFifoLock == Fifo!Spec
=============================================================================
