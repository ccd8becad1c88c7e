---------------------------- MODULE BrowserRelay ----------------------------
(***************************************************************************)
(* A browser operation on its way from the run that parks on it to the     *)
(* extension and back (routes/chat.ts onBrowser, the client's              *)
(* handleBrowserOp and sendToExtension, the extension's performCoalesced). *)
(* Every Noah page that follows the run relays the frame; a page that      *)
(* connects again, or is loaded again, is sent the whole log of the run;   *)
(* the page and the extension's worker each remember what they have        *)
(* handled, for as long as they live.  An execution begins and settles;    *)
(* what it does in between is module ElementRefs.                          *)
(***************************************************************************)
EXTENDS Naturals, Sequences, FiniteSets

CONSTANTS
  Requests,     \* the browser operations of one run
  Secrets,      \* those that carry a stored secret
  Pages,        \* the Noah pages that follow the run
  HandledMax,   \* how many operations a page remembers (500)
  CoalesceMax,  \* OP_COALESCE_MAX
  MaxCuts       \* bound: how often a page loses its stream or is loaded again

ASSUME RelayAssumption ==
  /\ IsFiniteSet(Requests) /\ Secrets \subseteq Requests
  /\ Cardinality(Requests) <= CoalesceMax /\ CoalesceMax \in Nat

VARIABLES
  asked,      \* how far the run's wait for each operation is
  log,        \* run.events: the browser frames it keeps
  reading,    \* pages with a live event stream
  frames,     \* frames on their way to each page
  handled,    \* handledBrowserOps of each page, oldest first
  relay,      \* what each page does about each operation
  coalesced,  \* coalescedOps of the worker, oldest first
  running,    \* executions that have not settled
  begun,      \* history: executions this worker has begun
  cuts        \* how often that was

runVars == <<asked, log>>
pageVars == <<reading, frames, handled, relay>>
promiseVars == <<coalesced, running, begun>>
relayVars == <<runVars, pageVars, promiseVars, cuts>>

In(o, s) == \E i \in DOMAIN s : s[i] = o

\* s without the place that holds o.
Without(s, o) ==
  LET k == CHOOSE k \in DOMAIN s : s[k] = o
  IN  [i \in 1..(Len(s) - 1) |-> s[IF i < k THEN i ELSE i + 1]]

\* A Set or Map with a bound: the newest goes in, the oldest goes.
Bounded(s, o, max) ==
  LET all == Append(s, o) IN IF Len(all) > max THEN Tail(all) ELSE all

RelayInit ==
  /\ asked = [o \in Requests |-> "unasked"]
  /\ log = <<>>
  /\ reading = Pages
  /\ frames = [p \in Pages |-> <<>>]
  /\ handled = [p \in Pages |-> <<>>]
  /\ relay = [p \in Pages |-> [o \in Requests |-> "none"]]
  /\ coalesced = <<>>
  /\ running = {}
  /\ begun = [o \in Requests |-> 0]
  /\ cuts = 0

-----------------------------------------------------------------------------
(* The run. *)

\* The frame goes to every page that reads, and into the log unless it may
\* not be replayed; the run parks.
Emit(o, replay) ==
  /\ asked[o] = "unasked"
  /\ asked' = [asked EXCEPT ![o] = "parked"]
  /\ log' = IF replay THEN Append(log, o) ELSE log
  /\ frames' = [p \in Pages |-> IF p \in reading THEN Append(frames[p], o)
                                ELSE frames[p]]
  /\ UNCHANGED <<reading, handled, relay, promiseVars, cuts>>

\* Variant: a secret's frame is kept like any other.
AskReplayable(o) == Emit(o, TRUE)

\* onBrowser
Ask(o) == Emit(o, o \notin Secrets)

\* BROWSER_OP_TTL_MS is over, or the run was stopped.
Expire(o) ==
  /\ asked[o] = "parked"
  /\ asked' = [asked EXCEPT ![o] = "silence"]
  /\ UNCHANGED <<log, pageVars, promiseVars, cuts>>

-----------------------------------------------------------------------------
(* A page. *)

\* The connection drops, and the frames that were on their way with it.
Drop(p) ==
  /\ p \in reading
  /\ cuts < MaxCuts
  /\ cuts' = cuts + 1
  /\ reading' = reading \ {p}
  /\ frames' = [frames EXCEPT ![p] = <<>>]
  /\ UNCHANGED <<runVars, handled, relay, promiseVars>>

\* streamRunEvents asks without a cursor: the whole log comes again.
Attach(p) ==
  /\ reading' = reading \cup {p}
  /\ frames' = [frames EXCEPT ![p] = log]
  /\ UNCHANGED <<runVars, promiseVars>>

Reconnect(p) ==
  /\ p \notin reading
  /\ Attach(p)
  /\ UNCHANGED <<handled, relay, cuts>>

\* The page is loaded again: it remembers nothing, and follows the run anew.
Reload(p) ==
  /\ cuts < MaxCuts
  /\ cuts' = cuts + 1
  /\ Attach(p)
  /\ handled' = [handled EXCEPT ![p] = <<>>]
  /\ relay' = [relay EXCEPT ![p] = [o \in Requests |-> "none"]]

\* handleBrowserOp: an operation the page does not remember goes to the
\* extension.  (Sent again before its answer is back, the later one counts.)
Receive(p) ==
  /\ frames[p] # <<>>
  /\ frames' = [frames EXCEPT ![p] = Tail(@)]
  /\ LET o == Head(frames[p])
     IN  IF In(o, handled[p])
         THEN UNCHANGED <<handled, relay>>
         ELSE /\ handled' = [handled EXCEPT ![p] = Bounded(@, o, HandledMax)]
              /\ relay' = [relay EXCEPT ![p][o] = "sent"]
  /\ UNCHANGED <<runVars, reading, promiseVars, cuts>>

\* The page's own timer, or an extension it cannot reach: it answers itself.
GiveUp(p, o) ==
  /\ relay[p][o] \in {"sent", "waiting"}
  /\ relay' = [relay EXCEPT ![p][o] = "excuse"]
  /\ UNCHANGED <<runVars, reading, frames, handled, promiseVars, cuts>>

\* The shared promise has settled.
Hear(p, o) ==
  /\ relay[p][o] = "waiting" /\ o \notin running
  /\ relay' = [relay EXCEPT ![p][o] = "result"]
  /\ UNCHANGED <<runVars, reading, frames, handled, promiseVars, cuts>>

\* POST /api/chat/respond: the first answer is taken, any other is a 404; a
\* POST that is lost is not sent again.
Post(p, o) ==
  /\ relay[p][o] \in {"result", "excuse"}
  /\ relay' = [relay EXCEPT ![p][o] = "none"]
  /\ \/ /\ asked[o] = "parked"
        /\ asked' = [asked EXCEPT ![o] = relay[p][o]]
     \/ UNCHANGED asked
  /\ UNCHANGED <<log, reading, frames, handled, promiseVars, cuts>>

-----------------------------------------------------------------------------
(* The worker of the extension. *)

\* performCoalesced: the first message executes, the others are handed its
\* promise as long as the worker has it.
Perform(p, o) ==
  /\ relay[p][o] = "sent"
  /\ relay' = [relay EXCEPT ![p][o] = "waiting"]
  /\ IF In(o, coalesced)
     THEN UNCHANGED promiseVars
     ELSE /\ coalesced' = Bounded(coalesced, o, CoalesceMax)
          /\ running' = running \cup {o}
          /\ begun' = [begun EXCEPT ![o] = @ + 1]
  /\ UNCHANGED <<runVars, reading, frames, handled, cuts>>

\* The execution settles, well or badly.
Finish(o) ==
  /\ o \in running
  /\ running' = running \ {o}
  /\ UNCHANGED <<runVars, pageVars, coalesced, begun, cuts>>

\* Variant: the entry goes when the promise settles.
RetireSoon(o) ==
  /\ In(o, coalesced) /\ o \notin running
  /\ coalesced' = Without(coalesced, o)
  /\ UNCHANGED <<runVars, pageVars, running, begun, cuts>>

\* OP_RETIRE_REQUEST_ID_MS after it settled: ten minutes, and the run waits
\* for three quarters of one.
Retire(o) ==
  /\ In(o, coalesced) /\ o \notin running
  /\ asked[o] # "parked"
  /\ coalesced' = Without(coalesced, o)
  /\ UNCHANGED <<runVars, pageVars, running, begun, cuts>>

\* The worker ends and starts again: its promises are gone, and the pages
\* that waited are told that the extension is not reachable.
RestartWorker ==
  /\ coalesced' = <<>>
  /\ running' = {}
  /\ begun' = [o \in Requests |-> 0]
  /\ relay' = [p \in Pages |-> [o \in Requests |->
                 IF relay[p][o] = "waiting" THEN "excuse" ELSE relay[p][o]]]
  /\ UNCHANGED <<runVars, reading, frames, handled, cuts>>

RelayNext ==
  \/ RestartWorker
  \/ \E o \in Requests : Ask(o) \/ Expire(o) \/ Finish(o) \/ Retire(o)
  \/ \E p \in Pages :
       \/ Drop(p) \/ Reconnect(p) \/ Reload(p) \/ Receive(p)
       \/ \E o \in Requests : GiveUp(p, o) \/ Hear(p, o) \/ Post(p, o) \/ Perform(p, o)

RelaySpec == RelayInit /\ [][RelayNext]_relayVars

-----------------------------------------------------------------------------
RelayTypeOK ==
  /\ asked \in [Requests -> {"unasked", "parked", "result", "excuse", "silence"}]
  /\ log \in Seq(Requests)
  /\ reading \subseteq Pages
  /\ frames \in [Pages -> Seq(Requests)]
  /\ handled \in [Pages -> Seq(Requests)]
  /\ relay \in [Pages -> [Requests -> {"none", "sent", "waiting", "result", "excuse"}]]
  /\ coalesced \in Seq(Requests)
  /\ running \subseteq Requests
  /\ begun \in [Requests -> Nat]
  /\ cuts \in Nat

\* What the comment at coalescedOps promises of its map: however many pages
\* relay an operation, lose the stream, are loaded again or are sent the log
\* again, one worker executes it at most once while its run waits for it.
PerformedOnce == \A o \in Requests : asked[o] = "parked" => begun[o] <= 1

\* The plaintext of a secret is never on its way to a page that was not
\* reading when the operation was asked, or that has received it or lost it
\* since: not when it connects again, and not when it is loaded again.
SecretsSentOnce ==
  [][\A o \in Secrets, p \in Pages :
       asked[o] # "unasked" /\ ~In(o, frames[p]) => ~In(o, frames'[p])]_relayVars

\* What the comment at handledBrowserOps promises of a page that attaches
\* again: an operation whose result the run already has is not executed again.
NotRedone == \A o \in Requests : asked[o] = "result" => o \notin running
=============================================================================
