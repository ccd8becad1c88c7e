---------------------------- MODULE RunRegistry ----------------------------
(***************************************************************************)
(* One live run in the registry (src/server/agent/runRegistry.ts): the     *)
(* frames it writes to the attached browsers, the journal a browser that   *)
(* comes back is caught up from, and the questions that park the run until *)
(* somebody answers, the time-to-live fires or the run is stopped.         *)
(*                                                                         *)
(* Every function of the registry is synchronous, so each is one step; a   *)
(* tool emits its question and parks in the same step (chat.ts onQuestion, *)
(* onCanvas, onBrowser).  Mid-turn messages are in module MidTurn.         *)
(***************************************************************************)
EXTENDS Integers, FiniteSets

CONSTANTS
  Questions,  \* prompts a person answers: question and waiting canvas frames
  SecretOps,  \* browser operations whose frame carries a secret: not replayed
  Clients,    \* browsers that follow the run
  NoRequest,  \* a frame that belongs to no request
  MaxFrames   \* bound: ordinary frames are emitted up to this id

Requests == Questions \cup SecretOps

ASSUME RequestsAssumption ==
  /\ IsFiniteSet(Requests) /\ NoRequest \notin Requests
  /\ Questions \cap SecretOps = {} /\ MaxFrames \in Nat

VARIABLES
  closed,     \* the run was closed and forgotten
  cancelled,  \* cancelRun or cancelAllRuns was called
  aborted,    \* the abort signal has fired (a stop or the deadline)
  frames,     \* every frame emitted; the kept ones are run.events
  nextEventId,
  pending,    \* the parked requests
  outcome,    \* what the parked caller was told
  attached,   \* browsers in run.clients whose connection works
  got,        \* the frames a browser has received and still shows
  cursor      \* the newest event id a browser has received

registryVars ==
  <<closed, cancelled, aborted, frames, nextEventId, pending, outcome,
    attached, got, cursor>>

Frame == [id : Nat, event : {"ask", "prompt_resolved", "status", "end"},
          request : Requests \cup {NoRequest}, replay : BOOLEAN]

RegistryTypeOK ==
  /\ closed \in BOOLEAN /\ cancelled \in BOOLEAN /\ aborted \in BOOLEAN
  /\ frames \in SUBSET Frame
  /\ nextEventId \in Nat
  /\ pending \in SUBSET Requests
  /\ outcome \in [Requests -> {"idle", "parked", "answered", "cancelled"}]
  /\ attached \in SUBSET Clients
  /\ got \in [Clients -> SUBSET Frame]
  /\ cursor \in [Clients -> Nat]

RegistryInit ==
  /\ closed = FALSE /\ cancelled = FALSE /\ aborted = FALSE
  /\ frames = {} /\ nextEventId = 0
  /\ pending = {} /\ outcome = [q \in Requests |-> "idle"]
  /\ attached = {}
  /\ got = [c \in Clients |-> {}] /\ cursor = [c \in Clients |-> 0]

-----------------------------------------------------------------------------
(* emitRunEvent: one or several frames within a step. *)

\* Variant: a frame that is not kept takes no id of its own.
FrameIdOfKept(n) == Cardinality({f \in frames : f.replay}) + n

\* ++run.nextEventId, whether the frame is kept or not
FrameId(n) == nextEventId + n

FrameOf(n, event, q) ==
  [id |-> FrameId(n), event |-> event, request |-> q,
   replay |-> ~(event = "ask" /\ q \in SecretOps)]

\* Write the frames new, the last of which is the n-th of this step.
Emit(new, n) ==
  /\ frames' = frames \cup new
  /\ nextEventId' = nextEventId + n
  /\ got' = [c \in Clients |-> IF c \in attached THEN got[c] \cup new ELSE got[c]]
  /\ cursor' = [c \in Clients |-> IF c \in attached /\ n > 0 THEN FrameId(n) ELSE cursor[c]]

journal == <<frames, nextEventId, got, cursor>>

\* The pending map keeps the order in which the requests were parked.
AskedAt(q) == CHOOSE i \in 0..nextEventId : \E f \in frames : f.id = i /\ f.event = "ask" /\ f.request = q
Rank(q) == Cardinality({p \in pending : p = q \/ AskedAt(p) < AskedAt(q)})
Releases == {FrameOf(Rank(q), "prompt_resolved", q) : q \in pending}

Settled(S, how) == [q \in Requests |-> IF q \in S THEN how ELSE outcome[q]]

-----------------------------------------------------------------------------
(* The agent's side. *)

\* Variant: a prompt raised after the abort is cancelled without a frame.
AskRefusedSilently(q) ==
  /\ ~closed /\ (cancelled \/ aborted)
  /\ outcome[q] = "idle"
  /\ outcome' = Settled({q}, "cancelled")
  /\ Emit({FrameOf(1, "ask", q)}, 1)
  /\ UNCHANGED <<closed, cancelled, aborted, pending, attached>>

\* A prompt raised after the stop or the deadline is resolved visibly at once.
AskRefused(q) ==
  /\ ~closed /\ (cancelled \/ aborted)
  /\ outcome[q] = "idle"
  /\ outcome' = Settled({q}, "cancelled")
  /\ Emit({FrameOf(1, "ask", q), FrameOf(2, "prompt_resolved", q)}, 2)
  /\ UNCHANGED <<closed, cancelled, aborted, pending, attached>>

Ask(q) ==
  /\ ~closed /\ ~cancelled /\ ~aborted
  /\ outcome[q] = "idle"
  /\ outcome' = Settled({q}, "parked")
  /\ pending' = pending \cup {q}
  /\ Emit({FrameOf(1, "ask", q)}, 1)
  /\ UNCHANGED <<closed, cancelled, aborted, attached>>

\* A tool that is still unwinding asks a run that was closed.
AskClosed(q) ==
  /\ closed
  /\ outcome[q] = "idle"
  /\ outcome' = Settled({q}, "cancelled")
  /\ UNCHANGED <<closed, cancelled, aborted, pending, attached, journal>>

\* Text, tools and every other frame of a turn.
Progress ==
  /\ ~closed /\ nextEventId < MaxFrames
  /\ Emit({FrameOf(1, "status", NoRequest)}, 1)
  /\ UNCHANGED <<closed, cancelled, aborted, pending, outcome, attached>>

\* The terminal frame, then closeRun: the parked callers are let go without a
\* frame and every connection is ended.
CloseRun ==
  /\ ~closed
  /\ Emit({FrameOf(1, "end", NoRequest)}, 1)
  /\ closed' = TRUE
  /\ outcome' = Settled(pending, "cancelled")
  /\ pending' = {} /\ attached' = {}
  /\ UNCHANGED <<cancelled, aborted>>

-----------------------------------------------------------------------------
(* The people's side, and the timers. *)

\* submitResponse
Submit(q) ==
  /\ ~closed /\ q \in pending
  /\ pending' = pending \ {q}
  /\ outcome' = Settled({q}, "answered")
  /\ Emit({FrameOf(1, "prompt_resolved", q)}, 1)
  /\ UNCHANGED <<closed, cancelled, aborted, attached>>

\* Variant: the timer gives up when nobody is watching.
ExpireWatched(q) ==
  /\ ~closed /\ q \in pending /\ attached # {}
  /\ pending' = pending \ {q}
  /\ outcome' = Settled({q}, "cancelled")
  /\ Emit({FrameOf(1, "prompt_resolved", q)}, 1)
  /\ UNCHANGED <<closed, cancelled, aborted, attached>>

\* The request's time-to-live
Expire(q) ==
  /\ ~closed /\ q \in pending
  /\ pending' = pending \ {q}
  /\ outcome' = Settled({q}, "cancelled")
  /\ Emit({FrameOf(1, "prompt_resolved", q)}, 1)
  /\ UNCHANGED <<closed, cancelled, aborted, attached>>

\* releaseAbortedPrompts: the deadline aborts without marking a cancellation.
Deadline ==
  /\ ~closed /\ ~aborted
  /\ aborted' = TRUE
  /\ outcome' = Settled(pending, "cancelled")
  /\ pending' = {}
  /\ Emit(Releases, Cardinality(pending))
  /\ UNCHANGED <<closed, cancelled, attached>>

\* cancelRun: the abort releases what is parked, then the status frame.
Cancel ==
  /\ ~closed
  /\ ~cancelled \/ nextEventId < MaxFrames
  /\ cancelled' = TRUE /\ aborted' = TRUE
  /\ outcome' = Settled(pending, "cancelled")
  /\ pending' = {}
  /\ LET n == Cardinality(pending) IN
       Emit(Releases \cup {FrameOf(n + 1, "status", NoRequest)}, n + 1)
  /\ UNCHANGED <<closed, attached>>

\* cancelAllRuns, at shutdown
CancelAll ==
  /\ ~closed
  /\ cancelled' = TRUE /\ aborted' = TRUE
  /\ outcome' = Settled(pending, "cancelled")
  /\ pending' = {}
  /\ Emit(Releases, Cardinality(pending))
  /\ UNCHANGED <<closed, attached>>

-----------------------------------------------------------------------------
(* The browsers. *)

\* attachRunClient: from the start (the client clears what it showed first) or
\* from the last event id it received.
Attach(c, since) ==
  /\ ~closed /\ c \notin attached
  /\ attached' = attached \cup {c}
  /\ LET kept == {f \in frames : f.replay /\ f.id > since}
         shown == IF since = 0 THEN kept ELSE got[c] \cup kept
     IN /\ got' = [got EXCEPT ![c] = shown]
        /\ \E newest \in {since} \cup {f.id : f \in kept} :
             /\ \A f \in kept : f.id <= newest
             /\ cursor' = [cursor EXCEPT ![c] = newest]
  /\ UNCHANGED <<closed, cancelled, aborted, frames, nextEventId, pending, outcome>>

\* The connection drops; what is written to it from now on is lost.
Drop(c) ==
  /\ c \in attached
  /\ attached' = attached \ {c}
  /\ UNCHANGED <<closed, cancelled, aborted, pending, outcome, journal>>

RegistryNext ==
  \/ \E q \in Requests : AskRefused(q) \/ Ask(q) \/ AskClosed(q) \/ Submit(q) \/ Expire(q)
  \/ Progress \/ CloseRun \/ Deadline \/ Cancel \/ CancelAll
  \/ \E c \in Clients : Attach(c, 0) \/ Attach(c, cursor[c]) \/ Drop(c)

\* The time-to-live timers fire; nobody has to answer, stop or finish the run.
RegistrySpec ==
  RegistryInit /\ [][RegistryNext]_registryVars /\ \A q \in Requests : WF_registryVars(Expire(q))

-----------------------------------------------------------------------------
(* Properties. *)

Kept == {f \in frames : f.replay}

\* A browser that is connected has every frame the journal keeps, however
\* often its connection dropped and wherever it resumed (the id a frame that
\* is not kept consumes, emitRunEvent; the cursor of attachRunClient).
NoFrameLost == \A c \in attached : Kept \subseteq got[c]

Shown(c) ==
  {q \in Questions : /\ \E f \in got[c] : f.event = "ask" /\ f.request = q
                     /\ \A f \in got[c] : f.event = "prompt_resolved" => f.request # q}

\* A connected browser shows exactly the questions the run is parked on: none
\* that can no longer be answered, whichever way it was settled, and none is
\* missing after a reconnect (the prompt_resolved frames).
ShownArePending == \A c \in attached : Shown(c) = pending \cap Questions

\* Nothing stays parked on a run that was stopped, timed out or closed
\* (releaseAbortedPrompts, the late prompt in awaitResponse).
NothingParkedAfterAbort == (aborted \/ cancelled \/ closed) => \A q \in Requests : outcome[q] # "parked"

\* What a caller was told stands: no timer, stop or second answer resumes it
\* again (pending entries are deleted before they are settled).
OutcomeStands ==
  [][\A q \in Requests :
       outcome[q] \in {"answered", "cancelled"} => outcome'[q] = outcome[q]]_registryVars

Desk == INSTANCE PromptDesk WITH taking <- ~(closed \/ cancelled \/ aborted)

\* The registry is the desk its callers rely on: parked only while the run
\* takes answers, settled once, given back in the end.
IsADesk == Desk!Spec

=============================================================================
