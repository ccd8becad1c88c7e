------------------------------ MODULE MidTurn ------------------------------
(***************************************************************************)
(* One chat run that takes messages while it answers: the queue of mid-    *)
(* turn messages (agent/steerChannel.ts), the loop that drives pi          *)
(* (agent/pi/runPiAgent.ts, runPiTurn in agent/pi/eventAdapter.ts), the    *)
(* background jobs whose results ride the same queue (agent/pi/            *)
(* asyncJobs.ts) and what the chat route leaves behind (routes/chat.ts).   *)
(*                                                                         *)
(* What runs between two awaits of the loop is one step.  pi is outside:   *)
(* it runs a response, takes the inputs posted to it at its tool           *)
(* boundaries, and its events reach the loop later, in order.              *)
(***************************************************************************)
EXTENDS Naturals, Sequences, FiniteSets

CONSTANTS
  Typed,      \* messages people send while the run answers
  Slashed,    \* those of them that begin with a slash
  Jobs,       \* background jobs, each standing for the record of its result
  Opening,    \* the user row that opened the turn
  NoSession,  \* no pi session is stored: the next turn rebuilds from the rows
  MaxUndelivered,  \* MAX_UNDELIVERED_STEERS
  MaxRounds        \* maxQuestionRounds of runPiTurn

Records == Typed \cup Jobs
Inputs == Records \cup {Opening}

ASSUME MidTurnAssumption ==
  /\ IsFiniteSet(Records) /\ Typed \cap Jobs = {} /\ Slashed \subseteq Typed
  /\ Opening \notin Records /\ \A S \in SUBSET Inputs : S # NoSession
  /\ MaxUndelivered \in Nat /\ MaxRounds \in Nat

VARIABLES
  phase,      \* where the run's loop waits
  result,     \* how runPiAgent ends
  state,      \* SteerRecord.state
  chanClosed, \* SteerChannel.isClosed
  stopped,    \* cancelRun was called: the abort signal has fired
  handed,     \* the records handed to the streaming response
  job,        \* PiAsyncJobs
  showed,     \* attemptShowedOutput
  acted,      \* attemptActed
  retried,    \* healed, emptyRetried
  resumable,  \* the conversation has a stored pi session to continue
  rounds,     \* questions of the present input
  committed,  \* runSessionId: what the last committed response had read
  latest,     \* piLatestInputCommitted
  answers     \* the answer rows: what was read, and the rows stored by then

loopVars == <<phase, result, showed, acted, retried, resumable, rounds, handed>>
queueVars == <<state, chanClosed, stopped, job>>
rowVars == <<committed, latest, answers>>

VARIABLES
  pi,         \* whether pi runs the response
  input,      \* the inputs the request carries
  base,       \* what the session the request continues has read
  ctx,        \* what the running response has read
  posted,     \* POST /responses/{id}/input calls on their way
  taken,      \* inputs pi took and has not put into the context
  wrote,      \* the response produced text
  effects,    \* the attempts at the present input, by retried, in which a tool ran
  stream      \* events on their way to the loop

piVars == <<pi, ctx, posted, taken, wrote, effects, stream>>
requestVars == <<input, base>>
vars == <<loopVars, queueVars, rowVars, piVars, requestVars>>

Events == {"created", "consumed", "text", "tool", "completed", "question", "empty", "failed"}

TypeOK ==
  /\ phase \in {"preparing", "sending", "streaming", "asking", "waiting", "wrapping", "over"}
  /\ result \in {"none", "ok", "capped", "failed"}
  /\ state \in [Records -> {"new", "queued", "delivered", "completed", "dropped"}]
  /\ job \in [Jobs -> {"none", "running", "done", "aborted"}]
  /\ {chanClosed, stopped, showed, acted, resumable, latest, wrote} \subseteq BOOLEAN
  /\ retried \subseteq {"healed", "empty"} /\ effects \subseteq SUBSET {"healed", "empty"}
  /\ rounds \in 0..MaxRounds
  /\ (committed = NoSession \/ committed \subseteq Inputs)
  /\ answers \subseteq [read : SUBSET Inputs, rows : SUBSET Inputs]
  /\ pi \in {"idle", "running", "ended"}
  /\ input \subseteq Inputs /\ base \subseteq Inputs /\ ctx \subseteq Inputs
  /\ posted \subseteq handed /\ taken \subseteq handed /\ handed \subseteq Records
  /\ \A i \in DOMAIN stream : stream[i] \in [event : Events, of : Inputs]

Init ==
  /\ phase = "preparing" /\ result = "none"
  /\ state = [s \in Records |-> "new"] /\ job = [j \in Jobs |-> "none"]
  /\ chanClosed = FALSE /\ stopped = FALSE
  /\ handed = {} /\ showed = FALSE /\ acted = FALSE
  /\ retried = {} /\ rounds = 0 /\ resumable \in BOOLEAN
  /\ committed = NoSession /\ latest = FALSE /\ answers = {}
  /\ pi = "idle" /\ input = {Opening} /\ base = {} /\ ctx = {}
  /\ posted = {} /\ taken = {} /\ wrote = FALSE /\ effects = {} /\ stream = <<>>

-----------------------------------------------------------------------------
(* The queue. *)

Queued == {s \in Records : state[s] = "queued"}
Moved(S, to) == [s \in Records |-> IF s \in S THEN to ELSE state[s]]
Running == {j \in Jobs : job[j] = "running"}

\* The steer and consultation rows of the conversation: stored at delivery.
Rows == {Opening} \cup {s \in Records : state[s] \in {"delivered", "completed"}}

\* handOver: each record once per response, never one that begins with a slash
HandOver(S) ==
  /\ handed' = handed \cup (S \ Slashed)
  /\ posted' = posted \cup (S \ (Slashed \cup handed))

\* SteerChannel.close
Close ==
  /\ chanClosed' = TRUE
  /\ state' = Moved(Queued, "dropped")

\* A new record joins the queue; a response that streams is offered it at once.
Enqueue(s) ==
  /\ state' = Moved({s}, "queued")
  /\ IF phase = "streaming" THEN HandOver({s}) ELSE UNCHANGED <<handed, posted>>

\* pushRunSteer: refused (404, 410, 409) unless every condition holds
Push(s) ==
  /\ phase # "over" /\ ~stopped /\ ~chanClosed
  /\ state[s] = "new"
  /\ Cardinality(Queued) < MaxUndelivered
  /\ Enqueue(s)
  /\ UNCHANGED <<phase, result, showed, acted, retried, resumable, rounds, chanClosed,
                 stopped, job, rowVars, pi, ctx, taken, wrote, effects, stream, requestVars>>

\* cancelRun
Stop ==
  /\ phase # "over" /\ ~stopped
  /\ stopped' = TRUE
  /\ Close
  /\ UNCHANGED <<loopVars, job, rowVars, piVars, requestVars>>

-----------------------------------------------------------------------------
(* Background jobs. *)

\* The job's result is pushed unless the channel no longer takes it.
JobDelivers(j) ==
  /\ job[j] = "running"
  /\ job' = [job EXCEPT ![j] = "done"]
  /\ IF chanClosed THEN UNCHANGED <<state, handed, posted>> ELSE Enqueue(j)
  /\ UNCHANGED <<phase, result, showed, acted, retried, resumable, rounds, chanClosed,
                 stopped, rowVars, pi, ctx, taken, wrote, effects, stream, requestVars>>

\* It fails, or has nothing to say.
JobFails(j) ==
  /\ job[j] = "running"
  /\ job' = [job EXCEPT ![j] = "done"]
  /\ UNCHANGED <<loopVars, state, chanClosed, stopped, rowVars, piVars, requestVars>>

-----------------------------------------------------------------------------
(* pi, as the client of src/server/agent/pi/responsesClient.ts sees it. *)

Send(event, of) == stream' = Append(stream, [event |-> event, of |-> of])

PiStarts ==
  /\ phase = "sending" /\ pi = "idle"
  /\ pi' = "running"
  /\ ctx' = base \cup input
  /\ wrote' = FALSE
  /\ Send("created", Opening)
  /\ UNCHANGED <<loopVars, queueVars, rowVars, requestVars, posted, taken, effects>>

\* An input posted to the response is taken, or refused, or lost.
PiTakes(s) ==
  /\ s \in posted
  /\ posted' = posted \ {s}
  /\ taken' \in {taken, IF pi = "running" THEN taken \cup {s} ELSE taken}
  /\ UNCHANGED <<loopVars, queueVars, rowVars, requestVars, pi, ctx, wrote, effects, stream>>

\* At a tool boundary it goes into the context.
PiConsumes(s) ==
  /\ pi = "running" /\ s \in taken
  /\ taken' = taken \ {s}
  /\ ctx' = ctx \cup {s}
  /\ Send("consumed", s)
  /\ UNCHANGED <<loopVars, queueVars, rowVars, requestVars, pi, posted, wrote, effects>>

PiWrites ==
  /\ pi = "running" /\ ~wrote
  /\ wrote' = TRUE
  /\ Send("text", Opening)
  /\ UNCHANGED <<loopVars, queueVars, rowVars, requestVars, pi, ctx, posted, taken, effects>>

\* A tool runs, perhaps one that starts a background job (one tool per attempt).
PiActs(started) ==
  /\ pi = "running" /\ retried \notin effects
  /\ started \subseteq {j \in Jobs : job[j] = "none"}
  /\ effects' = effects \cup {retried}
  /\ job' = [j \in Jobs |-> IF j \in started THEN "running" ELSE job[j]]
  /\ Send("tool", Opening)
  /\ UNCHANGED <<loopVars, state, chanClosed, stopped, rowVars, requestVars, pi, ctx, posted, taken, wrote>>

\* The turn ends: a commit (completed, or incomplete after a cancel), a
\* question, or a failure; an empty turn wrote no text.
PiEnds(how) ==
  /\ pi = "running"
  /\ how = "empty" => ~wrote
  /\ pi' = "ended"
  /\ Send(how, Opening)
  /\ UNCHANGED <<loopVars, queueVars, rowVars, requestVars, ctx, posted, taken, wrote, effects>>

-----------------------------------------------------------------------------
(* The loop of runPiAgent. *)

\* The next request: what streamed before is gone with its response.
SendNext ==
  /\ phase' = "sending" /\ pi' = "idle"
  /\ stream' = <<>> /\ handed' = {} /\ posted' = {} /\ taken' = {}
  /\ UNCHANGED <<ctx, wrote>>

\* Leaving the try: the channel is closed, the jobs are aborted.
Wrap(how) ==
  /\ phase' = "wrapping" /\ result' = how
  /\ Close
  /\ job' = [j \in Jobs |-> IF j \in Running THEN "aborted" ELSE job[j]]
  /\ pi' = "idle" /\ stream' = <<>> /\ handed' = {} /\ posted' = {} /\ taken' = {}
  /\ UNCHANGED <<stopped, ctx, wrote, effects, showed, acted, retried, resumable, rounds, answers,
                 requestVars>>

\* The follow-up turn carries all that is queued, in one request.
GoOn(read) ==
  /\ state' = Moved(Queued, "delivered")
  /\ input' = Queued /\ base' = read
  /\ showed' = FALSE /\ acted' = FALSE /\ rounds' = 0 /\ effects' = {}
  /\ SendNext
  /\ UNCHANGED <<result, retried, resumable, chanClosed, stopped, job>>

\* Variant: the follow-up input counts as committed before pi has read it.
FollowUpCommitted(read) ==
  /\ answers' = answers \cup {[read |-> read, rows |-> Rows]}
  /\ latest' = TRUE
  /\ GoOn(read)

\* Variant: the records are delivered before the segment is stored.
FollowUpSwapped(read) ==
  /\ answers' = answers \cup {[read |-> read, rows |-> Rows \cup Queued]}
  /\ latest' = FALSE
  /\ GoOn(read)

\* onTurnResult(steerPending) stores the segment before the records move.
FollowUp(read) ==
  /\ answers' = answers \cup {[read |-> read, rows |-> Rows]}
  /\ latest' = FALSE
  /\ GoOn(read)

WaitForJobs ==
  /\ phase' = "waiting" /\ latest' = TRUE /\ stream' = <<>>
  /\ UNCHANGED <<result, showed, acted, retried, resumable, rounds, handed, queueVars, answers,
                 pi, ctx, posted, taken, wrote, effects, requestVars>>

\* Variant: the run ends without a look at the queue.
BoundaryUnread(read) ==
  \/ Running # {} /\ Queued = {} /\ WaitForJobs
  \/ Running = {} /\ Wrap("ok") /\ latest' = TRUE

\* Variant: the run does not wait for its jobs.
BoundaryImpatient(read) ==
  \/ Queued # {} /\ FollowUp(read)
  \/ Queued = {} /\ Wrap("ok") /\ latest' = TRUE

\* A response of a run nobody stopped was committed: wait for the jobs, answer
\* what is queued, or end.
Boundary(read) ==
  \/ Queued = {} /\ Running # {} /\ WaitForJobs
  \/ Queued # {} /\ FollowUp(read)
  \/ Queued = {} /\ Running = {} /\ Wrap("ok") /\ latest' = TRUE

\* Plugins, the knowledge repository, the tool list: awaited before the try.
Prepare ==
  /\ phase = "preparing"
  /\ IF stopped THEN Wrap("failed") /\ UNCHANGED <<committed, latest>>
     ELSE /\ SendNext
          /\ UNCHANGED <<result, showed, acted, retried, resumable, rounds, queueVars, rowVars, effects, requestVars>>

\* One of them throws: the route writes the error row and closes.
PrepareFails ==
  /\ phase = "preparing"
  /\ phase' = "over" /\ result' = "failed"
  /\ Close
  /\ UNCHANGED <<stopped, job, committed, latest, answers, piVars, requestVars,
                 showed, acted, retried, resumable, rounds, handed>>

\* Variant: an attempt that ran a tool is sent again.
RepeatableActed == ~stopped /\ Opening \notin base /\ ~showed

\* A failed attempt may be sent again: only the first input, and only while
\* the attempt neither showed nor did anything.
Repeatable == ~stopped /\ Opening \notin base /\ ~showed /\ ~acted

Repeat(why) ==
  /\ why \notin retried /\ retried' = retried \cup {why}
  /\ SendNext
  /\ UNCHANGED <<result, showed, acted, resumable, rounds, queueVars, rowVars, effects, requestVars>>

\* The stored session is gone: once, a new one is made from the stored history.
OpenFails ==
  /\ phase = "sending" /\ pi = "idle"
  /\ \/ Repeatable /\ resumable /\ Repeat("healed")
     \/ Wrap("failed") /\ UNCHANGED <<committed, latest>>

\* The connection breaks, a deadline of the client fires, or the grace after
\* a stop is over: the response is cut and pi discards it.
StreamCut ==
  /\ phase \in {"sending", "streaming"}
  /\ Wrap("failed") /\ UNCHANGED <<committed, latest>>

HandleCreated ==
  /\ phase' = "streaming"
  /\ HandOver(Queued)
  /\ UNCHANGED <<result, showed, acted, retried, resumable, rounds, queueVars, rowVars,
                 requestVars, pi, ctx, taken, wrote, effects>>

\* Variant: only a response that has written nothing yet takes the event.
HandleConsumedEarly(s) ==
  /\ state' = Moved(IF showed THEN {} ELSE {s} \cap Queued, "delivered")
  /\ showed' = (showed \/ s \in Queued)
  /\ UNCHANGED <<phase, result, acted, retried, resumable, rounds, handed, chanClosed, stopped, job,
                 rowVars, requestVars, pi, ctx, posted, taken, wrote, effects>>

\* noteLifecycle("started"): a record that is no longer queued stays as it is
HandleConsumed(s) ==
  /\ state' = Moved({s} \cap Queued, "delivered")
  /\ showed' = (showed \/ s \in Queued)
  /\ UNCHANGED <<phase, result, acted, retried, resumable, rounds, handed, chanClosed, stopped, job,
                 rowVars, requestVars, pi, ctx, posted, taken, wrote, effects>>

HandleOutput(event) ==
  /\ showed' = (showed \/ event = "text")
  /\ acted' = (acted \/ event = "tool")
  /\ UNCHANGED <<phase, result, retried, resumable, rounds, handed, queueVars, rowVars,
                 requestVars, pi, ctx, posted, taken, wrote, effects>>

\* onSessionId, then the boundary; a run that was stopped ends here.
HandleCommit ==
  /\ committed' = ctx
  /\ IF stopped THEN Wrap("failed") /\ latest' = TRUE ELSE Boundary(ctx)

\* The question is shown; its response is never reported as a session.
HandleQuestion ==
  IF rounds + 1 >= MaxRounds THEN Wrap("failed") /\ UNCHANGED <<committed, latest>>
  ELSE /\ phase' = "asking" /\ showed' = TRUE /\ rounds' = rounds + 1
       /\ UNCHANGED <<result, acted, retried, resumable, handed, queueVars, rowVars, requestVars,
                      pi, ctx, posted, taken, wrote, effects>>

\* An empty turn is sent once more.
HandleFailure(event) ==
  \/ event = "empty" /\ Repeatable /\ Repeat("empty")
  \/ ~(event = "empty" /\ Repeatable /\ "empty" \notin retried)
     /\ Wrap("failed") /\ UNCHANGED <<committed, latest>>

Handle ==
  /\ phase \in {"sending", "streaming"} /\ stream # <<>>
  /\ LET e == Head(stream) IN
       \/ e.event = "created" /\ stream' = Tail(stream) /\ HandleCreated
       \/ e.event = "consumed" /\ stream' = Tail(stream) /\ HandleConsumed(e.of)
       \/ e.event \in {"text", "tool"} /\ stream' = Tail(stream) /\ HandleOutput(e.event)
       \/ e.event = "completed" /\ HandleCommit
       \/ e.event = "question" /\ stream' = <<>> /\ HandleQuestion
       \/ e.event \in {"empty", "failed"} /\ HandleFailure(e.event)

\* The answer to a question continues the response that asked it.
Answer ==
  /\ phase = "asking"
  /\ IF stopped THEN Wrap("failed") /\ UNCHANGED <<committed, latest>>
     ELSE /\ SendNext
          /\ base' = ctx /\ input' = {}
          /\ UNCHANGED <<result, showed, acted, retried, resumable, rounds, queueVars, rowVars, effects>>

\* A push, the end of the jobs or a stop ends the wait.
WaitEnds ==
  /\ phase = "waiting"
  /\ \/ stopped /\ Wrap("failed") /\ UNCHANGED <<committed, latest>>
     \/ ~stopped /\ Queued # {} /\ FollowUp(committed) /\ UNCHANGED committed
     \/ ~stopped /\ Queued = {} /\ Running = {} /\ Wrap("ok") /\ UNCHANGED <<committed, latest>>

\* Variant: only a stopped run is not kept waiting.
WaitCapStopped ==
  /\ phase = "waiting" /\ stopped /\ Queued = {} /\ Running # {}
  /\ Wrap("capped") /\ UNCHANGED <<committed, latest>>

\* ASYNC_WAIT_CAP_MS
WaitCap ==
  /\ phase = "waiting" /\ ~stopped /\ Queued = {} /\ Running # {}
  /\ Wrap("capped") /\ UNCHANGED <<committed, latest>>

\* The route writes the answer (or the stopped, or the error row), the terminal
\* frame, and closes the run.
Finish ==
  /\ phase = "wrapping"
  /\ phase' = "over"
  /\ IF result = "failed" THEN UNCHANGED <<state, answers>>
     ELSE /\ answers' = answers \cup {[read |-> committed, rows |-> Rows]}
          /\ state' = Moved({s \in Records : state[s] = "delivered"}, "completed")
  /\ UNCHANGED <<result, showed, acted, retried, resumable, rounds, handed, chanClosed, stopped, job,
                 committed, latest, piVars, requestVars>>

-----------------------------------------------------------------------------
People == Stop \/ \E s \in Typed : Push(s)
Background == \E j \in Jobs : JobDelivers(j) \/ JobFails(j)
Pi == PiStarts \/ PiWrites
      \/ (\E s \in Records : PiTakes(s) \/ PiConsumes(s))
      \/ (\E started \in SUBSET Jobs : PiActs(started))
      \/ (\E how \in {"completed", "question", "empty", "failed"} : PiEnds(how))
Loop == Prepare \/ PrepareFails \/ OpenFails \/ StreamCut \/ Handle \/ Answer
        \/ WaitEnds \/ WaitCap \/ Finish

Next == People \/ Background \/ Pi \/ Loop

\* The loop's awaits return: what it prepares, reads and closes by itself, a
\* stream by the client's connect, idle and total deadlines, a question by its
\* time-to-live, a wait by its cap.  Nobody has to push or stop, and pi and the
\* jobs may hang.
Spec ==
  /\ Init /\ [][Next]_vars
  /\ WF_vars(Prepare) /\ WF_vars(Handle) /\ WF_vars(StreamCut) /\ WF_vars(Answer)
  /\ WF_vars(WaitEnds) /\ WF_vars(WaitCap) /\ WF_vars(Finish)

-----------------------------------------------------------------------------
(* Properties. *)

\* The session the next turn continues: setAgentSessionId, sessionAfterAbort.
Session == IF result = "failed" /\ ~latest THEN NoSession ELSE committed

\* A session that is kept has read every row of the turn: the next turn, which
\* sends no history to a session, loses no message, whether the run ended well,
\* was stopped or failed, at any of its responses (piLatestInputCommitted).
SessionCoversRows == phase = "over" /\ Session # NoSession => Rows \subseteq Session

\* An answer row stands after exactly the rows its response had read: a message
\* folded into it before, one for the follow-up turn after it.
AnswersReadTheirRows == \A a \in answers : a.read = a.rows

\* A run that ends well answered every message it accepted.
AcceptedAreAnswered ==
  phase = "over" /\ result # "failed" => \A s \in Records : state[s] \in {"new", "completed"}

\* A background job's result is not lost by a run that ended well before its
\* wait was capped.
JobsAreAwaited == result = "ok" => \A j \in Jobs : job[j] # "aborted"

\* No message is put before a model that has read it: neither the follow-up
\* turn nor a response that goes on after a question is given it again.
NothingReadTwice == input \cap base = {} /\ (pi = "running" => (posted \cup taken) \cap ctx = {})

\* The tools of one input run in one attempt at it: a second add_todos, message
\* or push is never sent by a retry (attemptRepeatable).
EffectsOnce == Cardinality(effects) <= 1

\* Every run ends, though people leave, pi hangs and a job never answers.
EveryRunEnds == <>(phase = "over")

\* What the channel's comment says: a dropped record never reached the model.
\* The code does not keep it (README, Disagreements).
DroppedNeverReached ==
  phase = "over" /\ Session # NoSession => \A s \in Records : state[s] = "dropped" => s \notin Session

=============================================================================
