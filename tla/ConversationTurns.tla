------------------------- MODULE ConversationTurns -------------------------
(***************************************************************************)
(* One conversation of Noah and everybody who writes into it: the owner's  *)
(* POSTs (a plain message, an edit, a regenerate), the tasks an external   *)
(* system submitted, the routines bound to the thread, and the owner's     *)
(* delete and cancel (src/server/routes/chat.ts executeChatTurn,           *)
(* avatarTaskRunner.ts, scheduler.ts, store/conversations.ts).             *)
(*                                                                         *)
(* The process is single threaded: what runs between two awaits is one     *)
(* step.  A turn is admitted in two such steps.  The first (Admit...) ends *)
(* at the first await (models.list, then the working repository); the      *)
(* second (Send..., Rewind...) writes the user row, re-checks the thread   *)
(* and opens the run, and other actors run between the two.                *)
(*                                                                         *)
(* The messages table is a set of rows; a row's id is its rowid, which is  *)
(* the order every query of the thread uses.                               *)
(***************************************************************************)
EXTENDS Integers, FiniteSets

CONSTANTS
  Sends,        \* plain messages the owner posts
  Edits,        \* edits of an earlier message (rewindFromMessageId)
  Regenerates,  \* "regenerate" requests
  Tasks,        \* instructions accepted by the personal task API
  Routines,     \* routine jobs bound to this conversation
  None,         \* no run
  MaxSteers,    \* bound: mid-turn messages delivered in a behaviour
  MaxDeletes,   \* bound: deletes of the conversation
  MaxFirings,   \* bound: firings of each routine
  MaxRequeues,  \* MAX_REQUEUE_ATTEMPTS of the task runner
  KeepRows      \* MAX_ROUTINE_RUN_RECORDS * 2

Turns == Sends \cup Edits \cup Regenerates \cup Tasks
Rewinds == Edits \cup Regenerates
Writers == Turns \cup Routines

ASSUME TurnsAssumption ==
  /\ Sends \cap (Rewinds \cup Tasks) = {}
  /\ Edits \cap (Regenerates \cup Tasks) = {}
  /\ Regenerates \cap Tasks = {}
  /\ Routines \cap Turns = {}
  /\ None \notin Turns

ASSUME BoundsAssumption ==
  /\ MaxSteers \in Nat /\ MaxDeletes \in Nat
  /\ MaxFirings \in Nat /\ MaxRequeues \in Nat /\ KeepRows \in Nat \ {0}

VARIABLES
  conversation, \* the row of the conversations table exists
  messages,     \* the rows of the messages table
  nextId,       \* the next rowid
  runs,         \* turns with a live run in the registry
  convRun,      \* conversationRuns: the run mapped to this conversation
  cancelled,    \* runs whose cancelled flag is set
  pc,           \* where each turn's handler is
  plan,         \* a rewind's plan, made before its first await
  question,     \* the id of the user row a turn answers, 0 when not written
  openedAt,     \* nextId when a turn's run opened
  task,         \* status of each avatar_tasks row
  attempts,     \* requeues of each task
  jobs,         \* routines that still have a routine_jobs row
  running,      \* runningJobs of the routine run registry
  firings,      \* firings so far
  steered,      \* mid-turn messages delivered so far
  deletes,      \* deletes so far
  deletedUpTo,  \* history: the last id a delete of the thread removed
  pruned        \* history: the ids the routine cap removed

vars == <<conversation, messages, nextId, runs, convRun, cancelled, pc, plan,
          question, openedAt, task, attempts, jobs, running, firings, steered,
          deletes, deletedUpTo, pruned>>

table == <<conversation, messages, nextId>>
registry == <<runs, convRun, cancelled, openedAt>>
routineState == <<jobs, running, firings>>
history == <<deletes, deletedUpTo, pruned>>

Message == [id : Nat, role : {"user", "assistant"},
            kind : {"ordinary", "queued", "steer"}, by : Writers, question : Nat]
Plan == [anchor : Nat, keep : SUBSET Nat, drop : SUBSET Nat]
NoPlan == [anchor |-> 0, keep |-> {}, drop |-> {}]

TypeOK ==
  /\ conversation \in BOOLEAN
  /\ messages \in SUBSET Message
  /\ nextId \in Nat \ {0}
  /\ runs \in SUBSET Turns
  /\ convRun \in Turns \cup {None}
  /\ cancelled \in SUBSET Turns
  /\ pc \in [Turns -> {"idle", "resolving", "open", "closed", "refused"}]
  /\ plan \in [Turns -> Plan]
  /\ question \in [Turns -> Nat]
  /\ openedAt \in [Turns -> Nat]
  /\ task \in [Tasks -> {"none", "queued", "running", "ended"}]
  /\ attempts \in [Tasks -> Nat]
  /\ jobs \in SUBSET Routines
  /\ running \in SUBSET Routines
  /\ firings \in [Routines -> Nat]
  /\ steered \in Nat /\ deletes \in Nat
  /\ deletedUpTo \in Nat /\ pruned \in SUBSET Nat

Init ==
  /\ conversation = (Routines # {})  \* a routine's thread is made with the job
  /\ messages = {}
  /\ nextId = 1
  /\ runs = {} /\ convRun = None /\ cancelled = {}
  /\ pc = [t \in Turns |-> "idle"]
  /\ plan = [t \in Turns |-> NoPlan]
  /\ question = [t \in Turns |-> 0]
  /\ openedAt = [t \in Turns |-> 0]
  /\ task = [t \in Tasks |-> "none"]
  /\ attempts = [t \in Tasks |-> 0]
  /\ jobs = Routines /\ running = {} /\ firings = [r \in Routines |-> 0]
  /\ steered = 0 /\ deletes = 0 /\ deletedUpTo = 0 /\ pruned = {}

-----------------------------------------------------------------------------
(* The tables as the handlers read them. *)

\* Variant: the lookup never finds the run (a key that does not match).
NoActiveRun == None

\* getActiveRunForConversation
ActiveRun == IF convRun \in runs THEN convRun ELSE None

Row(id, role, kind, by, q) ==
  [id |-> id, role |-> role, kind |-> kind, by |-> by, question |-> q]

\* Variant: the row refused by the re-check is not marked.
QuestionRowUnmarked(t, kind) == Row(nextId, "user", "ordinary", t, nextId)

\* The user row of a turn.
QuestionRow(t, kind) == Row(nextId, "user", kind, t, nextId)

\* The row a turn's answer is stored in; nothing when the thread is gone.
Answer(t) ==
  IF conversation THEN {Row(nextId, "assistant", "ordinary", t, question[t])}
                  ELSE {}

Before(id) == {m \in messages : m.id < id}
From(id) == {m \in messages : m.id >= id}
After(id) == {m \in messages : m.id > id}
Ids(ms) == {m.id : m \in ms}

\* planConversationRewind: "from" the anchor for an edit, "after" it otherwise
PlanAt(t, anchor) ==
  [anchor |-> anchor, keep |-> Ids(Before(anchor)),
   drop |-> IF t \in Edits THEN Ids(From(anchor)) ELSE Ids(After(anchor))]

\* findRegenerateAnchorId: the last user row that is not a steer
IsRegenerateAnchor(m) ==
  /\ m.role = "user" /\ m.kind # "steer"
  /\ \A n \in After(m.id) : n.role = "user" => n.kind = "steer"

\* Variant: a queued row may anchor.
AnchorsOfAnyKind(t) ==
  {m \in messages : m.role = "user" /\ (t \in Regenerates => IsRegenerateAnchor(m))}

\* planTurnRewind: the rows the request may be anchored at
Anchors(t) ==
  {m \in messages : /\ m.role = "user" /\ m.kind = "ordinary"
                    /\ t \in Regenerates => IsRegenerateAnchor(m)}

\* Variant: a rewind does not ask for pending work.
NeverBusy == FALSE

\* countPendingAvatarTasksForConversation, and the running routines whose
\* routine_jobs row still names this conversation
RewindBusy ==
  \/ \E t \in Tasks : task[t] \in {"queued", "running"}
  \/ jobs \cap running # {}

\* Variant: the plan is applied without planning again.
NeverDrifted(t) == FALSE

\* The plan re-made at the apply differs from the one the turn was built on.
Drifted(t) ==
  \/ plan[t].anchor \notin Ids(messages)
  \/ PlanAt(t, plan[t].anchor) # plan[t]

Newest(ms, n) == {m \in ms : Cardinality({k \in ms : k.id > m.id}) < n}

-----------------------------------------------------------------------------
(* Admission, first step: everything before the first await. *)

\* A plain message is turned away only by a live run.
AdmitSend(t) ==
  /\ pc[t] = "idle"
  /\ pc' = [pc EXCEPT ![t] = IF ActiveRun = None THEN "resolving" ELSE "refused"]
  /\ UNCHANGED <<table, registry, plan, question, task, attempts,
                 routineState, steered, history>>

AdmitRewind(t) ==
  /\ pc[t] = "idle"
  /\ ActiveRun = None /\ ~RewindBusy
  /\ \E m \in Anchors(t) : plan' = [plan EXCEPT ![t] = PlanAt(t, m.id)]
  /\ pc' = [pc EXCEPT ![t] = "resolving"]
  /\ UNCHANGED <<table, registry, question, task, attempts, routineState,
                 steered, history>>

\* Refused before the first await: a live run, pending work, no row that may
\* anchor, or an unusable request (a stale row id, a retired command).
RefuseRewind(t) ==
  /\ pc[t] = "idle"
  /\ pc' = [pc EXCEPT ![t] = "refused"]
  /\ UNCHANGED <<table, registry, plan, question, task, attempts,
                 routineState, steered, history>>

\* acceptAvatarTask: the API only names a thread the owner has, or mints one.
AcceptTask(t) ==
  /\ task[t] = "none"
  /\ conversation \/ nextId + deletes = 1
  /\ conversation' = TRUE
  /\ task' = [task EXCEPT ![t] = "queued"]
  /\ UNCHANGED <<messages, nextId, registry, pc, plan, question, attempts,
                 routineState, steered, history>>

\* deleteConversationIfEmpty: a thread no turn was run on goes with its task.
ThreadKept(t) ==
  conversation /\ (messages # {} \/ \E s \in Tasks \ {t} : task[s] \in {"queued", "running"})

\* No run is live on the thread and no other task of this owner is in flight.
Dispatchable(t) ==
  /\ task[t] = "queued"
  /\ ActiveRun = None
  /\ \A s \in Tasks : pc[s] \notin {"resolving", "open"}

\* The dispatcher claims the task and runs executeChatTurn up to its first await.
ClaimTask(t) ==
  /\ Dispatchable(t) /\ conversation
  /\ task' = [task EXCEPT ![t] = "running"]
  /\ pc' = [pc EXCEPT ![t] = "resolving"]
  /\ UNCHANGED <<table, registry, plan, question, attempts, routineState,
                 steered, history>>

\* The thread is gone, the key was revoked or the account is suspended: the
\* claimed task fails before its turn.
DropTask(t) ==
  /\ Dispatchable(t)
  /\ task' = [task EXCEPT ![t] = "ended"]
  /\ pc' = [pc EXCEPT ![t] = "refused"]
  /\ conversation' = ThreadKept(t)
  /\ UNCHANGED <<messages, nextId, registry, plan, question, attempts,
                 routineState, steered, history>>

\* The external cancel of a queued or claimed task writes the row itself.
CancelTask(t) ==
  /\ task[t] = "queued" \/ (task[t] = "running" /\ t \notin runs)
  /\ task' = [task EXCEPT ![t] = "ended"]
  /\ conversation' = IF task[t] = "queued" THEN ThreadKept(t) ELSE conversation
  /\ UNCHANGED <<messages, nextId, registry, pc, plan, question, attempts,
                 routineState, steered, history>>

-----------------------------------------------------------------------------
(* Admission, second step: from the last await to openRun. *)

\* A 409 puts a running task back in the queue until its attempts run out;
\* every other turn is refused for good.
TurnAway(t, status) ==
  IF t \in Tasks
  THEN LET again == status = 409 /\ attempts[t] < MaxRequeues /\ task[t] = "running" IN
       /\ task' = [task EXCEPT ![t] = IF again THEN "queued" ELSE "ended"]
       /\ attempts' = [attempts EXCEPT ![t] = IF again THEN @ + 1 ELSE @]
       /\ pc' = [pc EXCEPT ![t] = IF again THEN "idle" ELSE "refused"]
  ELSE /\ pc' = [pc EXCEPT ![t] = "refused"]
       /\ UNCHANGED <<task, attempts>>

\* The working repository is locked (409) or cannot be opened.
RepoRefuses(t) ==
  /\ pc[t] = "resolving"
  /\ \E status \in {409, 502} : TurnAway(t, status)
  /\ UNCHANGED <<table, registry, plan, question, routineState, steered, history>>

OpenRun(t) ==
  /\ runs' = runs \cup {t}
  /\ convRun' = t
  /\ openedAt' = [openedAt EXCEPT ![t] = nextId']
  /\ pc' = [pc EXCEPT ![t] = "open"]
  /\ UNCHANGED cancelled

\* touchConversation, and the user row unless an earlier attempt stored it
StoreQuestion(t, kind) ==
  /\ conversation' = TRUE
  /\ IF question[t] = 0
     THEN /\ messages' = messages \cup {QuestionRow(t, kind)}
          /\ nextId' = nextId + 1
          /\ question' = [question EXCEPT ![t] = nextId]
     ELSE UNCHANGED <<messages, nextId, question>>

\* Another turn took the thread during the awaits: the row stays, as queued.
SendRaced(t) ==
  /\ pc[t] = "resolving"
  /\ ActiveRun # None
  /\ StoreQuestion(t, "queued")
  /\ TurnAway(t, 409)
  /\ UNCHANGED <<registry, plan, routineState, steered, history>>

SendOpens(t) ==
  /\ pc[t] = "resolving"
  /\ ActiveRun = None
  /\ t \in Tasks => task[t] = "running"
  /\ StoreQuestion(t, "ordinary")
  /\ OpenRun(t)
  /\ UNCHANGED <<plan, task, attempts, routineState, steered, history>>

\* onRunOpen declines (the task was cancelled or deleted meanwhile) or throws
\* (the SSE handshake): the run is opened and closed within the step.
OpenAbandoned(t) ==
  /\ pc[t] = "resolving"
  /\ ActiveRun = None
  /\ t \in Tasks => task[t] # "running"
  /\ StoreQuestion(t, "ordinary")
  /\ pc' = [pc EXCEPT ![t] = "closed"]
  /\ UNCHANGED <<registry, plan, task, attempts, routineState, steered, history>>

\* The thread was taken, is busy, or changed since the plan: nothing is cut,
\* but touchConversation has already run.
RewindRefused(t) ==
  /\ pc[t] = "resolving"
  /\ ActiveRun # None \/ RewindBusy \/ Drifted(t)
  /\ conversation' = TRUE
  /\ pc' = [pc EXCEPT ![t] = "refused"]
  /\ UNCHANGED <<messages, nextId, registry, plan, question, task, attempts,
                 routineState, steered, history>>

\* applyConversationRewind and the edit's replacement row
ApplyRewind(t) ==
  /\ pc[t] = "resolving"
  /\ ActiveRun = None /\ ~RewindBusy /\ ~Drifted(t)
  /\ LET kept == {m \in messages : m.id \notin plan[t].drop} IN
       IF t \in Edits
       THEN /\ messages' = kept \cup {QuestionRow(t, "ordinary")}
            /\ question' = [question EXCEPT ![t] = nextId]
            /\ nextId' = nextId + 1
       ELSE /\ messages' = kept
            /\ question' = [question EXCEPT ![t] = plan[t].anchor]
            /\ UNCHANGED nextId
  /\ UNCHANGED <<conversation, plan, task, attempts, routineState, steered, history>>

RewindOpens(t) == ApplyRewind(t) /\ OpenRun(t)

\* Variant: the handshake throws and closeRun is not called.
RewindAbandonedLeaks(t) ==
  /\ ApplyRewind(t)
  /\ runs' = runs \cup {t} /\ convRun' = t
  /\ pc' = [pc EXCEPT ![t] = "closed"]
  /\ UNCHANGED <<cancelled, openedAt>>

\* The SSE handshake throws: the run is closed within the step, and what was
\* cut stays cut.
RewindAbandoned(t) ==
  /\ ApplyRewind(t)
  /\ pc' = [pc EXCEPT ![t] = "closed"]
  /\ UNCHANGED registry

-----------------------------------------------------------------------------
(* The live run. *)

Cancel(t) ==
  /\ t \in runs
  /\ cancelled' = cancelled \cup {t}
  /\ UNCHANGED <<table, runs, convRun, openedAt, pc, plan, question, task,
                 attempts, routineState, steered, history>>

\* The model took a mid-turn message: its row is written only now.  An answer
\* segment goes before it when the message opens a follow-up turn.  A task's
\* run has no channel, and a cancelled run's channel is closed.  The answer of
\* a consulted colleague (kind "consultation") takes the same way.
Steer(t, followUp) ==
  /\ t \in runs \ (cancelled \cup Tasks)
  /\ steered < MaxSteers
  /\ LET segment == IF followUp THEN Answer(t) ELSE {}
         id == IF followUp THEN nextId + 1 ELSE nextId
     IN IF conversation
        THEN /\ messages' = messages \cup segment
                               \cup {Row(id, "user", "steer", t, id)}
             /\ nextId' = id + 1
        ELSE UNCHANGED <<messages, nextId>>
  /\ steered' = steered + 1
  /\ UNCHANGED <<conversation, registry, pc, plan, question, task, attempts,
                 routineState, history>>

\* done, stopped or failed: each writes one assistant row, then closeRun
Finish(t) ==
  /\ t \in runs /\ pc[t] = "open"
  /\ messages' = messages \cup Answer(t)
  /\ nextId' = IF conversation THEN nextId + 1 ELSE nextId
  /\ runs' = runs \ {t}
  /\ convRun' = None
  /\ pc' = [pc EXCEPT ![t] = "closed"]
  /\ task' = [s \in Tasks |-> IF s = t /\ task[s] = "running" THEN "ended" ELSE task[s]]
  /\ UNCHANGED <<conversation, cancelled, openedAt, plan, question, attempts,
                 routineState, steered, history>>

\* DELETE /api/conversations/:id: stop the live run, drop the rows and tasks
Delete ==
  /\ conversation /\ deletes < MaxDeletes
  /\ cancelled' = cancelled \cup ({ActiveRun} \ {None})
  /\ conversation' = FALSE /\ messages' = {}
  /\ task' = [t \in Tasks |-> IF task[t] = "none" THEN "none" ELSE "ended"]
  /\ deletes' = deletes + 1 /\ deletedUpTo' = nextId - 1
  /\ UNCHANGED <<nextId, runs, convRun, openedAt, pc, plan, question, attempts,
                 routineState, steered, pruned>>

-----------------------------------------------------------------------------
(* Routines: headless, outside the run registry. *)

\* executeRoutineJob: the overlap guard, the live-run guard, the slot
StartRoutine(r) ==
  /\ r \in jobs \ running
  /\ ActiveRun = None
  /\ firings[r] < MaxFirings
  /\ running' = running \cup {r}
  /\ firings' = [firings EXCEPT ![r] = @ + 1]
  /\ UNCHANGED <<table, registry, pc, plan, question, task, attempts, jobs,
                 steered, history>>

\* The working repository is held elsewhere: nothing is written.
SkipRoutine(r) ==
  /\ r \in running
  /\ running' = running \ {r}
  /\ UNCHANGED <<table, registry, pc, plan, question, task, attempts, jobs,
                 firings, steered, history>>

\* routineUserRow: queued when a run is live on the thread at this moment
RoutineRowKind == IF ActiveRun = None THEN "ordinary" ELSE "queued"

\* touchConversation, the question and answer pair, then the cap
FinishRoutine(r) ==
  /\ r \in running
  /\ conversation' = TRUE
  /\ LET pair == {Row(nextId, "user", RoutineRowKind, r, nextId),
                  Row(nextId + 1, "assistant", "ordinary", r, nextId)}
         all == messages \cup pair
     IN /\ messages' = Newest(all, KeepRows)
        /\ pruned' = pruned \cup Ids(all \ Newest(all, KeepRows))
  /\ nextId' = nextId + 2
  /\ running' = running \ {r}
  /\ UNCHANGED <<registry, pc, plan, question, task, attempts, jobs, firings,
                 steered, deletes, deletedUpTo>>

\* deleteRoutineJob drops the row only; a firing in flight runs on.
DeleteRoutineJob(r) ==
  /\ r \in jobs
  /\ jobs' = jobs \ {r}
  /\ UNCHANGED <<table, registry, pc, plan, question, task, attempts, running,
                 firings, steered, history>>

-----------------------------------------------------------------------------
Next ==
  \/ \E t \in Sends : AdmitSend(t)
  \/ \E t \in Rewinds : \/ AdmitRewind(t) \/ RefuseRewind(t)
                        \/ RewindRefused(t) \/ RewindOpens(t) \/ RewindAbandoned(t)
  \/ \E t \in Tasks : AcceptTask(t) \/ ClaimTask(t) \/ DropTask(t) \/ CancelTask(t)
  \/ \E t \in Sends \cup Tasks : SendRaced(t) \/ SendOpens(t) \/ OpenAbandoned(t)
  \/ \E t \in Turns : \/ RepoRefuses(t) \/ Cancel(t) \/ Finish(t)
                      \/ Steer(t, TRUE) \/ Steer(t, FALSE)
  \/ \E r \in Routines : \/ StartRoutine(r) \/ SkipRoutine(r) \/ FinishRoutine(r)
                         \/ DeleteRoutineJob(r)
  \/ Delete

\* The task whose turn is under way goes on to its second step.
TaskTurn(t) == SendRaced(t) \/ SendOpens(t) \/ OpenAbandoned(t) \/ RepoRefuses(t)

\* The dispatcher ticks, and a task's awaits have timeouts and its run a
\* deadline.  A stopped run unwinds (abort, then the 5 s grace); an interactive
\* run nobody stops may stay open for good, and its awaits may hang.
Fairness ==
  /\ \A t \in Tasks :
       /\ WF_vars(ClaimTask(t) \/ DropTask(t))
       /\ WF_vars(TaskTurn(t)) /\ WF_vars(Finish(t))
  /\ \A t \in Turns \ Tasks : WF_vars(t \in cancelled /\ Finish(t))

Spec == Init /\ [][Next]_vars /\ Fairness

-----------------------------------------------------------------------------
(* Properties. *)

\* At most one run is live on the conversation and the registry's map names
\* it, whatever the turns that raced each other through their awaits did (the
\* synchronous re-check before openRun, chat.ts).
OneLiveRun == \A t \in runs : convRun = t /\ pc[t] = "open"

\* Between an ordinary user row and the next ordinary one, every answer is the
\* row's own or answers a row marked queued: that is what lets a rewind anchor
\* on ordinary rows alone (markMessageQueued, routineUserRow).
OrdinaryRowHeadsItsAnswers ==
  \A u, a \in messages :
    (/\ u.role = "user" /\ u.kind = "ordinary" /\ a.role = "assistant" /\ a.id > u.id
     /\ \A m \in messages : (m.id > u.id /\ m.id < a.id /\ m.role = "user") => m.kind # "ordinary")
    => \/ a.question = u.id
       \/ \A q \in messages : q.id = a.question => q.kind = "queued"

\* Every answer in the thread still has its question above it, unless a delete
\* of the whole thread or the routine cap took the question: no rewind cuts a
\* question whose answer is still to come (the busy checks, the requeued
\* task's user_message_persisted).
AnswersKeepTheirQuestion ==
  \A a \in messages : a.role = "assistant" =>
    \/ \E q \in messages : q.id = a.question /\ q.role = "user" /\ q.id < a.id
    \/ a.question <= deletedUpTo
    \/ a.question \in pruned

Foreign(t) == {m \in messages : m.role = "assistant" /\ m.by # t /\ m.id >= openedAt[t]}

\* While an edit or a regenerate runs, nobody else's answer lands below its
\* question, except a routine whose job was deleted while it was firing.
RewindRunUndisturbed ==
  \A t \in runs \cap Rewinds : \A m \in Foreign(t) : m.by \in Routines \ jobs

\* The rewind of t is applied in this step, whether or not its run stays open.
Applies(t) == pc[t] = "resolving" /\ pc'[t] \in {"open", "closed"}

\* A rewind that is applied leaves exactly the rows its prompt and its resume
\* point were built from, plus the row it answers: no row written during its
\* awaits is cut unseen or left behind the replaced ones.
RewindCutsWhatItPlanned ==
  [][\A t \in Rewinds : Applies(t) =>
      Ids({m \in messages' : m.id < question'[t]}) = plan[t].keep
      /\ \A m \in messages' : m.id <= question'[t]]_vars

AnswersCut(t) == {m \in messages \ messages' : m.role = "assistant"}

\* A regenerate drops the answers of the run it repeats, and an answer to a
\* queued row at worst (a requeued task that ran later).
RegenerateCutsOwnOrQueued ==
  [][\A t \in Regenerates : Applies(t) =>
      \A m \in AnswersCut(t) :
        \/ m.question = plan[t].anchor
        \/ \A q \in messages : q.id = m.question => q.kind = "queued"]_vars

\* Nothing a run writes after its conversation was deleted shows up in a
\* thread created again under the same id (the delete route's comment).  The
\* code does not keep this (README, Disagreements).
NoAnswerSurvivesDelete ==
  \A a \in messages : a.role = "assistant" => a.question > deletedUpTo

\* A task on the thread comes to its end unless a person's run, live and not
\* stopped, holds the thread: no turn that raced, was refused, was declined by
\* onRunOpen or failed its handshake after a rewind leaves the thread taken, no
\* rewind and task wait for each other, and no refusal is retried for ever (the
\* guard around onRunOpen, dispatchAvatarTasks).
ThreadIsGivenBack ==
  \A t \in Tasks :
    task[t] \in {"queued", "running"}
      ~> \/ task[t] = "ended"
         \/ \E s \in runs \ (Tasks \cup cancelled) : pc[s] = "open"

=============================================================================
