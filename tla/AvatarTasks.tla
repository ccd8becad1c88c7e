---------------------------- MODULE AvatarTasks ----------------------------
(***************************************************************************)
(* The personal task API: instructions accepted with an API key are rows   *)
(* of avatar_tasks, which a dispatcher claims and runs as turns of their   *)
(* thread, at most one per owner (avatarTaskRunner.ts, store/avatarTasks.ts,*)
(* routes/avatarTasks.ts).  What a turn does to the messages is the module *)
(* ConversationTurns; here it is refused, raced, opened and ended.         *)
(***************************************************************************)
EXTENDS Integers, FiniteSets

CONSTANTS
  Tasks,        \* instructions, each with the Idempotency-Key of its request
  OwnerOf,      \* the account of each
  ThreadOf,     \* the conversation of each
  Minting,      \* the tasks sent without a conversationId
  MaxPending,   \* queued or running tasks of an owner (20 in the code)
  MaxScan,      \* rows the dispatcher looks at (LIMIT 200)
  MaxRuns,      \* task runs of the process (4)
  MaxTries,     \* MAX_REQUEUE_ATTEMPTS (60)
  MaxUpsets,    \* bound: interactive runs on these threads, process ends and
                \* status writes the database refuses
  Free, Chat    \* a thread without a run; an interactive run

Threads == {ThreadOf[t] : t \in Tasks}
Owners == {OwnerOf[t] : t \in Tasks}

TaskConstants ==
  /\ IsFiniteSet(Tasks)
  /\ Minting \subseteq Tasks
  /\ {MaxPending, MaxScan, MaxRuns, MaxTries} \subseteq Nat
  /\ \A s, t \in Tasks : ThreadOf[s] = ThreadOf[t] => OwnerOf[s] = OwnerOf[t]
  /\ \A s, t \in Minting : ThreadOf[s] = ThreadOf[t] => s = t
  /\ Free # Chat /\ {Free, Chat} \cap Tasks = {}

VARIABLES
  row,       \* status of each task's row
  hasRun,    \* rows with a run_id
  wrote,     \* rows with user_message_persisted
  born,      \* order of acceptance (created_at, rowid), 0 before
  threads,   \* conversations that exist
  spoken,    \* those with messages
  keys,      \* owners whose API key is active
  up,        \* the process runs
  stopped,   \* state.stopped
  owners,    \* state.owners
  ladder,    \* state.retry: attempts of each task, 0 for no entry
  cooling,   \* its entries whose time has not come
  job,       \* of each runTask: "none", "setup", "open" or its terminal status
  tries,     \* attempts in its closure
  aborting,  \* open runs whose abort signal fired
  busy,      \* the run registered for each thread: Free, Chat or a task
  bubbles,   \* history: instruction bubbles written for each task
  ran,       \* history: runs opened for each task
  returns,   \* history: times it went back to the queue, in this process
  asked,     \* history: tasks the API accepted a cancel for
  halted,    \* history: tasks whose run the owner stopped in the conversation
  lost,      \* history: tasks whose outcome could not be stored, in this process
  upsets     \* history: how many of them there were

table == <<row, hasRun, wrote, born>>
talk == <<threads, spoken>>
memory == <<owners, ladder, cooling>>
turn == <<job, tries, aborting, busy>>
history == <<bubbles, ran, returns, asked, halted, lost>>
vars == <<table, talk, keys, up, stopped, memory, turn, history, upsets>>

Pending == {t \in Tasks : row[t] \in {"queued", "running"}}
Verdicts == {"succeeded", "failed", "cancelled"}

TypeOK ==
  /\ row \in [Tasks -> {"none", "queued", "running", "gone"} \cup Verdicts]
  /\ hasRun \subseteq Tasks /\ wrote \subseteq Tasks
  /\ born \in [Tasks -> Nat]
  /\ threads \subseteq Threads /\ spoken \subseteq threads
  /\ keys \subseteq Owners
  /\ up \in BOOLEAN /\ stopped \in BOOLEAN
  /\ owners \subseteq Owners
  /\ ladder \in [Tasks -> Nat] /\ cooling \subseteq Tasks
  /\ job \in [Tasks -> {"none", "setup", "open"} \cup Verdicts]
  /\ tries \in [Tasks -> Nat]
  /\ aborting \subseteq Tasks
  /\ busy \in [Threads -> {Free, Chat} \cup Tasks]
  /\ bubbles \in [Tasks -> Nat] /\ ran \in [Tasks -> Nat]
  /\ returns \in [Tasks -> Nat]
  /\ asked \subseteq Tasks /\ halted \subseteq Tasks /\ lost \subseteq Tasks
  /\ upsets \in Nat

Init ==
  /\ row = [t \in Tasks |-> "none"]
  /\ hasRun = {} /\ wrote = {}
  /\ born = [t \in Tasks |-> 0]
  /\ threads = {} /\ spoken = {}
  /\ keys = Owners
  /\ up = TRUE /\ stopped = FALSE
  /\ owners = {}
  /\ ladder = [t \in Tasks |-> 0] /\ cooling = {}
  /\ job = [t \in Tasks |-> "none"]
  /\ tries = [t \in Tasks |-> 0]
  /\ aborting = {}
  /\ busy = [c \in Threads |-> Free]
  /\ bubbles = [t \in Tasks |-> 0] /\ ran = [t \in Tasks |-> 0]
  /\ returns = [t \in Tasks |-> 0] /\ asked = {} /\ halted = {} /\ lost = {}
  /\ upsets = 0

-----------------------------------------------------------------------------
(* Requests. *)

\* acceptAvatarTask: names a thread the owner has, or mints one.  A replay of
\* an accepted request returns its row and changes nothing.
Accept(t) ==
  /\ up /\ row[t] = "none"
  /\ OwnerOf[t] \in keys
  /\ t \in Minting \/ ThreadOf[t] \in threads
  /\ Cardinality({s \in Pending : OwnerOf[s] = OwnerOf[t]}) < MaxPending
  /\ row' = [row EXCEPT ![t] = "queued"]
  /\ born' = [born EXCEPT ![t] = 1 + Cardinality({s \in Tasks : born[s] > 0})]
  /\ threads' = threads \cup {ThreadOf[t]}
  /\ UNCHANGED <<hasRun, wrote, spoken, keys, up, stopped, memory, turn, history, upsets>>

\* Variant of Pruned: without the look at the other tasks of the thread.
PrunedAlone(t) ==
  IF ThreadOf[t] \in spoken THEN threads ELSE threads \ {ThreadOf[t]}

\* deleteConversationIfEmpty: the threads left when t ended before any turn.
Pruned(t) ==
  IF \/ ThreadOf[t] \in spoken
     \/ \E s \in Pending \ {t} : ThreadOf[s] = ThreadOf[t]
  THEN threads
  ELSE threads \ {ThreadOf[t]}

\* POST cancel of a task without a run: the row is ended here, and a run that
\* is being set up for it will find it so.
CancelRow(t) ==
  /\ up /\ OwnerOf[t] \in keys
  /\ t \in Pending /\ t \notin hasRun
  /\ row' = [row EXCEPT ![t] = "cancelled"]
  /\ threads' = IF row[t] = "queued" THEN Pruned(t) ELSE threads
  /\ asked' = asked \cup {t}
  /\ UNCHANGED <<hasRun, wrote, born, spoken, keys, up, stopped, memory, turn,
                 bubbles, ran, returns, halted, lost, upsets>>

\* POST cancel of a task whose run is open: the run is aborted and says so.
CancelRun(t) ==
  /\ up /\ OwnerOf[t] \in keys
  /\ row[t] = "running" /\ t \in hasRun /\ job[t] = "open"
  /\ aborting' = aborting \cup {t}
  /\ asked' = asked \cup {t}
  /\ UNCHANGED <<table, talk, keys, up, stopped, memory, job, tries, busy,
                 bubbles, ran, returns, halted, lost, upsets>>

\* The owner's stop button (POST /api/chat/runs/:runId/cancel) on a task's run.
\* Only the session counts here: the key may be revoked, the row gone.
StopRun(t) ==
  /\ up /\ job[t] = "open"
  /\ aborting' = aborting \cup {t}
  /\ halted' = halted \cup {t}
  /\ UNCHANGED <<table, talk, keys, up, stopped, memory, job, tries, busy,
                 bubbles, ran, returns, asked, lost, upsets>>

\* revokeAvatarApiKey, or the account is suspended.
RevokeKey(o) ==
  /\ up /\ o \in keys
  /\ keys' = keys \ {o}
  /\ UNCHANGED <<table, talk, up, stopped, memory, turn, history, upsets>>

\* The delete stops the run on the thread, then takes the messages and the
\* thread's tasks with it.
DeleteThread(c) ==
  /\ up /\ c \in threads
  /\ threads' = threads \ {c}
  /\ spoken' = spoken \ {c}
  /\ row' = [t \in Tasks |->
       IF ThreadOf[t] = c /\ row[t] # "none" THEN "gone" ELSE row[t]]
  /\ aborting' = aborting \cup ({busy[c]} \cap Tasks)
  /\ UNCHANGED <<hasRun, wrote, born, keys, up, stopped, memory, job, tries, busy,
                 history, upsets>>

\* An interactive turn opens a run on the thread, and closes it.
ChatOpens(c) ==
  /\ up /\ c \in threads /\ busy[c] = Free
  /\ upsets < MaxUpsets
  /\ busy' = [busy EXCEPT ![c] = Chat]
  /\ spoken' = spoken \cup {c}
  /\ upsets' = upsets + 1
  /\ UNCHANGED <<table, threads, keys, up, stopped, memory, job, tries, aborting, history>>

ChatCloses(c) ==
  /\ busy[c] = Chat
  /\ busy' = [busy EXCEPT ![c] = Free]
  /\ UNCHANGED <<table, talk, keys, up, stopped, memory, job, tries, aborting, history, upsets>>

-----------------------------------------------------------------------------
(* The dispatcher. *)

\* queuedAvatarTasks: the oldest MaxScan rows of the queue.
Scanned ==
  {t \in Tasks : row[t] = "queued" /\
     Cardinality({s \in Tasks : row[s] = "queued" /\ born[s] < born[t]}) < MaxScan}

\* Variant of Eligible: the owner's other run is not looked at.
EligibleAnyOwner == {t \in Scanned \ cooling : busy[ThreadOf[t]] = Free}

\* Past its back-off, no run of its owner's tasks, no run on its thread.
Eligible ==
  {t \in Scanned \ cooling : OwnerOf[t] \notin owners /\ busy[ThreadOf[t]] = Free}

\* A look at the queue: entries of tasks that left it are dropped.
Dispatches(kept) ==
  /\ up /\ ~stopped /\ Cardinality(owners) < MaxRuns
  /\ ladder' = [s \in Tasks |-> IF s \in kept THEN ladder[s] ELSE 0]
  /\ cooling' = cooling \cap kept
  /\ UNCHANGED <<hasRun, wrote, born, spoken, keys, up, stopped, aborting, busy,
                 history, upsets>>

FindsNone ==
  /\ Dispatches(Scanned)
  /\ Eligible = {}
  /\ UNCHANGED <<row, threads, owners, job, tries>>

Oldest(t) == t \in Eligible /\ \A s \in Eligible : born[t] <= born[s]

\* The checks of runTask, made again at dispatch.
StillValid(t) == OwnerOf[t] \in keys /\ ThreadOf[t] \in threads

\* The oldest eligible task is claimed and its turn begins.
Claims(t) ==
  /\ Dispatches(Scanned)
  /\ Oldest(t) /\ StillValid(t)
  /\ row' = [row EXCEPT ![t] = "running"]
  /\ job' = [job EXCEPT ![t] = "setup"]
  /\ tries' = [tries EXCEPT ![t] = ladder[t]]
  /\ owners' = owners \cup {OwnerOf[t]}
  /\ UNCHANGED threads

\* Its key was revoked meanwhile: it fails, and its empty thread goes.
Drops(t) ==
  /\ Dispatches(Scanned \ {t})
  /\ Oldest(t) /\ ~StillValid(t)
  /\ row' = [row EXCEPT ![t] = "failed"]
  /\ threads' = Pruned(t)
  /\ UNCHANGED <<owners, job, tries>>

Tick == FindsNone \/ \E t \in Tasks : Claims(t) \/ Drops(t)

\* The time of a back-off entry comes.
Cool(t) ==
  /\ up /\ t \in cooling
  /\ cooling' = cooling \ {t}
  /\ UNCHANGED <<table, talk, keys, up, stopped, owners, ladder, turn, history, upsets>>

-----------------------------------------------------------------------------
(* runTask, from the first await of executeChatTurn on. *)

\* What its finally leaves: the owner is free, and without a new back-off the
\* ladder goes.
JobOver(t) ==
  /\ job' = [job EXCEPT ![t] = "none"]
  /\ tries' = [tries EXCEPT ![t] = 0]
  /\ owners' = owners \ {OwnerOf[t]}

LadderGone(t) ==
  /\ ladder' = [ladder EXCEPT ![t] = 0]
  /\ cooling' = cooling \ {t}

\* updateAvatarTask touches rows that are still pending only.
Updated(t, status) == IF t \in Pending THEN [row EXCEPT ![t] = status] ELSE row

\* Variant of Again: the attempts are read back from the table of back-offs.
AgainByLadder(t, status) == status = 409 /\ ladder[t] < MaxTries

\* A refusal is tried again while it says "busy" and attempts are left.
Again(t, status) == status = 409 /\ tries[t] < MaxTries

\* Refused: back to the queue with a back-off, or failed for good.
TurnAway(t, status) ==
  /\ row' = Updated(t, IF Again(t, status) THEN "queued" ELSE "failed")
  /\ returns' = [returns EXCEPT ![t] = IF row'[t] = "queued" THEN @ + 1 ELSE @]
  /\ IF Again(t, status)
     THEN /\ ladder' = [ladder EXCEPT ![t] = tries[t] + 1]
          /\ cooling' = cooling \cup {t}
     ELSE LadderGone(t)
  /\ JobOver(t)

\* Before anything is written: the repository is locked (409), or it cannot be
\* opened, or the set-up throws.
Refused(t) ==
  /\ job[t] = "setup"
  /\ \E status \in {409, 502} : TurnAway(t, status)
  /\ UNCHANGED <<hasRun, wrote, born, talk, keys, up, stopped, aborting, busy,
                 bubbles, ran, asked, halted, lost, upsets>>

\* The turn's prelude: touchConversation, and the instruction unless an earlier
\* attempt stored it.
SaysInstruction(t) ==
  /\ threads' = threads \cup {ThreadOf[t]}
  /\ spoken' = IF t \in wrote THEN spoken ELSE spoken \cup {ThreadOf[t]}
  /\ bubbles' = [bubbles EXCEPT ![t] = IF t \in wrote THEN @ ELSE @ + 1]

\* Another run took the thread during the awaits: refused after the prelude.
Raced(t) ==
  /\ job[t] = "setup" /\ busy[ThreadOf[t]] # Free
  /\ SaysInstruction(t)
  /\ wrote' = IF t \in Pending THEN wrote \cup {t} ELSE wrote
  /\ TurnAway(t, 409)
  /\ UNCHANGED <<hasRun, born, keys, up, stopped, aborting, busy, ran, asked, halted, lost,
                 upsets>>

\* openRun, and onRunOpen finds the row still running.
Opens(t) ==
  /\ job[t] = "setup" /\ busy[ThreadOf[t]] = Free
  /\ row[t] = "running"
  /\ SaysInstruction(t)
  /\ hasRun' = hasRun \cup {t}
  /\ wrote' = wrote \cup {t}
  /\ busy' = [busy EXCEPT ![ThreadOf[t]] = t]
  /\ job' = [job EXCEPT ![t] = "open"]
  /\ ran' = [ran EXCEPT ![t] = @ + 1]
  /\ UNCHANGED <<row, born, keys, up, stopped, memory, tries, aborting,
                 returns, asked, halted, lost, upsets>>

\* onRunOpen finds it cancelled or deleted: the run is closed within the step.
Abandons(t) ==
  /\ job[t] = "setup" /\ busy[ThreadOf[t]] = Free
  /\ row[t] # "running"
  /\ SaysInstruction(t)
  /\ JobOver(t) /\ LadderGone(t)
  /\ UNCHANGED <<table, keys, up, stopped, aborting, busy, ran, returns, asked,
                 halted, lost, upsets>>

\* Variant of Verdict: a shutdown is told like a cancel of the caller's.
VerdictOfAbort == "cancelled"

\* What an aborted run is recorded as.
Verdict == IF stopped THEN "failed" ELSE "cancelled"

\* The terminal event of the run, after which it leaves the registry.  An abort
\* may come too late to be its end.
RunEnds(t) ==
  /\ job[t] = "open"
  /\ \E v \in {"succeeded", "failed"} \cup (IF t \in aborting THEN {Verdict} ELSE {}) :
       job' = [job EXCEPT ![t] = v]
  /\ aborting' = aborting \ {t}
  /\ busy' = [busy EXCEPT ![ThreadOf[t]] = Free]
  /\ UNCHANGED <<table, talk, keys, up, stopped, memory, tries, history, upsets>>

\* The outcome of the run becomes the task's.
Settles(t) ==
  /\ job[t] \in Verdicts
  /\ row' = Updated(t, job[t])
  /\ JobOver(t) /\ LadderGone(t)
  /\ UNCHANGED <<hasRun, wrote, born, talk, keys, up, stopped, aborting, busy,
                 history, upsets>>

\* The write throws.  The catch records a failure, unless that throws too.
StatusLost(t) ==
  /\ job[t] \in Verdicts /\ upsets < MaxUpsets
  /\ \/ row' = Updated(t, "failed") /\ UNCHANGED lost
     \/ UNCHANGED row /\ lost' = lost \cup {t}
  /\ JobOver(t) /\ LadderGone(t)
  /\ upsets' = upsets + 1
  /\ UNCHANGED <<hasRun, wrote, born, talk, keys, up, stopped, aborting, busy,
                 bubbles, ran, returns, asked, halted>>

-----------------------------------------------------------------------------
(* The end of the process and the next one. *)

\* Shutdown: the dispatcher stops, then every live run is aborted.
Stop ==
  /\ up /\ ~stopped /\ upsets < MaxUpsets
  /\ stopped' = TRUE
  /\ aborting' = {t \in Tasks : job[t] = "open"}
  /\ upsets' = upsets + 1
  /\ UNCHANGED <<table, talk, keys, up, memory, job, tries, busy, history>>

\* Nothing but the database survives.
Ends ==
  /\ up' = FALSE /\ stopped' = FALSE
  /\ owners' = {} /\ cooling' = {} /\ aborting' = {}
  /\ ladder' = [t \in Tasks |-> 0]
  /\ job' = [t \in Tasks |-> "none"] /\ tries' = [t \in Tasks |-> 0]
  /\ busy' = [c \in Threads |-> Free]
  /\ returns' = [t \in Tasks |-> 0] /\ lost' = {}
  /\ UNCHANGED <<table, talk, keys, bubbles, ran, asked, halted>>

\* The drain ends or is cut off after ten seconds.
Exit == up /\ stopped /\ Ends /\ UNCHANGED upsets

Crash ==
  /\ up /\ ~stopped /\ upsets < MaxUpsets
  /\ upsets' = upsets + 1
  /\ Ends

\* Variant of Boot: running rows are put back in the queue.
BootRequeues ==
  /\ ~up /\ up' = TRUE
  /\ row' = [t \in Tasks |-> IF row[t] = "running" THEN "queued" ELSE row[t]]
  /\ UNCHANGED <<hasRun, wrote, born, talk, keys, stopped, memory, turn, history, upsets>>

\* Variant of Boot: running rows are left alone.
BootForgets ==
  /\ ~up /\ up' = TRUE
  /\ UNCHANGED <<table, talk, keys, stopped, memory, turn, history, upsets>>

\* recoverAvatarTasks: what was running failed with the process.
Boot ==
  /\ ~up /\ up' = TRUE
  /\ row' = [t \in Tasks |-> IF row[t] = "running" THEN "failed" ELSE row[t]]
  /\ UNCHANGED <<hasRun, wrote, born, talk, keys, stopped, memory, turn, history, upsets>>

-----------------------------------------------------------------------------
Turn(t) == Refused(t) \/ Raced(t) \/ Opens(t) \/ Abandons(t)

Next ==
  \/ \E t \in Tasks : Accept(t) \/ CancelRow(t) \/ CancelRun(t) \/ StopRun(t) \/ Cool(t)
  \/ \E t \in Tasks : Turn(t) \/ RunEnds(t) \/ Settles(t) \/ StatusLost(t)
  \/ \E o \in Owners : RevokeKey(o)
  \/ \E c \in Threads : DeleteThread(c) \/ ChatOpens(c) \/ ChatCloses(c)
  \/ Tick \/ Stop \/ Exit \/ Crash \/ Boot

\* Timers and promises of the process go on; a run ends by its deadline; the
\* process is restarted.  Nobody has to close a chat.
Fairness ==
  /\ WF_vars(Tick) /\ WF_vars(Exit) /\ WF_vars(Boot)
  /\ \A t \in Tasks :
       WF_vars(Cool(t)) /\ WF_vars(Turn(t)) /\ WF_vars(RunEnds(t)) /\ WF_vars(Settles(t))

Spec == Init /\ [][Next]_vars /\ Fairness

-----------------------------------------------------------------------------
(* Properties. *)

\* An owner is in state.owners exactly while one of their tasks is in hand: no
\* two at once, none forgotten, and no more than MaxRuns in the process
\* (dispatchAvatarTasks, runTask's finally).
OneTaskInHand ==
  /\ owners = {OwnerOf[t] : t \in {s \in Tasks : job[s] # "none"}}
  /\ \A s, t \in Tasks :
       job[s] # "none" /\ job[t] # "none" /\ OwnerOf[s] = OwnerOf[t] => s = t
  /\ Cardinality(owners) <= MaxRuns

\* The thread of a task that waits or runs exists: what a cancelled or refused
\* sibling prunes is never the thread another task counts on
\* (deleteConversationIfEmpty).
PendingHasThread == \A t \in Pending : ThreadOf[t] \in threads

\* A task goes back to the queue at most MaxTries times in one process, though
\* the table of back-offs drops its entry while it is in hand
\* (dispatchAvatarTasks, runTask).
GivesUp == \A t \in Tasks : returns[t] <= MaxTries

\* A task is recorded as cancelled only when its caller cancelled it through
\* the API, or its owner stopped the one run it had in the conversation.  What
\* a shutdown aborts has failed, and what a deletion of the thread aborts shows
\* no verdict at all (runTask's onEvent, index.ts, the stop and delete routes).
CancelledWasAsked ==
  \A t \in Tasks :
    row[t] = "cancelled" => t \in asked \/ (t \in halted /\ ran[t] = 1)

Life == INSTANCE TaskLife WITH state <- row, written <- bubbles

\* Each task lives the life TaskLife describes, through refusals, cancels,
\* deletions and restarts: ended once, written once, run once.
IsATask == Life!Spec

\* An accepted task is settled, across refusals and restarts, unless a chat
\* takes its thread or the database refuses its status, which waits for the
\* next start (dispatchAvatarTasks, recoverAvatarTasks).
TasksSettle ==
  \A t \in Tasks :
    t \in Pending ~> (t \notin Pending \/ t \in lost \/ busy[ThreadOf[t]] = Chat)
=============================================================================
