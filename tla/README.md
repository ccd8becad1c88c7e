# Noah: a verification project

TLA+ specifications of Noah, the TLC configurations that check them on small
instances, and theorems about them checked by TLAPS.  Most of them are about
the server (`src/src/server`), two about what its browser extension
(`src/extension/background.js`) and the client (`src/src/client`) do with the
operations the server sends them.  Paths without a root are paths of the server:
`routes/chat.ts` is `src/src/server/routes/chat.ts`.

## The system

Noah is one Node process with one SQLite database.  A signed-in person owns an
avatar and talks to it in conversations; every turn runs an agent inside a
per-user container (the pi runtime), whose events are streamed to the browser
over SSE.  Besides the owner's turns, work enters from the personal task API
(`routes/avatarTasks.ts`, `avatarTaskRunner.ts`) and from routines
(`scheduler.ts`).  An agent may also act in the person's own browser, through an
extension that the client's page relays to.  JavaScript is single threaded: what
runs between two awaits is one step, and everything hard about the program
happens because other code runs at the awaits.

| Component | State | Operations | Talks to | Hard part |
| --- | --- | --- | --- | --- |
| Conversation turns (`routes/chat.ts` `executeChatTurn`, `store/conversations.ts`) | conversations, messages (rowid order, kinds `queued`, `steer`, `consultation`) | admit, edit, regenerate, store rows, open, finish, delete | run registry, repo lock, tasks, routines | re-checks after awaits, rewind plans, rows above another run's answer |
| Run registry (`agent/runRegistry.ts`) | live runs, event log, attached clients, pending prompts | open, emit, attach, detach, await, submit, cancel, close | chat routes, browser, agent tools | replay cursors, prompts against cancel, time-to-live and late answers |
| Steer channel and run loop (`agent/steerChannel.ts`, `agent/pi/runPiAgent.ts`, `agent/pi/asyncJobs.ts`) | pending, folded and delivered mid-turn messages, loop phase | push, hand over, lifecycle, result boundary, close | run registry, pi | a message at the result boundary, abort, retried attempts |
| Active repo lock (`activeRepoLock.ts`, `activeRepoResolve.ts`) | holder of each clone | acquire, release, per-run release | chat routes, scheduler, repo tools | re-entrant per conversation, release by whom |
| Git mutex (`gitMutex.ts`) | tail of a promise chain per key | run exclusively | clone, commit, push, the team's vault | order, clean-up of the chain's map entry |
| Scheduler (`scheduler.ts`, `store/routines.ts`, `routes/routines.ts`, `routineRunRegistry.ts`) | routine_jobs rows, running slots | tick, run now, reschedule, delete, record the outcome | run registry, repo lock | overlap of tick and run now, a job edited or deleted while firing |
| Personal task API (`avatarTaskRunner.ts`, `store/avatarTasks.ts`, `routes/avatarTasks.ts`) | avatar_tasks rows, in-flight owners, retry table | accept, dispatch, requeue, cancel, revoke, recover | conversation turns | claimed window, requeues, threads shared by tasks, restart |
| Team brain (`teamBrainActions.ts`, `teamBrain.ts`, `store/teamBrain.ts`) | sources and review cards, the shared vault's repository | submit, draft, approve, answer, withdraw, commit, sweep, restore | git mutex, chat cards | a decision that awaits its commit, a moved page, a crash on either side of the commit |
| Extension: relayed operations (`extension/background.js`, client `lib/chat.ts`) | what each page has handled, what the worker has coalesced | relay, perform, answer, time out | run registry | every page relays the same frame; replays, restarts |
| Extension: element uids (`extension/background.js`) | attached tabs, document counts, uid maps | snapshot, resolve, attach, detach | the Chrome debugger | uids of a document that is gone |
| Share links (`shareLinks.ts`, `store/shareLinks.ts`) | links, previews | create, revoke, serve | conversations | revoke against serve |
| Skill transfer (`skillTransfer.ts`, `routes/skillShare.ts`) | requests, copies on disk | offer, accept, install | personal repositories | partial copies |
| Confirmed to-dos (`todos.ts`, `store/todos.ts`) | todo rows | add, complete, reorder | agent tools | small |
| Pi container runtime (`agent/pi/*`, `pi-sandbox`) | containers, working copies | start, copy, write back | docker | processes outside the server |
| Client (`src/client`) | view state | render, reconnect, relay | SSE, extension | reconnect cursor |
| Store migrations and retirements (`store/internal.ts`, `retire*.ts`) | schema | migrate once at boot | SQLite | one-shot start-up code |

What makes each component correct is stated as properties of its module (below)
and as hazards in `PROJECT.json`, each at the line where it bites.

How they meet: a turn, a task or a routine's firing first passes the guards of
the conversation (run registry, tasks, routine slots), then awaits its working
repository (run lock, claim, git), then re-checks the conversation, opens a run
in the registry and drives pi through the steer channel, and at the end stores
its rows, gives the repository back and closes the run.  `ConversationTurns`
has the first and the last of these, `RepoCopy` the repository, `RunRegistry`
and `MidTurn` what happens while the run is open; `RoutineScheduler` and
`AvatarTasks` are what starts a firing and a task.  A browser operation parks
its run in the registry; `BrowserRelay` carries it over the pages that follow
the run to the extension's worker and back, and `ElementRefs` is what it acts on
there.  A press on a card of the team brain commits in the shared vault under
the git mutex: `TeamBrain` composes `GitMutex`.

## The modules

Every module is written at the grain of the program: one step is what runs
between two awaits.  The definitions keep the names of the code, and
`PROJECT.json` "map" gives the lines of each.  Definitions commented "Variant"
are plausible mistakes in a definition of the module; they are not part of any
specification, and each shows that some property would notice.

| Module | Models | State and actions |
| --- | --- | --- |
| `ConversationTurns` | `executeChatTurn`, the task runner and the routine as one conversation sees them | the `messages` rows, the registry's map, the rewind plan of each turn, `avatar_tasks`, routine slots; `AdmitSend`, `AdmitRewind` end at the first await, `SendOpens`, `RewindOpens`, `SendRaced`, `RewindRefused` are what follows it, `OpenAbandoned` and `RewindAbandoned` a run declined or broken off as it opens, `Finish` stores the answer and closes |
| `RunRegistry` | one live run in `agent/runRegistry.ts` | frames and journal, cursors, parked requests; `Attach`, `Drop`, `Ask`, `Submit`, `Expire`, `Deadline`, `Cancel`, `CloseRun` |
| `PromptDesk` | what the registry promises a tool that asks somebody | each request idle, parked, answered or cancelled |
| `MidTurn` | the loop of `runPiAgent`, `runPiTurn`, `SteerChannel`, `PiAsyncJobs`, and the session the route keeps | the loop's phase, record states, what pi has read; pi itself is the environment (marked external): it takes inputs, reads, calls tools, ends or breaks off, and its events arrive later in order |
| `RepoCopy` | one registered repository and its sandbox copy | run lock, claim, edits by conversation, and for each run the call it is suspended in; every path is followed through its awaits, failures included (`register_repo` lists the repository, clones, and unlists a new one when that fails) |
| `RoutineScheduler` | the ticker, "run now" and the rows of `routine_jobs` | rows with their next slot, slots in flight, firings that resolve and run; ticks, skips, outcomes, edits, deletes, restarts |
| `GitMutex` | `withGitLock`: the promise chains by key | `chains` (the map's entries), `prior` (what a call waits for), `stage` of each call, `ahead` (history); `Call`, `Start`, `Settle`, `Drop` (the callback that cleans the map, a microtask later), `Restart` |
| `FifoLock` | what that promises | a queue for each key; the head may run |
| `TeamBrain` | the shared vault and the cards that change it | rows of sources and cards, the press in flight of each card, the vault's head, log and stray files, the start-up sweep's phases, the restore; the presses, `WriteStep` through the awaits of a commit, withdrawals, expiry, rewinds, an account deleted, a crash; writes queue in `GitMutex`, whose actions it conjoins |
| `AvatarTasks` | the dispatcher, the task rows and routes, recovery | rows, threads, runs, the registry of owners, the back-off table, cancels on record; `Accept`, `Tick`, `Turn`, `RunEnds`, `Settles`, `CancelRow`, `CancelRun`, the owner's `StopRun`, revoked keys, deleted threads (which stop the run on them), `Exit`, `Boot` |
| `TaskLife` | a task as its caller may see it | unknown, queued, running, one final status |
| `ElementRefs` | attaching, counting documents, snapshots and resolving in the extension | what the tab shows, events on their way, the worker's counts and maps, for each operation the await it is at and what it read before |
| `BrowserRelay` | frames of operations, pages, the worker's coalescing | the run's log, frames under way, what each page and the worker remember; `Ask`, `Receive`, `Post`, `Perform`, `Finish`, `Hear`, `GiveUp`, reconnects and reloads, a worker restarted |

`MC<module>` holds the constants of the small instances, `<module>_proofs` the
theorems.  Two modules of theorems serve two components each:
`LiveRun_proofs` is about a live run, `RunRegistry` and `MidTurn`, and
`BrowserExtension_proofs` about `ElementRefs` and `BrowserRelay`.  They extend
both, which is why the specifications of `RunRegistry` and `BrowserRelay` are
called `RegistrySpec` and `RelaySpec` (and their types `RegistryTypeOK`,
`RelayTypeOK`); the two components share no variable, and no theorem speaks of
both.

## The runs

| Run | Instance | States | Question |
| --- | --- | --- | --- |
| `turns_routine` | 2 messages, an edit, a routine of 2 firings, 1 mid-turn message, 1 delete | 1,302,596 | do rewinds cut what they planned, and nothing of a routine? |
| `turns_task` | a message, an edit, a regenerate, a task with one requeue, 1 mid-turn message, 1 delete | 253,024 | do answers keep their questions; does a task come to its end whatever happens beside it? |
| `registry_run` | 2 questions, 1 secret operation, 1 browser, ordinary frames up to id 2 | 419,495 | does a browser that drops and resumes see the truth; is the registry a `PromptDesk`? |
| `midturn_run` | 2 messages (one may be a slash command), 1 background job, 2 question rounds | 486,820 | is everything accepted read once and answered, and does the kept session cover the rows? |
| `repo_run` | 2 conversations, 3 seats of which 2 at a time, one of them a routine's | 1,133,821 | does one conversation at a time work on the copy, and keep its edits? |
| `scheduler_run` | 3 jobs, 2 owners, limits 2 and 1, clock to 2 | 14,346 | do slots match firings, do limits hold, is no run lost, does every due job run? |
| `brain_run` | 1 source of u's, reviews of it by two admins, one direct card of a's, 1 page, u's account may be deleted, 1 upset | 104,014 | is what was decided what the vault holds, is nothing written over, does every claim settle? |
| `tasks_run` | 2 tasks of one owner on one thread, which the first creates; 1 requeue, 2 upsets | 157,915 | is one task in hand, does it keep its thread, is a cancel one that was asked for or a stop of the owner's, does every task end? |
| `refs_run` | 2 operations on 1 tab with 2 node numbers, 3 documents, 3 uids, ceiling 1 | 1,213,003 | does an accepted uid name the element it was printed for? |
| `relay_run` | 2 operations of which 1 with a secret, 2 pages, each remembering 1 | 1,381,271 | is an operation the run waits for performed once, and a secret sent once? |

`brain_bug_sweep` and `relay_bug_redone` are meant to find a violation: see
Disagreements.

Why these bounds are enough.

* Turns.  A hazard of a conversation is a race of two turns through one await
  each, with a third writer between.  Two posts, an edit and a third kind of
  writer give every pair and the third; a second firing and a cap of
  `KeepRows = 4` make the routine cap bite; a mid-turn message makes rows of the
  third kind.  The posts are interchangeable.
* Registry.  Browsers only read a run, so one shows all that any of them can
  see.  Two questions are needed for a stop to release more than one at once,
  the secret operation for an id that is consumed and not replayed.
* MidTurn.  One message is folded in while the other waits at the boundary, and
  a job's result takes the same way; the queue's limit is 2, so a message is
  refused while two records wait.  Two rounds of questions reach the round limit.
* RepoCopy.  Three seats give a second turn of one conversation, which the
  re-entrant lock lets in, against another conversation; `MaxAtOnce = 2` leaves
  out three at once.  `OverlapBound` cuts states after an overlap within a
  conversation, of which the properties of that run say nothing.
* Scheduler.  Three jobs tell the owner's limit from the server's.  At clock 2 a
  recurring job has missed a slot.  `Plans`, `Chatted` and `ByHand` name for each
  job what its owner does with it, so that every kind of job is there once.
  The clock stops at `MaxTime`; the liveness property is therefore about the
  jobs due by then, not about an unending stream of new slots.
* Team brain.  Two reviews of one source race for it; the direct card moves the
  page under both.  Two presses and a sweep or a restore queue three calls in the
  mutex, so that a late clean-up meets a chain with one waiting behind.
  `MaxUpsets = 1` gives one crash, one commit reported failed although it landed,
  or one restore; a second would meet the state a sweep has mended.
  `MaxRounds = 1` answers an admin's question once; `MaxCards = 2` begins two of
  the three cards, in every choice of them.
* Tasks.  Two tasks of one owner on one thread are the smallest number for which
  the owner's slot, the thread's busy check and the clean-up of a thread that a
  sibling names all matter; `MaxTries = 1` puts a task back once and gives up at
  the next refusal, two upsets give a shutdown after a write that failed.
  Owners share nothing but `MaxRuns`, which the theorems treat for any number.
* Uids.  Two operations with one tab give every overlap of a snapshot with an
  action; two nodes with a ceiling of 1 make the worker forget; the third
  document is one that follows a navigation nobody was told of.
* Relay.  Two pages see one frame twice, two operations push each other out of a
  page's memory of 1.  `MaxCuts` counts reconnects and reloads together.

`CHECK_DEADLOCK FALSE` stands where the system may stop: a conversation whose
turns are all used up, a run that is closed, a loop that is over, tasks and
cards that are all final, a worker with nothing left to do.  `RepoCopy` and
`RoutineScheduler` have seats and jobs that are used again, and are checked for
deadlock.

## Fairness

* `ConversationTurns`: the dispatcher's timer fires (`ClaimTask`, `DropTask`), a
  claimed task's turn gets past its awaits (`TaskTurn`: the clone and the copy
  have time limits) and its run finishes (its deadline, `unattendedDeadlineMs`,
  aborts it); so does any run that was stopped.  Nothing is asked of the owner's
  own turns: their awaits may hang, and their runs go on for ever unless
  stopped, for a person may never answer.  `ThreadIsGivenBack` therefore says
  that a task ends unless such a run holds the thread.  A turn whose handshake
  fails, or that a task's runner declines, is closed within its step, a rewind
  after its cut (`RewindAbandoned`); were it not, its run would hold the thread
  and never be `open`, which is the variant that shows the property's force.
* `RunRegistry`, `PromptDesk`: the time-to-live of a parked request fires
  (`setTimeout` in `awaitResponse`).
* `MidTurn`: the loop goes on when an event is there (`Prepare`, `Handle`,
  `Finish`), a stream that is stopped or times out is cut (`StreamCut`), the wait
  for jobs is capped (`WaitEnds`, `WaitCap`), and a question is answered or
  expires.  Nothing is asked of pi or of people.
* `RoutineScheduler`: the ticker's timer fires again and again; a firing does
  not last (`routineRunTimeoutMs`); a firing that is started over and over is not
  cut by a restart or a failing write every time (strong fairness of `Resolve`
  and `Finish`).  Repositories and threads become free only when the property
  supposes it.
* `TeamBrain`: each write under way goes on (`WriteStep`: git calls end, they
  have time limits, and the mutex is first come first served), and so do the
  sweep of a start and a restore.  People need not press anything.
* `AvatarTasks`: the dispatcher's timer fires (`Tick`), a back-off time passes
  (`Cool`), a turn gets past its awaits, its run ends (`unattendedDeadlineMs`) and
  is settled, a shutdown ends and the server is started again.  A thread taken by
  a chat is given free only when the property supposes it.
* `GitMutex` by itself, `ElementRefs` and `BrowserRelay` state none: their
  properties are about what may never happen.

## What is proved

TLAPS proves the following for every value of the constants that the
assumptions of the modules allow.  These say that the seats are disjoint sets,
the bounds natural numbers, that what is counted is finite (requests, jobs,
tasks, cards, operations), and, for `BrowserRelay`, that a run has no more
operations than the worker remembers (`OP_COALESCE_MAX`, 500 in the code).

Every safety property that a run checks, invariant or action property, has its
theorem.  Each proof has the same outline: a strengthened invariant, which TLC
was given first on the run's instance; one lemma for each action or group of
actions that disturb the same parts of it; and a last section that draws the
theorems from it.

### A conversation: `ConversationTurns_proofs`

* Types; at most one live run (`OneRunAtATime`); a rewind that is applied leaves
  exactly what it planned (`RewindIsExact`); while a rewind runs only a routine
  without a job row can land an answer in it (`RewindsRunUndisturbed`).  The
  second needs that every stored id is below the next one (`IdsBelowNext`).
* Between two ordinary questions every answer is the first one's own or that of
  a queued row (`AnswersFollowTheirHead`), and so a regenerate cuts no answer of
  another ordinary question (`RegenerateDropsItsOwn`).  Neither is inductive.
  `RowsInv` adds that an answer, a live run, a turn that waits and a plan each
  name a question that was stored before (`AnswersNamed`, `RunsNamed`,
  `WaitingNamed`, `PlansNamed`), and that no ordinary question was stored
  between the question a live run answers and the end of the table.  What any
  step adds to the table is one lemma (`TableGrows`).
* No rewind takes a question from under its answer (`NoAnswerLosesItsQuestion`):
  every answer stands below its question until the thread is deleted or the cap
  of a routine prunes.  `HeldInv` follows the question from the moment it is
  stored, over the requeues of a task (`TasksHeld`), to its answer.

### A live run: `LiveRun_proofs`

* `RunRegistry`: types; no frame lost; nothing parked after an abort; outcomes
  stand; the registry implements the safety part of `PromptDesk`; and a
  connected browser shows exactly the questions the run is parked on
  (`ShowsWhatIsParked`).  `NoFrameLost` is not inductive: a browser that is away
  must be known to have all that its cursor covers (`CaughtUp`), and frames of
  one step must have ids of their own above all earlier ones (`Numbered`).
  `DeskInv` says that pending is exactly what callers are parked on, and empty
  after an abort; what a browser shows then follows from what the log says of
  each request (`FramesTell`): asked once it was asked, resolved once it was
  settled, and not replayed only where a secret is asked for.
* `MidTurn`: types, and all six invariants of its run.  `IInv` has one part for
  each party.  `ChannelInv`: nothing is queued once the channel is closed.
  `PiInv`: where pi is by where the loop is, and that a stream ends with its
  terminal event.  `ReadingInv`, the heart of it: while a response is under way
  it has read every stored row and, beyond them, only what events still in the
  stream will report.  `CommitInv`: what was committed covers the rows whenever
  the run may end with it, which gives `KeptSessionsAreComplete` and
  `AnswersStandInPlace`.  `EndInv` says how records and jobs stand at the end
  (`NothingAcceptedIsLost`, `JobsAreWaitedFor`), and `EffectInv` that tools ran
  in the present attempt only and the loop knows or will (`ToolsRunInOneAttempt`).
  `ReadOnce` comes from `PiInv` and `ReadingInv`.

### The working repository: `RepoCopy_proofs`

Types; exclusive work; the lock comes back; the record names the owner of the
edits; uncommitted work stays.  `LockInv` says who has a reason to hold the
lock, that there is one reason only, and that an undo serves nothing else; it is
conditional on no overlap within a conversation.  `DataInv` adds what each call
knows of the copy at each of its awaits (`Sound`), under the further condition
that no tool call outlived its run.  Only one run can be inside (`OneInside`),
so nobody else disturbs that knowledge.

### Routines and tasks

* `RoutineScheduler_proofs`: types, and every safety property of the run; also
  that enabled jobs are those with a slot and that nothing is caught up.  The
  limits rest on `SlotsMatchFirings`, which is inductive together with the
  types; the counts of firings are related to sets of jobs by the theorems on
  finite sets (`OwnedUnion`, `OwnedRemove`).  The properties of rows follow from
  one lemma on what any step does to a row (`RowStep`).
* `AvatarTasks_proofs`: types; one task of an owner in hand; a task that waits or
  runs keeps its thread; a recorded cancel was accepted by the API, or the owner
  stopped the run in the conversation (`routes/chat.ts:3287`), never a shutdown, a
  deleted thread or a revoked key; at most `MaxTries`
  requeues in one process, provided the dispatcher's look at the queue covers
  the tasks (`Cardinality(Tasks) <= MaxScan`: beyond that the table is pruned of
  tasks that still wait); and every step is a step of `TaskLife` or a stutter.

### The vault: `GitMutex_proofs` and `TeamBrain_proofs`

* `GitMutex`: two calls of one clone never run at once, and the chains implement
  `FifoLock`.  The invariant says that a call behind another has that one and
  those ahead of it ahead of itself (`ChainIsTheQueue`), that of any two one is
  ahead (`Ordered`), and that the map names the last of a clone's calls while
  there is one (`TailIsLast`), which is what the late clean-ups could break.
* `TeamBrain` composes the mutex, and its proofs take the theorems of
  `GitMutex_proofs` by `INSTANCE` under the same substitution.  `LockStep` shows
  that each of its steps is a step of the lock or leaves it alone; the lock's
  invariant and `VaultIsAFifoLock` follow without another look at the chains.
* `IInv` of `TeamBrain` has two halves.  `VaultInv`: a press is inside the vault
  exactly while its call runs in the lock (`Seated`), and what it was judged
  against stays as it was until it commits (`Judged`): since two calls never run
  at once, nobody else commits, restores or cleans meanwhile.  This gives
  `WritersAreAlone` and the action property `NoChangeIsOverwritten`.  `BookInv`:
  a card stays claimed until its press is settled, unless its account goes
  (`Held`); two approvals of one source are never claimed at once, and a claim
  pins its source (`ClaimInv`); a source that is in the log while a press on it
  has not committed is excused by one of the two exceptions of
  `SourceFollowsVault` (`LandedInv`, `Excused`); and a start sweeps claims nobody
  works on, by a log that misses no source but an excused one (`SweepInv`).
  `RowsFollowTheVault` is inductive only together with all of these.  Most steps
  of people and avatars are one lemma (`QuietStep`): they claim nothing, and
  touch no source that is claimed.

### The extension: `BrowserExtension_proofs`

* `ElementRefs`: types; an accepted uid names the element it was printed for; no
  number is given twice by one worker.  The strengthening says that numbers are
  given once and keep their node (`Numbered`), that a count belongs to one
  document (`OneDocument`) and is the highest yet (`Counted`), and that while no
  event is on its way the document of the count is the one shown (`Vouched`).
* `BrowserRelay`: types; while its run waits, an operation is begun once at most
  by one worker; a page that connects again is never sent a secret.
  `NothingEvicted` shows by a counting argument that the worker has forgotten
  nothing the run still waits for: its memory holds each operation once, and
  there are no more operations than it has room for.

### Only model-checked

Liveness, which is beyond this prover: `ThreadIsGivenBack`, `EveryRunEnds`,
`DueJobsRun`, `ClaimsSettle`, `TasksSettle`, and the fairness half of `IsADesk`
(`ImplementsDesk` is the other half).  The two runs that find a violation have
nothing to prove.

## Disagreements of code and text

Two are shown by a run.

* `brain_bug_sweep`: a review's commit carries the id of its source; when the
  proposer's account is deleted during the commit the source's row is gone, the
  sweep at the next start looks for the card's own id
  (`teamBrainActions.ts:270`), and a card whose commit landed is a draft again;
  the comment at `teamBrainActions.ts:241` speaks of cards whose commit never
  landed.
* `relay_bug_redone`: a page loaded again while a run goes on is sent the whole
  log and relays every operation in it again; once the worker was restarted, or
  has forgotten what settled ten minutes ago, it executes it a second time,
  against the comments at `src/src/client/src/lib/chat.ts:2544` and
  in `performCoalesced`.

Four are stated as a property of a module, which TLC finds violated; no run is
kept for them.  Name the property in the module's cfg to see the trace.

* `NoAnswerSurvivesDelete` (`ConversationTurns`): a stopped run writes its answer
  into a thread that a racing turn created again after the delete
  (`routes/chat.ts:2585`, against `routes/chat.ts:2934`).
* `DroppedNeverReached` (`MidTurn`): a message reported as dropped can be in the
  session that the next turn continues (`agent/runRegistry.ts:288`, against
  `agent/steerChannel.ts:36`).
* `HalfDoneWorkStays` (`RepoCopy`): a commit of a stopped run goes on after the
  lock was given back, with the edits of whoever has the copy then
  (`agent/pi/runPiAgent.ts:569`, against `activeRepoLock.ts:7`).
* `NoStrangerIsAccepted` (`ElementRefs`): the tree is read, hints are awaited,
  and each uid is stamped with the count of the moment its line is rendered, so
  that a navigation in between gives the old document's nodes uids of the new
  one (`extension/background.js:399`, against the comment at 336).
  `AcceptedUidsNameTheirElement` is about uids whose snapshot saw no such
  navigation.

Others were met while reading.  Conversations and routines:

* `rewindBusyRefusal` asks for routines that still have a row, so the pair of a
  routine deleted while it fires lands inside a rewind's run
  (`routes/chat.ts:559`, against 544); `RewindRunUndisturbed` makes this the only
  exception;
* the turn that lost the race gives up its release of the repository to a winner
  that may hold nothing (`routes/chat.ts:1269`, against 2684);
* as many jobs waiting for their repositories as the owner's limit keep every
  later due job of that owner from starting (`scheduler.ts:319` and 157, against
  `docs/architecture/routines.md:57`);
* a rewind refused after its awaits has touched its conversation, and so creates
  a deleted one again as an empty row (`routes/chat.ts:1087`, against the
  comment at 852);
* a regenerate drops the answer of a requeued task that ran later
  (`store/conversations.ts:1055`; `docs/architecture/chat-sse-media.md` speaks of
  the answers of that run): `RegenerateCutsOwnOrQueued` is stated so;
* when a turn fails before its loop is entered, dropped messages are reported
  after the error frame (`routes/chat.ts:2682`, against
  `docs/architecture/chat-sse-media.md:127`);
* a chat turn that starts while a routine runs on its thread shares the lock and
  the first to end frees it; the comment at `activeRepoLock.ts:29` accepts it,
  and the properties of `repo_run` are stated without such overlaps;
* a one-time job given a new date while it runs is completed with that date when
  the run ends (`store/routines.ts:342`), and a job whose outcome cannot be
  written is run again on every tick (`scheduler.ts:340`).

Tasks:

* a thread that stays busy keeps its task queued for ever, where
  `docs/architecture/avatar-task-api.md:122` gives a bound: the bound counts
  requeues only (`avatarTaskRunner.ts:179`); `TasksSettle` excepts such threads;
* two hundred rows behind busy threads are all the dispatcher looks at, so rows
  behind them wait as well;
* a task that names an empty thread of the owner's and is cancelled before it
  ran deletes it, though it did not create it (`docs/avatar-task-api.md:114`).

Team brain:

* a changeset compiled before the proposer's answer to a question may be drafted
  and committed after it: the answer voids the drafts that exist then
  (`teamBrainActions.ts:338`, `store/teamBrain.ts:459`);
* a decision can find its source undecided after its commit when the pressing
  admin's account was deleted meanwhile, and a commit that is reported failed
  after it landed puts the card back ("A failed write decided nothing",
  `teamBrainActions.ts:371`); `SourceFollowsVault` names both exceptions;
* a draft that a press voided and a rewind cut meanwhile is put back when the
  press fails; claims older than seven days, or beyond two hundred rows of log,
  are never swept.

The browser bridge:

* a restarted worker numbers uids from the start, so a uid of before may name
  another element (`extension/background.js:342` and 383); the properties speak
  of one worker's life;
* between attaching and `Page.enable` a tab is attached and unwatched, which
  matters when two operations run at once; an action resolved before the page
  navigates lands on what is there then;
* two runs share the pointer to the working tab (779, 977), the notice of a new
  tab (969), and the watch for dialogs (618, 6150); a second consent for one
  origin leaves the first promise unsettled (1207);
* the two legs of a secret's operation may take longer than its time-to-live
  (`agent/browserBridge.ts:264`), an operation goes on after its run stopped
  waiting, and then two are under way at once;
* a page that reconnects hands over again what it handled more than five
  hundred operations ago, which `chat.ts:2604` of the client calls safe.

## What is not modelled

The table of components in `PROJECT.json` gives the reason for each.  Within the
modelled ones:

* everywhere: the text of messages and prompts, usage figures, suspended owners
  and what they may no longer do;
* scheduler: the calendar arithmetic of daily and weekly routines (a recurring
  job comes round in equal steps);
* repository and vault: git itself (it succeeds or fails), pushing, and the
  commit a schema migration makes;
* `MidTurn`: what pi does inside a response beyond what the loop can tell apart;
* `TeamBrain`: the clocks of drafts and claims (any draft may fall due), the
  editing of provenance, the checks a page passes at intake;
* `AvatarTasks`: a repeated key with another fingerprint, the rate limit, the
  choice of model, the text of results;
* `ElementRefs`: the sessions of child frames, dialogs, the working tab,
  consents, screenshots, and how each action drives the page;
* `BrowserRelay`: clients that send no `requestId`, the configuration messages,
  the end of the run.

Most of the repository by lines is of kinds these specifications do not reach:
views and rendering in the client, the accessibility tree written as text,
prompts and catalogues that are functions of their inputs, rows of one owner
that one synchronous statement reads or writes, and processes and containers
outside the server.  Skill transfer does hold state across awaits: it copies from
the sharer's clone file by file (`skillTransfer.ts:1399`), while another request
may refresh that clone or the learner's.  Neither it, nor share links, nor the
personal knowledge repository is modelled; what could go wrong there is mostly in
the text of files and in git, which these specifications leave out.

## What is left

1. Proofs: the conditions under which the disagreements above cannot happen, as
   theorems: that a sweep puts back no card whose commit landed while the
   proposer's account stands and no commit was reported failed; that a message
   reported dropped is not in the session when no hand-over was under way.
2. A composition of `RoutineScheduler` with `RepoCopy`, sharing the lock, in
   place of the environment actions `RepoTaken` and `RepoFreed`.
3. In the extension, the pointer to the working tab and the consents, as two runs
   share them.
4. Skill transfer: a copy that is read from one clone and written into another
   while either is refreshed.

The number of runs is kept small: a new module brings one, and a question that
an existing instance can answer becomes a property of it.
