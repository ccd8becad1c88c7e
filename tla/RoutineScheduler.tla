-------------------------- MODULE RoutineScheduler --------------------------
(***************************************************************************)
(* Routines: a user's scheduled jobs (scheduler.ts, routineRunRegistry.ts, *)
(* store/routines.ts, routes/routines.ts).                                 *)
(*                                                                         *)
(* A tick starts the due jobs without waiting for them, the oldest first,  *)
(* under a limit for the server and one for each owner; "run now" starts a *)
(* job whatever the limits say.  Both take the same slot, synchronously,   *)
(* and both give it back when the firing ends.  Meanwhile the owner edits, *)
(* disables and deletes jobs, chats on their threads and holds their       *)
(* repository from other conversations, and the server may restart: rows   *)
(* survive, slots and firings do not.                                      *)
(***************************************************************************)
EXTENDS Naturals, FiniteSets

CONSTANTS
  Jobs,         \* seats for rows of routine_jobs
  Owners,
  OwnerOf,      \* the owner of each job
  WithRepo,     \* jobs whose conversation has a working repository open
  Chatted,      \* jobs whose owner chats on their conversation
  ByHand,       \* jobs whose owner also runs them by hand
  Plans,        \* bound: the schedules an owner gives each job
  Never,        \* no time
  MaxRuns,      \* routineMaxConcurrentRuns
  MaxPerOwner,  \* routineMaxConcurrentRunsPerUser
  MaxTime       \* bound: the clock stops here

\* A one-time job has its slot; a recurring one comes round in equal steps.
Schedules == [kind : {"once"}, at : Nat] \cup [kind : {"every"}, at : Nat \ {0}]

ASSUME RoutineAssumption ==
  /\ IsFiniteSet(Jobs) /\ OwnerOf \in [Jobs -> Owners] /\ WithRepo \subseteq Jobs
  /\ Chatted \subseteq Jobs /\ ByHand \subseteq Jobs
  /\ Plans \in [Jobs -> SUBSET Schedules]
  /\ Never \notin Nat
  /\ MaxRuns \in Nat \ {0} /\ MaxPerOwner \in Nat \ {0} /\ MaxTime \in Nat

VARIABLES
  now,          \* the clock
  row,          \* row[j]: the job's row, or NoRow
  firing,       \* firing[j][way]: where the firing started that way is
  runningJobs,  \* routineRunRegistry: the overlap guard
  perOwner,     \* routineRunRegistry: firings in flight of each owner
  chatting,     \* jobs whose conversation has a run in the run registry
  repoBusy      \* jobs whose repository another conversation works on

slots == <<runningJobs, perOwner>>
world == <<chatting, repoBusy>>
vars == <<now, row, firing, slots, world>>

Ways == {"tick", "manual"}
Idle == [w \in Ways |-> "none"]

Times == 0 .. MaxTime
Rows == [schedule : Schedules, enabled : BOOLEAN, next : Nat \cup {Never}]
NoRow == [schedule |-> "none"]

TypeOK ==
  /\ now \in Times
  /\ row \in [Jobs -> Rows \cup {NoRow}]
  /\ firing \in [Jobs -> [Ways -> {"none", "resolving", "running"}]]
  /\ runningJobs \subseteq Jobs
  /\ perOwner \in [Owners -> Nat]
  /\ chatting \subseteq Chatted /\ repoBusy \subseteq WithRepo

Init ==
  /\ now = 0
  /\ row = [j \in Jobs |-> NoRow]
  /\ firing = [j \in Jobs |-> Idle]
  /\ runningJobs = {} /\ perOwner = [o \in Owners |-> 0]
  /\ chatting = {} /\ repoBusy = {}

-----------------------------------------------------------------------------
(* Schedules and rows. *)

IsFuture(s) == s.kind = "once" => s.at > now
NextRun(s) == IF s.kind = "once" THEN s.at ELSE now + s.at

\* createRoutineJob.  A seat is used again once nothing of its last job is left.
Create(j) ==
  \E s \in Plans[j], enabled \in BOOLEAN :
    /\ row[j] = NoRow /\ firing[j] = Idle /\ j \notin chatting \cup repoBusy
    /\ IsFuture(s)
    /\ row' = [row EXCEPT ![j] =
         [schedule |-> s, enabled |-> enabled,
          next |-> IF enabled THEN NextRun(s) ELSE Never]]
    /\ UNCHANGED <<now, firing, slots, world>>

\* updateRoutineJob, by the owner or by the avatar in a run of its own: an edit
\* that leaves the schedule and the switch alone keeps an overdue slot.
Edited(r, s, enabled) ==
  LET changed == s # r.schedule
      next == IF ~enabled THEN Never
              ELSE IF changed \/ ~r.enabled \/ r.next = Never
                THEN (IF IsFuture(s) THEN NextRun(s) ELSE Never)
                ELSE r.next
      armed == enabled /\ (s.kind = "every" \/ next # Never) IN
  [schedule |-> s, enabled |-> armed, next |-> next]

\* The route's checks: a schedule in the request, and one that is switched on,
\* must not be over.
Edit(j) ==
  \E s \in Plans[j], enabled \in BOOLEAN :
    /\ row[j] # NoRow
    /\ s # row[j].schedule \/ (enabled /\ ~row[j].enabled) => IsFuture(s)
    /\ row' = [row EXCEPT ![j] = Edited(@, s, enabled)]
    /\ UNCHANGED <<now, firing, slots, world>>

Delete(j) ==
  /\ row[j] # NoRow
  /\ row' = [row EXCEPT ![j] = NoRow]
  /\ UNCHANGED <<now, firing, slots, world>>

\* markRoutineRun, on the row as it is at the end of the firing.
Recorded(r) ==
  LET again == r.enabled /\ r.schedule.kind = "every" IN
  [r EXCEPT !.enabled = again, !.next = IF again THEN NextRun(r.schedule) ELSE Never]

-----------------------------------------------------------------------------
(* Starting a firing. *)

Due(j) ==
  /\ row[j] # NoRow /\ row[j].enabled /\ row[j].next # Never
  /\ row[j].next <= now

Owned(S, o) == {j \in S : OwnerOf[j] = o}

\* claimRoutineSlot, for every job of S.
Claim(S) ==
  /\ runningJobs' = runningJobs \cup S
  /\ perOwner' = [o \in Owners |-> perOwner[o] + Cardinality(Owned(S, o))]

\* Variant: the slot is taken after the first await of the firing, so a tick
\* does not count the jobs it has just started.
RoomUncounted(j, S) ==
  Cardinality(runningJobs) < MaxRuns /\ perOwner[OwnerOf[j]] < MaxPerOwner

\* The limits, with the jobs S started before j in the same tick.
Room(j, S) ==
  /\ Cardinality(runningJobs \cup S) < MaxRuns
  /\ perOwner[OwnerOf[j]] + Cardinality(Owned(S, OwnerOf[j])) < MaxPerOwner

\* Variant: nothing keeps a job from running twice.
MayStartAgain(j) == j \notin chatting

\* The overlap guard, and a turn under way in the job's conversation.
MayStart(j) == j \notin runningJobs /\ j \notin chatting

\* The loop over the due jobs by next_run_at, those of one time in any order.
\* Within it no slot is given back and room only shrinks: the jobs started are
\* a set that fits, and one left out found no room after those before it.
Tick ==
  LET ready == {j \in Jobs : Due(j) /\ MayStart(j)} IN
  \E S \in SUBSET ready \ {{}} :
    /\ \A j \in S : Room(j, S \ {j})
    /\ \A j \in ready \ S : ~Room(j, {k \in S : row[k].next <= row[j].next})
    /\ Claim(S)
    /\ firing' = [j \in Jobs |->
                   IF j \in S THEN [firing[j] EXCEPT !["tick"] = "resolving"]
                   ELSE firing[j]]
    /\ UNCHANGED <<now, row, world>>

\* POST /api/me/routines/:id/run: no limit refuses it.
RunNow(j) ==
  /\ j \in ByHand /\ row[j] # NoRow /\ MayStart(j)
  /\ Claim({j})
  /\ firing' = [firing EXCEPT ![j]["manual"] = "resolving"]
  /\ UNCHANGED <<now, row, world>>

-----------------------------------------------------------------------------
(* A firing in flight. *)

\* Variant: a firing's slot comes back only while its row exists.
ReleaseOfRow(j) ==
  IF row[j] = NoRow THEN runningJobs' = runningJobs \ {j} /\ UNCHANGED perOwner
  ELSE /\ runningJobs' = runningJobs \ {j}
       /\ perOwner' = [perOwner EXCEPT ![OwnerOf[j]] = @ - 1]

\* Variant: the owner's count is given back, the overlap guard is not.
ReleaseCount(j) ==
  /\ perOwner' = [perOwner EXCEPT ![OwnerOf[j]] = IF @ > 0 THEN @ - 1 ELSE 0]
  /\ UNCHANGED runningJobs

\* releaseRoutineSlot
Release(j) ==
  /\ runningJobs' = runningJobs \ {j}
  /\ perOwner' = [perOwner EXCEPT ![OwnerOf[j]] = IF @ > 0 THEN @ - 1 ELSE 0]

\* Variant: a firing that was skipped records an outcome.
SkipBusyRecorded(j, w) ==
  /\ firing[j][w] = "resolving" /\ j \in repoBusy
  /\ firing' = [firing EXCEPT ![j][w] = "none"]
  /\ row' = [row EXCEPT ![j] = IF @ = NoRow THEN @ ELSE Recorded(@)]
  /\ Release(j)
  /\ UNCHANGED <<now, world>>

\* The repository is locked or held elsewhere: nothing ran.
SkipBusy(j, w) ==
  /\ firing[j][w] = "resolving" /\ j \in repoBusy
  /\ firing' = [firing EXCEPT ![j][w] = "none"]
  /\ Release(j)
  /\ UNCHANGED <<now, row, world>>

\* The repository is free, or could not be opened for another reason.
Resolve(j, w) ==
  /\ firing[j][w] = "resolving" /\ j \notin repoBusy
  /\ firing' = [firing EXCEPT ![j][w] = "running"]
  /\ UNCHANGED <<now, row, slots, world>>

\* The run answers, fails or meets its deadline, and the outcome is recorded in
\* the row if it is still there.
Finish(j, w) ==
  /\ firing[j][w] = "running"
  /\ firing' = [firing EXCEPT ![j][w] = "none"]
  /\ row' = [row EXCEPT ![j] = IF @ = NoRow THEN @ ELSE Recorded(@)]
  /\ Release(j)
  /\ UNCHANGED <<now, world>>

\* Recording the outcome throws: the firing ends without one.
RecordFails(j, w) ==
  /\ firing[j][w] = "running"
  /\ firing' = [firing EXCEPT ![j][w] = "none"]
  /\ Release(j)
  /\ UNCHANGED <<now, row, world>>

\* The process ends and starts again.
Restart ==
  /\ firing' = [j \in Jobs |-> Idle]
  /\ runningJobs' = {} /\ perOwner' = [o \in Owners |-> 0]
  /\ chatting' = {} /\ repoBusy' = {}
  /\ UNCHANGED <<now, row>>

-----------------------------------------------------------------------------
(* Around the routines. *)

ChatStarts(j) ==
  /\ j \in Chatted /\ row[j] # NoRow /\ chatting' = chatting \cup {j}
  /\ UNCHANGED <<now, row, firing, slots, repoBusy>>

ChatEnds(j) ==
  /\ chatting' = chatting \ {j}
  /\ UNCHANGED <<now, row, firing, slots, repoBusy>>

RepoTaken(j) ==
  /\ j \in WithRepo /\ \A w \in Ways : firing[j][w] # "running"
  /\ repoBusy' = repoBusy \cup {j}
  /\ UNCHANGED <<now, row, firing, slots, chatting>>

RepoFreed(j) ==
  /\ repoBusy' = repoBusy \ {j}
  /\ UNCHANGED <<now, row, firing, slots, chatting>>

TimePasses ==
  /\ now < MaxTime /\ now' = now + 1
  /\ UNCHANGED <<row, firing, slots, world>>

Firing(j, w) == SkipBusy(j, w) \/ Resolve(j, w) \/ Finish(j, w)

Owner(j) == Create(j) \/ Edit(j) \/ Delete(j) \/ RunNow(j)

World(j) == ChatStarts(j) \/ ChatEnds(j) \/ RepoTaken(j) \/ RepoFreed(j)

Next ==
  \/ Tick \/ Restart \/ TimePasses
  \/ \E j \in Jobs :
       \/ Owner(j) \/ World(j)
       \/ \E w \in Ways : Firing(j, w) \/ RecordFails(j, w)

\* The ticker's timer fires again and again.  A firing does not last (its
\* deadline aborts it), and one that is repeated is not cut by a restart or a
\* failing write every time.
Fairness ==
  /\ WF_vars(Tick)
  /\ \A j \in Jobs :
       /\ WF_vars(\E w \in Ways : SkipBusy(j, w))
       /\ SF_vars(\E w \in Ways : Resolve(j, w))
       /\ SF_vars(\E w \in Ways : Finish(j, w))

Spec == Init /\ [][Next]_vars /\ Fairness

-----------------------------------------------------------------------------
(* Properties. *)

InFlight == {j \in Jobs : firing[j] # Idle}

\* A job is in flight at most once, however it was started, and the registry
\* holds exactly the slots of the firings in flight: none leaks when a row is
\* edited or deleted under its firing, when a firing is skipped or fails.
SlotsMatchFirings ==
  /\ \A j \in Jobs : \E w \in Ways : firing[j][w] = "none"
  /\ runningJobs = InFlight
  /\ \A o \in Owners : perOwner[o] = Cardinality(Owned(InFlight, o))

\* Exactly the enabled jobs have a slot to wait for: a job that was disabled
\* or edited while it ran is neither scheduled again nor forgotten.
EnabledHasSlot ==
  \A j \in Jobs : row[j] # NoRow => (row[j].enabled <=> row[j].next # Never)

\* A job whose run was recorded waits for a slot still to come: slots missed
\* while the server was down or the job was skipped are not caught up.
NoCatchingUp ==
  [][\A j \in Jobs, w \in Ways :
       firing[j][w] = "running" /\ firing'[j][w] = "none" /\ row'[j] # row[j] =>
         ~Due(j)']_vars

\* A tick starts nothing over the limits, whatever it started in the same loop
\* and however many jobs were run by hand.
LimitsHold ==
  [][\A j \in Jobs :
       firing[j]["tick"] = "none" /\ firing'[j]["tick"] # "none" =>
         /\ Cardinality(InFlight') <= MaxRuns
         /\ Cardinality(Owned(InFlight', OwnerOf[j])) <= MaxPerOwner]_vars

\* A due job stays due until a firing of it has run to its end, or its owner
\* gives it another schedule, switches it off or deletes it: no skip, edit of
\* its name, or restart loses the run.
DueUntilRun ==
  [][\A j \in Jobs : Due(j) /\ ~Due(j)' =>
       \/ \E w \in Ways : firing[j][w] = "running" /\ firing'[j][w] = "none"
       \/ /\ UNCHANGED firing
          /\ \/ row'[j] = NoRow
             \/ ~row'[j].enabled
             \/ row'[j].schedule # row[j].schedule]_vars

\* No job is run by hand, and nobody is in the way of the jobs of S.
Undisturbed(S) ==
  /\ \A j \in Jobs : firing[j]["manual"] = "none"
  /\ S \cap (chatting \cup repoBusy) = {}

\* A due job is run at last, once all threads are quiet and nobody else holds a
\* routine's repository: the limits make it wait, they do not keep it out.
DueJobsRun ==
  <>[]Undisturbed(Jobs) => \A j \in Jobs : Due(j) ~> ~Due(j)
=============================================================================
