---------------------- MODULE ConversationTurns_proofs ----------------------
(***************************************************************************)
(* Theorems about ConversationTurns, for any number of messages, edits,    *)
(* regenerates, tasks and routines and any bounds.                         *)
(***************************************************************************)
EXTENDS ConversationTurns, TLAPS

LEMMA RowType ==
  ASSUME NEW id \in Nat, NEW role \in {"user", "assistant"},
         NEW kind \in {"ordinary", "queued", "steer"}, NEW by \in Writers, NEW q \in Nat
  PROVE  Row(id, role, kind, by, q) \in Message
BY DEF Row, Message

LEMMA AnswerType ==
  ASSUME TypeOK, NEW t \in Turns
  PROVE  Answer(t) \in SUBSET Message
<1>1. nextId \in Nat /\ question[t] \in Nat /\ t \in Writers
  BY DEF TypeOK, Writers
<1>2. Row(nextId, "assistant", "ordinary", t, question[t]) \in Message
  BY <1>1, RowType
<1>. QED  BY <1>2 DEF Answer

LEMMA PlanType ==
  ASSUME TypeOK, NEW t \in Turns, NEW m \in messages
  PROVE  PlanAt(t, m.id) \in Plan
BY DEF TypeOK, PlanAt, Plan, Message, Ids, Before, From, After

LEMMA TurnAwayType ==
  ASSUME TypeOK, NEW t \in Turns, NEW status \in {409, 502}, TurnAway(t, status)
  PROVE  /\ task' \in [Tasks -> {"none", "queued", "running", "ended"}]
         /\ attempts' \in [Tasks -> Nat]
         /\ pc' \in [Turns -> {"idle", "resolving", "open", "closed", "refused"}]
<1>1. CASE t \in Tasks  BY <1>1 DEF TypeOK, TurnAway
<1>2. CASE t \notin Tasks  BY <1>2 DEF TypeOK, TurnAway
<1>. QED  BY <1>1, <1>2

LEMMA StoreQuestionType ==
  ASSUME TypeOK, NEW t \in Turns, NEW kind \in {"ordinary", "queued"}, StoreQuestion(t, kind)
  PROVE  /\ conversation' \in BOOLEAN
         /\ messages' \in SUBSET Message
         /\ nextId' \in Nat \ {0}
         /\ question' \in [Turns -> Nat]
<1>1. QuestionRow(t, kind) \in Message
  <2>1. nextId \in Nat /\ t \in Writers  BY DEF TypeOK, Writers
  <2>. QED  BY <2>1, RowType DEF QuestionRow
<1>. QED  BY <1>1 DEF TypeOK, StoreQuestion

LEMMA OpenRunType ==
  ASSUME TypeOK, NEW t \in Turns, nextId' \in Nat, OpenRun(t)
  PROVE  /\ runs' \in SUBSET Turns /\ convRun' \in Turns \cup {None}
         /\ cancelled' \in SUBSET Turns /\ openedAt' \in [Turns -> Nat]
         /\ pc' \in [Turns -> {"idle", "resolving", "open", "closed", "refused"}]
BY DEF TypeOK, OpenRun

LEMMA InitType == Init => TypeOK
BY BoundsAssumption DEF Init, TypeOK, Plan, NoPlan

LEMMA TypeStep == TypeOK /\ [Next]_vars => TypeOK'
<1> SUFFICES ASSUME TypeOK, [Next]_vars PROVE TypeOK'
  OBVIOUS
<1> USE DEF Turns, Rewinds
<1>1. ASSUME NEW t \in Sends, AdmitSend(t) PROVE TypeOK'
  BY <1>1 DEF TypeOK, AdmitSend, table, registry, routineState, history
<1>2. ASSUME NEW t \in Rewinds, AdmitRewind(t) PROVE TypeOK'
  <2>1. \A m \in Anchors(t) : PlanAt(t, m.id) \in Plan
    BY PlanType DEF Anchors
  <2>. QED  BY <1>2, <2>1 DEF TypeOK, AdmitRewind, table, registry, routineState, history
<1>3. ASSUME NEW t \in Rewinds, RefuseRewind(t) PROVE TypeOK'
  BY <1>3 DEF TypeOK, RefuseRewind, table, registry, routineState, history
<1>4. ASSUME NEW t \in Rewinds, RewindRefused(t) PROVE TypeOK'
  BY <1>4 DEF TypeOK, RewindRefused, registry, routineState, history
<1>5. ASSUME NEW t \in Rewinds, RewindOpens(t) \/ RewindAbandoned(t) PROVE TypeOK'
  <2>1. QuestionRow(t, "ordinary") \in Message
    <3>1. nextId \in Nat /\ t \in Writers  BY DEF TypeOK, Writers
    <3>. QED  BY <3>1, RowType DEF QuestionRow
  <2>2. /\ messages' \in SUBSET Message /\ nextId' \in Nat \ {0}
        /\ question' \in [Turns -> Nat]
    BY <1>5, <2>1 DEF TypeOK, ApplyRewind, RewindOpens, RewindAbandoned, Plan
  <2>3. CASE RewindOpens(t)
    BY <2>2, <2>3, OpenRunType DEF TypeOK, ApplyRewind, RewindOpens, routineState, history
  <2>4. CASE RewindAbandoned(t)
    BY <2>2, <2>4 DEF TypeOK, ApplyRewind, RewindAbandoned, registry, routineState, history
  <2>. QED  BY <1>5, <2>3, <2>4
<1>6. ASSUME NEW t \in Tasks, AcceptTask(t) PROVE TypeOK'
  BY <1>6 DEF TypeOK, AcceptTask, registry, routineState, history
<1>7. ASSUME NEW t \in Tasks, ClaimTask(t) \/ DropTask(t) PROVE TypeOK'
  BY <1>7 DEF TypeOK, ClaimTask, DropTask, Dispatchable, ThreadKept, table, registry, routineState, history
<1>8. ASSUME NEW t \in Tasks, CancelTask(t) PROVE TypeOK'
  BY <1>8 DEF TypeOK, CancelTask, ThreadKept, registry, routineState, history
<1>9. ASSUME NEW t \in Sends \cup Tasks, SendRaced(t) PROVE TypeOK'
  BY <1>9, StoreQuestionType, TurnAwayType DEF TypeOK, SendRaced, registry, routineState, history
<1>10. ASSUME NEW t \in Sends \cup Tasks, SendOpens(t) PROVE TypeOK'
  BY <1>10, StoreQuestionType, OpenRunType DEF TypeOK, SendOpens, routineState, history
<1>11. ASSUME NEW t \in Sends \cup Tasks, OpenAbandoned(t) PROVE TypeOK'
  BY <1>11, StoreQuestionType DEF TypeOK, OpenAbandoned, registry, routineState, history
<1>12. ASSUME NEW t \in Turns, RepoRefuses(t) PROVE TypeOK'
  BY <1>12, TurnAwayType DEF TypeOK, RepoRefuses, table, registry, routineState, history
<1>13. ASSUME NEW t \in Turns, Cancel(t) PROVE TypeOK'
  BY <1>13 DEF TypeOK, Cancel, table, routineState, history
<1>14. ASSUME NEW t \in Turns, Finish(t) PROVE TypeOK'
  BY <1>14, AnswerType DEF TypeOK, Finish, routineState, history
<1>15. ASSUME NEW t \in Turns, NEW f \in BOOLEAN, Steer(t, f) PROVE TypeOK'
  <2>1. \A id \in Nat : Row(id, "user", "steer", t, id) \in Message
    BY RowType DEF Writers
  <2>. QED  BY <1>15, <2>1, AnswerType DEF TypeOK, Steer, registry, routineState, history
<1>16. ASSUME NEW r \in Routines, StartRoutine(r) PROVE TypeOK'
  BY <1>16 DEF TypeOK, StartRoutine, table, registry, history
<1>17. ASSUME NEW r \in Routines, SkipRoutine(r) PROVE TypeOK'
  BY <1>17 DEF TypeOK, SkipRoutine, table, registry, history
<1>18. ASSUME NEW r \in Routines, FinishRoutine(r) PROVE TypeOK'
  <2> DEFINE all == messages \cup {Row(nextId, "user", RoutineRowKind, r, nextId),
                                   Row(nextId + 1, "assistant", "ordinary", r, nextId)}
  <2>1. all \in SUBSET Message
    <3>1. /\ nextId \in Nat /\ nextId + 1 \in Nat /\ r \in Writers
          /\ RoutineRowKind \in {"ordinary", "queued", "steer"}
      BY DEF TypeOK, Writers, RoutineRowKind
    <3>2. /\ Row(nextId, "user", RoutineRowKind, r, nextId) \in Message
          /\ Row(nextId + 1, "assistant", "ordinary", r, nextId) \in Message
      BY <3>1, RowType
    <3>. QED  BY <3>2 DEF TypeOK
  <2>2. /\ messages' = Newest(all, KeepRows)
        /\ pruned' = pruned \cup Ids(all \ Newest(all, KeepRows))
    BY <1>18 DEF FinishRoutine
  <2>3. Newest(all, KeepRows) \subseteq all
    BY DEF Newest
  <2>4. \A ms \in SUBSET Message : Ids(ms) \in SUBSET Nat
    BY DEF Ids, Message
  <2>5. messages' \in SUBSET Message /\ pruned' \in SUBSET Nat
    <3> HIDE DEF all
    <3>. QED  BY <2>1, <2>2, <2>3, <2>4 DEF TypeOK
  <2>6. /\ conversation' \in BOOLEAN /\ nextId' \in Nat \ {0}
        /\ running' \in SUBSET Routines
    <3>1. conversation' = TRUE /\ nextId' = nextId + 2 /\ running' = running \ {r}
      BY <1>18 DEF FinishRoutine
    <3>. QED  BY <3>1 DEF TypeOK
  <2>7. UNCHANGED <<registry, pc, plan, question, task, attempts, jobs, firings,
                    steered, deletes, deletedUpTo>>
    BY <1>18 DEF FinishRoutine
  <2> HIDE DEF all
  <2>. QED  BY <2>5, <2>6, <2>7 DEF TypeOK, registry
<1>19. ASSUME NEW r \in Routines, DeleteRoutineJob(r) PROVE TypeOK'
  BY <1>19 DEF TypeOK, DeleteRoutineJob, table, registry, history
<1>20. ASSUME Delete PROVE TypeOK'
  <2>1. cancelled' \in SUBSET Turns
    BY <1>20 DEF TypeOK, Delete, ActiveRun
  <2>2. task' \in [Tasks -> {"none", "queued", "running", "ended"}]
    BY <1>20 DEF TypeOK, Delete
  <2>3. deletes' \in Nat /\ deletedUpTo' \in Nat
    BY <1>20 DEF TypeOK, Delete
  <2>4. /\ conversation' = FALSE /\ messages' = {}
        /\ UNCHANGED <<nextId, runs, convRun, openedAt, pc, plan, question, attempts,
                       routineState, steered, pruned>>
    BY <1>20 DEF Delete
  <2>. QED  BY <2>1, <2>2, <2>3, <2>4 DEF TypeOK, routineState
<1>21. ASSUME UNCHANGED vars PROVE TypeOK'
  BY <1>21 DEF TypeOK, vars, table, registry, routineState, history
<1>. QED
  BY <1>1, <1>2, <1>3, <1>4, <1>5, <1>6, <1>7, <1>8, <1>9, <1>10, <1>11, <1>12, <1>13,
     <1>14, <1>15, <1>16, <1>17, <1>18, <1>19, <1>20, <1>21 DEF Next

\* Every variable keeps its type in every behaviour of the conversation.
THEOREM TypeCorrect == Spec => []TypeOK
BY InitType, TypeStep, PTL DEF Spec

-----------------------------------------------------------------------------
(* The registry holds one run at most. *)

\* Nothing is live when the lookup finds nothing: a run in the registry is the
\* mapped one.
LEMMA NoActiveRunNoRuns ==
  ASSUME TypeOK, OneLiveRun, ActiveRun = None
  PROVE  runs = {}
BY TurnsAssumption DEF TypeOK, OneLiveRun, ActiveRun

LEMMA TurnAwayOther ==
  ASSUME TypeOK, NEW t \in Turns, NEW status \in {409, 502}, TurnAway(t, status)
  PROVE  \A s \in Turns \ {t} : pc'[s] = pc[s]
BY DEF TypeOK, TurnAway

LEMMA OpenRunAlone ==
  ASSUME TypeOK, OneLiveRun, ActiveRun = None, NEW t \in Turns, OpenRun(t)
  PROVE  OneLiveRun' /\ runs' = {t}
<1>1. runs' = {t}
  BY NoActiveRunNoRuns DEF OpenRun
<1>. QED  BY <1>1 DEF TypeOK, OneLiveRun, OpenRun

LEMMA OneLiveRunStep == TypeOK /\ OneLiveRun /\ [Next]_vars => OneLiveRun'
<1> SUFFICES ASSUME TypeOK, OneLiveRun, [Next]_vars PROVE OneLiveRun'
  OBVIOUS
<1> USE DEF Turns, Rewinds
<1>1. ASSUME UNCHANGED <<runs, convRun>>,
             \A s \in runs : pc'[s] = pc[s]
      PROVE  OneLiveRun'
  BY <1>1 DEF OneLiveRun
<1>2. ASSUME NEW t \in Sends, AdmitSend(t) PROVE OneLiveRun'
  BY <1>1, <1>2 DEF TypeOK, OneLiveRun, AdmitSend, registry
<1>3. ASSUME NEW t \in Rewinds, AdmitRewind(t) \/ RefuseRewind(t) \/ RewindRefused(t)
      PROVE  OneLiveRun'
  BY <1>1, <1>3 DEF TypeOK, OneLiveRun, AdmitRewind, RefuseRewind, RewindRefused, registry
<1>4. ASSUME NEW t \in Rewinds, RewindOpens(t) \/ RewindAbandoned(t) PROVE OneLiveRun'
  <2>1. CASE RewindOpens(t)
    BY <2>1, OpenRunAlone DEF RewindOpens, ApplyRewind
  <2>2. CASE RewindAbandoned(t)
    BY <1>1, <2>2 DEF TypeOK, OneLiveRun, RewindAbandoned, ApplyRewind, registry
  <2>. QED  BY <1>4, <2>1, <2>2
<1>5. ASSUME NEW t \in Tasks, AcceptTask(t) \/ CancelTask(t) PROVE OneLiveRun'
  BY <1>1, <1>5 DEF AcceptTask, CancelTask, registry
<1>6. ASSUME NEW t \in Tasks, ClaimTask(t) \/ DropTask(t) PROVE OneLiveRun'
  <2>1. runs = {}  BY <1>6, NoActiveRunNoRuns DEF ClaimTask, DropTask, Dispatchable
  <2>. QED  BY <1>6, <2>1 DEF ClaimTask, DropTask, OneLiveRun, registry
<1>7. ASSUME NEW t \in Sends \cup Tasks, SendRaced(t) PROVE OneLiveRun'
  <2>1. t \notin runs  BY <1>7 DEF SendRaced, OneLiveRun
  <2>2. \A s \in Turns \ {t} : pc'[s] = pc[s]
    BY <1>7, TurnAwayOther DEF SendRaced
  <2>. QED  BY <1>1, <1>7, <2>1, <2>2 DEF TypeOK, SendRaced, registry
<1>8. ASSUME NEW t \in Sends \cup Tasks, SendOpens(t) PROVE OneLiveRun'
  BY <1>8, OpenRunAlone DEF SendOpens
<1>9. ASSUME NEW t \in Sends \cup Tasks, OpenAbandoned(t) PROVE OneLiveRun'
  BY <1>1, <1>9 DEF TypeOK, OneLiveRun, OpenAbandoned, registry
<1>10. ASSUME NEW t \in Turns, RepoRefuses(t) PROVE OneLiveRun'
  <2>1. t \notin runs  BY <1>10 DEF RepoRefuses, OneLiveRun
  <2>2. \A s \in Turns \ {t} : pc'[s] = pc[s]
    BY <1>10, TurnAwayOther DEF RepoRefuses
  <2>. QED  BY <1>1, <1>10, <2>1, <2>2 DEF TypeOK, RepoRefuses, registry
<1>11. ASSUME NEW t \in Turns, Cancel(t) PROVE OneLiveRun'
  BY <1>1, <1>11 DEF Cancel
<1>12. ASSUME NEW t \in Turns, Finish(t) PROVE OneLiveRun'
  BY <1>12 DEF TypeOK, OneLiveRun, Finish
<1>13. ASSUME NEW t \in Turns, NEW f \in BOOLEAN, Steer(t, f) PROVE OneLiveRun'
  BY <1>1, <1>13 DEF Steer, registry
<1>14. ASSUME NEW r \in Routines,
              StartRoutine(r) \/ SkipRoutine(r) \/ FinishRoutine(r) \/ DeleteRoutineJob(r)
       PROVE  OneLiveRun'
  BY <1>1, <1>14 DEF StartRoutine, SkipRoutine, FinishRoutine, DeleteRoutineJob, registry
<1>15. ASSUME Delete PROVE OneLiveRun'
  BY <1>1, <1>15 DEF Delete
<1>16. ASSUME UNCHANGED vars PROVE OneLiveRun'
  BY <1>1, <1>16 DEF vars
<1>. QED
  BY <1>2, <1>3, <1>4, <1>5, <1>6, <1>7, <1>8, <1>9, <1>10, <1>11, <1>12, <1>13,
     <1>14, <1>15, <1>16 DEF Next

\* Whatever turns race each other through their awaits, one run at most is
\* live on the conversation, and it is the one the registry's map names.
THEOREM OneRunAtATime == Spec => []OneLiveRun
<1>1. Init => OneLiveRun  BY DEF Init, OneLiveRun
<1>. QED  BY <1>1, InitType, TypeStep, OneLiveRunStep, PTL DEF Spec

-----------------------------------------------------------------------------
(* Row ids: every row is older than the next one. *)

IdsBelowNext == \A m \in messages : m.id < nextId

LEMMA RowFields ==
  ASSUME NEW id, NEW role, NEW kind, NEW by, NEW q
  PROVE  /\ Row(id, role, kind, by, q).id = id
         /\ Row(id, role, kind, by, q).role = role
         /\ Row(id, role, kind, by, q).by = by
BY DEF Row

LEMMA AnswerFields ==
  ASSUME NEW t \in Turns, NEW m \in Answer(t)
  PROVE  m.id = nextId /\ m.by = t /\ conversation
BY RowFields DEF Answer

LEMMA StoreQuestionRows ==
  ASSUME TypeOK, NEW t \in Turns, NEW kind, StoreQuestion(t, kind)
  PROVE  /\ nextId' \in {nextId, nextId + 1}
         /\ \/ messages' = messages /\ nextId' = nextId
            \/ messages' = messages \cup {QuestionRow(t, kind)} /\ nextId' = nextId + 1
BY DEF StoreQuestion

LEMMA IdsStep == TypeOK /\ IdsBelowNext /\ [Next]_vars => IdsBelowNext'
<1> SUFFICES ASSUME TypeOK, IdsBelowNext, [Next]_vars PROVE IdsBelowNext'
  OBVIOUS
<1> USE DEF Turns, Rewinds
<1>0. nextId \in Nat /\ \A m \in messages : m.id \in Nat /\ m.id < nextId
  BY DEF TypeOK, IdsBelowNext, Message
<1>1. ASSUME messages' \in SUBSET messages, nextId' = nextId PROVE IdsBelowNext'
  BY <1>1 DEF IdsBelowNext
<1>2. ASSUME NEW t \in Turns, NEW kind, StoreQuestion(t, kind) PROVE IdsBelowNext'
  BY <1>0, <1>2, StoreQuestionRows, RowFields DEF IdsBelowNext, QuestionRow
<1>3. ASSUME NEW t \in Sends, AdmitSend(t) PROVE IdsBelowNext'
  BY <1>1, <1>3 DEF AdmitSend, table
<1>4. ASSUME NEW t \in Rewinds, AdmitRewind(t) \/ RefuseRewind(t) \/ RewindRefused(t)
      PROVE  IdsBelowNext'
  BY <1>1, <1>4 DEF AdmitRewind, RefuseRewind, RewindRefused, table
<1>5. ASSUME NEW t \in Rewinds, ApplyRewind(t) PROVE IdsBelowNext'
  <2>1. CASE t \in Edits
    <3>1. /\ nextId' = nextId + 1
          /\ \A m \in messages' : m \in messages \/ m = QuestionRow(t, "ordinary")
      BY <1>5, <2>1 DEF ApplyRewind
    <3>. QED  BY <1>0, <3>1, RowFields DEF IdsBelowNext, QuestionRow
  <2>2. CASE t \notin Edits
    BY <1>1, <1>5, <2>2 DEF ApplyRewind
  <2>. QED  BY <2>1, <2>2
<1>6. ASSUME NEW t \in Tasks, AcceptTask(t) \/ ClaimTask(t) \/ DropTask(t) \/ CancelTask(t)
      PROVE  IdsBelowNext'
  BY <1>1, <1>6 DEF AcceptTask, ClaimTask, DropTask, CancelTask, table
<1>7. ASSUME NEW t \in Sends \cup Tasks, SendRaced(t) \/ SendOpens(t) \/ OpenAbandoned(t)
      PROVE  IdsBelowNext'
  BY <1>2, <1>7 DEF SendRaced, SendOpens, OpenAbandoned
<1>8. ASSUME NEW t \in Turns, RepoRefuses(t) \/ Cancel(t) PROVE IdsBelowNext'
  BY <1>1, <1>8 DEF RepoRefuses, Cancel, table
<1>9. ASSUME NEW t \in Turns, Finish(t) PROVE IdsBelowNext'
  <2>1. /\ nextId' \in {nextId, nextId + 1}
        /\ \A m \in messages' : m \in messages \/ (m \in Answer(t) /\ nextId' = nextId + 1)
    BY <1>0, <1>9, AnswerFields DEF Finish
  <2>. QED  BY <1>0, <2>1, AnswerFields DEF IdsBelowNext
<1>10. ASSUME NEW t \in Turns, NEW f \in BOOLEAN, Steer(t, f) PROVE IdsBelowNext'
  <2>1. CASE conversation
    <3>1. PICK id \in {nextId, nextId + 1} :
             /\ nextId' = id + 1
             /\ \A m \in messages' : \/ m \in messages
                                     \/ m \in Answer(t) /\ id = nextId + 1
                                     \/ m = Row(id, "user", "steer", t, id)
      BY <1>10, <2>1 DEF Steer
    <3>. QED  BY <1>0, <3>1, AnswerFields, RowFields DEF IdsBelowNext
  <2>2. CASE ~conversation
    BY <1>1, <1>10, <2>2 DEF Steer
  <2>. QED  BY <2>1, <2>2
<1>11. ASSUME NEW r \in Routines, StartRoutine(r) \/ SkipRoutine(r) \/ DeleteRoutineJob(r)
       PROVE  IdsBelowNext'
  BY <1>1, <1>11 DEF StartRoutine, SkipRoutine, DeleteRoutineJob, table
<1>12. ASSUME NEW r \in Routines, FinishRoutine(r) PROVE IdsBelowNext'
  <2>1. /\ nextId' = nextId + 2
        /\ \A m \in messages' : \/ m \in messages
                                \/ m = Row(nextId, "user", RoutineRowKind, r, nextId)
                                \/ m = Row(nextId + 1, "assistant", "ordinary", r, nextId)
    BY <1>12 DEF FinishRoutine, Newest
  <2>. QED  BY <1>0, <2>1, RowFields DEF IdsBelowNext
<1>13. ASSUME Delete PROVE IdsBelowNext'
  BY <1>13 DEF Delete, IdsBelowNext
<1>14. ASSUME UNCHANGED vars PROVE IdsBelowNext'
  BY <1>1, <1>14 DEF vars
<1>. QED
  BY <1>3, <1>4, <1>5, <1>6, <1>7, <1>8, <1>9, <1>10, <1>11, <1>12, <1>13, <1>14
  DEF Next, RewindOpens, RewindAbandoned

-----------------------------------------------------------------------------
(* An applied rewind cuts what it planned. *)

LEMMA ApplyRewindCuts ==
  ASSUME TypeOK, IdsBelowNext, NEW t \in Rewinds, ApplyRewind(t)
  PROVE  /\ Ids({m \in messages' : m.id < question'[t]}) = plan[t].keep
         /\ \A m \in messages' : m.id <= question'[t]
<1> DEFINE a == plan[t].anchor
           kept == {m \in messages : m.id \notin plan[t].drop}
<1>0. /\ nextId \in Nat /\ t \in Turns
      /\ \A m \in messages : m.id \in Nat /\ m.id < nextId
  BY DEF TypeOK, IdsBelowNext, Message, Turns, Rewinds
<1>1. a \in Ids(messages) /\ a \in Nat /\ plan[t] = PlanAt(t, a)
  BY <1>0 DEF ApplyRewind, Drifted, Ids
<1>2. plan[t].keep = Ids(Before(a))
  BY <1>1 DEF PlanAt
<1>3. CASE t \in Edits
  <2>1. plan[t].drop = Ids(From(a))  BY <1>1, <1>3 DEF PlanAt
  <2>2. kept = Before(a)  BY <1>0, <1>1, <2>1 DEF Ids, From, Before
  <2>3. messages' = kept \cup {QuestionRow(t, "ordinary")} /\ question'[t] = nextId
    BY <1>0, <1>3 DEF ApplyRewind, TypeOK
  <2>4. QuestionRow(t, "ordinary").id = nextId  BY RowFields DEF QuestionRow
  <2>5. {m \in messages' : m.id < nextId} = Before(a)
    BY <1>0, <2>2, <2>3, <2>4 DEF Before
  <2>6. \A m \in messages' : m.id <= nextId
    BY <1>0, <2>3, <2>4
  <2>. QED  BY <1>2, <2>3, <2>5, <2>6
<1>4. CASE t \notin Edits
  <2>1. plan[t].drop = Ids(After(a))  BY <1>1, <1>4 DEF PlanAt
  <2>2. kept = {m \in messages : m.id <= a}  BY <1>0, <1>1, <2>1 DEF Ids, After
  <2>3. messages' = kept /\ question'[t] = a
    BY <1>0, <1>4 DEF ApplyRewind, TypeOK
  <2>4. {m \in messages' : m.id < a} = Before(a)
    BY <1>0, <1>1, <2>2, <2>3 DEF Before
  <2>. QED  BY <1>2, <2>2, <2>3, <2>4
<1>. QED  BY <1>3, <1>4

LEMMA OnlyRewindsApply ==
  ASSUME TypeOK, [Next]_vars, NEW t \in Rewinds, Applies(t)
  PROVE  RewindOpens(t) \/ RewindAbandoned(t)
<1> USE DEF Turns, Rewinds
<1>0. pc[t] = "resolving" /\ pc'[t] \in {"open", "closed"}
  BY DEF Applies
<1>1. \A s \in Turns : \A status \in {409, 502} : TurnAway(s, status)
        => pc'[t] \in {pc[t], "idle", "refused"}
  BY DEF TurnAway, TypeOK
<1>2. \A s \in Turns : ~SendRaced(s) /\ ~RepoRefuses(s)
  BY <1>0, <1>1 DEF SendRaced, RepoRefuses
<1>3. \A s \in Sends \cup Tasks : ~SendOpens(s) /\ ~OpenAbandoned(s)
  BY <1>0, TurnsAssumption DEF SendOpens, OpenAbandoned, OpenRun, TypeOK
<1>4. \A s \in Turns : ~AdmitSend(s) /\ ~AdmitRewind(s) /\ ~RefuseRewind(s) /\ ~RewindRefused(s)
  BY <1>0 DEF AdmitSend, AdmitRewind, RefuseRewind, RewindRefused, TypeOK
<1>5. \A s \in Tasks : ~ClaimTask(s) /\ ~DropTask(s)
  BY <1>0, TurnsAssumption DEF ClaimTask, DropTask, TypeOK
<1>6. \A s \in Turns : ~Finish(s)
  BY <1>0 DEF Finish, TypeOK
<1>7. \A s \in Rewinds : RewindOpens(s) \/ RewindAbandoned(s) => s = t
  BY <1>0 DEF RewindOpens, RewindAbandoned, OpenRun, TypeOK
<1>8. pc' # pc
  BY <1>0
<1>. QED
  BY <1>2, <1>3, <1>4, <1>5, <1>6, <1>7, <1>8
  DEF Next, vars, AcceptTask, CancelTask, Cancel, Steer, StartRoutine, SkipRoutine,
      FinishRoutine, DeleteRoutineJob, Delete

\* An edit or a regenerate that is applied leaves exactly the rows its prompt
\* was built from and the row it answers.
THEOREM RewindIsExact == Spec => RewindCutsWhatItPlanned
<1>1. Init => IdsBelowNext  BY DEF Init, IdsBelowNext
<1>2. TypeOK /\ IdsBelowNext /\ [Next]_vars
      => [\A t \in Rewinds : Applies(t) =>
            Ids({m \in messages' : m.id < question'[t]}) = plan[t].keep
            /\ \A m \in messages' : m.id <= question'[t]]_vars
  BY OnlyRewindsApply, ApplyRewindCuts DEF RewindOpens, RewindAbandoned
<1>. QED
  BY <1>1, <1>2, InitType, TypeStep, IdsStep, PTL DEF Spec, RewindCutsWhatItPlanned

-----------------------------------------------------------------------------
(* Nobody answers into a rewind's run. *)

\* No routine that still has its job is firing while a rewind runs: none was
\* when it opened, and none starts while a run is live.
RewindJobsQuiet == runs \cap Rewinds # {} => jobs \cap running = {}

Undisturbed == TypeOK /\ OneLiveRun /\ IdsBelowNext /\ RewindJobsQuiet /\ RewindRunUndisturbed

\* Only these two steps put a run into the registry.
LEMMA OnlyOpens ==
  ASSUME TypeOK, [Next]_vars, NEW t \in Turns, t \notin runs, t \in runs'
  PROVE  (t \in Sends \cup Tasks /\ SendOpens(t)) \/ (t \in Rewinds /\ RewindOpens(t))
<1>1. \A s \in Turns : SendOpens(s) \/ RewindOpens(s) => runs' = runs \cup {s}
  BY DEF SendOpens, RewindOpens, OpenRun
<1>. QED
  BY <1>1
  DEF Turns, Rewinds, Next, vars, registry, AdmitSend, AdmitRewind, RefuseRewind, RewindRefused,
      RewindAbandoned, AcceptTask, ClaimTask, DropTask, CancelTask, SendRaced, OpenAbandoned,
      RepoRefuses, Cancel, Finish, Steer, StartRoutine, SkipRoutine, FinishRoutine,
      DeleteRoutineJob, Delete

LEMMA RewindOpened ==
  ASSUME TypeOK, [Next]_vars, NEW t \in Rewinds, t \notin runs, t \in runs'
  PROVE  RewindOpens(t)
BY OnlyOpens, TurnsAssumption DEF Turns, Rewinds

LEMMA QuietStep == TypeOK /\ OneLiveRun /\ RewindJobsQuiet /\ [Next]_vars => RewindJobsQuiet'
<1> SUFFICES ASSUME TypeOK, OneLiveRun, RewindJobsQuiet, [Next]_vars,
                    runs' \cap Rewinds # {}
             PROVE  jobs' \cap running' = {}
  BY DEF RewindJobsQuiet
<1>1. CASE \E t \in Rewinds : t \notin runs /\ t \in runs'
  BY <1>1, RewindOpened DEF RewindOpens, ApplyRewind, RewindBusy, routineState
<1>2. CASE ~\E t \in Rewinds : t \notin runs /\ t \in runs'
  <2>1. runs \cap Rewinds # {} /\ jobs \cap running = {}
    BY <1>2 DEF RewindJobsQuiet
  <2>2. ActiveRun # None
    BY <2>1, NoActiveRunNoRuns
  <2>3. jobs' \subseteq jobs /\ running' \subseteq running
    BY <2>2 DEF Next, vars, routineState, AdmitSend, AdmitRewind, RefuseRewind,
       RewindRefused, ApplyRewind, RewindOpens, RewindAbandoned, AcceptTask, ClaimTask, DropTask,
       CancelTask, SendRaced,
       SendOpens, OpenAbandoned, RepoRefuses, Cancel, Finish, Steer, StartRoutine,
       SkipRoutine, FinishRoutine, DeleteRoutineJob, Delete
  <2>. QED  BY <2>1, <2>3
<1>. QED  BY <1>1, <1>2

\* While a rewind stays live, the answers a step adds are its own or come from
\* a routine without a job.
LEMMA NewAnswers ==
  ASSUME TypeOK, OneLiveRun, RewindJobsQuiet, [Next]_vars,
         NEW t \in runs \cap Rewinds, t \in runs', NEW m \in messages' \ messages,
         m.role = "assistant"
  PROVE  m.by = t \/ m.by \in Routines \ jobs'
<1> USE DEF Turns, Rewinds
<1>0. runs = {t} /\ ActiveRun # None /\ jobs \cap running = {}
  BY NoActiveRunNoRuns, TurnsAssumption DEF TypeOK, OneLiveRun, RewindJobsQuiet
<1>1. \A s \in Turns : Finish(s) => m.by = t
  BY <1>0, AnswerFields DEF Finish
<1>2. ASSUME NEW s \in Turns, NEW f \in BOOLEAN, Steer(s, f) PROVE m.by = t
  <2>1. m \in Answer(s) \/ \E id \in {nextId, nextId + 1} : m = Row(id, "user", "steer", s, id)
    BY <1>2 DEF Steer
  <2>2. s = t  BY <1>0, <1>2 DEF Steer
  <2>. QED  BY <2>1, <2>2, AnswerFields, RowFields
<1>3. ASSUME NEW r \in Routines, FinishRoutine(r) PROVE m.by \in Routines \ jobs'
  <2>1. \/ m = Row(nextId, "user", RoutineRowKind, r, nextId)
        \/ m = Row(nextId + 1, "assistant", "ordinary", r, nextId)
    BY <1>3 DEF FinishRoutine, Newest
  <2>2. r \in Routines \ jobs'
    BY <1>0, <1>3 DEF FinishRoutine
  <2>. QED  BY <2>1, <2>2, RowFields
<1>4. ASSUME NEW s \in Sends \cup Tasks, SendRaced(s) PROVE FALSE
  BY <1>4, StoreQuestionRows, RowFields DEF SendRaced, QuestionRow
<1>5. \A s \in Turns : ~SendOpens(s) /\ ~OpenAbandoned(s) /\ ~ApplyRewind(s)
  BY <1>0 DEF SendOpens, OpenAbandoned, ApplyRewind
<1>. QED
  BY <1>1, <1>2, <1>3, <1>4, <1>5 DEF Next, vars, table, AdmitSend, AdmitRewind,
     RefuseRewind, RewindRefused, RewindOpens, RewindAbandoned, AcceptTask, ClaimTask, DropTask,
     CancelTask, RepoRefuses, Cancel,
     StartRoutine, SkipRoutine, DeleteRoutineJob, Delete

LEMMA OpenedAtStable ==
  ASSUME TypeOK, OneLiveRun, [Next]_vars, NEW t \in runs \cap Rewinds
  PROVE  openedAt' = openedAt
<1>1. ActiveRun # None  BY NoActiveRunNoRuns
<1>. QED
  BY <1>1 DEF Next, vars, registry, AdmitSend, AdmitRewind, RefuseRewind,
     RewindRefused, ApplyRewind, RewindOpens, RewindAbandoned, AcceptTask, ClaimTask, DropTask,
     CancelTask, SendRaced,
     SendOpens, OpenAbandoned, RepoRefuses, Cancel, Finish, Steer, StartRoutine,
     SkipRoutine, FinishRoutine, DeleteRoutineJob, Delete

LEMMA JobsShrink == ASSUME [Next]_vars PROVE jobs' \subseteq jobs
BY DEF Next, vars, routineState, AdmitSend, AdmitRewind, RefuseRewind,
   RewindRefused, ApplyRewind, RewindOpens, RewindAbandoned, AcceptTask, ClaimTask, DropTask,
     CancelTask, SendRaced,
   SendOpens, OpenAbandoned, RepoRefuses, Cancel, Finish, Steer, StartRoutine,
   SkipRoutine, FinishRoutine, DeleteRoutineJob, Delete

LEMMA UndisturbedStep == Undisturbed /\ [Next]_vars => Undisturbed'
<1> SUFFICES ASSUME Undisturbed, [Next]_vars PROVE Undisturbed'
  OBVIOUS
<1>1. TypeOK' /\ OneLiveRun' /\ IdsBelowNext' /\ RewindJobsQuiet'
  BY TypeStep, OneLiveRunStep, IdsStep, QuietStep DEF Undisturbed
<1>2. ASSUME NEW t \in runs' \cap Rewinds, NEW m \in Foreign(t)'
      PROVE  m.by \in Routines \ jobs'
  <2>0. TypeOK /\ OneLiveRun /\ IdsBelowNext /\ RewindJobsQuiet /\ RewindRunUndisturbed
    BY DEF Undisturbed
  <2>1. m \in messages' /\ m.role = "assistant" /\ m.by # t /\ m.id >= openedAt'[t]
    BY <1>2 DEF Foreign
  <2>2. CASE t \in runs
    <3>1. openedAt' = openedAt  BY <2>0, <2>2, OpenedAtStable
    <3>2. CASE m \in messages
      <4>1. m \in Foreign(t)  BY <2>1, <3>1, <3>2 DEF Foreign
      <4>. QED  BY <2>0, <2>2, <4>1, JobsShrink DEF RewindRunUndisturbed
    <3>3. CASE m \notin messages
      BY <2>0, <2>1, <2>2, <3>3, NewAnswers
    <3>. QED  BY <3>2, <3>3
  <2>3. CASE t \notin runs
    <3>1. RewindOpens(t)  BY <2>0, <2>3, RewindOpened
    <3>2. openedAt'[t] = nextId'
      BY <2>0, <3>1 DEF RewindOpens, OpenRun, TypeOK, Turns, Rewinds
    <3>3. m.id < nextId' /\ m.id \in Nat /\ nextId' \in Nat
      BY <1>1, <2>1 DEF IdsBelowNext, TypeOK, Message
    <3>. QED  BY <2>1, <3>2, <3>3
  <2>. QED  BY <2>2, <2>3
<1>. QED  BY <1>1, <1>2 DEF Undisturbed, RewindRunUndisturbed

\* While an edit or a regenerate runs, no answer but its own lands below its
\* question, save that of a routine whose job was deleted while it was firing.
THEOREM RewindsRunUndisturbed == Spec => []RewindRunUndisturbed
<1>1. Init => Undisturbed
  BY InitType DEF Init, Undisturbed, OneLiveRun, IdsBelowNext, RewindJobsQuiet,
     RewindRunUndisturbed
<1>2. Undisturbed => RewindRunUndisturbed  BY DEF Undisturbed
<1>. QED  BY <1>1, <1>2, UndisturbedStep, PTL DEF Spec
-----------------------------------------------------------------------------
(* What a step does to the table. *)

Asks(m) == m.role = "user" /\ m.kind \in {"ordinary", "queued"}
Ordinary(m) == m.role = "user" /\ m.kind = "ordinary"
NewRows == messages' \ messages

LEMMA QuestionRowFields ==
  ASSUME NEW t, NEW kind
  PROVE  /\ QuestionRow(t, kind).id = nextId
         /\ QuestionRow(t, kind).role = "user"
         /\ QuestionRow(t, kind).kind = kind
BY DEF QuestionRow, Row

\* New rows get the next ids, one each; no ordinary question is stored while a
\* run is live; an answer names the question of a live run, or is the second
\* row of a routine's pair.
TableGrows ==
  /\ nextId <= nextId'
  /\ \A m \in NewRows : nextId <= m.id /\ m.id < nextId'
  /\ \A m, n \in NewRows : m.id = n.id => m = n
  /\ runs # {} => \A m \in NewRows : ~Ordinary(m)
  /\ \A m \in NewRows : m.role = "assistant" =>
       \/ \E t \in runs : m.question = question[t]
       \/ /\ m.question = nextId /\ m.id = nextId + 1
          /\ \A q \in messages' : q.id = nextId => Asks(q)

LEMMA TableStep ==
  ASSUME TypeOK, IdsBelowNext, OneLiveRun, [Next]_vars
  PROVE  TableGrows
<1> USE DEF Turns, Rewinds, TableGrows, NewRows
<1>0. nextId \in Nat /\ nextId # 0 /\ \A m \in messages : m.id \in Nat /\ m.id < nextId
  BY DEF TypeOK, IdsBelowNext, Message
<1>1. ASSUME messages' \subseteq messages, nextId' = nextId PROVE TableGrows
  BY <1>0, <1>1
<1>2. ASSUME NEW t \in Turns, NEW kind \in {"ordinary", "queued"}, StoreQuestion(t, kind),
             kind = "ordinary" => runs = {}
      PROVE  TableGrows
  BY <1>0, <1>2, StoreQuestionRows, QuestionRowFields DEF Ordinary
<1>3. ASSUME NEW t \in Sends \cup Tasks, SendRaced(t) \/ SendOpens(t) \/ OpenAbandoned(t)
      PROVE  TableGrows
  BY <1>2, <1>3, NoActiveRunNoRuns DEF SendRaced, SendOpens, OpenAbandoned
<1>4. ASSUME NEW t \in Rewinds, ApplyRewind(t) PROVE TableGrows
  <2>1. runs = {}  BY <1>4, NoActiveRunNoRuns DEF ApplyRewind
  <2>2. CASE t \in Edits
    <3>1. /\ nextId' = nextId + 1
          /\ \A m \in NewRows : m = QuestionRow(t, "ordinary")
      BY <1>4, <2>2 DEF ApplyRewind
    <3>. QED  BY <1>0, <2>1, <3>1, QuestionRowFields
  <2>3. CASE t \notin Edits
    BY <1>1, <1>4, <2>3 DEF ApplyRewind
  <2>. QED  BY <2>2, <2>3
<1>5. ASSUME NEW t \in Turns, Finish(t) PROVE TableGrows
  <2>1. CASE conversation
    <3>1. /\ t \in runs /\ nextId' = nextId + 1
          /\ \A m \in NewRows : m = Row(nextId, "assistant", "ordinary", t, question[t])
      BY <1>5, <2>1 DEF Finish, Answer
    <3>. QED  BY <1>0, <3>1 DEF Row, Ordinary
  <2>2. CASE ~conversation
    BY <1>1, <1>5, <2>2 DEF Finish, Answer
  <2>. QED  BY <2>1, <2>2
<1>6. ASSUME NEW t \in Turns, NEW f \in BOOLEAN, Steer(t, f) PROVE TableGrows
  <2>1. CASE conversation
    <3> DEFINE id == IF f THEN nextId + 1 ELSE nextId
               a == Row(nextId, "assistant", "ordinary", t, question[t])
               s == Row(id, "user", "steer", t, id)
    <3>1. /\ t \in runs /\ nextId' = id + 1
          /\ \A m \in NewRows : m = s \/ (f /\ m = a)
      BY <1>6, <2>1 DEF Steer, Answer
    <3>2. s.id = id /\ s.role = "user" /\ s.kind = "steer"
      BY DEF Row
    <3>3. a.id = nextId /\ a.role = "assistant" /\ a.question = question[t]
      BY DEF Row
    <3> HIDE DEF a, s
    <3>. QED  BY <1>0, <3>1, <3>2, <3>3 DEF Ordinary
  <2>2. CASE ~conversation
    BY <1>1, <1>6, <2>2 DEF Steer
  <2>. QED  BY <2>1, <2>2
<1>7. ASSUME NEW r \in Routines, FinishRoutine(r) PROVE TableGrows
  <2> DEFINE u == Row(nextId, "user", RoutineRowKind, r, nextId)
             a == Row(nextId + 1, "assistant", "ordinary", r, nextId)
  <2>1. nextId' = nextId + 2 /\ messages' \subseteq messages \cup {u, a}
    BY <1>7 DEF FinishRoutine, Newest
  <2>2. u.id = nextId /\ u.role = "user" /\ u.kind = RoutineRowKind
    BY DEF Row
  <2>3. a.id = nextId + 1 /\ a.role = "assistant" /\ a.question = nextId
    BY DEF Row
  <2>4. RoutineRowKind \in {"ordinary", "queued"} /\ (runs # {} => RoutineRowKind = "queued")
    BY NoActiveRunNoRuns DEF RoutineRowKind
  <2> HIDE DEF u, a
  <2>5. \A q \in messages' : q.id = nextId => Asks(q)
    BY <1>0, <2>1, <2>2, <2>3, <2>4 DEF Asks
  <2>. QED  BY <1>0, <2>1, <2>2, <2>3, <2>4, <2>5 DEF Ordinary
<1>8. ASSUME Delete PROVE TableGrows
  BY <1>1, <1>8 DEF Delete
<1>9. CASE UNCHANGED <<messages, nextId>>
  BY <1>1, <1>9
<1>. QED
  BY <1>3, <1>4, <1>5, <1>6, <1>7, <1>8, <1>9
  DEF Next, vars, table, AdmitSend, AdmitRewind, RefuseRewind, RewindRefused, RewindOpens,
      RewindAbandoned, AcceptTask,
      ClaimTask, DropTask, CancelTask, RepoRefuses, Cancel, StartRoutine, SkipRoutine,
      DeleteRoutineJob

-----------------------------------------------------------------------------
(* Which row an answer belongs to. *)

\* The row id, where the table still has it, is a question; is marked queued.
NamesQuestion(id) == \A q \in messages : q.id = id => Asks(q)
IsQueued(id) == \A q \in messages : q.id = id => q.kind = "queued"

\* No ordinary question stands between a question that is not queued and what
\* answers it, below the row with this id.
HeadsUpTo(id, end) ==
  \A u \in messages : Ordinary(u) /\ id < u.id /\ u.id < end => IsQueued(id)

UniqueIds == \A m, n \in messages : m.id = n.id => m = n

AnswersNamed ==
  \A a \in messages : a.role = "assistant" =>
    a.question < a.id /\ NamesQuestion(a.question) /\ HeadsUpTo(a.question, a.id)

RunsNamed ==
  \A t \in runs :
    question[t] < nextId /\ NamesQuestion(question[t]) /\ HeadsUpTo(question[t], nextId)

\* A turn that has not opened its run yet has stored nothing or a queued row.
WaitingNamed ==
  \A t \in Turns : pc[t] \in {"idle", "resolving"} =>
    /\ question[t] < nextId
    /\ question[t] # 0 => NamesQuestion(question[t]) /\ IsQueued(question[t])

\* A rewind under way is anchored at an ordinary question; behind the anchor of
\* a regenerate there were only steers and answers when it was planned.
PlansNamed ==
  \A t \in Rewinds : pc[t] = "resolving" =>
    /\ plan[t].anchor < nextId /\ \A i \in plan[t].drop : i < nextId
    /\ \A m \in messages : m.id = plan[t].anchor => Ordinary(m)
    /\ t \in Regenerates =>
         \A m \in messages : m.id \in plan[t].drop /\ m.role = "user" => m.kind = "steer"

\* A task in the queue has no turn under way.
QueuedTasksIdle == \A t \in Tasks : task[t] \in {"none", "queued"} => pc[t] = "idle"

RowsInv ==
  /\ TypeOK /\ OneLiveRun /\ IdsBelowNext /\ UniqueIds /\ QueuedTasksIdle
  /\ AnswersNamed /\ RunsNamed /\ WaitingNamed /\ PlansNamed

\* A row with an old id is an old row.
LEMMA OldRows ==
  ASSUME TypeOK, TypeOK', TableGrows
  PROVE  \A q \in messages' : q.id \in Nat /\ (q.id < nextId => q \in messages)
<1>1. nextId \in Nat /\ \A m \in messages' \ messages : nextId <= m.id
  BY DEF TypeOK, TableGrows, NewRows
<1>2. \A q \in messages' : q.id \in Nat
  BY DEF TypeOK, Message
<1>. QED  BY <1>1, <1>2

\* What is said of an old id stays true of it.
LEMMA StillNamed ==
  ASSUME TypeOK, TypeOK', TableGrows, NEW id \in Nat, id < nextId
  PROVE  /\ NamesQuestion(id) => \A q \in messages' : q.id = id => Asks(q)
         /\ IsQueued(id) => \A q \in messages' : q.id = id => q.kind = "queued"
BY OldRows DEF NamesQuestion, IsQueued

\* No step puts an ordinary question below a row that was there, nor, while a
\* run is live, anywhere at all.
LEMMA StillHeads ==
  ASSUME TypeOK, TypeOK', TableGrows, NEW id \in Nat, id < nextId, NEW end \in Nat,
         NEW u \in messages', Ordinary(u), id < u.id,
         \/ u.id < end /\ end <= nextId /\ HeadsUpTo(id, end)
         \/ runs # {} /\ IdsBelowNext /\ HeadsUpTo(id, nextId)
  PROVE  \A q \in messages' : q.id = id => q.kind = "queued"
<1>1. CASE u.id < end /\ end <= nextId /\ HeadsUpTo(id, end)
  <2>1. u \in messages  BY <1>1, OldRows DEF TypeOK
  <2>. QED  BY <1>1, <2>1, StillNamed DEF HeadsUpTo
<1>2. CASE runs # {} /\ IdsBelowNext /\ HeadsUpTo(id, nextId)
  <2>1. u \in messages /\ u.id < nextId  BY <1>2 DEF TableGrows, NewRows, IdsBelowNext
  <2>. QED  BY <1>2, <2>1, StillNamed DEF HeadsUpTo
<1>. QED  BY <1>1, <1>2

LEMMA UniqueStep ==
  ASSUME TypeOK, TypeOK', IdsBelowNext, UniqueIds, TableGrows
  PROVE  UniqueIds'
<1> SUFFICES ASSUME NEW m \in messages', NEW n \in messages', m.id = n.id PROVE m = n
  BY DEF UniqueIds
<1>1. nextId \in Nat /\ m.id \in Nat /\ n.id \in Nat  BY OldRows DEF TypeOK
<1>2. \A k \in messages : k.id < nextId  BY DEF IdsBelowNext
<1>3. \A k \in messages' \ messages : nextId <= k.id  BY DEF TableGrows, NewRows
<1>4. CASE m \in messages /\ n \in messages  BY <1>4 DEF UniqueIds
<1>5. CASE m \notin messages /\ n \notin messages  BY <1>5 DEF TableGrows, NewRows
<1>. QED  BY <1>1, <1>2, <1>3, <1>4, <1>5

LEMMA AnswersStep ==
  ASSUME RowsInv, TypeOK', TableGrows
  PROVE  AnswersNamed'
<1>0. TypeOK /\ IdsBelowNext /\ AnswersNamed /\ RunsNamed /\ nextId \in Nat
  BY DEF RowsInv, TypeOK
<1> SUFFICES ASSUME NEW a \in messages', a.role = "assistant"
             PROVE  /\ a.question < a.id
                    /\ \A q \in messages' : q.id = a.question => Asks(q)
                    /\ \A u \in messages' : Ordinary(u) /\ a.question < u.id /\ u.id < a.id
                         => \A q \in messages' : q.id = a.question => q.kind = "queued"
  BY DEF AnswersNamed, NamesQuestion, HeadsUpTo, IsQueued, Asks, Ordinary
<1>1. a.id \in Nat /\ a.question \in Nat  BY DEF TypeOK, Message
<1>2. CASE a \in messages
  <2>1. /\ a.question < a.id /\ a.id < nextId
        /\ NamesQuestion(a.question) /\ HeadsUpTo(a.question, a.id)
    BY <1>0, <1>2 DEF AnswersNamed, IdsBelowNext
  <2>2. a.question < nextId /\ a.id <= nextId  BY <1>0, <1>1, <2>1
  <2>. QED  BY <1>0, <1>1, <2>1, <2>2, StillNamed, StillHeads
<1>3. ASSUME a \notin messages, NEW t \in runs, a.question = question[t]
      PROVE  /\ a.question < a.id
             /\ \A q \in messages' : q.id = a.question => Asks(q)
             /\ \A u \in messages' : Ordinary(u) /\ a.question < u.id /\ u.id < a.id
                  => \A q \in messages' : q.id = a.question => q.kind = "queued"
  <2>1. /\ a.question < nextId /\ NamesQuestion(a.question)
        /\ HeadsUpTo(a.question, nextId)
    BY <1>0, <1>3 DEF RunsNamed
  <2>2. nextId <= a.id  BY <1>3 DEF TableGrows, NewRows
  <2>3. runs # {}  BY <1>3
  <2>. QED  BY <1>0, <1>1, <2>1, <2>2, <2>3, StillNamed, StillHeads
<1>4. CASE /\ a \notin messages /\ a.question = nextId /\ a.id = nextId + 1
           /\ \A q \in messages' : q.id = nextId => Asks(q)
  <2>1. \A u \in messages' : u.id \in Nat  BY <1>0, OldRows
  <2>. QED  BY <1>0, <1>4, <2>1
<1>. QED  BY <1>2, <1>3, <1>4 DEF TableGrows, NewRows

\* The user row a turn answers is fixed while its turn resolves, and only then.
LEMMA QuestionKept ==
  ASSUME TypeOK, [Next]_vars, NEW t \in Turns,
         ~SendRaced(t), ~SendOpens(t), ~OpenAbandoned(t), ~RewindOpens(t), ~RewindAbandoned(t)
  PROVE  question'[t] = question[t]
<1>1. \A s \in Turns : StoreQuestion(s, "ordinary") \/ StoreQuestion(s, "queued")
        => s = t \/ question'[t] = question[t]
  BY DEF StoreQuestion, TypeOK
<1>2. \A s \in Turns : RewindOpens(s) \/ RewindAbandoned(s)
        => s = t \/ question'[t] = question[t]
  BY DEF RewindOpens, RewindAbandoned, ApplyRewind, TypeOK
<1>. QED
  BY <1>1, <1>2 DEF Turns, Rewinds, Next, vars, AdmitSend, AdmitRewind, RefuseRewind,
     RewindRefused, AcceptTask, ClaimTask, DropTask, CancelTask, SendRaced, SendOpens,
     OpenAbandoned, RepoRefuses, Cancel, Finish, Steer, StartRoutine, SkipRoutine,
     FinishRoutine, DeleteRoutineJob, Delete

LEMMA TasksStep ==
  ASSUME TypeOK, QueuedTasksIdle, [Next]_vars
  PROVE  QueuedTasksIdle'
<1> USE DEF Turns, Rewinds, QueuedTasksIdle
<1>1. ASSUME NEW t \in Tasks, task'[t] = task[t], pc'[t] = pc[t]
      PROVE  task'[t] \in {"none", "queued"} => pc'[t] = "idle"
  BY <1>1
<1>2. ASSUME NEW t \in Turns, pc[t] = "resolving",
             NEW status \in {409, 502}, TurnAway(t, status)
      PROVE  QueuedTasksIdle'
  <2>1. CASE t \in Tasks  BY <1>2, <2>1 DEF TurnAway, TypeOK
  <2>2. CASE t \notin Tasks  BY <1>2, <2>2 DEF TurnAway, TypeOK
  <2>. QED  BY <2>1, <2>2
<1>3. ASSUME NEW t \in Sends \cup Tasks, SendRaced(t) PROVE QueuedTasksIdle'
  BY <1>2, <1>3 DEF SendRaced
<1>4. ASSUME NEW t \in Turns, RepoRefuses(t) PROVE QueuedTasksIdle'
  BY <1>2, <1>4 DEF RepoRefuses
<1>5. ASSUME NEW t \in Sends \cup Tasks, SendOpens(t) \/ OpenAbandoned(t)
      PROVE  QueuedTasksIdle'
  BY <1>5 DEF SendOpens, OpenAbandoned, OpenRun, TypeOK
<1>6. ASSUME NEW t \in Rewinds,
             \/ AdmitRewind(t) \/ RefuseRewind(t) \/ RewindRefused(t)
             \/ RewindOpens(t) \/ RewindAbandoned(t)
      PROVE  QueuedTasksIdle'
  BY <1>6, TurnsAssumption DEF AdmitRewind, RefuseRewind, RewindRefused, ApplyRewind,
     RewindOpens, RewindAbandoned, OpenRun, TypeOK
<1>7. ASSUME NEW t \in Sends, AdmitSend(t) PROVE QueuedTasksIdle'
  BY <1>7, TurnsAssumption DEF AdmitSend, TypeOK
<1>8. ASSUME NEW t \in Tasks, AcceptTask(t) \/ ClaimTask(t) \/ DropTask(t) \/ CancelTask(t)
      PROVE  QueuedTasksIdle'
  BY <1>8 DEF AcceptTask, ClaimTask, DropTask, CancelTask, Dispatchable, TypeOK
<1>9. ASSUME NEW t \in Turns, Finish(t) PROVE QueuedTasksIdle'
  <2>1. \A s \in Tasks : task'[s] \in {"none", "queued"} => task[s] = task'[s]
    BY <1>9 DEF Finish
  <2>2. \A s \in Turns : s # t => pc'[s] = pc[s]
    BY <1>9 DEF Finish, TypeOK
  <2>3. t \notin Tasks \/ task[t] \notin {"none", "queued"}
    BY <1>9 DEF Finish
  <2>. QED  BY <2>1, <2>2, <2>3
<1>10. ASSUME Delete PROVE QueuedTasksIdle'
  BY <1>10 DEF Delete, TypeOK
<1>11. CASE UNCHANGED <<task, pc>>
  BY <1>11
<1>. QED
  BY <1>3, <1>4, <1>5, <1>6, <1>7, <1>8, <1>9, <1>10, <1>11
  DEF Next, vars, Cancel, Steer, StartRoutine, SkipRoutine, FinishRoutine, DeleteRoutineJob

\* A stored question has a row of its own, and nothing behind it yet.
LEMMA StoredNamed ==
  ASSUME TypeOK, IdsBelowNext, NEW t \in Turns, NEW kind \in {"ordinary", "queued"},
         NEW kept \in SUBSET messages, messages' = kept \cup {QuestionRow(t, kind)}
  PROVE  /\ \A q \in messages' : q.id = nextId => Asks(q) /\ q.kind = kind
         /\ \A q \in messages' : q.id \in Nat /\ q.id <= nextId
BY QuestionRowFields DEF TypeOK, Message, IdsBelowNext, Asks

LEMMA RunsStep ==
  ASSUME RowsInv, TypeOK', OneLiveRun', TableGrows, [Next]_vars
  PROVE  RunsNamed'
<1>0. /\ TypeOK /\ OneLiveRun /\ IdsBelowNext /\ RunsNamed /\ WaitingNamed /\ PlansNamed
      /\ nextId \in Nat /\ nextId' \in Nat /\ nextId <= nextId'
  BY DEF RowsInv, TypeOK, TableGrows
<1> DEFINE Named(id) == /\ id < nextId' /\ \A q \in messages' : q.id = id => Asks(q)
                        /\ \A u \in messages' : Ordinary(u) /\ id < u.id /\ u.id < nextId'
                             => \A q \in messages' : q.id = id => q.kind = "queued"
<1> SUFFICES ASSUME NEW t \in runs' PROVE Named(question'[t])
  BY DEF RunsNamed, NamesQuestion, HeadsUpTo, IsQueued, Asks, Ordinary
<1>1. t \in Turns /\ question[t] \in Nat  BY DEF TypeOK, RowsInv
<1>2. CASE t \in runs
  <2>1. pc[t] = "open"  BY <1>0, <1>2 DEF OneLiveRun
  <2>2. question'[t] = question[t]
    BY <1>0, <1>1, <2>1, QuestionKept DEF SendRaced, SendOpens, OpenAbandoned, ApplyRewind,
     RewindOpens, RewindAbandoned
  <2>3. /\ question[t] < nextId /\ NamesQuestion(question[t])
        /\ HeadsUpTo(question[t], nextId)
    BY <1>0, <1>2 DEF RunsNamed
  <2>4. runs # {}  BY <1>2
  <2>5. question[t] < nextId'  BY <1>0, <1>1, <2>3
  <2>. QED  BY <1>0, <1>1, <2>2, <2>3, <2>4, <2>5, StillNamed, StillHeads
<1>3. CASE t \notin runs /\ SendOpens(t)
  <2>1. CASE question[t] = 0
    <3>1. /\ messages' = messages \cup {QuestionRow(t, "ordinary")}
          /\ nextId' = nextId + 1 /\ question'[t] = nextId
      BY <1>0, <1>1, <1>3, <2>1 DEF SendOpens, StoreQuestion, TypeOK
    <3>. QED  BY <1>0, <1>1, <3>1, StoredNamed
  <2>2. CASE question[t] # 0
    <3>1. UNCHANGED <<messages, nextId, question>> /\ pc[t] = "resolving"
      BY <1>3, <2>2 DEF SendOpens, StoreQuestion
    <3>. QED  BY <1>0, <1>1, <2>2, <3>1 DEF WaitingNamed, NamesQuestion, IsQueued
  <2>. QED  BY <2>1, <2>2
<1>4. CASE t \notin runs /\ t \in Rewinds /\ ApplyRewind(t)
  <2>1. CASE t \in Edits
    <3>1. PICK kept \in SUBSET messages :
            messages' = kept \cup {QuestionRow(t, "ordinary")}
      BY <1>4, <2>1 DEF ApplyRewind
    <3>2. nextId' = nextId + 1 /\ question'[t] = nextId
      BY <1>0, <1>1, <1>4, <2>1 DEF ApplyRewind, TypeOK
    <3>. QED  BY <1>0, <1>1, <3>1, <3>2, StoredNamed
  <2>2. CASE t \notin Edits
    <3>1. /\ messages' \subseteq messages /\ nextId' = nextId
          /\ question'[t] = plan[t].anchor /\ pc[t] = "resolving"
      BY <1>0, <1>1, <1>4, <2>2 DEF ApplyRewind, TypeOK
    <3>2. /\ plan[t].anchor < nextId
          /\ \A m \in messages : m.id = plan[t].anchor => Ordinary(m)
      BY <1>0, <1>4, <3>1 DEF PlansNamed
    <3>3. \A m \in messages' : m.id <= question'[t] /\ m.id \in Nat
      BY <1>0, <1>4, ApplyRewindCuts, OldRows
    <3>4. question'[t] \in Nat  BY <1>1 DEF TypeOK
    <3>. QED  BY <1>0, <3>1, <3>2, <3>3, <3>4 DEF Asks, Ordinary
  <2>. QED  BY <2>1, <2>2
<1>. QED  BY <1>0, <1>1, <1>2, <1>3, <1>4, OnlyOpens DEF RewindOpens

\* A turn that still waits was waiting: its question is the one it had, or the
\* queued row it has just stored.
LEMMA WaitingMoves ==
  ASSUME TypeOK, QueuedTasksIdle, [Next]_vars, NEW t \in Turns,
         pc'[t] \in {"idle", "resolving"}
  PROVE  /\ pc[t] \in {"idle", "resolving"}
         /\ question'[t] = question[t] \/ (question[t] = 0 /\ SendRaced(t))
<1> USE DEF Turns, Rewinds
<1>1. ~SendOpens(t) /\ ~OpenAbandoned(t) /\ ~RewindOpens(t) /\ ~RewindAbandoned(t)
  BY DEF SendOpens, OpenAbandoned, RewindOpens, RewindAbandoned, OpenRun, TypeOK
<1>2. question'[t] = question[t] \/ (question[t] = 0 /\ SendRaced(t))
  <2>1. SendRaced(t) /\ question[t] # 0 => question'[t] = question[t]
    BY DEF SendRaced, StoreQuestion
  <2>. QED  BY <1>1, <2>1, QuestionKept
<1>3. ASSUME pc[t] \notin {"idle", "resolving"} PROVE FALSE
  <2>1. \A s \in Turns : \A status \in {409, 502} : pc[s] = "resolving" /\ TurnAway(s, status)
           => pc'[t] = pc[t]
    BY <1>3, TurnAwayOther
  <2>2. \A s \in Turns : SendRaced(s) \/ RepoRefuses(s) => pc'[t] = pc[t]
    BY <2>1 DEF SendRaced, RepoRefuses
  <2>3. \A s \in Turns : SendOpens(s) \/ OpenAbandoned(s) \/ RewindOpens(s) \/ RewindAbandoned(s)
           => pc'[t] \in {pc[t], "open", "closed"}
    BY DEF SendOpens, OpenAbandoned, RewindOpens, RewindAbandoned, OpenRun, TypeOK
  <2>4. \A s \in Tasks : ClaimTask(s) => s # t
    BY <1>3 DEF ClaimTask, Dispatchable, QueuedTasksIdle
  <2>5. \A s \in Tasks : ClaimTask(s) \/ DropTask(s) => pc'[t] \in {pc[t], "refused"}
    BY <2>4 DEF ClaimTask, DropTask, TypeOK
  <2>6. \A s \in Turns : AdmitSend(s) \/ AdmitRewind(s) => pc'[t] = pc[t]
    BY <1>3 DEF AdmitSend, AdmitRewind, TypeOK
  <2>7. \A s \in Turns : RefuseRewind(s) \/ RewindRefused(s) \/ Finish(s)
           => pc'[t] \in {pc[t], "refused", "closed"}
    BY DEF RefuseRewind, RewindRefused, Finish, TypeOK
  <2>. QED
    BY <1>3, <2>2, <2>3, <2>5, <2>6, <2>7 DEF Next, vars, AcceptTask, CancelTask, Cancel, Steer,
       StartRoutine, SkipRoutine, FinishRoutine, DeleteRoutineJob, Delete
<1>. QED  BY <1>2, <1>3

LEMMA WaitingStep ==
  ASSUME RowsInv, TypeOK', TableGrows, [Next]_vars
  PROVE  WaitingNamed'
<1>0. /\ TypeOK /\ QueuedTasksIdle /\ IdsBelowNext /\ WaitingNamed
      /\ nextId \in Nat /\ nextId' \in Nat /\ nextId <= nextId'
  BY DEF RowsInv, TypeOK, TableGrows
<1> SUFFICES ASSUME NEW t \in Turns, pc'[t] \in {"idle", "resolving"}
             PROVE  /\ question'[t] < nextId'
                    /\ question'[t] # 0 => \A q \in messages' : q.id = question'[t]
                         => Asks(q) /\ q.kind = "queued"
  BY DEF WaitingNamed, NamesQuestion, IsQueued, Asks
<1>1. question[t] \in Nat /\ pc[t] \in {"idle", "resolving"}
  BY <1>0, WaitingMoves DEF TypeOK
<1>2. CASE question'[t] = question[t]
  <2>1. /\ question[t] < nextId
        /\ question[t] # 0 => NamesQuestion(question[t]) /\ IsQueued(question[t])
    BY <1>0, <1>1 DEF WaitingNamed
  <2>. QED  BY <1>0, <1>1, <1>2, <2>1, StillNamed
<1>3. CASE question[t] = 0 /\ SendRaced(t)
  <2>1. /\ messages' = messages \cup {QuestionRow(t, "queued")}
        /\ nextId' = nextId + 1 /\ question'[t] = nextId
    BY <1>0, <1>3 DEF SendRaced, StoreQuestion, TypeOK
  <2>. QED  BY <1>0, <2>1, StoredNamed
<1>. QED  BY <1>0, <1>2, <1>3, WaitingMoves

LEMMA PlanMoves ==
  ASSUME TypeOK, [Next]_vars, NEW t \in Rewinds, pc'[t] = "resolving"
  PROVE  (pc[t] = "resolving" /\ plan'[t] = plan[t]) \/ AdmitRewind(t)
<1> USE DEF Turns, Rewinds
<1>1. \A s \in Rewinds : AdmitRewind(s) /\ s # t => pc'[t] = pc[t] /\ plan'[t] = plan[t]
  BY DEF AdmitRewind, TypeOK
<1>2. \A s \in Sends : AdmitSend(s) => pc'[t] = pc[t]
  BY TurnsAssumption DEF AdmitSend, TypeOK
<1>3. \A s \in Tasks : ClaimTask(s) \/ DropTask(s) => pc'[t] = pc[t]
  BY TurnsAssumption DEF ClaimTask, DropTask, TypeOK
<1>4. \A s \in Turns : \A status \in {409, 502} : TurnAway(s, status) => pc'[t] = pc[t]
  BY TurnsAssumption DEF TurnAway, TypeOK
<1>5. \A s \in Turns : SendOpens(s) \/ OpenAbandoned(s) \/ RewindOpens(s) \/ RewindAbandoned(s)
                         \/ RefuseRewind(s) \/ RewindRefused(s) \/ Finish(s) => pc'[t] = pc[t]
  BY DEF SendOpens, OpenAbandoned, RewindOpens, RewindAbandoned, RefuseRewind, RewindRefused,
     Finish, OpenRun, TypeOK
<1>6. \A s \in Turns : SendRaced(s) \/ RepoRefuses(s) => pc'[t] = pc[t]
  BY <1>4 DEF SendRaced, RepoRefuses
<1>7. plan'[t] = plan[t] \/ AdmitRewind(t)
  BY <1>1 DEF Next, vars, AcceptTask, CancelTask, Cancel, Steer, StartRoutine, SkipRoutine,
     FinishRoutine, DeleteRoutineJob, Delete, AdmitSend, RefuseRewind, RewindRefused,
     ApplyRewind, RewindOpens, RewindAbandoned, ClaimTask, DropTask, SendRaced, SendOpens,
     OpenAbandoned, RepoRefuses, Finish
<1>8. pc'[t] = pc[t] \/ AdmitRewind(t)
  BY <1>1, <1>2, <1>3, <1>5, <1>6 DEF Next, vars, AcceptTask, CancelTask, Cancel, Steer,
     StartRoutine, SkipRoutine, FinishRoutine, DeleteRoutineJob, Delete
<1>. QED  BY <1>7, <1>8

LEMMA PlansStep ==
  ASSUME RowsInv, TypeOK', TableGrows, [Next]_vars
  PROVE  PlansNamed'
<1>0. /\ TypeOK /\ UniqueIds /\ IdsBelowNext /\ PlansNamed
      /\ nextId \in Nat /\ nextId' \in Nat /\ nextId <= nextId'
  BY DEF RowsInv, TypeOK, TableGrows
<1> SUFFICES ASSUME NEW t \in Rewinds, pc'[t] = "resolving"
             PROVE  /\ plan'[t].anchor < nextId' /\ \A i \in plan'[t].drop : i < nextId'
                    /\ \A m \in messages' : m.id = plan'[t].anchor => Ordinary(m)
                    /\ t \in Regenerates =>
                         \A m \in messages' : m.id \in plan'[t].drop /\ m.role = "user"
                           => m.kind = "steer"
  BY DEF PlansNamed, Ordinary
<1>1. CASE pc[t] = "resolving" /\ plan'[t] = plan[t]
  <2>1. plan[t].anchor \in Nat /\ plan[t].drop \subseteq Nat
    BY <1>0 DEF TypeOK, Plan, Turns, Rewinds
  <2>2. \A q \in messages' : q.id < nextId => q \in messages  BY <1>0, OldRows
  <2>. QED  BY <1>0, <1>1, <2>1, <2>2 DEF PlansNamed
<1>2. CASE AdmitRewind(t)
  <2>1. PICK m \in Anchors(t) : plan'[t] = PlanAt(t, m.id)
    BY <1>0, <1>2 DEF AdmitRewind, TypeOK, Turns, Rewinds
  <2>2. UNCHANGED <<messages, nextId>>  BY <1>2 DEF AdmitRewind, table
  <2>3. m \in messages /\ Ordinary(m) /\ (t \in Regenerates => IsRegenerateAnchor(m))
    BY <2>1 DEF Anchors, Ordinary
  <2>4. plan'[t].anchor = m.id /\ plan'[t].drop \subseteq Ids(messages)
    BY <2>1 DEF PlanAt, Ids, From, After
  <2>5. ASSUME t \in Regenerates, NEW n \in messages, n.id \in plan'[t].drop, n.role = "user"
        PROVE  n.kind = "steer"
    <3>1. t \notin Edits  BY <2>5, TurnsAssumption
    <3>2. n.id \in Ids(After(m.id))  BY <2>1, <2>5, <3>1 DEF PlanAt
    <3>3. n \in After(m.id)  BY <3>2 DEF Ids, After
    <3>. QED  BY <2>3, <2>5, <3>3 DEF IsRegenerateAnchor
  <2>. QED  BY <1>0, <2>2, <2>3, <2>4, <2>5 DEF UniqueIds, IdsBelowNext, Ids
<1>. QED  BY <1>0, <1>1, <1>2, PlanMoves

LEMMA RowsInvStep == RowsInv /\ [Next]_vars => RowsInv'
<1> SUFFICES ASSUME RowsInv, [Next]_vars PROVE RowsInv'
  OBVIOUS
<1>1. TypeOK' /\ OneLiveRun' /\ IdsBelowNext' /\ QueuedTasksIdle' /\ TableGrows
  BY TypeStep, OneLiveRunStep, IdsStep, TasksStep, TableStep DEF RowsInv
<1>2. UniqueIds' /\ AnswersNamed' /\ RunsNamed' /\ WaitingNamed' /\ PlansNamed'
  BY <1>1, UniqueStep, AnswersStep, RunsStep, WaitingStep, PlansStep DEF RowsInv
<1>. QED  BY <1>1, <1>2 DEF RowsInv

LEMMA RowsInvInit == Init => RowsInv
<1> SUFFICES ASSUME Init PROVE RowsInv
  OBVIOUS
<1>1. TypeOK  BY InitType
<1>2. OneLiveRun /\ IdsBelowNext /\ UniqueIds /\ QueuedTasksIdle /\ AnswersNamed /\ RunsNamed
  BY DEF Init, OneLiveRun, IdsBelowNext, UniqueIds, QueuedTasksIdle, AnswersNamed, RunsNamed,
     Turns
<1>3. WaitingNamed  BY DEF Init, WaitingNamed
<1>4. PlansNamed  BY DEF Init, PlansNamed, Turns, Rewinds
<1>. QED  BY <1>1, <1>2, <1>3, <1>4 DEF RowsInv

\* Between one ordinary question and the next, every answer is the question's
\* own or answers a queued row: what a rewind relies on when it anchors on
\* ordinary rows alone.
THEOREM AnswersFollowTheirHead == Spec => []OrdinaryRowHeadsItsAnswers
<1>1. RowsInv => OrdinaryRowHeadsItsAnswers
  <2> SUFFICES ASSUME RowsInv, NEW u \in messages, NEW a \in messages, Ordinary(u),
                      a.role = "assistant", u.id < a.id,
                      \A m \in messages : m.id > u.id /\ m.id < a.id /\ m.role = "user"
                        => m.kind # "ordinary",
                      a.question # u.id
               PROVE  \A q \in messages : q.id = a.question => q.kind = "queued"
    BY DEF OrdinaryRowHeadsItsAnswers, Ordinary, RowsInv, TypeOK, Message
  <2>1. u.id \in Nat /\ a.id \in Nat /\ a.question \in Nat
    BY DEF RowsInv, TypeOK, Message
  <2>2. /\ a.question < a.id /\ NamesQuestion(a.question) /\ HeadsUpTo(a.question, a.id)
    BY DEF RowsInv, AnswersNamed
  <2>3. CASE a.question < u.id
    BY <2>2, <2>3 DEF HeadsUpTo, IsQueued
  <2>4. CASE u.id < a.question
    BY <2>1, <2>2, <2>4 DEF NamesQuestion, Asks
  <2>. QED  BY <2>1, <2>3, <2>4
<1>. QED  BY <1>1, RowsInvInit, RowsInvStep, PTL DEF Spec

-----------------------------------------------------------------------------
(* What a regenerate drops. *)

LEMMA RegenerateDrops ==
  ASSUME RowsInv, NEW t \in Regenerates, ApplyRewind(t),
         NEW m \in messages \ messages', m.role = "assistant", m.question # plan[t].anchor
  PROVE  IsQueued(m.question)
<1> DEFINE a == plan[t].anchor
<1>0. TypeOK /\ AnswersNamed /\ PlansNamed /\ t \notin Edits
  BY TurnsAssumption DEF RowsInv
<1>1. a \in Ids(messages) /\ plan[t].drop = Ids(After(a))
  BY <1>0 DEF ApplyRewind, Drifted, PlanAt
<1>2. m.id \in Ids(After(a))  BY <1>0, <1>1 DEF ApplyRewind
<1>3. PICK u \in messages : u.id = a  BY <1>1 DEF Ids
<1>4. Ordinary(u)  BY <1>0, <1>3 DEF PlansNamed, ApplyRewind, Rewinds
<1>5. a < m.id  BY <1>2 DEF Ids, After
<1>6. NamesQuestion(m.question) /\ HeadsUpTo(m.question, m.id)
  BY <1>0 DEF AnswersNamed
<1>7. CASE m.question < a
  BY <1>3, <1>4, <1>5, <1>6, <1>7 DEF HeadsUpTo
<1>8. CASE a < m.question
  <2>1. \A q \in messages : q.id = m.question => q.id \in plan[t].drop
    BY <1>1, <1>8 DEF Ids, After
  <2>. QED  BY <1>0, <1>6, <2>1 DEF PlansNamed, NamesQuestion, Asks, IsQueued, ApplyRewind, Rewinds
<1>9. a \in Nat /\ m.question \in Nat
  BY <1>0, <1>3 DEF TypeOK, Message
<1>. QED  BY <1>7, <1>8, <1>9

\* A regenerate drops the answers of the run it repeats, and at worst an
\* answer to a queued row: never one that belongs to another ordinary question.
THEOREM RegenerateDropsItsOwn == Spec => RegenerateCutsOwnOrQueued
<1>1. RowsInv /\ [Next]_vars
      => [\A t \in Regenerates : Applies(t) =>
            \A m \in AnswersCut(t) :
              \/ m.question = plan[t].anchor
              \/ \A q \in messages : q.id = m.question => q.kind = "queued"]_vars
  <2> SUFFICES ASSUME RowsInv, [Next]_vars, NEW t \in Regenerates, Applies(t),
                      NEW m \in AnswersCut(t), m.question # plan[t].anchor
               PROVE  \A q \in messages : q.id = m.question => q.kind = "queued"
    OBVIOUS
  <2>1. ApplyRewind(t)  BY OnlyRewindsApply DEF RowsInv, Rewinds, RewindOpens, RewindAbandoned
  <2>. QED  BY <2>1, RegenerateDrops DEF AnswersCut, IsQueued
<1>. QED
  BY <1>1, RowsInvInit, RowsInvStep, PTL DEF Spec, RegenerateCutsOwnOrQueued

-----------------------------------------------------------------------------
(* No answer loses its question to a rewind. *)

\* The row id is in the table, or a delete of the thread or the cap took it.
Held(id) == id \in Ids(messages) \/ id <= deletedUpTo \/ id \in pruned

\* Every question whose answer is there or still to come is held: that of a
\* live run, and that of a task which may yet be dispatched again.
AnswersHeld == \A a \in messages : a.role = "assistant" => Held(a.question)
RunsHeld == \A t \in runs : Held(question[t])
TasksHeld ==
  \A t \in Tasks : /\ task[t] = "none" => question[t] = 0
                   /\ /\ task[t] \in {"queued", "running"}
                      /\ pc[t] \in {"idle", "resolving"}
                      /\ question[t] # 0
                      => Held(question[t])

\* A plain message is posted once: it has no row while it waits.
SendsHeld == \A t \in Sends : pc[t] \in {"idle", "resolving"} => question[t] = 0

HeldInv ==
  /\ RowsInv /\ deletedUpTo < nextId
  /\ AnswersHeld /\ RunsHeld /\ TasksHeld /\ SendsHeld

\* Rows leave the table with the thread, by the cap, or by a rewind.
LEMMA RowsGone ==
  ASSUME TypeOK, IdsBelowNext, deletedUpTo < nextId, [Next]_vars
  PROVE  /\ \A q \in messages \ messages' :
              \/ q.id <= deletedUpTo' \/ q.id \in pruned'
              \/ \E t \in Rewinds : ApplyRewind(t) /\ q.id \in plan[t].drop
         /\ pruned \subseteq pruned'
         /\ deletedUpTo <= deletedUpTo' /\ deletedUpTo' < nextId'
<1> DEFINE Kept == \A q \in messages \ messages' :
              \/ q.id <= deletedUpTo' \/ q.id \in pruned'
              \/ \E t \in Rewinds : ApplyRewind(t) /\ q.id \in plan[t].drop
<1>0. /\ nextId \in Nat /\ deletedUpTo \in Nat
      /\ \A m \in messages : m.id \in Nat /\ m.id < nextId
  BY DEF TypeOK, IdsBelowNext, Message
<1>1. ASSUME messages \subseteq messages', nextId <= nextId', nextId' \in Nat,
             UNCHANGED <<deletedUpTo, pruned>>
      PROVE  Kept /\ pruned \subseteq pruned' /\ deletedUpTo <= deletedUpTo' /\ deletedUpTo' < nextId'
  BY <1>0, <1>1
<1> HIDE DEF Kept
<1>2. ASSUME NEW t \in Rewinds, ApplyRewind(t)
      PROVE  Kept /\ pruned \subseteq pruned' /\ deletedUpTo <= deletedUpTo' /\ deletedUpTo' < nextId'
  <2>1. \A q \in messages \ messages' : q.id \in plan[t].drop
    BY <1>2 DEF ApplyRewind
  <2>2. UNCHANGED <<deletedUpTo, pruned>> /\ nextId' \in {nextId, nextId + 1}
    BY <1>2 DEF ApplyRewind, history
  <2>3. Kept  BY <1>2, <2>1 DEF Kept
  <2>. QED  BY <1>0, <2>2, <2>3
<1>3. ASSUME NEW r \in Routines, FinishRoutine(r)
      PROVE  Kept /\ pruned \subseteq pruned' /\ deletedUpTo <= deletedUpTo' /\ deletedUpTo' < nextId'
  <2>1. PICK all : /\ messages \subseteq all /\ messages' = Newest(all, KeepRows)
                   /\ pruned' = pruned \cup Ids(all \ Newest(all, KeepRows))
    BY <1>3 DEF FinishRoutine
  <2>2. deletedUpTo' = deletedUpTo /\ nextId' = nextId + 2  BY <1>3 DEF FinishRoutine
  <2>3. Kept  BY <2>1 DEF Kept, Ids
  <2>. QED  BY <1>0, <2>1, <2>2, <2>3
<1>4. ASSUME Delete
      PROVE  Kept /\ pruned \subseteq pruned' /\ deletedUpTo <= deletedUpTo' /\ deletedUpTo' < nextId'
  <2>1. deletedUpTo' = nextId - 1 /\ nextId' = nextId /\ pruned' = pruned
    BY <1>4 DEF Delete
  <2>2. Kept  BY <1>0, <2>1 DEF Kept
  <2>. QED  BY <1>0, <2>1, <2>2
<1>5. ASSUME NEW t \in Turns, NEW f \in BOOLEAN, Steer(t, f)
      PROVE  messages \subseteq messages' /\ nextId' \in {nextId, nextId + 1, nextId + 2}
             /\ UNCHANGED <<deletedUpTo, pruned>>
  <2>1. CASE conversation  BY <1>0, <1>5, <2>1 DEF Steer, history
  <2>2. CASE ~conversation  BY <1>5, <2>2 DEF Steer, history
  <2>. QED  BY <2>1, <2>2
<1>6. ASSUME NEW t \in Turns, Finish(t)
      PROVE  messages \subseteq messages' /\ nextId' \in {nextId, nextId + 1}
             /\ UNCHANGED <<deletedUpTo, pruned>>
  BY <1>6 DEF Finish, history
<1>7. ASSUME NEW t \in Turns, SendRaced(t) \/ SendOpens(t) \/ OpenAbandoned(t)
      PROVE  messages \subseteq messages' /\ nextId' \in {nextId, nextId + 1}
             /\ UNCHANGED <<deletedUpTo, pruned>>
  BY <1>7 DEF SendRaced, SendOpens, OpenAbandoned, StoreQuestion, history
<1>8. ASSUME UNCHANGED <<messages, nextId, deletedUpTo, pruned>>
      PROVE  Kept /\ pruned \subseteq pruned' /\ deletedUpTo <= deletedUpTo' /\ deletedUpTo' < nextId'
  BY <1>0, <1>1, <1>8
<1>9. \A n \in {nextId, nextId + 1, nextId + 2} : n \in Nat /\ nextId <= n
  BY <1>0
<1>. QED
  <2>1. CASE \/ \E t \in Turns, f \in BOOLEAN : Steer(t, f)
             \/ \E t \in Turns : Finish(t) \/ SendRaced(t) \/ SendOpens(t) \/ OpenAbandoned(t)
    BY <1>1, <1>5, <1>6, <1>7, <1>9, <2>1 DEF Kept
  <2>2. CASE \/ \E t \in Rewinds : ApplyRewind(t)
             \/ \E r \in Routines : FinishRoutine(r)
             \/ Delete
    BY <1>2, <1>3, <1>4, <2>2 DEF Kept
  <2>3. CASE UNCHANGED <<messages, nextId, deletedUpTo, pruned>>
    BY <1>8, <2>3 DEF Kept
  <2>. QED
    BY <2>1, <2>2, <2>3 DEF Turns, Rewinds, Next, vars, table, history, AdmitSend, AdmitRewind,
       RefuseRewind, RewindRefused, RewindOpens, RewindAbandoned, AcceptTask, ClaimTask,
       DropTask, CancelTask, RepoRefuses,
       Cancel, StartRoutine, SkipRoutine, DeleteRoutineJob

\* A held id stays held, but for what a rewind cuts.
LEMMA HeldStays ==
  ASSUME TypeOK, TypeOK', IdsBelowNext, deletedUpTo < nextId, [Next]_vars,
         NEW id \in Nat, Held(id),
         \A t \in Rewinds : ApplyRewind(t) => id \notin plan[t].drop
  PROVE  id \in Ids(messages') \/ id <= deletedUpTo' \/ id \in pruned'
<1>1. CASE id \in Ids(messages)
  BY <1>1, RowsGone DEF Ids
<1>2. CASE id <= deletedUpTo
  BY <1>2, RowsGone DEF TypeOK
<1>3. CASE id \in pruned
  BY <1>3, RowsGone
<1>. QED  BY <1>1, <1>2, <1>3 DEF Held

LEMMA DropsUpwards ==
  ASSUME TypeOK, NEW t \in Rewinds, ApplyRewind(t), NEW a \in messages, NEW id \in Nat,
         id \in plan[t].drop, id < a.id
  PROVE  a.id \in plan[t].drop
<1>1. plan[t].anchor \in Nat /\ plan[t] = PlanAt(t, plan[t].anchor) /\ a.id \in Nat
  BY DEF ApplyRewind, Drifted, TypeOK, Plan, Message, Turns, Rewinds
<1>2. CASE t \in Edits
  <2>1. plan[t].drop = Ids(From(plan[t].anchor))  BY <1>1, <1>2 DEF PlanAt
  <2>2. id >= plan[t].anchor  BY <2>1 DEF Ids, From
  <2>3. a \in From(plan[t].anchor)  BY <1>1, <2>2 DEF From
  <2>. QED  BY <2>1, <2>3 DEF Ids
<1>3. CASE t \notin Edits
  <2>1. plan[t].drop = Ids(After(plan[t].anchor))  BY <1>1, <1>3 DEF PlanAt
  <2>2. id > plan[t].anchor  BY <2>1 DEF Ids, After
  <2>3. a \in After(plan[t].anchor)  BY <1>1, <2>2 DEF After
  <2>. QED  BY <2>1, <2>3 DEF Ids
<1>. QED  BY <1>2, <1>3

\* The row the run of a rewind answers is there when the run opens.
LEMMA RewindHeld ==
  ASSUME TypeOK, NEW t \in Rewinds, ApplyRewind(t)
  PROVE  question'[t] \in Ids(messages')
<1>1. CASE t \in Edits
  <2>1. question'[t] = nextId /\ QuestionRow(t, "ordinary") \in messages'
    BY <1>1 DEF ApplyRewind, TypeOK, Turns, Rewinds
  <2>. QED  BY <2>1, QuestionRowFields DEF Ids
<1>2. CASE t \notin Edits
  <2>1. /\ question'[t] = plan[t].anchor
        /\ messages' = {m \in messages : m.id \notin plan[t].drop}
    BY <1>2 DEF ApplyRewind, TypeOK, Turns, Rewinds
  <2>2. plan[t].anchor \in Ids(messages) /\ plan[t].drop = Ids(After(plan[t].anchor))
    BY <1>2 DEF ApplyRewind, Drifted, PlanAt
  <2>3. PICK u \in messages : u.id = plan[t].anchor  BY <2>2 DEF Ids
  <2>4. u.id \in Nat  BY DEF TypeOK, Message
  <2>5. u.id \notin plan[t].drop  BY <2>2, <2>3, <2>4 DEF Ids, After
  <2>. QED  BY <2>1, <2>3, <2>5 DEF Ids
<1>. QED  BY <1>1, <1>2

\* Where a new answer comes from: the run it answers for, or a routine's pair,
\* whose question is stored with it unless the cap takes it at once.
LEMMA NewAnswerHeld ==
  ASSUME TypeOK, IdsBelowNext, [Next]_vars, NEW a \in messages' \ messages, a.role = "assistant"
  PROVE  \/ \E t \in runs : a.question = question[t] /\ \A s \in Rewinds : ~ApplyRewind(s)
         \/ a.question \in Ids(messages') \/ a.question \in pruned'
<1> USE DEF Turns, Rewinds
<1>1. ASSUME NEW t \in Turns, NEW kind, StoreQuestion(t, kind) PROVE FALSE
  BY <1>1, StoreQuestionRows, QuestionRowFields
<1>2. ASSUME NEW t \in Rewinds, ApplyRewind(t) PROVE FALSE
  BY <1>2, QuestionRowFields DEF ApplyRewind
<1>3. ASSUME NEW t \in Turns, Finish(t) PROVE \E s \in runs : a.question = question[s]
  BY <1>3 DEF Finish, Answer, Row
<1>4. ASSUME NEW t \in Turns, NEW f \in BOOLEAN, Steer(t, f)
      PROVE  \E s \in runs : a.question = question[s]
  BY <1>4 DEF Steer, Answer, Row
<1>5. ASSUME NEW r \in Routines, FinishRoutine(r)
      PROVE  a.question \in Ids(messages') \/ a.question \in pruned'
  <2> DEFINE u == Row(nextId, "user", RoutineRowKind, r, nextId)
             b == Row(nextId + 1, "assistant", "ordinary", r, nextId)
             all == messages \cup {u, b}
  <2>1. /\ messages' = Newest(all, KeepRows)
        /\ pruned' = pruned \cup Ids(all \ Newest(all, KeepRows))
    BY <1>5 DEF FinishRoutine
  <2>2. u.id = nextId /\ u.role = "user" /\ b.question = nextId /\ u \in all
    BY DEF Row
  <2>3. a = b
    <3>1. a \in all  BY <2>1 DEF Newest
    <3>. QED  BY <2>2, <3>1
  <2>4. u \in messages' \/ u.id \in pruned'
    <3> HIDE DEF u, all
    <3>. QED  BY <2>1, <2>2 DEF Ids
  <2> HIDE DEF u, b, all
  <2>. QED  BY <2>2, <2>3, <2>4 DEF Ids
<1>. QED
  BY <1>1, <1>2, <1>3, <1>4, <1>5 DEF Next, vars, table, AdmitSend, AdmitRewind, RefuseRewind,
     RewindRefused, RewindOpens, RewindAbandoned, AcceptTask, ClaimTask, DropTask, CancelTask,
     RepoRefuses, Cancel, StartRoutine,
     SkipRoutine, DeleteRoutineJob, Delete, SendRaced, SendOpens, OpenAbandoned

LEMMA AnswersHeldStep ==
  ASSUME HeldInv, TypeOK', [Next]_vars
  PROVE  AnswersHeld'
<1>0. /\ TypeOK /\ IdsBelowNext /\ AnswersNamed /\ AnswersHeld /\ RunsHeld
      /\ deletedUpTo < nextId
  BY DEF HeldInv, RowsInv
<1> SUFFICES ASSUME NEW a \in messages', a.role = "assistant"
             PROVE  a.question \in Ids(messages') \/ a.question <= deletedUpTo'
                    \/ a.question \in pruned'
  BY DEF AnswersHeld, Held, Ids
<1>1. a.question \in Nat  BY DEF TypeOK, Message
<1>2. CASE a \in messages
  <2>1. a.question < a.id /\ Held(a.question)  BY <1>0, <1>2 DEF AnswersNamed, AnswersHeld
  <2>2. ASSUME NEW t \in Rewinds, ApplyRewind(t), a.question \in plan[t].drop PROVE FALSE
    <3>1. a.id \in plan[t].drop  BY <1>0, <1>1, <1>2, <2>1, <2>2, DropsUpwards
    <3>2. a # QuestionRow(t, "ordinary")  BY QuestionRowFields
    <3>. QED  BY <2>2, <3>1, <3>2 DEF ApplyRewind
  <2>. QED  BY <1>0, <1>1, <2>1, <2>2, HeldStays
<1>3. CASE a \notin messages
  <2>1. ASSUME NEW t \in runs, a.question = question[t], \A s \in Rewinds : ~ApplyRewind(s)
        PROVE  a.question \in Ids(messages') \/ a.question <= deletedUpTo'
               \/ a.question \in pruned'
    <3>1. Held(a.question)  BY <1>0, <2>1 DEF RunsHeld
    <3>. QED  BY <1>0, <1>1, <2>1, <3>1, HeldStays
  <2>. QED  BY <1>0, <1>3, <2>1, NewAnswerHeld
<1>. QED  BY <1>2, <1>3

LEMMA RunsHeldStep ==
  ASSUME HeldInv, TypeOK', [Next]_vars
  PROVE  RunsHeld'
<1>0. /\ TypeOK /\ OneLiveRun /\ IdsBelowNext /\ RunsHeld /\ TasksHeld /\ SendsHeld
      /\ deletedUpTo < nextId
  BY DEF HeldInv, RowsInv
<1> SUFFICES ASSUME NEW t \in runs'
             PROVE  question'[t] \in Ids(messages') \/ question'[t] <= deletedUpTo'
                    \/ question'[t] \in pruned'
  BY DEF RunsHeld, Held, Ids
<1>1. t \in Turns /\ question[t] \in Nat  BY <1>0 DEF TypeOK
<1>2. CASE t \in runs
  <2>1. pc[t] = "open"  BY <1>0, <1>2 DEF OneLiveRun
  <2>2. question'[t] = question[t]
    BY <1>0, <1>1, <2>1, QuestionKept DEF SendRaced, SendOpens, OpenAbandoned, ApplyRewind,
     RewindOpens, RewindAbandoned
  <2>3. \A s \in Rewinds : ~ApplyRewind(s)
    BY <1>0, <1>2, NoActiveRunNoRuns DEF ApplyRewind
  <2>. QED  BY <1>0, <1>1, <1>2, <2>2, <2>3, HeldStays DEF RunsHeld
<1>3. CASE t \in Sends \cup Tasks /\ SendOpens(t)
  <2>1. CASE question[t] = 0
    <3>1. QuestionRow(t, "ordinary") \in messages' /\ question'[t] = nextId
      BY <1>0, <1>1, <1>3, <2>1 DEF SendOpens, StoreQuestion, TypeOK
    <3>. QED  BY <3>1, QuestionRowFields DEF Ids
  <2>2. CASE question[t] # 0
    <3>1. /\ UNCHANGED <<messages, nextId, question, deletedUpTo, pruned>>
          /\ pc[t] = "resolving" /\ (t \in Tasks => task[t] = "running")
      BY <1>3, <2>2 DEF SendOpens, StoreQuestion, history
    <3>. QED  BY <1>0, <1>1, <1>3, <2>2, <3>1 DEF TasksHeld, SendsHeld, Held
  <2>. QED  BY <2>1, <2>2
<1>4. CASE t \notin runs /\ t \in Rewinds /\ ApplyRewind(t)
  BY <1>0, <1>4, RewindHeld
<1>. QED  BY <1>0, <1>1, <1>2, <1>3, <1>4, OnlyOpens DEF RewindOpens

\* A task in flight was one, or was accepted in this step.
LEMMA TaskMoves ==
  ASSUME TypeOK, [Next]_vars, NEW t \in Tasks
  PROVE  /\ task'[t] = "none" => task[t] = "none"
         /\ task'[t] \in {"queued", "running"} => task[t] \in {"none", "queued", "running"}
<1> USE DEF Turns, Rewinds
<1>1. \A s \in Turns : \A status \in {409, 502} : TurnAway(s, status) =>
        /\ task'[t] = "none" => task[t] = "none"
        /\ task'[t] \in {"queued", "running"} => task[t] \in {"none", "queued", "running"}
  BY DEF TurnAway, TypeOK
<1>2. \A s \in Turns : SendRaced(s) \/ RepoRefuses(s) =>
        /\ task'[t] = "none" => task[t] = "none"
        /\ task'[t] \in {"queued", "running"} => task[t] \in {"none", "queued", "running"}
  BY <1>1 DEF SendRaced, RepoRefuses
<1>3. \A s \in Tasks : AcceptTask(s) \/ ClaimTask(s) \/ DropTask(s) \/ CancelTask(s) =>
        /\ task'[t] = "none" => task[t] = "none"
        /\ task'[t] \in {"queued", "running"} => task[t] \in {"none", "queued", "running"}
  BY DEF AcceptTask, ClaimTask, DropTask, CancelTask, Dispatchable, TypeOK
<1>4. \A s \in Turns : Finish(s) =>
        /\ task'[t] = "none" => task[t] = "none"
        /\ task'[t] \in {"queued", "running"} => task[t] \in {"none", "queued", "running"}
  BY DEF Finish
<1>5. Delete => /\ task'[t] = "none" => task[t] = "none"
                /\ task'[t] \in {"queued", "running"} => task[t] \in {"none", "queued", "running"}
  BY DEF Delete
<1>. QED
  BY <1>2, <1>3, <1>4, <1>5 DEF Next, vars, AdmitSend, AdmitRewind, RefuseRewind,
     RewindRefused, ApplyRewind, RewindOpens, RewindAbandoned, SendOpens, OpenAbandoned, Cancel,
     Steer, StartRoutine,
     SkipRoutine, FinishRoutine, DeleteRoutineJob

LEMMA TasksHeldStep ==
  ASSUME HeldInv, TypeOK', [Next]_vars
  PROVE  TasksHeld'
<1>0. /\ TypeOK /\ OneLiveRun /\ IdsBelowNext /\ QueuedTasksIdle /\ TasksHeld
      /\ deletedUpTo < nextId
  BY DEF HeldInv, RowsInv
<1> SUFFICES ASSUME NEW t \in Tasks
             PROVE  /\ task'[t] = "none" => question'[t] = 0
                    /\ /\ task'[t] \in {"queued", "running"}
                       /\ pc'[t] \in {"idle", "resolving"}
                       /\ question'[t] # 0
                       => \/ question'[t] \in Ids(messages') \/ question'[t] <= deletedUpTo'
                          \/ question'[t] \in pruned'
  BY DEF TasksHeld, Held, Ids
<1>1. t \in Turns /\ question[t] \in Nat  BY <1>0 DEF TypeOK, Turns
<1>2. ASSUME task'[t] = "none" PROVE question'[t] = 0
  <2>1. task[t] = "none" /\ pc[t] = "idle" /\ question[t] = 0
    BY <1>0, <1>2, TaskMoves DEF QueuedTasksIdle, TasksHeld
  <2>. QED  BY <1>0, <1>1, <2>1, QuestionKept DEF SendRaced, SendOpens, OpenAbandoned,
     ApplyRewind, RewindOpens, RewindAbandoned
<1>3. ASSUME task'[t] \in {"queued", "running"}, pc'[t] \in {"idle", "resolving"}, question'[t] # 0
      PROVE  \/ question'[t] \in Ids(messages') \/ question'[t] <= deletedUpTo'
             \/ question'[t] \in pruned'
  <2>1. pc[t] \in {"idle", "resolving"} /\ task[t] \in {"none", "queued", "running"}
    BY <1>0, <1>1, <1>3, WaitingMoves, TaskMoves
  <2>2. CASE question'[t] = question[t]
    <3>1. Held(question[t])  BY <1>0, <1>3, <2>1, <2>2 DEF TasksHeld
    <3>2. task[t] \in {"queued", "running"}  BY <1>0, <1>3, <2>1, <2>2 DEF TasksHeld
    <3>3. \A s \in Rewinds : ~ApplyRewind(s)  BY <3>2 DEF ApplyRewind, RewindBusy
    <3>. QED  BY <1>0, <1>1, <2>2, <3>1, <3>3, HeldStays
  <2>3. CASE question[t] = 0 /\ SendRaced(t)
    <3>1. QuestionRow(t, "queued") \in messages' /\ question'[t] = nextId
      BY <1>0, <1>1, <2>3 DEF SendRaced, StoreQuestion, TypeOK
    <3>. QED  BY <3>1, QuestionRowFields DEF Ids
  <2>. QED  BY <1>0, <1>1, <1>3, <2>2, <2>3, WaitingMoves
<1>. QED  BY <1>2, <1>3

LEMMA SendsHeldStep ==
  ASSUME HeldInv, [Next]_vars
  PROVE  SendsHeld'
<1>0. TypeOK /\ QueuedTasksIdle /\ SendsHeld  BY DEF HeldInv, RowsInv
<1> SUFFICES ASSUME NEW t \in Sends, pc'[t] \in {"idle", "resolving"} PROVE question'[t] = 0
  BY DEF SendsHeld
<1>1. t \in Turns /\ t \notin Tasks  BY TurnsAssumption DEF Turns
<1>2. ~SendRaced(t)  BY <1>0, <1>1 DEF SendRaced, TurnAway, TypeOK
<1>. QED  BY <1>0, <1>1, <1>2, WaitingMoves DEF SendsHeld

\* Every answer in the thread has its question above it, unless a delete of
\* the thread or the routine cap took the question: no rewind cuts a question
\* whose answer is still to come.
THEOREM NoAnswerLosesItsQuestion == Spec => []AnswersKeepTheirQuestion
<1>1. Init => HeldInv
  BY RowsInvInit DEF Init, HeldInv, AnswersHeld, RunsHeld, TasksHeld, SendsHeld, Turns
<1>2. HeldInv /\ [Next]_vars => HeldInv'
  <2> SUFFICES ASSUME HeldInv, [Next]_vars PROVE HeldInv'
    OBVIOUS
  <2>1. RowsInv' /\ TypeOK'  BY RowsInvStep DEF HeldInv, RowsInv
  <2>2. (deletedUpTo < nextId)'  BY RowsGone DEF HeldInv, RowsInv
  <2>. QED
    BY <2>1, <2>2, AnswersHeldStep, RunsHeldStep, TasksHeldStep, SendsHeldStep DEF HeldInv
<1>3. HeldInv => AnswersKeepTheirQuestion
  <2> SUFFICES ASSUME HeldInv, NEW a \in messages, a.role = "assistant",
                      a.question \in Ids(messages)
               PROVE  \E q \in messages : q.id = a.question /\ q.role = "user" /\ q.id < a.id
    BY DEF AnswersKeepTheirQuestion, HeldInv, AnswersHeld, Held
  <2>1. a.question < a.id /\ NamesQuestion(a.question)
    BY DEF HeldInv, RowsInv, AnswersNamed
  <2>. QED  BY <2>1 DEF Ids, NamesQuestion, Asks
<1>. QED  BY <1>1, <1>2, <1>3, PTL DEF Spec

=============================================================================
