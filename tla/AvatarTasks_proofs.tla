------------------------- MODULE AvatarTasks_proofs -------------------------
(***************************************************************************)
(* Theorems about AvatarTasks, for any tasks, owners, threads and bounds.  *)
(* The invariant Inv ties each row to what its runTask is doing: a queued  *)
(* row is in nobody's hand and has no run, an opened one has exactly one,  *)
(* and an instruction not known to be written has not been.                *)
(***************************************************************************)
EXTENDS AvatarTasks, FiniteSetTheorems, TLAPS

\* The row, the flags, the registry and the history of each task agree.
Books ==
  \A t \in Tasks :
    /\ row[t] = "none" => t \notin wrote /\ returns[t] = 0
    /\ row[t] \in {"none", "queued"} => job[t] = "none" /\ t \notin hasRun
    /\ job[t] = "setup" => t \notin hasRun
    /\ job[t] \in {"open"} \cup Verdicts => t \in hasRun
    /\ ran[t] = IF t \in hasRun THEN 1 ELSE 0
    /\ bubbles[t] \in 0 .. 1
    /\ \A c \in Threads : busy[c] = t => job[t] = "open" /\ ThreadOf[t] = c
    /\ t \in wrote => bubbles[t] = 1
    /\ t \notin wrote /\ (job[t] = "setup" \/ row[t] \in {"none", "queued"}) => bubbles[t] = 0

\* Somebody wants the task cancelled: its caller, or its owner, who can only
\* stop a run that was opened.
Wanted(t) == t \in asked \/ (t \in halted /\ ran[t] = 1)

\* While the dispatcher is on, only such a wish aborts a run, or the deletion of
\* its thread, which leaves no row to tell.
Asked ==
  \A t \in Tasks :
    /\ row[t] = "cancelled" => Wanted(t)
    /\ job[t] = "cancelled" => Wanted(t) \/ row[t] = "gone"
    /\ t \in aborting /\ ~stopped => Wanted(t) \/ row[t] = "gone"

\* The first two parts of OneTaskInHand: owners and tasks in hand correspond.
InHand ==
  /\ owners = {OwnerOf[t] : t \in {s \in Tasks : job[s] # "none"}}
  /\ \A s, t \in Tasks :
       job[s] # "none" /\ job[t] # "none" /\ OwnerOf[s] = OwnerOf[t] => s = t

USE DEF table, talk, memory, turn, history, Pending, Verdicts

LEMMA PrunedType ==
  ASSUME TypeOK, NEW t \in Tasks
  PROVE  Pruned(t) \subseteq threads /\ spoken \subseteq Pruned(t)
BY DEF TypeOK, Pruned

LEMMA InitType == ASSUME TaskConstants, Init PROVE TypeOK
BY DEF Init, TypeOK, TaskConstants

\* Every step keeps the types.
LEMMA TypeStep ==
  ASSUME TaskConstants, TypeOK, [Next]_vars
  PROVE  TypeOK'
<1> USE DEF TypeOK
<1>1. ASSUME NEW t \in Tasks, Accept(t) PROVE TypeOK'
  <2>1. Cardinality({s \in Tasks : born[s] > 0}) \in Nat
    <3>1. IsFiniteSet({s \in Tasks : born[s] > 0})
      BY FS_Subset DEF TaskConstants
    <3> QED BY <3>1, FS_CardinalityType
  <2>2. ThreadOf[t] \in Threads
    BY DEF Threads
  <2> QED BY <1>1, <2>1, <2>2 DEF Accept
<1>2. ASSUME NEW t \in Tasks, CancelRow(t) PROVE TypeOK'
  BY <1>2, PrunedType DEF CancelRow
<1>3. ASSUME NEW t \in Tasks, CancelRun(t) \/ StopRun(t) PROVE TypeOK'
  BY <1>3 DEF CancelRun, StopRun
<1>4. ASSUME NEW t \in Tasks, Cool(t) PROVE TypeOK'
  BY <1>4 DEF Cool
<1>5. ASSUME NEW t \in Tasks, Turn(t) PROVE TypeOK'
  <2> ThreadOf[t] \in Threads
    BY DEF Threads
  <2>1. CASE Refused(t)
    BY <2>1 DEF Refused, TurnAway, Updated, JobOver, LadderGone
  <2>2. CASE Raced(t)
    BY <2>2 DEF Raced, TurnAway, Updated, JobOver, LadderGone, SaysInstruction
  <2>3. CASE Opens(t)
    BY <2>3 DEF Opens, SaysInstruction
  <2>4. CASE Abandons(t)
    BY <2>4 DEF Abandons, JobOver, LadderGone, SaysInstruction
  <2> QED BY <1>5, <2>1, <2>2, <2>3, <2>4 DEF Turn
<1>6. ASSUME NEW t \in Tasks, RunEnds(t) PROVE TypeOK'
  BY <1>6 DEF RunEnds, Verdict, Threads
<1>7. ASSUME NEW t \in Tasks, Settles(t) PROVE TypeOK'
  BY <1>7 DEF Settles, Updated, JobOver, LadderGone
<1>8. ASSUME NEW t \in Tasks, StatusLost(t) PROVE TypeOK'
  BY <1>8 DEF StatusLost, Updated, JobOver, LadderGone
<1>9. ASSUME NEW o \in Owners, RevokeKey(o) PROVE TypeOK'
  BY <1>9 DEF RevokeKey
<1>10. ASSUME NEW c \in Threads, DeleteThread(c) \/ ChatOpens(c) \/ ChatCloses(c)
       PROVE  TypeOK'
  BY <1>10 DEF DeleteThread, ChatOpens, ChatCloses
<1>11. ASSUME Tick PROVE TypeOK'
  <2>1. CASE FindsNone
    BY <2>1 DEF FindsNone, Dispatches
  <2>2. ASSUME NEW t \in Tasks, Claims(t) PROVE TypeOK'
    BY <2>2 DEF Claims, Dispatches, Owners
  <2>3. ASSUME NEW t \in Tasks, Drops(t) PROVE TypeOK'
    BY <2>3, PrunedType DEF Drops, Dispatches
  <2> QED BY <1>11, <2>1, <2>2, <2>3 DEF Tick
<1>12. ASSUME Stop PROVE TypeOK'
  BY <1>12 DEF Stop
<1>13. ASSUME Exit \/ Crash PROVE TypeOK'
  <2>1. Ends /\ upsets' \in Nat
    BY <1>13 DEF Exit, Crash
  <2> QED BY <2>1 DEF Ends
<1>14. ASSUME Boot PROVE TypeOK'
  BY <1>14 DEF Boot
<1>15. CASE UNCHANGED vars
  BY <1>15 DEF vars
<1> QED BY <1>1, <1>2, <1>3, <1>4, <1>5, <1>6, <1>7, <1>8, <1>9, <1>10, <1>11,
           <1>12, <1>13, <1>14, <1>15 DEF Next

\* Every variable keeps to its type.
THEOREM TypeCorrect == ASSUME TaskConstants PROVE Spec => []TypeOK
BY InitType, TypeStep, PTL DEF Spec
\* Every step keeps the books.
LEMMA BooksStep ==
  ASSUME TaskConstants, TypeOK, Books, [Next]_vars
  PROVE  Books'
<1> USE DEF Books, TypeOK
<1>0. Free \notin Tasks /\ Chat \notin Tasks
  BY DEF TaskConstants
<1>1. ASSUME NEW t \in Tasks, Accept(t) PROVE Books'
  BY <1>1 DEF Accept
<1>2. ASSUME NEW t \in Tasks, CancelRow(t) PROVE Books'
  BY <1>2 DEF CancelRow
<1>3. ASSUME NEW t \in Tasks, CancelRun(t) \/ StopRun(t) PROVE Books'
  BY <1>3 DEF CancelRun, StopRun
<1>4. ASSUME NEW t \in Tasks, Cool(t) PROVE Books'
  BY <1>4 DEF Cool
<1>5. ASSUME NEW t \in Tasks, Refused(t) PROVE Books'
  BY <1>5 DEF Refused, TurnAway, Updated, JobOver, LadderGone
<1>6. ASSUME NEW t \in Tasks, Raced(t) PROVE Books'
  BY <1>6 DEF Raced, TurnAway, Updated, JobOver, LadderGone, SaysInstruction
<1>7. ASSUME NEW t \in Tasks, Opens(t) PROVE Books'
  BY <1>7 DEF Opens, SaysInstruction
<1>8. ASSUME NEW t \in Tasks, Abandons(t) PROVE Books'
  BY <1>8 DEF Abandons, JobOver, LadderGone, SaysInstruction
<1>9. ASSUME NEW t \in Tasks, RunEnds(t) PROVE Books'
  BY <1>0, <1>9 DEF RunEnds, Verdict, Threads
<1>10. ASSUME NEW t \in Tasks, Settles(t) PROVE Books'
  BY <1>10 DEF Settles, Updated, JobOver, LadderGone
<1>11. ASSUME NEW t \in Tasks, StatusLost(t) PROVE Books'
  BY <1>11 DEF StatusLost, Updated, JobOver, LadderGone
<1>12. ASSUME NEW o \in Owners, RevokeKey(o) PROVE Books'
  BY <1>12 DEF RevokeKey
<1>13. ASSUME NEW c \in Threads, DeleteThread(c) PROVE Books'
  BY <1>13 DEF DeleteThread
<1>14. ASSUME NEW c \in Threads, ChatOpens(c) \/ ChatCloses(c) PROVE Books'
  BY <1>0, <1>14 DEF ChatOpens, ChatCloses
<1>15. ASSUME FindsNone PROVE Books'
  BY <1>15 DEF FindsNone, Dispatches
<1>16. ASSUME NEW t \in Tasks, Claims(t) PROVE Books'
  BY <1>16 DEF Claims, Dispatches, Oldest, Eligible, Scanned
<1>17. ASSUME NEW t \in Tasks, Drops(t) PROVE Books'
  BY <1>17 DEF Drops, Dispatches, Oldest, Eligible, Scanned
<1>18. ASSUME Stop PROVE Books'
  BY <1>18 DEF Stop
<1>19. ASSUME Exit \/ Crash PROVE Books'
  BY <1>0, <1>19 DEF Exit, Crash, Ends
<1>20. ASSUME Boot PROVE Books'
  BY <1>20 DEF Boot
<1>21. CASE UNCHANGED vars
  BY <1>21 DEF vars
<1> QED
  BY <1>1, <1>2, <1>3, <1>4, <1>5, <1>6, <1>7, <1>8, <1>9, <1>10, <1>11, <1>12, <1>13, <1>14, <1>15, <1>16, <1>17, <1>18, <1>19, <1>20, <1>21
  DEF Next, Turn, Tick

\* Every step keeps what was asked.
LEMMA AskedStep ==
  ASSUME TaskConstants, TypeOK, Books, Asked, [Next]_vars
  PROVE  Asked'
<1> USE DEF Asked, Wanted, Books, TypeOK
<1>1. ASSUME NEW t \in Tasks, Accept(t) PROVE Asked'
  BY <1>1 DEF Accept
<1>2. ASSUME NEW t \in Tasks, CancelRow(t) PROVE Asked'
  BY <1>2 DEF CancelRow
<1>3. ASSUME NEW t \in Tasks, CancelRun(t) \/ StopRun(t) PROVE Asked'
  BY <1>3 DEF CancelRun, StopRun
<1>4. ASSUME NEW t \in Tasks, Cool(t) PROVE Asked'
  BY <1>4 DEF Cool
<1>5. ASSUME NEW t \in Tasks, Refused(t) PROVE Asked'
  BY <1>5 DEF Refused, TurnAway, Updated, JobOver, LadderGone
<1>6. ASSUME NEW t \in Tasks, Raced(t) PROVE Asked'
  BY <1>6 DEF Raced, TurnAway, Updated, JobOver, LadderGone, SaysInstruction
<1>7. ASSUME NEW t \in Tasks, Opens(t) PROVE Asked'
  BY <1>7 DEF Opens, SaysInstruction
<1>8. ASSUME NEW t \in Tasks, Abandons(t) PROVE Asked'
  BY <1>8 DEF Abandons, JobOver, LadderGone, SaysInstruction
<1>9. ASSUME NEW t \in Tasks, RunEnds(t) PROVE Asked'
  BY <1>9 DEF RunEnds, Verdict
<1>10. ASSUME NEW t \in Tasks, Settles(t) PROVE Asked'
  BY <1>10 DEF Settles, Updated, JobOver, LadderGone
<1>11. ASSUME NEW t \in Tasks, StatusLost(t) PROVE Asked'
  BY <1>11 DEF StatusLost, Updated, JobOver, LadderGone
<1>12. ASSUME NEW o \in Owners, RevokeKey(o) PROVE Asked'
  BY <1>12 DEF RevokeKey
<1>13. ASSUME NEW c \in Threads, DeleteThread(c) PROVE Asked'
  BY <1>13 DEF DeleteThread
<1>14. ASSUME NEW c \in Threads, ChatOpens(c) \/ ChatCloses(c) PROVE Asked'
  BY <1>14 DEF ChatOpens, ChatCloses
<1>15. ASSUME FindsNone PROVE Asked'
  BY <1>15 DEF FindsNone, Dispatches
<1>16. ASSUME NEW t \in Tasks, Claims(t) PROVE Asked'
  BY <1>16 DEF Claims, Dispatches, Oldest, Eligible, Scanned
<1>17. ASSUME NEW t \in Tasks, Drops(t) PROVE Asked'
  BY <1>17 DEF Drops, Dispatches, Oldest, Eligible, Scanned
<1>18. ASSUME Stop PROVE Asked'
  BY <1>18 DEF Stop
<1>19. ASSUME Exit \/ Crash PROVE Asked'
  BY <1>19 DEF Exit, Crash, Ends
<1>20. ASSUME Boot PROVE Asked'
  BY <1>20 DEF Boot
<1>21. CASE UNCHANGED vars
  BY <1>21 DEF vars
<1> QED
  BY <1>1, <1>2, <1>3, <1>4, <1>5, <1>6, <1>7, <1>8, <1>9, <1>10, <1>11, <1>12, <1>13, <1>14, <1>15, <1>16, <1>17, <1>18, <1>19, <1>20, <1>21
  DEF Next, Turn, Tick

\* Every step keeps owners and tasks in hand in line.
LEMMA HandStep ==
  ASSUME TaskConstants, TypeOK, Books, InHand, [Next]_vars
  PROVE  InHand'
<1> USE DEF InHand, Books, TypeOK
<1>1. ASSUME NEW t \in Tasks, Accept(t) PROVE InHand'
  BY <1>1 DEF Accept
<1>2. ASSUME NEW t \in Tasks, CancelRow(t) PROVE InHand'
  BY <1>2 DEF CancelRow
<1>3. ASSUME NEW t \in Tasks, CancelRun(t) \/ StopRun(t) PROVE InHand'
  BY <1>3 DEF CancelRun, StopRun
<1>4. ASSUME NEW t \in Tasks, Cool(t) PROVE InHand'
  BY <1>4 DEF Cool
<1>5. ASSUME NEW t \in Tasks, Refused(t) PROVE InHand'
  BY <1>5 DEF Refused, TurnAway, Updated, JobOver, LadderGone
<1>6. ASSUME NEW t \in Tasks, Raced(t) PROVE InHand'
  BY <1>6 DEF Raced, TurnAway, Updated, JobOver, LadderGone, SaysInstruction
<1>7. ASSUME NEW t \in Tasks, Opens(t) PROVE InHand'
  BY <1>7 DEF Opens, SaysInstruction
<1>8. ASSUME NEW t \in Tasks, Abandons(t) PROVE InHand'
  BY <1>8 DEF Abandons, JobOver, LadderGone, SaysInstruction
<1>9. ASSUME NEW t \in Tasks, RunEnds(t) PROVE InHand'
  BY <1>9 DEF RunEnds, Verdict
<1>10. ASSUME NEW t \in Tasks, Settles(t) PROVE InHand'
  BY <1>10 DEF Settles, Updated, JobOver, LadderGone
<1>11. ASSUME NEW t \in Tasks, StatusLost(t) PROVE InHand'
  BY <1>11 DEF StatusLost, Updated, JobOver, LadderGone
<1>12. ASSUME NEW o \in Owners, RevokeKey(o) PROVE InHand'
  BY <1>12 DEF RevokeKey
<1>13. ASSUME NEW c \in Threads, DeleteThread(c) PROVE InHand'
  BY <1>13 DEF DeleteThread
<1>14. ASSUME NEW c \in Threads, ChatOpens(c) \/ ChatCloses(c) PROVE InHand'
  BY <1>14 DEF ChatOpens, ChatCloses
<1>15. ASSUME FindsNone PROVE InHand'
  BY <1>15 DEF FindsNone, Dispatches
<1>16. ASSUME NEW t \in Tasks, Claims(t) PROVE InHand'
  BY <1>16 DEF Claims, Dispatches, Oldest, Eligible, Scanned
<1>17. ASSUME NEW t \in Tasks, Drops(t) PROVE InHand'
  BY <1>17 DEF Drops, Dispatches, Oldest, Eligible, Scanned
<1>18. ASSUME Stop PROVE InHand'
  BY <1>18 DEF Stop
<1>19. ASSUME Exit \/ Crash PROVE InHand'
  BY <1>19 DEF Exit, Crash, Ends
<1>20. ASSUME Boot PROVE InHand'
  BY <1>20 DEF Boot
<1>21. CASE UNCHANGED vars
  BY <1>21 DEF vars
<1> QED
  BY <1>1, <1>2, <1>3, <1>4, <1>5, <1>6, <1>7, <1>8, <1>9, <1>10, <1>11, <1>12, <1>13, <1>14, <1>15, <1>16, <1>17, <1>18, <1>19, <1>20, <1>21
  DEF Next, Turn, Tick

\* Every step keeps the threads that are counted on.
LEMMA ThreadStep ==
  ASSUME TaskConstants, TypeOK, Books, PendingHasThread, [Next]_vars
  PROVE  PendingHasThread'
<1> USE DEF PendingHasThread, Books, TypeOK, Pruned, StillValid, Threads
<1>1. ASSUME NEW t \in Tasks, Accept(t) PROVE PendingHasThread'
  BY <1>1 DEF Accept
<1>2. ASSUME NEW t \in Tasks, CancelRow(t) PROVE PendingHasThread'
  BY <1>2 DEF CancelRow
<1>3. ASSUME NEW t \in Tasks, CancelRun(t) \/ StopRun(t) PROVE PendingHasThread'
  BY <1>3 DEF CancelRun, StopRun
<1>4. ASSUME NEW t \in Tasks, Cool(t) PROVE PendingHasThread'
  BY <1>4 DEF Cool
<1>5. ASSUME NEW t \in Tasks, Refused(t) PROVE PendingHasThread'
  BY <1>5 DEF Refused, TurnAway, Updated, JobOver, LadderGone
<1>6. ASSUME NEW t \in Tasks, Raced(t) PROVE PendingHasThread'
  BY <1>6 DEF Raced, TurnAway, Updated, JobOver, LadderGone, SaysInstruction
<1>7. ASSUME NEW t \in Tasks, Opens(t) PROVE PendingHasThread'
  BY <1>7 DEF Opens, SaysInstruction
<1>8. ASSUME NEW t \in Tasks, Abandons(t) PROVE PendingHasThread'
  BY <1>8 DEF Abandons, JobOver, LadderGone, SaysInstruction
<1>9. ASSUME NEW t \in Tasks, RunEnds(t) PROVE PendingHasThread'
  BY <1>9 DEF RunEnds, Verdict
<1>10. ASSUME NEW t \in Tasks, Settles(t) PROVE PendingHasThread'
  BY <1>10 DEF Settles, Updated, JobOver, LadderGone
<1>11. ASSUME NEW t \in Tasks, StatusLost(t) PROVE PendingHasThread'
  BY <1>11 DEF StatusLost, Updated, JobOver, LadderGone
<1>12. ASSUME NEW o \in Owners, RevokeKey(o) PROVE PendingHasThread'
  BY <1>12 DEF RevokeKey
<1>13. ASSUME NEW c \in Threads, DeleteThread(c) PROVE PendingHasThread'
  BY <1>13 DEF DeleteThread
<1>14. ASSUME NEW c \in Threads, ChatOpens(c) \/ ChatCloses(c) PROVE PendingHasThread'
  BY <1>14 DEF ChatOpens, ChatCloses
<1>15. ASSUME FindsNone PROVE PendingHasThread'
  BY <1>15 DEF FindsNone, Dispatches
<1>16. ASSUME NEW t \in Tasks, Claims(t) PROVE PendingHasThread'
  BY <1>16 DEF Claims, Dispatches, Oldest, Eligible, Scanned
<1>17. ASSUME NEW t \in Tasks, Drops(t) PROVE PendingHasThread'
  BY <1>17 DEF Drops, Dispatches, Oldest, Eligible, Scanned
<1>18. ASSUME Stop PROVE PendingHasThread'
  BY <1>18 DEF Stop
<1>19. ASSUME Exit \/ Crash PROVE PendingHasThread'
  BY <1>19 DEF Exit, Crash, Ends
<1>20. ASSUME Boot PROVE PendingHasThread'
  BY <1>20 DEF Boot
<1>21. CASE UNCHANGED vars
  BY <1>21 DEF vars
<1> QED
  BY <1>1, <1>2, <1>3, <1>4, <1>5, <1>6, <1>7, <1>8, <1>9, <1>10, <1>11, <1>12, <1>13, <1>14, <1>15, <1>16, <1>17, <1>18, <1>19, <1>20, <1>21
  DEF Next, Turn, Tick

-----------------------------------------------------------------------------
(* No more tasks in hand than the process allows. *)

LEMMA OwnersFinite == ASSUME TaskConstants, TypeOK PROVE IsFiniteSet(owners)
<1> DEFINE f == [t \in Tasks |-> OwnerOf[t]]
<1>1. f \in Surjection(Tasks, Owners)
  BY DEF Owners, Surjection
<1>2. IsFiniteSet(Owners)
  BY <1>1, FS_Surjection DEF TaskConstants
<1> QED BY <1>2, FS_Subset DEF TypeOK

Few == Cardinality(owners) <= MaxRuns

LEMMA FewStep ==
  ASSUME TaskConstants, TypeOK, Few, [Next]_vars
  PROVE  Few'
<1>1. IsFiniteSet(owners) /\ Cardinality(owners) \in Nat
  BY OwnersFinite, FS_CardinalityType
<1>2. ASSUME owners' \subseteq owners PROVE Few'
  BY <1>1, <1>2, FS_Subset, FS_CardinalityType DEF Few, TaskConstants
<1>3. ASSUME NEW t \in Tasks, Claims(t) PROVE Few'
  <2>1. owners' = owners \cup {OwnerOf[t]} /\ Cardinality(owners) < MaxRuns
    BY <1>3 DEF Claims, Dispatches
  <2>2. Cardinality(owners') \in {Cardinality(owners), Cardinality(owners) + 1}
    BY <1>1, <2>1, FS_AddElement
  <2>3. MaxRuns \in Nat
    BY DEF TaskConstants
  <2> QED BY <1>1, <2>1, <2>2, <2>3 DEF Few
<1>4. owners' \subseteq owners \/ \E t \in Tasks : Claims(t)
  <2>1. CASE \E t \in Tasks : \/ Accept(t) \/ CancelRow(t) \/ CancelRun(t) \/ StopRun(t)
                              \/ Cool(t) \/ RunEnds(t)
    BY <2>1 DEF Accept, CancelRow, CancelRun, StopRun, Cool, RunEnds
  <2>2. CASE \E t \in Tasks : Turn(t) \/ Settles(t) \/ StatusLost(t)
    BY <2>2 DEF Turn, Refused, Raced, Opens, Abandons, TurnAway, Settles, StatusLost, JobOver
  <2>3. CASE \/ \E o \in Owners : RevokeKey(o)
             \/ \E c \in Threads : DeleteThread(c) \/ ChatOpens(c) \/ ChatCloses(c)
    BY <2>3 DEF RevokeKey, DeleteThread, ChatOpens, ChatCloses
  <2>4. CASE Tick
    BY <2>4 DEF Tick, FindsNone, Drops
  <2>5. CASE Stop \/ Exit \/ Crash \/ Boot \/ UNCHANGED vars
    BY <2>5 DEF Stop, Exit, Crash, Ends, Boot, vars
  <2> QED BY <2>1, <2>2, <2>3, <2>4, <2>5 DEF Next
<1> QED BY <1>2, <1>3, <1>4

-----------------------------------------------------------------------------
(* The theorems. *)

Inv == TypeOK /\ Books /\ Asked /\ InHand /\ PendingHasThread /\ Few

LEMMA InvInit == ASSUME TaskConstants, Init PROVE Inv
<1>1. TypeOK
  BY InitType
<1>2. Books /\ Asked /\ InHand /\ PendingHasThread
  BY DEF Init, Books, Asked, InHand, PendingHasThread, TaskConstants
<1>3. Few
  BY FS_EmptySet DEF Init, Few, TaskConstants
<1> QED BY <1>1, <1>2, <1>3 DEF Inv

LEMMA InvStep == ASSUME TaskConstants, Inv, [Next]_vars PROVE Inv'
BY TypeStep, BooksStep, AskedStep, HandStep, ThreadStep, FewStep DEF Inv

LEMMA InvHolds == ASSUME TaskConstants PROVE Spec => []Inv
BY InvInit, InvStep, PTL DEF Spec

\* At most one task of an owner is in hand, none is forgotten in state.owners,
\* and there are never more than MaxRuns (dispatchAvatarTasks, runTask).
THEOREM OneInHand == ASSUME TaskConstants PROVE Spec => []OneTaskInHand
<1>1. Inv => OneTaskInHand
  BY DEF Inv, InHand, Few, OneTaskInHand
<1> QED BY <1>1, InvHolds, PTL

\* No sibling's end prunes the thread of a task that waits or runs
\* (deleteConversationIfEmpty).
THEOREM ThreadsStay == ASSUME TaskConstants PROVE Spec => []PendingHasThread
<1>1. Inv => PendingHasThread
  BY DEF Inv
<1> QED BY <1>1, InvHolds, PTL

\* What is recorded as cancelled was cancelled by its caller, or its run was
\* stopped by its owner: never by a shutdown or by the deletion of its thread
\* (runTask's onEvent, cancelRun's callers).
THEOREM CancelsWereAsked == ASSUME TaskConstants PROVE Spec => []CancelledWasAsked
<1>1. Inv => CancelledWasAsked
  BY DEF Inv, Asked, Wanted, CancelledWasAsked
<1> QED BY <1>1, InvHolds, PTL

-----------------------------------------------------------------------------
(* The cap on refusals, for a queue the dispatcher can see the whole of: an  *)
(* entry of a row beyond MaxScan may be dropped while the row waits.         *)

\* What the table or the closure counts is what happened.
Counted ==
  \A t \in Tasks :
    /\ row[t] = "queued" => returns[t] <= ladder[t]
    /\ job[t] = "setup" => returns[t] <= tries[t]
    /\ ladder[t] <= MaxTries /\ tries[t] <= MaxTries /\ returns[t] <= MaxTries

LEMMA AllScanned ==
  ASSUME TaskConstants, TypeOK, Cardinality(Tasks) <= MaxScan
  PROVE  Scanned = {t \in Tasks : row[t] = "queued"}
<1> SUFFICES ASSUME NEW t \in Tasks
             PROVE  Cardinality({s \in Tasks : row[s] = "queued" /\ born[s] < born[t]}) < MaxScan
  BY DEF Scanned
<1> DEFINE S == {s \in Tasks : row[s] = "queued" /\ born[s] < born[t]}
<1>1. S \subseteq Tasks \ {t}
  BY DEF TypeOK
<1>2. IsFiniteSet(Tasks) /\ IsFiniteSet(Tasks \ {t})
  BY FS_RemoveElement DEF TaskConstants
<1>3. Cardinality(Tasks \ {t}) = Cardinality(Tasks) - 1
  BY <1>2, FS_RemoveElement
<1>4. Cardinality(S) <= Cardinality(Tasks \ {t}) /\ IsFiniteSet(S)
  BY <1>1, <1>2, FS_Subset
<1>5. Cardinality(S) \in Nat /\ Cardinality(Tasks) \in Nat /\ MaxScan \in Nat
  BY <1>2, <1>4, FS_CardinalityType DEF TaskConstants
<1> QED BY <1>3, <1>4, <1>5

LEMMA CountedStep ==
  ASSUME TaskConstants, TypeOK, Books, Counted, Cardinality(Tasks) <= MaxScan, [Next]_vars
  PROVE  Counted'
<1> USE DEF Counted, Books, TypeOK
<1> MaxTries \in Nat
  BY DEF TaskConstants
<1>1. ASSUME NEW t \in Tasks, Accept(t) PROVE Counted'
  BY <1>1 DEF Accept
<1>2. ASSUME NEW t \in Tasks, CancelRow(t) PROVE Counted'
  BY <1>2 DEF CancelRow
<1>3. ASSUME NEW t \in Tasks, CancelRun(t) \/ StopRun(t) PROVE Counted'
  BY <1>3 DEF CancelRun, StopRun
<1>4. ASSUME NEW t \in Tasks, Cool(t) PROVE Counted'
  BY <1>4 DEF Cool
<1>5. ASSUME NEW t \in Tasks, Refused(t) PROVE Counted'
  BY <1>5 DEF Refused, TurnAway, Updated, JobOver, LadderGone, Again
<1>6. ASSUME NEW t \in Tasks, Raced(t) PROVE Counted'
  BY <1>6 DEF Raced, TurnAway, Updated, JobOver, LadderGone, SaysInstruction, Again
<1>7. ASSUME NEW t \in Tasks, Opens(t) PROVE Counted'
  BY <1>7 DEF Opens, SaysInstruction
<1>8. ASSUME NEW t \in Tasks, Abandons(t) PROVE Counted'
  BY <1>8 DEF Abandons, JobOver, LadderGone, SaysInstruction
<1>9. ASSUME NEW t \in Tasks, RunEnds(t) PROVE Counted'
  BY <1>9 DEF RunEnds, Verdict
<1>10. ASSUME NEW t \in Tasks, Settles(t) PROVE Counted'
  BY <1>10 DEF Settles, Updated, JobOver, LadderGone
<1>11. ASSUME NEW t \in Tasks, StatusLost(t) PROVE Counted'
  BY <1>11 DEF StatusLost, Updated, JobOver, LadderGone
<1>12. ASSUME NEW o \in Owners, RevokeKey(o) PROVE Counted'
  BY <1>12 DEF RevokeKey
<1>13. ASSUME NEW c \in Threads, DeleteThread(c) PROVE Counted'
  BY <1>13 DEF DeleteThread
<1>14. ASSUME NEW c \in Threads, ChatOpens(c) \/ ChatCloses(c) PROVE Counted'
  BY <1>14 DEF ChatOpens, ChatCloses
<1>15. ASSUME FindsNone PROVE Counted'
  BY <1>15, AllScanned DEF FindsNone, Dispatches
<1>16. ASSUME NEW t \in Tasks, Claims(t) PROVE Counted'
  BY <1>16, AllScanned DEF Claims, Dispatches, Oldest, Eligible
<1>17. ASSUME NEW t \in Tasks, Drops(t) PROVE Counted'
  BY <1>17, AllScanned DEF Drops, Dispatches, Oldest, Eligible
<1>18. ASSUME Stop PROVE Counted'
  BY <1>18 DEF Stop
<1>19. ASSUME Exit \/ Crash PROVE Counted'
  BY <1>19 DEF Exit, Crash, Ends
<1>20. ASSUME Boot PROVE Counted'
  BY <1>20 DEF Boot
<1>21. CASE UNCHANGED vars
  BY <1>21 DEF vars
<1> QED
  BY <1>1, <1>2, <1>3, <1>4, <1>5, <1>6, <1>7, <1>8, <1>9, <1>10, <1>11, <1>12, <1>13, <1>14, <1>15, <1>16, <1>17, <1>18, <1>19, <1>20, <1>21
  DEF Next, Turn, Tick

\* A task is refused and put back at most MaxTries times in a process, whatever
\* happens to the table of back-offs meanwhile (dispatchAvatarTasks, runTask).
THEOREM GivesUpInTime ==
  ASSUME TaskConstants, Cardinality(Tasks) <= MaxScan
  PROVE  Spec => []GivesUp
<1>1. Init => Counted
  BY DEF Init, Counted, TaskConstants
<1>2. Inv /\ Counted /\ [Next]_vars => Counted'
  BY CountedStep DEF Inv
<1>3. Counted => GivesUp
  BY DEF Counted, GivesUp
<1> QED BY <1>1, <1>2, <1>3, InvHolds, PTL DEF Spec

-----------------------------------------------------------------------------
(* Every step of the service is a step of each task's life. *)

LEMMA LifeStep ==
  ASSUME TaskConstants, TypeOK, Books, [Next]_vars, NEW k \in Tasks
  PROVE  Life!Step(k)
<1> USE DEF Life!Step, Life!Moves, Life!Settled, Books, TypeOK
<1>1. ASSUME NEW t \in Tasks, Accept(t) PROVE Life!Step(k)
  BY <1>1 DEF Accept
<1>2. ASSUME NEW t \in Tasks, CancelRow(t) PROVE Life!Step(k)
  BY <1>2 DEF CancelRow
<1>3. ASSUME NEW t \in Tasks, CancelRun(t) \/ StopRun(t) PROVE Life!Step(k)
  BY <1>3 DEF CancelRun, StopRun
<1>4. ASSUME NEW t \in Tasks, Cool(t) PROVE Life!Step(k)
  BY <1>4 DEF Cool
<1>5. ASSUME NEW t \in Tasks, Refused(t) PROVE Life!Step(k)
  BY <1>5 DEF Refused, TurnAway, Updated, JobOver, LadderGone, Again
<1>6. ASSUME NEW t \in Tasks, Raced(t) PROVE Life!Step(k)
  BY <1>6 DEF Raced, TurnAway, Updated, JobOver, LadderGone, SaysInstruction, Again
<1>7. ASSUME NEW t \in Tasks, Opens(t) PROVE Life!Step(k)
  BY <1>7 DEF Opens, SaysInstruction
<1>8. ASSUME NEW t \in Tasks, Abandons(t) PROVE Life!Step(k)
  BY <1>8 DEF Abandons, JobOver, LadderGone, SaysInstruction
<1>9. ASSUME NEW t \in Tasks, RunEnds(t) PROVE Life!Step(k)
  BY <1>9 DEF RunEnds, Verdict
<1>10. ASSUME NEW t \in Tasks, Settles(t) PROVE Life!Step(k)
  BY <1>10 DEF Settles, Updated, JobOver, LadderGone
<1>11. ASSUME NEW t \in Tasks, StatusLost(t) PROVE Life!Step(k)
  BY <1>11 DEF StatusLost, Updated, JobOver, LadderGone
<1>12. ASSUME NEW o \in Owners, RevokeKey(o) PROVE Life!Step(k)
  BY <1>12 DEF RevokeKey
<1>13. ASSUME NEW c \in Threads, DeleteThread(c) PROVE Life!Step(k)
  BY <1>13 DEF DeleteThread
<1>14. ASSUME NEW c \in Threads, ChatOpens(c) \/ ChatCloses(c) PROVE Life!Step(k)
  BY <1>14 DEF ChatOpens, ChatCloses
<1>15. ASSUME FindsNone PROVE Life!Step(k)
  BY <1>15 DEF FindsNone, Dispatches
<1>16. ASSUME NEW t \in Tasks, Claims(t) PROVE Life!Step(k)
  BY <1>16 DEF Claims, Dispatches, Oldest, Eligible, Scanned
<1>17. ASSUME NEW t \in Tasks, Drops(t) PROVE Life!Step(k)
  BY <1>17 DEF Drops, Dispatches, Oldest, Eligible, Scanned
<1>18. ASSUME Stop PROVE Life!Step(k)
  BY <1>18 DEF Stop
<1>19. ASSUME Exit \/ Crash PROVE Life!Step(k)
  BY <1>19 DEF Exit, Crash, Ends
<1>20. ASSUME Boot PROVE Life!Step(k)
  BY <1>20 DEF Boot
<1>21. CASE UNCHANGED vars
  BY <1>21 DEF vars
<1> QED
  BY <1>1, <1>2, <1>3, <1>4, <1>5, <1>6, <1>7, <1>8, <1>9, <1>10, <1>11, <1>12, <1>13, <1>14, <1>15, <1>16, <1>17, <1>18, <1>19, <1>20, <1>21
  DEF Next, Turn, Tick

\* Each task lives the life TaskLife describes: ended once and for all, written
\* at most once, run at most once, through refusals, cancels, deletions and
\* restarts (avatarTaskRunner.ts, store/avatarTasks.ts).
THEOREM ImplementsTaskLife == ASSUME TaskConstants PROVE Spec => IsATask
<1>1. Init => Life!Init
  BY DEF Init, Life!Init
<1>2. Inv /\ [Next]_vars => [Life!Next]_<<row, bubbles, ran>>
  BY LifeStep DEF Inv, Life!Next
<1> QED BY <1>1, <1>2, InvHolds, PTL DEF Spec, IsATask, Life!Spec
=============================================================================
