-------------------------- MODULE RepoCopy_proofs --------------------------
(***************************************************************************)
(* Theorems about RepoCopy, for any conversations, seats and bound.        *)
(***************************************************************************)
EXTENDS RepoCopy, TLAPS

\* What a run may do in a step.
Act(r) ==
  \/ Starting(r) \/ ClaimIsClean(r) \/ ClaimTakes(r)
  \/ Edit(r) \/ Tool(r) \/ AgentEnds(r) \/ TurnEnds(r)

-----------------------------------------------------------------------------
(* Types. *)

LEMMA LookedType ==
  ASSUME NEW c
  PROVE  Looked(c) \in {"check", "take", "act"}
BY DEF Looked

LEMMA TypeAct ==
  ASSUME TypeOK, NEW r \in Runs, Act(r)
  PROVE  TypeOK'
<1>. USE SeatsAssumption
<1>. USE DEF TypeOK, Go, Return, MoveTo, At, Release, Calls, NoCall, Tools,
            Registrations,
            Phases, lockVars, copyVars, repoVars, runVars, flags
<1>1. CASE Admit(r)
  BY <1>1 DEF Admit, Resolving, Seated
<1>2. CASE ResolveNone(r)
  <2>1. phase[r] \in {"idle", "admitted"} /\ call[r].op = "none"
    BY <1>2 DEF ResolveNone, Resolving, Seated, TypeOK, NoCall
  <2>2. open' \in [Conversations -> BOOLEAN] /\ apart' \in BOOLEAN
    BY <1>2 DEF ResolveNone, TypeOK
  <2>. QED
    BY <1>2, <2>1, <2>2
       DEF ResolveNone, TypeOK, Go, Calls, NoCall, Tools, Registrations, Phases, lockVars,
           copyVars, repoVars, runVars, flags
<1>3. CASE ResolveLocked(r)
  BY <1>3 DEF ResolveLocked, Resolving, Seated
<1>4. CASE ResolveTakes(r)
  BY <1>4, LookedType DEF ResolveTakes, Resolving, Seated
<1>5. CASE StartMakes(r)
  BY <1>5 DEF StartMakes
<1>6. CASE StartReady(r)
  BY <1>6 DEF StartReady
<1>7. CASE StartWithdraws(r)
  BY <1>7 DEF StartWithdraws
<1>8. CASE Open(r)
  BY <1>8 DEF Open
<1>9. CASE Raced(r)
  BY <1>9 DEF Raced
<1>10. CASE ClaimIsClean(r)
  BY <1>10 DEF ClaimIsClean
<1>11. CASE ClaimTakes(r)
  BY <1>11 DEF ClaimTakes
<1>12. CASE Edit(r)
  BY <1>12 DEF Edit
<1>13. CASE SyncFetches(r)
  BY <1>13 DEF SyncFetches
<1>14. ASSUME NEW op \in Tools, AskTakes(r, op) PROVE TypeOK'
  BY <1>14, LookedType DEF AskTakes, Asking, MayTake
<1>15. CASE AskRefused(r)
  BY <1>15 DEF AskRefused
<1>16. CASE ToolWithdraws(r)
  BY <1>16 DEF ToolWithdraws
<1>17. CASE ToolFails(r)
  BY <1>17 DEF ToolFails
<1>18. CASE OpenCopies(r)
  BY <1>18 DEF OpenCopies
<1>19. CASE OpenSelects(r)
  BY <1>19 DEF OpenSelects
<1>20. CASE Commit(r)
  BY <1>20 DEF Commit
<1>21. CASE SyncRefused(r)
  BY <1>21 DEF SyncRefused
<1>22. CASE SyncPulls(r)
  BY <1>22 DEF SyncPulls
<1>23. CASE SyncRefreshes(r)
  BY <1>23 DEF SyncRefreshes
<1>24. CASE RemoveUnlists(r)
  BY <1>24 DEF RemoveUnlists
<1>25. CASE RemoveWipes(r)
  BY <1>25 DEF RemoveWipes
<1>26. CASE CloseRepo(r)
  BY <1>26 DEF CloseRepo
<1>27. CASE RegisterLists(r) \/ RegisterSyncs(r) \/ RegisterFails(r)
  <2>1. CASE RegisterLists(r)
    BY <2>1 DEF RegisterLists
  <2>2. CASE RegisterSyncs(r)
    BY <2>2 DEF RegisterSyncs
  <2>3. CASE RegisterFails(r)
    BY <2>3 DEF RegisterFails
  <2>. QED  BY <1>27, <2>1, <2>2, <2>3
<1>28. CASE AgentEnds(r)
  BY <1>28 DEF AgentEnds
<1>29. CASE TurnEnds(r)
  BY <1>29 DEF TurnEnds
<1>. QED
  BY <1>1, <1>2, <1>3, <1>4, <1>5, <1>6, <1>7, <1>8, <1>9, <1>10,
     <1>11, <1>12, <1>13, <1>14, <1>15, <1>16, <1>17, <1>18, <1>19,
     <1>20, <1>21, <1>22, <1>23, <1>24, <1>25, <1>26, <1>27, <1>28,
     <1>29
     DEF Act, Starting, Tool

LEMMA TypeStep ==
  ASSUME TypeOK, [Next]_vars
  PROVE  TypeOK'
<1>1. CASE UNCHANGED vars
  BY <1>1 DEF TypeOK, vars, lockVars, copyVars, repoVars, runVars, flags
<1>2. CASE Next
  BY <1>2, TypeAct DEF Next, Act
<1>. QED  BY <1>1, <1>2

LEMMA TypeInit ==
  ASSUME Init
  PROVE  TypeOK
BY SeatsAssumption DEF Init, TypeOK, Calls, NoCall, Tools, Registrations, Phases

\* Every variable keeps its type, a lock taken by a tool is forgotten when the
\* run ends, and a copy that is gone holds no edits.
THEOREM TypeCorrect == Spec => []TypeOK
BY TypeInit, TypeStep, PTL DEF Spec

-----------------------------------------------------------------------------
(* The run lock. *)

\* A conversation has at most one run under way.
OneRun ==
  \A r, s \in Runs :
    r # s /\ ConvOf[r] = ConvOf[s] => phase[r] = "idle" \/ phase[s] = "idle"

\* Who has a reason to hold the lock holds it, and for one reason.
Owned ==
  \A r \in Runs :
    /\ gives[r] \/ taken[r] \/ phase[r] = "resolving" => heldBy = ConvOf[r]
    /\ ~(gives[r] /\ taken[r])

\* Whoever holds the lock will give it back.
HasTaker ==
  heldBy # NoOne =>
    \E r \in Runs : /\ ConvOf[r] = heldBy
                    /\ gives[r] \/ taken[r] \/ phase[r] = "resolving"

WorksLocked == \A r \in Runs : works[r] => gives[r] \/ taken[r]

ToolsLocked ==
  \A r \in Runs :
    call[r].op \in Tools /\ call[r].at # "ask" /\ phase[r] = "running"
      => gives[r] \/ taken[r]

\* A lock this call newly took serves nothing else yet.
UndoIsSafe ==
  \A r \in Runs : call[r].fresh /\ phase[r] = "running" => ~works[r] /\ ~gives[r]

LockInv ==
  apart => /\ OneRun /\ Owned /\ HasTaker
           /\ WorksLocked /\ ToolsLocked /\ UndoIsSafe

LEMMA LockAct ==
  ASSUME TypeOK, LockInv, NEW r \in Runs, Act(r)
  PROVE  LockInv'
<1>. USE SeatsAssumption
<1>. USE DEF LockInv, OneRun, Owned, HasTaker, WorksLocked, ToolsLocked,
            UndoIsSafe, TypeOK, Go, Return, MoveTo, At, Release, Calls,
            NoCall, Tools, Registrations, Phases, lockVars, copyVars, repoVars, runVars,
            flags
<1>1. CASE Admit(r)
  BY <1>1 DEF Admit, Resolving, Seated, Alone
<1>2. CASE ResolveNone(r)
  BY <1>2 DEF ResolveNone, Resolving, Seated, Alone
<1>3. CASE ResolveLocked(r)
  BY <1>3 DEF ResolveLocked, Resolving, Seated, Free
<1>4. CASE ResolveTakes(r)
  BY <1>4, LookedType DEF ResolveTakes, Resolving, Seated, Free, Alone
<1>5. CASE StartMakes(r)
  BY <1>5 DEF StartMakes
<1>6. CASE StartReady(r)
  BY <1>6 DEF StartReady
<1>7. CASE StartWithdraws(r)
  BY <1>7 DEF StartWithdraws
<1>8. CASE Open(r)
  BY <1>8 DEF Open
<1>9. CASE Raced(r)
  BY <1>9 DEF Raced, ActiveChat
<1>10. CASE ClaimIsClean(r)
  BY <1>10 DEF ClaimIsClean
<1>11. CASE ClaimTakes(r)
  BY <1>11 DEF ClaimTakes
<1>12. CASE Edit(r)
  BY <1>12 DEF Edit
<1>13. CASE SyncFetches(r)
  BY <1>13 DEF SyncFetches
<1>14. ASSUME NEW op \in Tools, AskTakes(r, op) PROVE LockInv'
  <2>1. ASSUME apart
        PROVE  heldBy = NoOne => ~taken[r] /\ ~gives[r] /\ ~works[r]
    BY <2>1, <1>14 DEF TypeOK, LockInv, Owned, WorksLocked
  <2>2. ASSUME apart, heldBy = ConvOf[r]
        PROVE  gives[r] \/ taken[r]
    <3>1. phase[r] = "running"
      BY <1>14 DEF AskTakes, MayTake
    <3>2. PICK s \in Runs : /\ ConvOf[s] = ConvOf[r]
                            /\ gives[s] \/ taken[s] \/ phase[s] = "resolving"
      BY <2>2, <1>14 DEF TypeOK, LockInv, HasTaker
    <3>3. phase[s] # "idle"
      BY <3>2 DEF TypeOK
    <3>4. OneRun
      BY <2>2 DEF LockInv
    <3>5. s = r
      BY <3>1, <3>2, <3>3, <3>4 DEF OneRun
    <3>. QED  BY <3>1, <3>2, <3>5
  <2>3. heldBy = NoOne \/ heldBy = ConvOf[r]
    BY <1>14 DEF AskTakes, Free
  <2>4. SUFFICES ASSUME apart
                 PROVE  LockInv'
    BY <1>14 DEF AskTakes, LockInv, flags
  <2>5. /\ UNCHANGED <<gives, phase, works>>
        /\ heldBy' = ConvOf[r]
        /\ taken' = [taken EXCEPT ![r] = @ \/ (heldBy = NoOne /\ ~taken[r])]
        /\ phase[r] = "running"
    BY <1>14 DEF AskTakes, MayTake
  <2>6. gives[r] \/ taken'[r]
    BY <2>1, <2>2, <2>3, <2>4, <2>5 DEF TypeOK
  <2>7. OneRun' /\ HasTaker' /\ WorksLocked'
    BY <2>4, <2>5, <2>6 DEF TypeOK, LockInv, OneRun, HasTaker, WorksLocked
  <2>8. Owned'
    BY <2>1, <2>3, <2>4, <2>5 DEF TypeOK, LockInv, Owned
  <2>9. /\ \A s \in Runs \ {r} : call'[s] = call[s]
        /\ call'[r].fresh => heldBy = NoOne
    BY <1>14 DEF AskTakes, TypeOK
  <2>10. ToolsLocked'
    BY <2>4, <2>5, <2>6, <2>9 DEF TypeOK, LockInv, ToolsLocked
  <2>11. UndoIsSafe'
    BY <2>1, <2>4, <2>5, <2>9 DEF TypeOK, LockInv, UndoIsSafe
  <2>. QED  BY <2>7, <2>8, <2>10, <2>11 DEF LockInv
<1>15. CASE AskRefused(r)
  BY <1>15 DEF AskRefused
<1>16. CASE ToolWithdraws(r)
  BY <1>16 DEF ToolWithdraws
<1>17. CASE ToolFails(r)
  BY <1>17 DEF ToolFails
<1>18. CASE OpenCopies(r)
  BY <1>18 DEF OpenCopies
<1>19. CASE OpenSelects(r)
  BY <1>19 DEF OpenSelects
<1>20. CASE Commit(r)
  BY <1>20 DEF Commit
<1>21. CASE SyncRefused(r)
  BY <1>21 DEF SyncRefused
<1>22. CASE SyncPulls(r)
  BY <1>22 DEF SyncPulls
<1>23. CASE SyncRefreshes(r)
  BY <1>23 DEF SyncRefreshes
<1>24. CASE RemoveUnlists(r)
  BY <1>24 DEF RemoveUnlists
<1>25. CASE RemoveWipes(r)
  BY <1>25 DEF RemoveWipes
<1>26. CASE CloseRepo(r)
  BY <1>26 DEF CloseRepo
<1>27. CASE RegisterLists(r) \/ RegisterSyncs(r) \/ RegisterFails(r)
  <2>1. CASE RegisterLists(r)
    BY <2>1 DEF RegisterLists
  <2>2. CASE RegisterSyncs(r)
    BY <2>2 DEF RegisterSyncs
  <2>3. CASE RegisterFails(r)
    BY <2>3 DEF RegisterFails
  <2>. QED  BY <1>27, <2>1, <2>2, <2>3
<1>28. CASE AgentEnds(r)
  BY <1>28 DEF AgentEnds
<1>29. CASE TurnEnds(r)
  BY <1>29 DEF TurnEnds
<1>. QED
  BY <1>1, <1>2, <1>3, <1>4, <1>5, <1>6, <1>7, <1>8, <1>9, <1>10, <1>11,
      <1>12, <1>13, <1>14, <1>15, <1>16, <1>17, <1>18, <1>19, <1>20,
      <1>21, <1>22, <1>23, <1>24, <1>25, <1>26, <1>27, <1>28, <1>29
     DEF Act, Starting, Tool

LEMMA LockStep ==
  ASSUME TypeOK, LockInv, [Next]_vars
  PROVE  LockInv'
<1>1. CASE UNCHANGED vars
  BY <1>1
     DEF LockInv, OneRun, Owned, HasTaker, WorksLocked, ToolsLocked,
         UndoIsSafe, vars, lockVars, copyVars, repoVars, runVars, flags
<1>2. CASE Next
  BY <1>2, LockAct DEF Next, Act
<1>. QED  BY <1>1, <1>2

LEMMA LockInit ==
  ASSUME Init
  PROVE  LockInv
BY SeatsAssumption
   DEF Init, LockInv, OneRun, Owned, HasTaker, WorksLocked,
       ToolsLocked, UndoIsSafe, NoCall, Tools, Registrations

\* No two runs of different conversations work on the copy at the same time:
\* each of them holds the one lock.
THEOREM ExclusiveWorkHolds == Spec => []ExclusiveWork
<1>1. TypeOK /\ LockInv => ExclusiveWork
  BY DEF LockInv, Owned, WorksLocked, ExclusiveWork
<1>. QED  BY <1>1, TypeInit, TypeStep, LockInit, LockStep, PTL DEF Spec

\* A held lock belongs to a conversation with a run that will give it back.
THEOREM LockComesBack == Spec => []LockIsGivenBack
<1>1. TypeOK /\ LockInv => LockIsGivenBack
  BY DEF TypeOK, LockInv, HasTaker, LockIsGivenBack
<1>. QED  BY <1>1, TypeInit, TypeStep, LockInit, LockStep, PTL DEF Spec

-----------------------------------------------------------------------------
(* The claim. *)

\* A run that works on the copy, or a call past the run lock.
Inside(r) == works[r] \/ call[r].at \in {"check", "take", "act", "finish"}

NoCopyNoHolder == ~made => holder = NoOne

CallsRun == \A r \in Runs : call[r].op \in Tools => phase[r] = "running"

\* What a run knows of the copy at each await.
Sound(r) ==
  /\ works[r] => made /\ holder = ConvOf[r]
  /\ call[r].at \in {"check", "take"} => ~works[r]
  /\ call[r].at = "take" => \A c \in edits : open[c] => c = ConvOf[r]
  /\ call[r].at = "act" /\ made => holder = ConvOf[r]
  /\ At(r, {"sync", "bring", "remove"}, {"finish"}) /\ made => holder = ConvOf[r]
  /\ At(r, {"start", "open"}, {"finish"}) =>
       made /\ (holder = ConvOf[r] \/ edits = {})

DataBody ==
  /\ NoCopyNoHolder /\ CallsRun
  /\ \A c \in edits : open[c] => holder = c
  /\ \A r \in Runs : Sound(r)

DataInv == apart /\ tidy => DataBody

LEMMA InsideHolds ==
  ASSUME TypeOK, LockInv, CallsRun, apart, NEW r \in Runs, Inside(r)
  PROVE  heldBy = ConvOf[r] /\ phase[r] # "idle"
<1>1. CASE works[r]
  BY <1>1 DEF TypeOK, LockInv, WorksLocked, Owned
<1>2. CASE ~works[r] /\ call[r].op = "start"
  BY <1>2 DEF TypeOK, LockInv, Owned
<1>3. CASE ~works[r] /\ call[r].op # "start"
  <2>1. call[r].op \in Tools /\ call[r].at # "ask"
    BY <1>3 DEF Inside, TypeOK, Calls, NoCall, Registrations
  <2>2. phase[r] = "running"
    BY <2>1 DEF CallsRun
  <2>. QED
    BY <2>1, <2>2 DEF LockInv, ToolsLocked, Owned
<1>. QED  BY <1>1, <1>2, <1>3

LEMMA OneInside ==
  ASSUME TypeOK, LockInv, CallsRun, apart,
         NEW r \in Runs, NEW s \in Runs, Inside(r), Inside(s)
  PROVE  r = s
BY InsideHolds DEF LockInv, OneRun

LEMMA FlagsFall ==
  ASSUME NEW r \in Runs, Act(r), TypeOK
  PROVE  (apart' => apart) /\ (tidy' => tidy)
BY DEF Act, Starting, Tool, flags, TypeOK,
       Admit, ResolveNone, ResolveLocked, ResolveTakes, StartMakes,
           StartReady, StartWithdraws, Open, Raced, ClaimIsClean,
           ClaimTakes, Edit, SyncFetches, AskTakes, AskRefused,
           ToolWithdraws, ToolFails, OpenCopies, OpenSelects, Commit,
           SyncRefused, SyncPulls, SyncRefreshes, RemoveUnlists,
           RemoveWipes, CloseRepo, RegisterLists, RegisterSyncs,
           RegisterFails, AgentEnds, TurnEnds

LEMMA DataAct ==
  ASSUME TypeOK, LockInv, DataInv, NEW r \in Runs, Act(r), apart', tidy'
  PROVE  DataBody'
<1>. USE SeatsAssumption
<1>a. apart /\ tidy /\ DataBody
  BY FlagsFall DEF DataInv
<1>b. \A s \in Runs : Inside(r) /\ Inside(s) => r = s
  BY <1>a, OneInside DEF DataBody
<1>. USE DEF DataBody, NoCopyNoHolder, CallsRun, Sound, Inside, TypeOK, Go,
            Return, MoveTo, At, Calls, NoCall, Tools, Registrations, Phases, lockVars,
            copyVars, repoVars, runVars, flags
<1>1. CASE Admit(r)
  BY <1>1, <1>a, <1>b DEF Admit, Resolving, Seated, Alone
<1>2. CASE ResolveNone(r)
  <2>1. UNCHANGED <<made, holder, edits, works, call>>
    BY <1>2 DEF ResolveNone
  <2>2. \A c \in Conversations : open'[c] => open[c]
    BY <1>2 DEF ResolveNone
  <2>3. \A s \in Runs : s # r => phase'[s] = phase[s]
    BY <1>2 DEF ResolveNone
  <2>4. call[r].op \notin Tools
    BY <1>2, <1>a DEF ResolveNone, Resolving, Seated
  <2>. QED BY <1>a, <2>1, <2>2, <2>3, <2>4
<1>3. CASE ResolveLocked(r)
  BY <1>3, <1>a, <1>b DEF ResolveLocked, Resolving, Seated, Free
<1>4. CASE ResolveTakes(r)
  BY <1>4, <1>a, <1>b DEF ResolveTakes, Resolving, Seated, Looked
<1>5. CASE StartMakes(r)
  BY <1>5, <1>a, <1>b DEF StartMakes
<1>6. CASE StartReady(r)
  BY <1>6, <1>a, <1>b DEF StartReady
<1>7. CASE StartWithdraws(r)
  BY <1>7, <1>a, <1>b DEF StartWithdraws
<1>8. CASE Open(r)
  BY <1>8, <1>a DEF Open
<1>9. CASE Raced(r)
  BY <1>9, <1>a, <1>b DEF Raced, ActiveChat
<1>10. CASE ClaimIsClean(r)
  BY <1>10, <1>a, <1>b DEF ClaimIsClean
<1>11. CASE ClaimTakes(r)
  BY <1>11, <1>a, <1>b DEF ClaimTakes
<1>12. CASE Edit(r)
  BY <1>12, <1>a, <1>b DEF Edit
<1>13. CASE SyncFetches(r)
  BY <1>13, <1>a DEF SyncFetches
<1>14. ASSUME NEW op \in Tools, AskTakes(r, op) PROVE DataBody'
  BY <1>14, <1>a, <1>b DEF AskTakes, Asking, MayTake, Looked
<1>15. CASE AskRefused(r)
  BY <1>15, <1>a DEF AskRefused
<1>16. CASE ToolWithdraws(r)
  BY <1>16, <1>a, <1>b DEF ToolWithdraws
<1>17. CASE ToolFails(r)
  BY <1>17, <1>a DEF ToolFails
<1>18. CASE OpenCopies(r)
  BY <1>18, <1>a, <1>b DEF OpenCopies
<1>19. CASE OpenSelects(r)
  BY <1>19, <1>a, <1>b DEF OpenSelects
<1>20. CASE Commit(r)
  BY <1>20, <1>a, <1>b DEF Commit
<1>21. CASE SyncRefused(r)
  BY <1>21, <1>a, <1>b DEF SyncRefused
<1>22. CASE SyncPulls(r)
  BY <1>22, <1>a, <1>b DEF SyncPulls
<1>23. CASE SyncRefreshes(r)
  BY <1>23, <1>a, <1>b DEF SyncRefreshes
<1>24. CASE RemoveUnlists(r)
  BY <1>24, <1>a, <1>b DEF RemoveUnlists
<1>25. CASE RemoveWipes(r)
  BY <1>25, <1>a, <1>b DEF RemoveWipes
<1>26. CASE CloseRepo(r)
  BY <1>26, <1>a, <1>b DEF CloseRepo
<1>27. CASE RegisterLists(r) \/ RegisterSyncs(r) \/ RegisterFails(r)
  BY <1>27, <1>a, <1>b DEF RegisterLists, RegisterSyncs, RegisterFails
<1>28. CASE AgentEnds(r)
  <2>1. call[r].op = "none" /\ call[r].at = "none"
    <3>1. call[r] = NoCall
      BY <1>28, Zenon DEF AgentEnds
    <3>. QED  BY <3>1 DEF NoCall
  <2>2. /\ UNCHANGED <<made, holder, edits, open, call>>
        /\ phase' = [phase EXCEPT ![r] = "closing"]
        /\ works' = [works EXCEPT ![r] = FALSE]
    BY <1>28 DEF AgentEnds, Go, copyVars, repoVars
  <2>. QED
    BY <2>1, <2>2, <1>a
       DEF DataBody, NoCopyNoHolder, CallsRun, Sound, At, TypeOK
<1>29. CASE TurnEnds(r)
  BY <1>29, <1>a, <1>b DEF TurnEnds
<1>. QED
  BY <1>1, <1>2, <1>3, <1>4, <1>5, <1>6, <1>7, <1>8, <1>9, <1>10, <1>11,
      <1>12, <1>13, <1>14, <1>15, <1>16, <1>17, <1>18, <1>19, <1>20,
      <1>21, <1>22, <1>23, <1>24, <1>25, <1>26, <1>27, <1>28, <1>29
     DEF Act, Starting, Tool

LEMMA DataStep ==
  ASSUME TypeOK, LockInv, DataInv, [Next]_vars
  PROVE  DataInv'
<1>1. CASE UNCHANGED vars
  BY <1>1
     DEF DataInv, DataBody, NoCopyNoHolder, CallsRun, Sound, At, vars,
         lockVars, copyVars, repoVars, runVars, flags
<1>2. CASE Next
  BY <1>2, DataAct DEF Next, Act, DataInv
<1>. QED  BY <1>1, <1>2

LEMMA DataInit ==
  ASSUME Init
  PROVE  DataInv
BY DEF Init, DataInv, DataBody, NoCopyNoHolder, CallsRun, Sound, At,
       NoCall, Tools, Registrations

\* The record names the conversation whose open edits lie in the copy.
THEOREM HolderOwns == Spec => []HolderOwnsTheEdits
<1>1. DataInv => HolderOwnsTheEdits
  BY DEF DataInv, DataBody, HolderOwnsTheEdits
<1>. QED
  BY <1>1, TypeInit, TypeStep, LockInit, LockStep, DataInit, DataStep, PTL
     DEF Spec

LEMMA StaysAct ==
  ASSUME TypeOK, DataInv, NEW r \in Runs, Act(r), apart', tidy',
         NEW c \in edits \ edits', open[c]
  PROVE  ConvOf[r] = c /\ call'[r] # call[r]
<1>a. apart /\ tidy /\ DataBody
  BY FlagsFall DEF DataInv
<1>b. holder = c /\ edits # {}
  BY <1>a DEF DataBody
<1>1. CASE \/ OpenCopies(r) \/ Commit(r) \/ SyncRefreshes(r) \/ RemoveWipes(r)
  <2>1. call[r].at \in {"act", "finish"}
    BY <1>1 DEF OpenCopies, Commit, SyncRefreshes, RemoveWipes, At
  <2>2. call'[r].at # call[r].at
    BY <1>1 DEF OpenCopies, Commit, SyncRefreshes, RemoveWipes, At, Return,
                MoveTo, NoCall, TypeOK
  <2>3. made
    BY <1>b DEF TypeOK
  <2>4. holder = ConvOf[r]
    BY <1>1, <1>a, <2>1, <2>3
       DEF DataBody, Sound, At, OpenCopies, Commit, SyncRefreshes, RemoveWipes
  <2>. QED  BY <1>b, <2>2, <2>4
<1>2. CASE UNCHANGED edits \/ Edit(r)
  BY <1>2 DEF Edit
<1>3. \/ OpenCopies(r) \/ Commit(r) \/ SyncRefreshes(r) \/ RemoveWipes(r)
      \/ UNCHANGED edits \/ Edit(r)
  BY DEF Act, Starting, Tool, copyVars, TypeOK,
         Admit, ResolveNone, ResolveLocked, ResolveTakes, StartMakes,
             StartReady, StartWithdraws, Open, Raced, ClaimIsClean,
             ClaimTakes, SyncFetches, AskTakes, AskRefused, ToolWithdraws,
             ToolFails, OpenSelects, SyncRefused, SyncPulls,
             RemoveUnlists, CloseRepo, RegisterLists, RegisterSyncs,
             RegisterFails, AgentEnds, TurnEnds
<1>. QED  BY <1>1, <1>2, <1>3

\* A conversation that keeps the repository open loses uncommitted edits from
\* the copy only to a tool call of its own.
THEOREM WorkStays == Spec => UncommittedWorkStays
<1> DEFINE A == apart' /\ tidy' => \A c \in edits \ edits' :
                  open[c] => \E r \in Runs : ConvOf[r] = c /\ call'[r] # call[r]
<1>1. TypeOK /\ DataInv /\ [Next]_vars => [A]_vars
  BY StaysAct DEF Next, Act, vars
<1>. QED
  BY <1>1, TypeInit, TypeStep, LockInit, LockStep, DataInit, DataStep, PTL
     DEF Spec, UncommittedWorkStays
=============================================================================
