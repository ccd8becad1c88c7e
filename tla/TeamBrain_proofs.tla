-------------------------- MODULE TeamBrain_proofs --------------------------
(***************************************************************************)
(* Proofs about TeamBrain, for any sources, cards, pages and people and    *)
(* any number of crashes.  The vault's lock comes with its own theorems    *)
(* (GitMutex_proofs); the invariant ties each press to its place in that   *)
(* lock and each claim to the source it pins.                              *)
(***************************************************************************)
EXTENDS TeamBrain, FiniteSetTheorems, TLAPS

Lock == INSTANCE GitMutex_proofs WITH
  Ops <- LockOps, Keys <- {Vault}, KeyOf <- [o \in LockOps |-> Vault]

-----------------------------------------------------------------------------
(* The lock of the vault. *)

Stages == {"idle", "queued", "running", "settled"}

LEMMA OneLock == Lock!LockConstants
  BY TeamBrainAssumption DEF Lock!LockConstants, LockOps, Rows, Cards

LEMMA SameLock ==
  ASSUME NEW o \in LockOps
  PROVE  /\ GM!Call(o) => Lock!Call(o)
         /\ GM!Start(o) => Lock!Start(o)
         /\ GM!Settle(o) => Lock!Settle(o)
         /\ GM!Drop(o) => Lock!Drop(o)
         /\ GM!Restart => Lock!Restart
         /\ GM!Init => Lock!Init
  BY DEF GM!Call, Lock!Call, GM!Active, Lock!Active, GM!Start, Lock!Start, GM!Settle,
         Lock!Settle, GM!Drop, Lock!Drop, GM!Restart, Lock!Restart, GM!Init, Lock!Init

\* What each call of the lock does to the stages of its callers.
LEMMA LockMoves ==
  ASSUME stage \in [LockOps -> Stages], NEW o \in LockOps
  PROVE  /\ GM!Call(o) => stage[o] = "idle" /\ stage' = [stage EXCEPT ![o] = "queued"]
         /\ GM!Start(o) => stage[o] = "queued" /\ stage' = [stage EXCEPT ![o] = "running"]
         /\ GM!Settle(o) => stage[o] = "running" /\ stage' = [stage EXCEPT ![o] = "settled"]
         /\ GM!Drop(o) => stage[o] = "settled" /\ stage' = [stage EXCEPT ![o] = "idle"]
         /\ GM!Restart => stage' = [p \in LockOps |-> "idle"]
  BY DEF GM!Call, GM!Start, GM!Settle, GM!Drop, GM!Restart

LEMMA LockFacts ==
  ASSUME Lock!LockInv
  PROVE  /\ stage \in [LockOps -> Stages]
         /\ GM!TypeOK
         /\ \A o, p \in LockOps : stage[o] = "running" /\ stage[p] = "running" => o = p
<1>1. stage \in [LockOps -> Stages] /\ GM!TypeOK
  BY DEF Lock!LockInv, Lock!TypeOK, GM!TypeOK, Stages
<1>2. \A o, p \in LockOps : stage[o] = "running" /\ stage[p] = "running" => o = p
  BY DEF Lock!LockInv, Lock!ChainIsTheQueue, Lock!Ordered, Lock!Active
<1>. QED  BY <1>1, <1>2

LEMMA CardsLock == Cards \subseteq LockOps /\ "boot" \in LockOps /\ "restore" \in LockOps
                     /\ "boot" \notin Cards /\ "restore" \notin Cards /\ "boot" # "restore"
  BY TeamBrainAssumption DEF LockOps

\* Every step of the team brain is a step of its lock, or leaves it alone.
LEMMA LockStep == [Next]_vars => [Lock!Next]_(Lock!lockVars)
<1> SUFFICES ASSUME [Next]_vars PROVE [Lock!Next]_(Lock!lockVars)
  OBVIOUS
<1> DEFINE Stays == UNCHANGED lockVars
           Moves == Lock!Restart \/ \E o \in LockOps :
                      Lock!Call(o) \/ Lock!Start(o) \/ Lock!Settle(o) \/ Lock!Drop(o)
<1>1. Stays \/ Moves => [Lock!Next]_(Lock!lockVars)
  BY DEF Lock!Next, Lock!lockVars, lockVars
<1>2. CASE \E s \in Sources : Propose(s) \/ Submit(s) \/ Answer(s) \/ Withdraw(s)
  BY <1>1, <1>2 DEF Propose, Submit, Answer, Withdraw, Rest
<1>3. ASSUME NEW c \in Cards,
             Cancel(c) \/ Prepare(c) \/ Draft(c) \/ PressRefusal(c)
      PROVE  Stays
  BY <1>3 DEF Cancel, Prepare, Draft, PressRefusal, Rest
<1>4. ASSUME NEW c \in Cards, PressApprove(c) \/ WriteStep(c) PROVE Stays \/ Moves
  <2>1. CASE PressApprove(c) \/ Enter(c) \/ Finish(c) \/ Release(c)
    BY <2>1, SameLock, CardsLock DEF PressApprove, Enter, Finish, Release
  <2>2. CASE Check(c) \/ Write(c) \/ CommitFails(c) \/ Commit(c)
    BY <2>2, SameLock, CardsLock DEF Check, Write, CommitFails, Commit, Ends
  <2>. QED  BY <1>4, <2>1, <2>2 DEF WriteStep
<1>5. ASSUME NEW R \in SUBSET Rows, Expire(R) \/ Rewind(R) PROVE Stays
  BY <1>5 DEF Expire, Rewind, Rest
<1>6. ASSUME NEW c \in Cards, NEW s \in Sources \cup {None}, NEW p \in Pages, Read(c, s, p)
      PROVE  Stays
  BY <1>6 DEF Read, Rest
<1>7. ASSUME NEW c \in Reviews, NEW s \in Sources, NEW d \in {"reject", "ask"},
             DraftRefusal(c, s, d)
      PROVE  Stays
  BY <1>7 DEF DraftRefusal, Rest
<1>8. CASE \E o \in LockOps : DropLock(o)
  BY <1>1, <1>8, SameLock DEF DropLock
<1>9. CASE \E p \in Leaving : DeleteUser(p)
  BY <1>1, <1>9 DEF DeleteUser
<1>10. CASE RestoreAsk \/ RestoreStep \/ Crash
  BY <1>1, <1>10, SameLock, CardsLock DEF RestoreAsk, RestoreStep, RestoreEnter, RestoreEnd, Crash
<1>11. CASE BootStep
  BY <1>1, <1>11, SameLock, CardsLock
     DEF BootStep, Boot, BootEnter, BootSettle, SweepList, SweepLog, SweepFix
<1>12. CASE UNCHANGED vars
  BY <1>1, <1>12 DEF vars, lockVars
<1>. QED
  BY <1>1, <1>2, <1>3, <1>4, <1>5, <1>6, <1>7, <1>8, <1>9, <1>10, <1>11, <1>12 DEF Next

LEMMA LockInvInit == Init => Lock!LockInv
  BY SameLock, OneLock, CardsLock, Lock!LockInvInit DEF Init

LEMMA LockInvStep == Lock!LockInv /\ [Next]_vars => Lock!LockInv'
  BY OneLock, LockStep, Lock!LockInvStep

\* The vault is served first come, first served.
THEOREM VaultIsAFifoLock == Spec => IsAFifoLock
<1>1. Lock!LockInv /\ [Next]_vars => [GM!Fifo!Next]_(GM!Fifo!fifoVars)
  <2> SUFFICES ASSUME Lock!LockInv, [Next]_vars PROVE [GM!Fifo!Next]_(GM!Fifo!fifoVars)
    OBVIOUS
  <2>1. Lock!Fifo!Next => GM!Fifo!Next
    BY DEF Lock!Fifo!Next, Lock!Fifo!Ask, Lock!Fifo!Hold, Lock!Fifo!Leave, Lock!Fifo!Restart,
           GM!Fifo!Next, GM!Fifo!Ask, GM!Fifo!Hold, GM!Fifo!Leave, GM!Fifo!Restart
  <2>2. UNCHANGED Lock!Fifo!fifoVars => UNCHANGED GM!Fifo!fifoVars
    BY DEF Lock!Fifo!fifoVars, GM!Fifo!fifoVars
  <2>3. [Lock!Fifo!Next]_(Lock!Fifo!fifoVars)
    BY LockStep, Lock!FifoStep
  <2>. QED  BY <2>1, <2>2, <2>3
<1>2. Init => GM!Fifo!Init
  BY DEF Init, GM!Init, GM!Fifo!Init
<1>. QED
  BY <1>1, <1>2, LockInvInit, LockInvStep, PTL DEF Spec, IsAFifoLock, GM!IsAFifoLock, GM!Fifo!Spec

-----------------------------------------------------------------------------
(* Types. *)

SrcStates == {"none", "draft", "pending", "needs_info", "approved", "rejected", "withdrawn",
              "expired", "gone"}
SrcRow == [st : SrcStates, round : 0..MaxRounds]
CardStates == {"none", "read", "prepared", "draft", "applied", "cancelled", "expired", "gone"}
CardRow == [st : CardStates, target : Sources \cup {None},
            decision : {"approve", "reject", "ask"}, page : Pages \cup {None},
            base : Cards \cup {"mirror", None}, round : 0..MaxRounds]
JobRow == [phase : {"none", "asked", "entered", "checked", "written", "done", "failed"},
           voided : SUBSET Reviews]
Ids == Sources \cup Directs
BootRow == [phase : {"up", "down", "migrate", "list", "log", "fix"},
            rows : SUBSET Cards, log : SUBSET Ids]

\* TypeOK without the lock, which comes with its own.
Typed ==
  /\ src \in [Sources -> SrcRow] /\ card \in [Cards -> CardRow]
  /\ left \in SUBSET Leaving
  /\ job \in [Cards -> JobRow]
  /\ head \in [Pages -> Cards \cup {"mirror", None}]
  /\ landed \in SUBSET Ids /\ stray \in SUBSET Cards
  /\ boot \in BootRow
  /\ restore \in {"idle", "asked", "cloning", "refused", "ended"}
  /\ crashes \in 0..MaxUpsets
  /\ late \in SUBSET Cards

\* Only a review decides on a source, and one that was ever read has its own.
Aimed ==
  \A c \in Cards :
    /\ card[c].target # None => c \in Reviews /\ card[c].target \in Sources
    /\ c \in Reviews /\ (card[c].st \notin {"none", "gone"} \/ job[c].phase # "none")
         => card[c].target # None
    /\ card[c].decision # "approve" => card[c].target # None

LEMMA Bounds ==
  /\ MaxRounds \in Nat /\ MaxUpsets \in Nat
  /\ None \notin Sources /\ None \notin Cards
  BY TeamBrainAssumption DEF Rows

LEMMA NoCardTyped == NoCard \in CardRow /\ NoJob \in JobRow /\ Started \in BootRow
  BY Bounds DEF NoCard, CardRow, CardStates, NoJob, JobRow, Started, BootRow

\* A card whose state changes is otherwise the card it was.
LEMMA StateChange ==
  ASSUME NEW r \in CardRow, NEW st \in CardStates
  PROVE  /\ [r EXCEPT !.st = st] \in CardRow
         /\ [r EXCEPT !.st = st].st = st
         /\ [r EXCEPT !.st = st].target = r.target
         /\ [r EXCEPT !.st = st].decision = r.decision
         /\ [r EXCEPT !.st = st].page = r.page
         /\ [r EXCEPT !.st = st].base = r.base
         /\ [r EXCEPT !.st = st].round = r.round
  BY DEF CardRow

Same(r, q) == r.target = q.target /\ r.decision = q.decision /\ r.page = q.page /\ r.base = q.base

LEMMA WithCardsIs ==
  ASSUME card \in [Cards -> CardRow], NEW C, NEW st \in CardStates
  PROVE  /\ WithCards(C, st) \in [Cards -> CardRow]
         /\ \A c \in Cards : /\ Same(WithCards(C, st)[c], card[c])
                             /\ WithCards(C, st)[c].st = IF c \in C THEN st ELSE card[c].st
  BY StateChange DEF WithCards, Same

LEMMA SrcChange ==
  ASSUME NEW r \in SrcRow, NEW st \in SrcStates
  PROVE  /\ [r EXCEPT !.st = st] \in SrcRow
         /\ [r EXCEPT !.st = st].st = st /\ [r EXCEPT !.st = st].round = r.round
  BY DEF SrcRow

LEMMA SrcUpdate ==
  ASSUME src \in [Sources -> SrcRow], NEW s \in Sources, NEW st \in SrcStates
  PROVE  /\ [src EXCEPT ![s].st = st] \in [Sources -> SrcRow]
         /\ \A q \in Sources : [src EXCEPT ![s].st = st][q].st = IF q = s THEN st ELSE src[q].st
  BY SrcChange

LEMMA CardUpdate ==
  ASSUME NEW f \in [Cards -> CardRow], NEW c \in Cards, NEW st \in CardStates
  PROVE  /\ [f EXCEPT ![c].st = st] \in [Cards -> CardRow]
         /\ \A d \in Cards : /\ Same([f EXCEPT ![c].st = st][d], f[d])
                             /\ [f EXCEPT ![c].st = st][d].st = IF d = c THEN st ELSE f[d].st
  BY StateChange DEF Same

LEMMA JobUpdate ==
  ASSUME job \in [Cards -> JobRow], NEW c \in Cards,
         NEW ph \in {"none", "asked", "entered", "checked", "written", "done", "failed"}
  PROVE  /\ [job EXCEPT ![c].phase = ph] \in [Cards -> JobRow]
         /\ \A d \in Cards : [job EXCEPT ![c].phase = ph][d].phase
                                = IF d = c THEN ph ELSE job[d].phase
  BY DEF JobRow

LEMMA TypedInit == Init => Typed
  BY NoCardTyped, Bounds DEF Init, Typed, SrcRow, SrcStates

\* The counts of upsets are numbers, and a step that upsets leaves room.
LEMMA UpsetBound ==
  ASSUME Typed, MayUpset
  PROVE  crashes + 1 \in 0..MaxUpsets
<1>1. IsFiniteSet(late)
  BY TeamBrainAssumption, FS_Subset DEF Typed
<1>2. Cardinality(late) \in Nat
  BY <1>1, FS_CardinalityType
<1>. QED  BY <1>2, Bounds DEF Typed, MayUpset

USE DEF SrcStates, rowVars, vaultVars, lockVars, Rest

\* Steps that touch rows alone.
LEMMA RowsTyped ==
  ASSUME Typed, UNCHANGED <<job, head, landed, stray, boot, restore, crashes, late>>,
         left' \in SUBSET Leaving,
         src' \in [Sources -> SrcRow], card' \in [Cards -> CardRow]
  PROVE  Typed'
  BY DEF Typed

LEMMA DroppedTyped ==
  ASSUME Typed, NEW R, NEW a \in {"expired", "withdrawn"}, NEW b \in {"expired", "cancelled"},
         Dropped(R, a, b)
  PROVE  src' \in [Sources -> SrcRow] /\ card' \in [Cards -> CardRow]
<1>1. card' \in [Cards -> CardRow]
  BY WithCardsIs DEF Dropped, Typed, CardStates
<1>2. ASSUME NEW s \in Sources PROVE src'[s] \in SrcRow
  <2>1. src[s] \in SrcRow  BY DEF Typed
  <2>2. CASE s \notin R  BY <2>1, <2>2 DEF Dropped
  <2>3. CASE s \in R /\ src[s].round > 0
    <3>1. src'[s] = [st |-> "needs_info", round |-> src[s].round - 1]
      BY <2>3 DEF Dropped
    <3>. QED  BY <2>1, <2>3, <3>1, Bounds DEF SrcRow
  <2>4. CASE s \in R /\ ~(src[s].round > 0)
    <3>1. src'[s] = [src[s] EXCEPT !.st = a]
      BY <2>4 DEF Dropped
    <3>2. a \in SrcStates  OBVIOUS
    <3>. QED  BY <2>1, <3>1, <3>2 DEF SrcRow
  <2>. QED  BY <2>2, <2>3, <2>4
<1>. QED  BY <1>1, <1>2 DEF Dropped

LEMMA SourceStepTyped ==
  ASSUME Typed, NEW s \in Sources, Propose(s) \/ Submit(s) \/ Answer(s) \/ Withdraw(s)
  PROVE  Typed'
<1>1. src[s] \in SrcRow  BY DEF Typed
<1>2. src' \in [Sources -> SrcRow]
  <2>1. CASE Answer(s)
    <3>1. [st |-> "draft", round |-> src[s].round + 1] \in SrcRow
      BY <1>1, <2>1, Bounds DEF Answer, SrcRow
    <3>. QED  BY <2>1, <3>1 DEF Answer, Typed
  <2>2. CASE ~ Answer(s)
    <3>1. PICK st \in SrcStates : src' = [src EXCEPT ![s].st = st]
      BY <2>2 DEF Propose, Submit, Withdraw
    <3>. QED  BY <3>1, SrcUpdate DEF Typed
  <2>. QED  BY <2>1, <2>2
<1>3. card' \in [Cards -> CardRow]
  BY WithCardsIs DEF Propose, Submit, Answer, Withdraw, Typed, CardStates
<1>. QED  BY <1>2, <1>3, RowsTyped DEF Propose, Submit, Answer, Withdraw, Typed

LEMMA ReadTyped ==
  ASSUME Typed, NEW c \in Cards, NEW s \in Sources \cup {None}, NEW p \in Pages, Read(c, s, p)
  PROVE  Typed'
<1> DEFINE r == [st |-> "read", target |-> s, decision |-> "approve", page |-> p,
                 base |-> head[p], round |-> IF s = None THEN 0 ELSE src[s].round]
<1>1. s # None => src[s].round \in 0..MaxRounds
  BY DEF Typed, SrcRow
<1>2. r \in CardRow
  BY <1>1, Bounds DEF Typed, CardRow, CardStates
<1>3. card' \in [Cards -> CardRow]
  BY <1>2 DEF Read, Typed
<1>. QED  BY <1>3, RowsTyped DEF Read, Typed

LEMMA DraftRefusalTyped ==
  ASSUME Typed, NEW c \in Reviews, NEW s \in Sources, NEW d \in {"reject", "ask"},
         DraftRefusal(c, s, d)
  PROVE  Typed'
<1> DEFINE r == [NoCard EXCEPT !.st = "draft", !.target = s, !.decision = d,
                               !.round = src[s].round]
<1>1. src[s].round \in 0..MaxRounds
  BY DEF Typed, SrcRow
<1>2. r \in CardRow
  BY <1>1 DEF NoCard, CardRow, CardStates
<1>3. card' \in [Cards -> CardRow]
  BY <1>2 DEF DraftRefusal, Typed, Cards
<1>. QED  BY <1>3, RowsTyped DEF DraftRefusal, Typed

LEMMA CardStepTyped ==
  ASSUME Typed, Aimed, NEW c \in Cards, Cancel(c) \/ Prepare(c) \/ Draft(c) \/ PressRefusal(c)
  PROVE  Typed'
<1>1. card' \in [Cards -> CardRow]
  <2>1. CASE Cancel(c) \/ Prepare(c) \/ Draft(c)
    BY <2>1, WithCardsIs DEF Cancel, Prepare, Draft, Typed, CardStates
  <2>2. CASE PressRefusal(c)
    <3> DEFINE w == WithCards(Rivals(card[c].target, c), "cancelled")
    <3>1. w \in [Cards -> CardRow]  BY WithCardsIs DEF Typed, CardStates
    <3>2. card' = [w EXCEPT ![c].st = "applied"]  BY <2>2 DEF PressRefusal
    <3> HIDE DEF w
    <3>. QED  BY <3>1, <3>2, CardUpdate DEF CardStates
  <2>. QED  BY <2>1, <2>2
<1>2. src' \in [Sources -> SrcRow]
  <2>1. CASE PressRefusal(c)
    <3> DEFINE st == IF card[c].decision = "reject" THEN "rejected" ELSE "needs_info"
    <3>1. card[c].target \in Sources  BY <2>1 DEF Aimed, PressRefusal, Pressable
    <3>2. src' = [src EXCEPT ![card[c].target].st = st] /\ st \in SrcStates
      BY <2>1 DEF PressRefusal, SrcStates
    <3>. QED  BY <3>1, <3>2, SrcUpdate DEF Typed
  <2>2. CASE ~ PressRefusal(c)
    BY <2>2 DEF Cancel, Prepare, Draft, Typed
  <2>. QED  BY <2>1, <2>2
<1>. QED  BY <1>1, <1>2, RowsTyped DEF Cancel, Prepare, Draft, PressRefusal, Typed

\* What the steps of a write leave of the others.
LEMMA PhaseTyped ==
  ASSUME Typed, NEW c \in Cards, NEW ph \in {"checked", "written", "done", "failed"},
         job' = [job EXCEPT ![c].phase = ph]
  PROVE  job' \in [Cards -> JobRow]
  BY JobUpdate DEF Typed

LEMMA PressTyped ==
  ASSUME Typed, Aimed, NEW c \in Cards, PressApprove(c) \/ WriteStep(c)
  PROVE  Typed'
<1>1. CASE PressApprove(c)
  <2> DEFINE voided == IF card[c].target = None THEN {} ELSE Rivals(card[c].target, c)
             w == WithCards(voided, "cancelled")
  <2>1. voided \in SUBSET Reviews  BY DEF Rivals
  <2>2. w \in [Cards -> CardRow]  BY WithCardsIs DEF Typed, CardStates
  <2>3. /\ card' = [w EXCEPT ![c].st = "applied"]
        /\ job' = [job EXCEPT ![c] = [phase |-> "asked", voided |-> voided]]
        /\ UNCHANGED <<src, left, head, landed, stray, boot, restore, crashes, late>>
    BY <1>1 DEF PressApprove
  <2> HIDE DEF w, voided
  <2>4. card' \in [Cards -> CardRow]  BY <2>2, <2>3, CardUpdate DEF CardStates
  <2>5. [phase |-> "asked", voided |-> voided] \in JobRow  BY <2>1 DEF JobRow
  <2>6. job' \in [Cards -> JobRow]  BY <2>3, <2>5 DEF Typed
  <2>. QED  BY <2>3, <2>4, <2>6 DEF Typed
<1>2. CASE Enter(c)
  BY <1>2, JobUpdate DEF Enter, Typed
<1>3. CASE Check(c)
  <2>0. PICK ph \in {"checked", "failed"} : job' = [job EXCEPT ![c].phase = ph]
    BY <1>3 DEF Check, Ends
  <2>1. job' \in [Cards -> JobRow]  BY <2>0, PhaseTyped
  <2>. QED  BY <1>3, <2>1 DEF Check, Typed
<1>4. CASE Write(c)
  <2>0. PICK ph \in {"written", "failed"} : job' = [job EXCEPT ![c].phase = ph]
    BY <1>4 DEF Write, Ends
  <2>1. job' \in [Cards -> JobRow]  BY <2>0, PhaseTyped
  <2>2. stray' \in SUBSET Cards  BY <1>4 DEF Write, Typed
  <2>. QED  BY <1>4, <2>1, <2>2 DEF Write, Typed
<1>5. CASE CommitFails(c)
  <2>1. job' \in [Cards -> JobRow]  BY <1>5, JobUpdate DEF CommitFails, Ends, Typed
  <2>2. stray' \in SUBSET Cards  BY <1>5 DEF CommitFails, Typed
  <2>. QED  BY <1>5, <2>1, <2>2 DEF CommitFails, Typed
<1>6. CASE Commit(c)
  <2>0. PICK ph \in {"done", "failed"} : job' = [job EXCEPT ![c].phase = ph]
    BY <1>6 DEF Commit, Ends
  <2>1. job' \in [Cards -> JobRow]  BY <2>0, PhaseTyped
  <2>2. stray' \in SUBSET Cards /\ late' \in SUBSET Cards  BY <1>6 DEF Commit, Typed
  <2>3. Trailer(c) \in Ids
    BY <1>6 DEF Commit, Aimed, Trailer, Ids, Cards
  <2>4. landed' \in SUBSET Ids /\ head' \in [Pages -> Cards \cup {"mirror", None}]
    BY <1>6, <2>3 DEF Commit, Typed
  <2>. QED  BY <1>6, <2>1, <2>2, <2>4 DEF Commit, Typed
<1>7. CASE Finish(c)
  <2>1. job' \in [Cards -> JobRow]  BY <1>7, NoCardTyped DEF Finish, Typed
  <2>2. src' \in [Sources -> SrcRow]
    <3>1. CASE card[c].target = None  BY <1>7, <3>1 DEF Finish, Typed
    <3>2. CASE card[c].target # None
      <4> DEFINE s == card[c].target
                 st == IF src[s].st \in {"pending", "draft", "needs_info", "rejected",
                                         "withdrawn", "expired"}
                       THEN "approved" ELSE src[s].st
      <4>1. s \in Sources  BY <3>2 DEF Aimed
      <4>2. src' = [src EXCEPT ![s].st = st]  BY <1>7, <3>2 DEF Finish, Approved
      <4>3. st \in SrcStates  BY <4>1 DEF Typed, SrcRow
      <4>4. src \in [Sources -> SrcRow]  BY DEF Typed
      <4> HIDE DEF s, st
      <4>. QED  BY <4>1, <4>2, <4>3, <4>4, SrcUpdate
    <3>. QED  BY <3>1, <3>2
  <2>. QED  BY <1>7, <2>1, <2>2 DEF Finish, Typed
<1>8. CASE Release(c)
  <2>1. job' \in [Cards -> JobRow]  BY <1>8, NoCardTyped DEF Release, Typed
  <2>2. card' \in [Cards -> CardRow]  BY <1>8, StateChange DEF Release, Typed, CardStates
  <2>. QED  BY <1>8, <2>1, <2>2 DEF Release, Typed
<1>. QED  BY <1>1, <1>2, <1>3, <1>4, <1>5, <1>6, <1>7, <1>8 DEF WriteStep

LEMMA VaultTyped ==
  ASSUME Typed, RestoreAsk \/ RestoreStep \/ \E o \in LockOps : DropLock(o)
  PROVE  Typed'
<1>1. CASE RestoreAsk \/ RestoreEnter
  BY <1>1 DEF RestoreAsk, RestoreEnter, Typed
<1>2. CASE RestoreEnd
  BY <1>2 DEF RestoreEnd, Typed
<1>3. CASE \E o \in LockOps : DropLock(o)
  BY <1>3 DEF DropLock, Typed
<1>. QED  BY <1>1, <1>2, <1>3 DEF RestoreStep

LEMMA EndTyped ==
  ASSUME Typed, Crash \/ \E p \in Leaving : DeleteUser(p)
  PROVE  Typed'
<1>1. CASE Crash
  <2>1. crashes' \in 0..MaxUpsets  BY <1>1, UpsetBound DEF Crash
  <2>2. card' \in [Cards -> CardRow] /\ job' \in [Cards -> JobRow]
    BY <1>1, NoCardTyped DEF Crash, Typed
  <2>3. boot' \in BootRow  BY <1>1 DEF Crash, BootRow, Claimed
  <2>. QED  BY <1>1, <2>1, <2>2, <2>3 DEF Crash, Typed
<1>2. ASSUME NEW p \in Leaving, DeleteUser(p) PROVE Typed'
  <2>1. card' \in [Cards -> CardRow]  BY <1>2, WithCardsIs DEF DeleteUser, Typed, CardStates
  <2>2. src' \in [Sources -> SrcRow]  BY <1>2, SrcChange DEF DeleteUser, Typed
  <2>3. left' \in SUBSET Leaving  BY <1>2 DEF DeleteUser, Typed
  <2>. QED  BY <1>2, <2>1, <2>2, <2>3 DEF DeleteUser, Typed
<1>. QED  BY <1>1, <1>2

LEMMA BootTyped ==
  ASSUME Typed, BootStep
  PROVE  Typed'
<1>1. boot \in BootRow /\ landed \in SUBSET Ids  BY DEF Typed
<1>2. CASE Boot \/ BootSettle \/ SweepList \/ SweepLog
  <2>1. boot' \in BootRow
    <3>1. CASE Boot \/ BootSettle  BY <1>1, <3>1 DEF Boot, BootSettle, BootRow
    <3>2. CASE SweepList  BY <1>1, <3>2, NoCardTyped DEF SweepList, BootRow
    <3>3. CASE SweepLog  BY <1>1, <3>3 DEF SweepLog, BootRow
    <3>. QED  BY <1>2, <3>1, <3>2, <3>3
  <2>. QED  BY <1>2, <2>1 DEF Boot, BootSettle, SweepList, SweepLog, Typed
<1>3. CASE BootEnter
  BY <1>3 DEF BootEnter, Typed
<1>4. CASE SweepFix
  <2>1. card' \in [Cards -> CardRow]  BY <1>4, StateChange DEF SweepFix, Typed, CardStates
  <2>2. src' \in [Sources -> SrcRow]  BY <1>4, SrcChange DEF SweepFix, Typed
  <2>. QED  BY <1>4, <2>1, <2>2, NoCardTyped DEF SweepFix, Typed
<1>. QED  BY <1>2, <1>3, <1>4 DEF BootStep

LEMMA TypedStep ==
  ASSUME Typed, Aimed, [Next]_vars
  PROVE  Typed'
<1>1. ASSUME NEW R \in SUBSET Rows, Expire(R) \/ Rewind(R) PROVE Typed'
  BY <1>1, DroppedTyped, RowsTyped DEF Expire, Rewind, Typed
<1>2. CASE UNCHANGED vars
  BY <1>2 DEF vars, Typed
<1>. QED
  BY <1>1, <1>2, SourceStepTyped, ReadTyped, DraftRefusalTyped, CardStepTyped, PressTyped,
     VaultTyped, EndTyped, BootTyped DEF Next

-----------------------------------------------------------------------------
(* The invariant. *)

Inside == {"entered", "checked", "written"}
Busy == {"asked", "failed"} \cup Inside

\* A press holds the vault exactly while it judges and writes, the restore
\* exactly while it clones or has been refused.
Seated ==
  /\ \A c \in Cards : /\ job[c].phase = "asked" <=> stage[c] = "queued"
                      /\ job[c].phase \in Inside <=> stage[c] = "running"
  /\ restore = "asked" <=> stage["restore"] = "queued"
  /\ restore \in {"cloning", "refused"} <=> stage["restore"] = "running"

\* Once judged, the page stays as the card saw it and its source is new; a
\* restore that clones does so because there is no page.
Judged ==
  /\ \A c \in Cards : job[c].phase \in {"checked", "written"} => Fits(c)
  /\ restore = "cloning" => Empty

\* A card stays claimed until its press is settled, unless the account that
\* pressed it goes.
Held ==
  \A c \in Cards : job[c].phase # "none" =>
    card[c].st \in {"applied", "gone"} /\ card[c].decision = "approve"

\* Two approvals of one source are never claimed at once, and a claimed one
\* pins its source.
ClaimInv ==
  /\ \A c, d \in Claimed : card[c].target = card[d].target /\ card[c].target # None => c = d
  /\ \A c \in Claimed : card[c].target # None =>
       src[card[c].target].st \in {"pending", "approved", "gone"}

\* What became of the source is more than its row can say: a commit of it was
\* reported failed, or an account that pressed an approval of it is gone.
Excused(s) == \E c \in Reviews : card[c].target = s /\ (c \in late \/ card[c].st = "gone")

\* A press under way whose source is in the vault did not put it there itself,
\* or was told that it failed to: the source is excused.
LandedInv ==
  /\ \A c \in late : card[c].st \notin {"none", "read", "prepared"}
  /\ \A c \in Cards : job[c].phase = "done" => Trailer(c) \in landed
  /\ \A c \in Claimed :
       card[c].target \in landed /\ job[c].phase \in Busy => Excused(card[c].target)

\* What the sweep goes by: claims nobody is working on, and a log that misses
\* no source but one that is excused.
SweepInv ==
  boot.phase # "up" =>
    /\ boot.log \subseteq landed
    /\ \A c \in boot.rows :
         /\ job[c].phase = "none"
         /\ card[c].st \in {"applied", "gone"} /\ card[c].decision = "approve"
         /\ boot.phase = "fix" /\ card[c].target \in landed
              => card[c].target \in boot.log \/ Excused(card[c].target)

VaultInv == Seated /\ Judged /\ WritersSeeHead
BookInv == Aimed /\ Held /\ ClaimInv /\ LandedInv /\ SweepInv /\ SourceFollowsVault
IInv == Lock!LockInv /\ Typed /\ VaultInv /\ BookInv

USE DEF Inside, Busy

LEMMA ClaimedIs ==
  /\ Claimed \subseteq Cards
  /\ \A c \in Cards : c \in Claimed <=> card[c].st = "applied" /\ card[c].decision = "approve"
  BY DEF Claimed

LEMMA FollowsIs ==
  SourceFollowsVault <=>
    \A s \in Sources :
      /\ src[s].st = "approved" => s \in landed
      /\ s \in landed => src[s].st \in {"approved", "gone"} \/ InFlight(s) \/ Excused(s)
  BY DEF SourceFollowsVault, Excused

LEMMA InvInit == Init => VaultInv /\ BookInv
<1> SUFFICES ASSUME Init PROVE VaultInv /\ BookInv
  OBVIOUS
<1>1. \A o \in LockOps : stage[o] = "idle"  BY DEF Init, GM!Init
<1>2. \A c \in Cards : job[c] = NoJob /\ card[c] = NoCard  BY DEF Init
<1>3. Claimed = {}  BY <1>2 DEF Claimed, NoCard
<1>4. VaultInv
  BY <1>1, <1>2, CardsLock DEF Init, VaultInv, Seated, Judged, WritersSeeHead, NoJob
<1>5. Aimed /\ Held  BY <1>2 DEF Aimed, Held, NoJob, NoCard
<1>6. ClaimInv /\ LandedInv /\ SweepInv
  BY <1>2, <1>3 DEF Init, ClaimInv, LandedInv, SweepInv, NoJob, Started
<1>7. SourceFollowsVault  BY DEF Init, SourceFollowsVault
<1>. QED  BY <1>4, <1>5, <1>6, <1>7 DEF BookInv

\* Nothing takes an excuse away.
LEMMA ExcuseStays ==
  ASSUME LandedInv, late \subseteq late',
         \A c \in Cards : card[c].st \notin {"none", "read", "prepared"} =>
           /\ card'[c].target = card[c].target
           /\ card[c].st = "gone" => card'[c].st = "gone"
  PROVE  \A s : Excused(s) => Excused(s)'
  BY DEF LandedInv, Excused, Cards

\* Steps that leave the vault and who is in it alone.
LEMMA VaultStill ==
  ASSUME VaultInv, UNCHANGED <<job, head, landed, stray, restore, stage>>,
         \A c \in Cards : job[c].phase # "none" => Same(card'[c], card[c])
  PROVE  VaultInv'
<1>1. Seated' /\ WritersSeeHead'  BY DEF VaultInv, Seated, WritersSeeHead
<1>2. \A c \in Cards : job[c].phase # "none" => Fits(c)' = Fits(c)
  BY DEF Fits, Same
<1>3. Judged'  BY <1>2 DEF VaultInv, Judged, Empty
<1>. QED  BY <1>1, <1>3 DEF VaultInv

\* What a step of people and avatars does to a card, and to a source.
Quiet(c) ==
  /\ card[c].st # "none" => Same(card'[c], card[c])
  /\ card'[c].st = "gone" <=> card[c].st = "gone"
  /\ card[c].st = "applied" => card'[c].st = "applied"
  /\ c \in Claimed' => c \in Claimed
  /\ card[c].st \notin {"none", "read", "prepared"} =>
       card'[c].st \notin {"none", "read", "prepared"}
QuietSource(s) ==
  \/ src'[s].st = src[s].st
  \/ /\ {src[s].st, src'[s].st} \cap {"approved", "gone"} = {}
     /\ ~ \E c \in Claimed : card[c].target = s

LEMMA QuietStep ==
  ASSUME IInv, UNCHANGED <<job, head, landed, stray, boot, restore, late, lockVars>>,
         \A c \in Cards : Quiet(c), \A s \in Sources : QuietSource(s), Aimed'
  PROVE  VaultInv' /\ BookInv'
<1> USE DEF BookInv, IInv
<1>1. VaultInv'
  <2>1. \A c \in Cards : job[c].phase # "none" => Same(card'[c], card[c])
    BY DEF Held, Quiet
  <2>. QED  BY <2>1, VaultStill
<1>2. \A c \in Claimed : card'[c].target = card[c].target
  BY ClaimedIs DEF Quiet, Same
<1>3. Claimed' = Claimed
  BY ClaimedIs DEF Quiet, Same, Claimed
<1>4. \A s : Excused(s) => Excused(s)'
  BY ExcuseStays DEF Quiet, Same
<1>5. Held'  BY DEF Held, Quiet, Same
<1>6. ClaimInv'
  <2>1. ASSUME NEW c \in Claimed, card[c].target # None
        PROVE  src'[card[c].target].st \in {"pending", "approved", "gone"}
    <3>1. card[c].target \in Sources  BY <2>1, ClaimedIs DEF Aimed
    <3>. QED  BY <2>1, <3>1 DEF ClaimInv, QuietSource
  <2>. QED  BY <1>2, <1>3, <2>1 DEF ClaimInv
<1>7. LandedInv'
  <2>1. \A c \in late' : card'[c].st \notin {"none", "read", "prepared"}
    BY DEF LandedInv, Quiet, Typed
  <2>2. \A c \in Cards : job'[c].phase = "done" => Trailer(c)' \in landed'
    BY DEF LandedInv, Held, Quiet, Same, Trailer
  <2>. QED  BY <1>2, <1>3, <1>4, <2>1, <2>2 DEF LandedInv
<1>8. SweepInv'
  <2> SUFFICES ASSUME boot.phase # "up", NEW c \in boot.rows
               PROVE  /\ card'[c].st \in {"applied", "gone"} /\ card'[c].decision = "approve"
                      /\ card'[c].target = card[c].target
    BY <1>4 DEF SweepInv
  <2>1. c \in Cards  BY DEF Typed, BootRow
  <2>. QED  BY <2>1 DEF SweepInv, Quiet, Same
<1>9. SourceFollowsVault'
  <2> SUFFICES ASSUME NEW s \in Sources
               PROVE  /\ src'[s].st = "approved" => s \in landed
                      /\ s \in landed => src'[s].st \in {"approved", "gone"} \/ InFlight(s)'
                                           \/ Excused(s)'
    BY DEF SourceFollowsVault, Excused
  <2>1. QuietSource(s)  OBVIOUS
  <2>2. InFlight(s) => InFlight(s)'
    BY <1>2, <1>3, <2>1 DEF InFlight, QuietSource
  <2>. QED  BY <1>4, <2>1, <2>2, FollowsIs DEF QuietSource
<1>. QED  BY <1>1, <1>5, <1>6, <1>7, <1>8, <1>9

\* Drafts, and cards in the making, end or go on: nothing is claimed by it.
LEMMA CardsQuiet ==
  ASSUME Typed, Aimed, job' = job,
         NEW C, NEW st \in {"prepared", "draft", "cancelled", "expired"},
         card' = WithCards(C, st),
         \A c \in C \cap Cards :
           \/ card[c].st \in {"read", "prepared"}
           \/ card[c].st = "draft" /\ st \in {"cancelled", "expired"}
  PROVE  Aimed' /\ \A c \in Cards : Quiet(c)
<1>1. \A c \in Cards : /\ Same(card'[c], card[c])
                       /\ card'[c].st = IF c \in C THEN st ELSE card[c].st
  BY WithCardsIs DEF Typed, CardStates
<1>2. Aimed'  BY <1>1 DEF Aimed, Same
<1>3. \A c \in Cards : Quiet(c)
  <2> SUFFICES ASSUME NEW c \in Cards PROVE Quiet(c)
    OBVIOUS
  <2>1. c \in Claimed' => c \in Claimed  BY <1>1 DEF Claimed, Same
  <2>. QED  BY <1>1, <2>1 DEF Quiet
<1>. QED  BY <1>2, <1>3

LEMMA CardsStill ==
  ASSUME Aimed, card' = card, job' = job
  PROVE  Aimed' /\ \A c \in Cards : Quiet(c)
  BY DEF Aimed, Quiet, Same, Claimed

\* A claim pins its source: one that is waiting for nobody, or that is pending
\* with no approval in flight, is not claimed.
LEMMA Unpinned ==
  ASSUME ClaimInv, NEW s \in Sources,
         \/ src[s].st \in {"none", "draft", "needs_info"}
         \/ src[s].st = "pending" /\ ~ InFlight(s)
  PROVE  ~ \E c \in Claimed : card[c].target = s
<1> SUFFICES ASSUME NEW c \in Claimed, card[c].target = s PROVE FALSE
  OBVIOUS
<1>1. s # None  BY Bounds
<1>. QED  BY <1>1 DEF ClaimInv, InFlight

LEMMA SourceQuiet ==
  ASSUME IInv, Typed', NEW s \in Sources, Propose(s) \/ Submit(s) \/ Answer(s) \/ Withdraw(s)
  PROVE  VaultInv' /\ BookInv'
<1>1. \A q \in Sources : q # s => src'[q] = src[q]
  BY DEF IInv, Typed, Propose, Submit, Answer, Withdraw
<1>2. src'[s].st \in {"draft", "pending", "withdrawn"}
  <2>1. CASE Answer(s)
    BY <2>1 DEF IInv, Typed, Answer
  <2>2. CASE ~ Answer(s)
    <3>1. PICK st \in {"draft", "pending", "withdrawn"} : src' = [src EXCEPT ![s].st = st]
      BY <2>2 DEF Propose, Submit, Withdraw
    <3>. QED  BY <3>1, SrcUpdate DEF IInv, Typed
  <2>. QED  BY <2>1, <2>2
<1>3. \/ src[s].st \in {"none", "draft", "needs_info"}
      \/ src[s].st = "pending" /\ ~ InFlight(s)
  BY DEF Propose, Submit, Answer, Withdraw
<1>4. \A q \in Sources : QuietSource(q)
  BY <1>1, <1>2, <1>3, Unpinned DEF IInv, BookInv, QuietSource
<1>5. Aimed' /\ \A c \in Cards : Quiet(c)
  <2>1. CASE Withdraw(s)
    BY <2>1, CardsQuiet DEF Withdraw, Rivals, IInv, BookInv
  <2>2. CASE ~ Withdraw(s)
    BY <2>2, CardsStill DEF Propose, Submit, Answer, IInv, BookInv
  <2>. QED  BY <2>1, <2>2
<1>. QED  BY <1>4, <1>5, QuietStep DEF Propose, Submit, Answer, Withdraw

LEMMA DroppedQuiet ==
  ASSUME IInv, Typed', NEW R \in SUBSET Rows, Expire(R) \/ Rewind(R)
  PROVE  VaultInv' /\ BookInv'
<1>1. PICK a \in {"expired", "withdrawn"}, b \in {"expired", "cancelled"} : Dropped(R, a, b)
  BY DEF Expire, Rewind
<1>2. ASSUME NEW s \in Sources PROVE QuietSource(s)
  <2>1. CASE s \notin R  BY <1>1, <2>1 DEF Dropped, QuietSource
  <2>2. CASE s \in R
    <3>1. src[s].st = "draft"
      BY <1>1, <2>2, TeamBrainAssumption DEF Dropped, Drafts
    <3>2. src'[s].st \in {"needs_info", a}
      BY <1>1, <2>2, SrcChange DEF Dropped, IInv, Typed
    <3>. QED  BY <3>1, <3>2, Unpinned DEF QuietSource, IInv, BookInv
  <2>. QED  BY <2>1, <2>2
<1>3. \A c \in R \cap Cards : card[c].st = "draft"
  BY <1>1, TeamBrainAssumption DEF Dropped, Drafts
<1>4. Aimed' /\ \A c \in Cards : Quiet(c)
  <2>1. card' = WithCards(R \cap Cards, b) /\ job' = job
    BY <1>1 DEF Dropped, Expire, Rewind
  <2>. QED  BY <1>3, <2>1, CardsQuiet DEF IInv, BookInv
<1>. QED  BY <1>2, <1>4, QuietStep DEF Expire, Rewind

LEMMA ReadQuiet ==
  ASSUME IInv, Typed', NEW c \in Cards, NEW s \in Sources \cup {None}, NEW p \in Pages,
         Read(c, s, p)
  PROVE  VaultInv' /\ BookInv'
<1>1. /\ card[c].st = "none" /\ card'[c].st = "read" /\ card'[c].decision = "approve"
      /\ card'[c].target = s /\ IF c \in Reviews THEN s \in Sources ELSE s = None
      /\ \A d \in Cards : d # c => card'[d] = card[d]
  BY DEF Read, MayBegin, IInv, Typed
<1>2. \A d \in Cards : Quiet(d)
  BY <1>1 DEF Quiet, Same, Claimed
<1>3. \A q \in Sources : QuietSource(q)  BY DEF Read, QuietSource
<1>4. Aimed'
  BY <1>1, Bounds DEF Aimed, IInv, BookInv, Read
<1>. QED  BY <1>2, <1>3, <1>4, QuietStep DEF Read

LEMMA DraftRefusalQuiet ==
  ASSUME IInv, Typed', NEW c \in Reviews, NEW s \in Sources, NEW d \in {"reject", "ask"},
         DraftRefusal(c, s, d)
  PROVE  VaultInv' /\ BookInv'
<1>1. /\ card[c].st = "none" /\ card'[c].st = "draft" /\ card'[c].target = s
      /\ \A q \in Cards : q # c => card'[q] = card[q]
  BY DEF DraftRefusal, MayBegin, IInv, Typed, NoCard, Cards
<1>2. \A q \in Cards : Quiet(q)
  BY <1>1 DEF Quiet, Same, Claimed
<1>3. \A q \in Sources : QuietSource(q)  BY DEF DraftRefusal, QuietSource
<1>4. Aimed'
  BY <1>1, Bounds DEF Aimed, IInv, BookInv, DraftRefusal
<1>. QED  BY <1>2, <1>3, <1>4, QuietStep DEF DraftRefusal

LEMMA CardQuiet ==
  ASSUME IInv, Typed', NEW c \in Cards, Cancel(c) \/ Prepare(c) \/ Draft(c)
  PROVE  VaultInv' /\ BookInv'
<1>1. PICK st \in {"prepared", "draft", "cancelled", "expired"} :
        /\ card' = WithCards({c}, st)
        /\ \/ card[c].st \in {"read", "prepared"}
           \/ card[c].st = "draft" /\ st \in {"cancelled", "expired"}
  BY DEF Cancel, Prepare, Draft
<1>2. Aimed' /\ \A d \in Cards : Quiet(d)
  BY <1>1, CardsQuiet DEF Cancel, Prepare, Draft, IInv, BookInv
<1>3. \A q \in Sources : QuietSource(q)  BY DEF Cancel, Prepare, Draft, QuietSource
<1>. QED  BY <1>2, <1>3, QuietStep DEF Cancel, Prepare, Draft

LEMMA PressRefusalQuiet ==
  ASSUME IInv, Typed', NEW c \in Cards, PressRefusal(c)
  PROVE  VaultInv' /\ BookInv'
<1> DEFINE s == card[c].target
           w == WithCards(Rivals(s, c), "cancelled")
<1>1. s \in Sources /\ card[c].st = "draft" /\ card[c].decision # "approve"
  BY DEF PressRefusal, Pressable, IInv, BookInv, Aimed
<1>2. src[s].st = "pending" /\ ~ InFlight(s)
  BY <1>1, Bounds DEF PressRefusal, Pressable
<1>3. /\ w \in [Cards -> CardRow]
      /\ \A d \in Cards : /\ Same(w[d], card[d])
                          /\ w[d].st = IF d \in Rivals(s, c) THEN "cancelled" ELSE card[d].st
  BY WithCardsIs DEF IInv, Typed, CardStates
<1>4. card' = [w EXCEPT ![c].st = "applied"]
  BY DEF PressRefusal
<1>5. \A d \in Rivals(s, c) : card[d].st = "draft"  BY DEF Rivals
<1>6. src'[s].st \in {"rejected", "needs_info"} /\ \A q \in Sources : q # s => src'[q] = src[q]
  BY <1>1 DEF PressRefusal, IInv, Typed
<1> HIDE DEF w, s
<1>7. \A d \in Cards :
        /\ Same(card'[d], card[d])
        /\ card'[d].st = IF d = c THEN "applied"
                         ELSE IF d \in Rivals(s, c) THEN "cancelled" ELSE card[d].st
  BY <1>3, <1>4, CardUpdate DEF CardStates, Same
<1>8. ASSUME NEW d \in Cards PROVE Quiet(d)
  <2>1. d \in Claimed' => d \in Claimed  BY <1>1, <1>7 DEF Claimed, Same
  <2>. QED  BY <1>1, <1>5, <1>7, <2>1 DEF Quiet
<1>9. \A q \in Sources : QuietSource(q)
  BY <1>1, <1>2, <1>6, Unpinned DEF QuietSource, IInv, BookInv
<1>10. Aimed'
  BY <1>1, <1>5, <1>7 DEF Aimed, Same, IInv, BookInv, PressRefusal
<1>. QED  BY <1>8, <1>9, <1>10, QuietStep DEF PressRefusal

-----------------------------------------------------------------------------
(* The press and the vault. *)

\* Steps that touch neither the rows nor what is committed.
LEMMA BooksStill ==
  ASSUME IInv, UNCHANGED <<src, card, landed, late>>,
         \A c \in Cards : job'[c].phase = job[c].phase \/ {job'[c].phase, job[c].phase} \subseteq Busy,
         boot'.phase # "up" =>
           /\ boot.phase # "up" /\ boot'.rows \subseteq boot.rows
           /\ \/ boot'.log = boot.log /\ (boot'.phase = "fix" => boot.phase = "fix")
              \/ boot'.log = landed
  PROVE  BookInv'
<1> USE DEF IInv, BookInv
<1>1. Claimed' = Claimed /\ \A s : Excused(s)' = Excused(s) /\ InFlight(s)' = InFlight(s)
  BY DEF Claimed, Excused, InFlight
<1>2. Aimed' /\ Held'  BY DEF Aimed, Held
<1>3. ClaimInv'  BY <1>1 DEF ClaimInv
<1>4. LandedInv'
  <2>1. Claimed \subseteq Cards  BY ClaimedIs
  <2>2. \A c \in Cards : Trailer(c)' = Trailer(c)  BY DEF Trailer
  <2>. QED  BY <1>1, <2>1, <2>2 DEF LandedInv
<1>5. SweepInv'
  <2> SUFFICES ASSUME boot'.phase # "up", NEW c \in boot'.rows
               PROVE  /\ boot'.log \subseteq landed
                      /\ job'[c].phase = "none"
                      /\ card[c].st \in {"applied", "gone"} /\ card[c].decision = "approve"
                      /\ boot'.phase = "fix" /\ card[c].target \in landed
                           => card[c].target \in boot'.log \/ Excused(card[c].target)
    BY <1>1 DEF SweepInv
  <2>1. c \in boot.rows /\ c \in Cards /\ boot.phase # "up"  BY DEF Typed, BootRow
  <2>. QED  BY <2>1 DEF SweepInv
<1>6. SourceFollowsVault'
  BY <1>1 DEF SourceFollowsVault, Excused
<1>. QED  BY <1>2, <1>3, <1>4, <1>5, <1>6

LEMMA NextLock ==
  ASSUME Lock!LockInv'
  PROVE  \A o, p \in LockOps : stage'[o] = "running" /\ stage'[p] = "running" => o = p
  BY DEF Lock!LockInv, Lock!ChainIsTheQueue, Lock!Ordered, Lock!Active

\* A step of the press of c: nobody else is inside while c is, before it or
\* after it, so what it does to the vault disturbs nobody.
LEMMA PressMoves ==
  ASSUME IInv, Lock!LockInv', NEW c \in Cards, restore' = restore,
         \A d \in Cards : d # c => job'[d].phase = job[d].phase,
         \A o \in LockOps : o # c => stage'[o] = stage[o],
         job'[c].phase = "asked" <=> stage'[c] = "queued",
         job'[c].phase \in Inside <=> stage'[c] = "running",
         \A d \in Cards : job[d].phase # "none" => Same(card'[d], card[d]),
         job'[c].phase \in {"entered", "checked"} => stray' = {},
         job'[c].phase = "written" => stray' = {c},
         job'[c].phase \in {"checked", "written"} => Fits(c)',
         \/ UNCHANGED <<head, landed, stray>>
         \/ {job[c].phase, job'[c].phase} \cap Inside # {}
  PROVE  VaultInv'
<1> USE DEF IInv, VaultInv
<1>1. \A o \in LockOps \ {c} :
        stage[o] = "running" => {job[c].phase, job'[c].phase} \cap Inside = {}
  BY LockFacts, NextLock, CardsLock DEF Seated
<1>2. Seated'
  BY CardsLock DEF Seated
<1>3. \A d \in Cards \ {c} : job[d].phase \in Inside =>
        UNCHANGED <<head, landed, stray>> /\ Same(card'[d], card[d])
  BY <1>1, CardsLock DEF Seated
<1>4. WritersSeeHead'
  BY <1>3 DEF WritersSeeHead
<1>5. restore = "cloning" => UNCHANGED head
  BY <1>1, CardsLock DEF Seated
<1>6. Judged'
  <2>1. \A d \in Cards \ {c} : job[d].phase \in {"checked", "written"} => Fits(d)'
    BY <1>3 DEF Judged, Fits, Same
  <2>. QED  BY <1>5, <2>1 DEF Judged, Empty
<1>. QED  BY <1>2, <1>4, <1>6

\* A step of another caller of the lock, which finds nobody inside if it
\* touches anything.
LEMMA OthersMove ==
  ASSUME IInv, job' = job, card' = card, landed' = landed,
         \A c \in Cards : \/ stage'[c] = stage[c]
                          \/ {stage[c], stage'[c]} \subseteq {"idle", "settled"},
         restore' = "asked" <=> stage'["restore"] = "queued",
         restore' \in {"cloning", "refused"} <=> stage'["restore"] = "running",
         restore' = "cloning" => Empty',
         \/ UNCHANGED <<head, stray>>
         \/ \A c \in Cards : stage[c] # "running"
  PROVE  VaultInv'
<1> USE DEF IInv, VaultInv
<1>1. Seated'  BY DEF Seated
<1>2. \/ UNCHANGED <<head, stray>>
      \/ \A c \in Cards : job[c].phase \notin Inside
  BY DEF Seated
<1>3. WritersSeeHead'  BY <1>2 DEF WritersSeeHead
<1>4. Judged'  BY <1>2 DEF Judged, Fits
<1>. QED  BY <1>1, <1>3, <1>4

LEMMA LockedVault ==
  ASSUME IInv, Lock!LockInv', Typed',
         RestoreAsk \/ RestoreStep \/ Boot \/ BootEnter \/ BootSettle
           \/ \E o \in LockOps : DropLock(o)
  PROVE  VaultInv' /\ BookInv'
<1> USE DEF IInv
<1>1. stage \in [LockOps -> Stages]  BY LockFacts
<1>2. /\ restore = "asked" <=> stage["restore"] = "queued"
      /\ restore \in {"cloning", "refused"} <=> stage["restore"] = "running"
      /\ restore = "cloning" => Empty
  BY DEF VaultInv, Seated, Judged
<1>3. CASE RestoreAsk
  <2>1. VaultInv'
    BY <1>1, <1>2, <1>3, CardsLock, LockMoves, OthersMove DEF RestoreAsk
  <2>2. BookInv'  BY <1>3, BooksStill DEF RestoreAsk, BookInv, SweepInv
  <2>. QED  BY <2>1, <2>2
<1>4. CASE RestoreEnter
  <2>1. \A c \in Cards : stage[c] # "running" /\ stage'[c] = stage[c]
    BY <1>1, <1>4, CardsLock, LockMoves, NextLock DEF RestoreEnter
  <2>2. stage'["restore"] = "running"
    BY <1>1, <1>4, CardsLock, LockMoves DEF RestoreEnter
  <2>3. VaultInv'
    <3>1. restore' \in {"cloning", "refused"} /\ (restore' = "cloning" => Empty')
      BY <1>4 DEF RestoreEnter, Empty
    <3>. QED  BY <1>4, <2>1, <2>2, <3>1, OthersMove DEF RestoreEnter
  <2>4. BookInv'  BY <1>4, BooksStill DEF RestoreEnter
  <2>. QED  BY <2>3, <2>4
<1>5. CASE RestoreEnd
  <2>1. \A c \in Cards : stage[c] # "running" /\ stage'[c] = stage[c]
    BY <1>1, <1>5, CardsLock, LockMoves, LockFacts DEF RestoreEnd
  <2>2. stage'["restore"] = "settled"
    BY <1>1, <1>5, CardsLock, LockMoves DEF RestoreEnd
  <2>3. VaultInv'
    BY <1>5, <2>1, <2>2, OthersMove DEF RestoreEnd
  <2>4. BookInv'  BY <1>5, BooksStill DEF RestoreEnd
  <2>. QED  BY <2>3, <2>4
<1>6. CASE Boot \/ BootSettle
  <2>1. \A o \in LockOps : o # "boot" => stage'[o] = stage[o]
    BY <1>1, <1>6, CardsLock, LockMoves DEF Boot, BootSettle
  <2>2. VaultInv'
    BY <1>2, <1>6, <2>1, CardsLock, OthersMove DEF Boot, BootSettle, Empty
  <2>3. BookInv'
    BY <1>6, BooksStill DEF Boot, BootSettle, Typed, BootRow
  <2>. QED  BY <2>2, <2>3
<1>7. CASE BootEnter
  <2>1. \A o \in LockOps : o # "boot" => stage'[o] = stage[o] /\ stage[o] # "running"
    BY <1>1, <1>7, CardsLock, LockMoves, NextLock DEF BootEnter
  <2>2. VaultInv'
    BY <1>2, <1>7, <2>1, CardsLock, OthersMove DEF BootEnter, Empty
  <2>3. BookInv'  BY <1>7, BooksStill DEF BootEnter
  <2>. QED  BY <2>2, <2>3
<1>8. ASSUME NEW o \in LockOps, DropLock(o) PROVE VaultInv' /\ BookInv'
  <2>1. stage[o] = "settled" /\ stage' = [stage EXCEPT ![o] = "idle"]
    BY <1>1, <1>8, LockMoves DEF DropLock
  <2>2. VaultInv'
    BY <1>1, <1>2, <1>8, <2>1, CardsLock, OthersMove DEF DropLock, Empty
  <2>3. BookInv'  BY <1>8, BooksStill DEF DropLock
  <2>. QED  BY <2>2, <2>3
<1>. QED  BY <1>3, <1>4, <1>5, <1>6, <1>7, <1>8 DEF RestoreStep

\* Until it commits, a write touches only the working tree.
LEMMA WriteQuiet ==
  ASSUME IInv, Lock!LockInv', Typed', NEW c \in Cards,
         Enter(c) \/ Check(c) \/ Write(c) \/ CommitFails(c)
  PROVE  VaultInv' /\ BookInv'
<1> USE DEF IInv
<1>1. stage \in [LockOps -> Stages] /\ job \in [Cards -> JobRow] /\ c \in LockOps
  BY LockFacts, CardsLock DEF Typed
<1>2. /\ job[c].phase = "asked" <=> stage[c] = "queued"
      /\ job[c].phase \in Inside <=> stage[c] = "running"
      /\ job[c].phase \in {"entered", "checked"} => stray = {}
      /\ job[c].phase = "written" => stray = {c}
      /\ job[c].phase \in {"checked", "written"} => Fits(c)
  BY DEF VaultInv, Seated, WritersSeeHead, Judged
<1>3. Fits(c)' = Fits(c)
  BY DEF Enter, Check, Write, CommitFails, Fits
<1>4. PICK ph \in {"entered", "checked", "written", "failed"} :
        /\ job' = [job EXCEPT ![c].phase = ph]
        /\ ph = "failed" => GM!Settle(c)
        /\ ph \in {"checked", "written"} => stage' = stage /\ job[c].phase \in Inside
        /\ ph = "entered" => GM!Start(c) /\ Enter(c)
        /\ ph = "checked" => Fits(c) /\ stray' = stray /\ job[c].phase = "entered"
        /\ ph = "written" => stray' = stray \cup {c} /\ job[c].phase = "checked"
  <2>1. CASE Enter(c)  BY <2>1 DEF Enter
  <2>2. CASE Check(c)  BY <2>2 DEF Check, Ends
  <2>3. CASE Write(c)  BY <2>3 DEF Write, Ends
  <2>4. CASE CommitFails(c)  BY <2>4 DEF CommitFails, Ends
  <2>. QED  BY <2>1, <2>2, <2>3, <2>4
<1>5. \A d \in Cards : job'[d].phase = IF d = c THEN ph ELSE job[d].phase
  BY <1>1, <1>4, JobUpdate
<1>6. /\ \A o \in LockOps : o # c => stage'[o] = stage[o]
      /\ ph = "entered" => stage[c] = "queued" /\ stage'[c] = "running"
      /\ ph = "failed" => stage[c] = "running" /\ stage'[c] = "settled"
      /\ ph \in {"checked", "written"} => stage'[c] = "running"
  BY <1>1, <1>2, <1>4, LockMoves
<1>7. VaultInv'
  <2>1. UNCHANGED <<card, head, landed, restore>>
    BY DEF Enter, Check, Write, CommitFails
  <2>2. /\ ph \in {"entered", "checked"} => stray' = {}
        /\ ph = "written" => stray' = {c}
        /\ ph \in {"checked", "written"} => Fits(c)'
    BY <1>2, <1>3, <1>4 DEF Enter
  <2>3. {job[c].phase, job'[c].phase} \cap Inside # {}
    BY <1>2, <1>5, <1>6
  <2>4. \A d \in Cards : Same(card'[d], card[d])
    BY <2>1 DEF Same
  <2>5. /\ job'[c].phase = "asked" <=> stage'[c] = "queued"
        /\ job'[c].phase \in Inside <=> stage'[c] = "running"
    BY <1>5, <1>6
  <2>. QED  BY <1>5, <1>6, <2>1, <2>2, <2>3, <2>4, <2>5, PressMoves
<1>8. BookInv'
  <2>1. job[c].phase \in Busy
    BY <1>2, <1>4, <1>6
  <2>2. \A d \in Cards :
          job'[d].phase = job[d].phase \/ {job'[d].phase, job[d].phase} \subseteq Busy
    BY <1>5, <2>1
  <2>. QED  BY <2>2, BooksStill DEF Enter, Check, Write, CommitFails
<1>. QED  BY <1>7, <1>8

LEMMA PressApproveStep ==
  ASSUME IInv, Lock!LockInv', Typed', NEW c \in Cards, PressApprove(c)
  PROVE  VaultInv' /\ BookInv'
<1> USE DEF IInv, BookInv
<1> DEFINE s == card[c].target
           voided == IF s = None THEN {} ELSE Rivals(s, c)
           w == WithCards(voided, "cancelled")
<1>1. /\ card[c].st = "draft" /\ card[c].decision = "approve" /\ boot.phase # "down"
      /\ s # None => s \in Sources /\ src[s].st = "pending" /\ ~ InFlight(s)
  BY DEF PressApprove, Pressable, Up, Aimed
<1>2. \A d \in voided : card[d].st = "draft" /\ d # c  BY DEF Rivals
<1>3. /\ w \in [Cards -> CardRow]
      /\ \A d \in Cards : /\ Same(w[d], card[d])
                          /\ w[d].st = IF d \in voided THEN "cancelled" ELSE card[d].st
  BY WithCardsIs DEF Typed, CardStates
<1>4. /\ card' = [w EXCEPT ![c].st = "applied"]
      /\ job' = [job EXCEPT ![c] = [phase |-> "asked", voided |-> voided]]
      /\ GM!Call(c)
      /\ UNCHANGED <<src, left, head, landed, stray, boot, restore, crashes, late>>
  BY DEF PressApprove
<1>5. job[c].phase = "none"  BY <1>1 DEF Held
<1>6. \A d \in Cards : job'[d].phase = IF d = c THEN "asked" ELSE job[d].phase
  BY <1>4 DEF Typed
<1> HIDE DEF w, voided
<1>7. \A d \in Cards :
        /\ Same(card'[d], card[d])
        /\ card'[d].st = IF d = c THEN "applied"
                         ELSE IF d \in voided THEN "cancelled" ELSE card[d].st
  BY <1>3, <1>4, CardUpdate DEF CardStates, Same
<1> HIDE DEF s
<1>8. VaultInv'
  <2>1. /\ \A o \in LockOps : o # c => stage'[o] = stage[o]
        /\ stage'[c] = "queued"
    BY <1>4, LockFacts, LockMoves, CardsLock
  <2>. QED  BY <1>4, <1>6, <1>7, <2>1, PressMoves
<1>9. Claimed' = Claimed \cup {c} /\ c \notin Claimed
  BY <1>1, <1>2, <1>7 DEF Claimed, Same
<1>10. \A q : Excused(q) => Excused(q)'
  BY <1>1, <1>2, <1>4, <1>7, ExcuseStays DEF Same
<1>11. Aimed'
  BY <1>1, <1>2, <1>6, <1>7 DEF Aimed, Same
<1>12. Held'
  BY <1>1, <1>2, <1>6, <1>7 DEF Held, Same
<1>13. ASSUME NEW d \in Claimed, card[d].target = s, s # None PROVE FALSE
  BY <1>1, <1>13 DEF InFlight
<1>14. \A d \in Cards : card'[d].target = card[d].target /\ card'[d].decision = card[d].decision
  BY <1>7 DEF Same
<1>15. ClaimInv'
  BY <1>1, <1>4, <1>9, <1>13, <1>14, ClaimedIs DEF ClaimInv, s
<1>16. LandedInv'
  <2>1. \A d \in late' : card'[d].st \notin {"none", "read", "prepared"}
    BY <1>4, <1>7 DEF LandedInv, Typed
  <2>2. \A d \in Cards : job'[d].phase = "done" => Trailer(d)' \in landed'
    BY <1>4, <1>6, <1>14 DEF LandedInv, Trailer
  <2>3. ASSUME s \in landed PROVE Excused(s)
    <3>1. s \in Sources  BY <1>1, <2>3, TeamBrainAssumption DEF Typed, Ids, Rows, Cards
    <3>. QED  BY <1>1, <2>3, <3>1, Bounds, FollowsIs
  <2>. QED  BY <1>4, <1>6, <1>9, <1>10, <1>14, <2>1, <2>2, <2>3, ClaimedIs DEF LandedInv, s
<1>17. SweepInv'
  <2> SUFFICES ASSUME boot.phase # "up", NEW d \in boot.rows
               PROVE  /\ job'[d].phase = "none"
                      /\ card'[d].st \in {"applied", "gone"} /\ card'[d].decision = "approve"
                      /\ card'[d].target = card[d].target
    BY <1>4, <1>10 DEF SweepInv
  <2>1. d \in Cards  BY DEF Typed, BootRow
  <2>2. card[d].st \in {"applied", "gone"} /\ card[d].decision = "approve" /\ job[d].phase = "none"
    BY DEF SweepInv
  <2>. QED  BY <1>1, <1>2, <1>6, <1>7, <1>14, <2>1, <2>2
<1>18. SourceFollowsVault'
  <2>1. \A q \in Sources : InFlight(q) => InFlight(q)'
    BY <1>4, <1>9, <1>14, ClaimedIs DEF InFlight
  <2>. QED  BY <1>4, <1>10, <2>1, FollowsIs DEF SourceFollowsVault, Excused
<1>. QED  BY <1>8, <1>11, <1>12, <1>15, <1>16, <1>17, <1>18

\* Whoever else aims at the source of a press is gone, or the press itself is.
LEMMA OneClaim ==
  ASSUME BookInv, NEW c \in Cards, job[c].phase # "none", card[c].target # None,
         NEW d \in Cards, card[d].target = card[c].target, d # c,
         d \in Claimed \/ card[d].st = "gone"
  PROVE  Excused(card[c].target)
<1> USE DEF BookInv
<1>1. c \in Reviews /\ d \in Reviews  BY DEF Aimed
<1>2. CASE card[c].st = "gone" \/ card[d].st = "gone"
  BY <1>1, <1>2 DEF Excused
<1>3. CASE card[c].st = "applied" /\ d \in Claimed
  <2>1. c \in Claimed  BY <1>3, ClaimedIs DEF Held
  <2>. QED  BY <1>3, <2>1 DEF ClaimInv
<1>. QED  BY <1>2, <1>3 DEF Held

LEMMA CommitStep ==
  ASSUME IInv, Lock!LockInv', Typed', NEW c \in Cards, Commit(c)
  PROVE  VaultInv' /\ BookInv'
<1> USE DEF IInv, BookInv
<1> DEFINE s == card[c].target
<1>1. /\ job[c].phase = "written" /\ landed' = landed \cup {Trailer(c)}
      /\ UNCHANGED <<src, left, card, boot, restore, crashes>>
  BY DEF Commit
<1>2. PICK ph \in {"done", "failed"} :
        /\ job' = [job EXCEPT ![c].phase = ph] /\ GM!Settle(c)
        /\ late' = IF ph = "done" THEN late ELSE late \cup {c}
  BY DEF Commit, Ends
<1>3. \A d \in Cards : job'[d].phase = IF d = c THEN ph ELSE job[d].phase
  BY <1>2, JobUpdate DEF Typed
<1>4. VaultInv'
  <2>1. /\ \A o \in LockOps : o # c => stage'[o] = stage[o]
        /\ stage'[c] = "settled"
    BY <1>2, LockFacts, LockMoves, CardsLock
  <2>. QED  BY <1>1, <1>3, <2>1, PressMoves DEF Same
<1>5. Aimed' /\ Held'
  BY <1>1, <1>3 DEF Aimed, Held
<1>6. Claimed' = Claimed /\ \A q : InFlight(q)' = InFlight(q)
  BY <1>1 DEF Claimed, InFlight
<1>7. \A q : Excused(q) => Excused(q)'
  BY <1>1, <1>2 DEF Excused
<1>8. ClaimInv'  BY <1>1, <1>6 DEF ClaimInv
<1>9. card[c].st \in {"applied", "gone"} /\ card[c].decision = "approve"
  BY <1>1 DEF Held
<1>10. s # None => s \in Sources /\ c \in Reviews /\ Trailer(c) = s
  BY DEF Aimed, Trailer
<1>11. ASSUME NEW d \in Cards, card[d].target \in landed' \ landed
       PROVE  s # None /\ card[d].target = s
  <2>1. card[d].target = Trailer(c)  BY <1>1, <1>11
  <2>2. card[d].target # c
    BY TeamBrainAssumption DEF Typed, CardRow, Rows
  <2>. QED  BY <2>1, <2>2, <1>10, <1>11, TeamBrainAssumption DEF Typed, CardRow, Rows, Trailer
<1>12. ASSUME NEW d \in Cards, d # c, card[d].target \in landed' \ landed,
              d \in Claimed \/ card[d].st = "gone"
       PROVE  Excused(card[d].target)
  BY <1>1, <1>11, <1>12, OneClaim
<1>13. LandedInv'
  <2>1. \A d \in late' : card'[d].st \notin {"none", "read", "prepared"}
    BY <1>1, <1>2, <1>9 DEF LandedInv
  <2>2. \A d \in Cards : job'[d].phase = "done" => Trailer(d)' \in landed'
    BY <1>1, <1>3 DEF LandedInv, Trailer
  <2>3. ASSUME NEW d \in Claimed, card[d].target \in landed', job'[d].phase \in Busy
        PROVE  Excused(card[d].target)'
    <3>1. CASE d = c
      <4>1. c \in late'  BY <1>2, <1>3, <2>3, <3>1
      <4>2. s # None  BY <2>3, <3>1, TeamBrainAssumption DEF Typed, Ids, Rows, Cards
      <4>. QED  BY <1>1, <1>10, <3>1, <4>1, <4>2 DEF Excused
    <3>2. CASE d # c
      <4>1. d \in Cards /\ job[d].phase \in Busy  BY <1>3, <2>3, <3>2, ClaimedIs
      <4>2. Excused(card[d].target)  BY <1>12, <2>3, <3>2, <4>1 DEF LandedInv
      <4>. QED  BY <1>1, <1>2, <4>2 DEF Excused
    <3>. QED  BY <3>1, <3>2
  <2>. QED  BY <1>1, <1>6, <2>1, <2>2, <2>3 DEF LandedInv
<1>14. SweepInv'
  <2> SUFFICES ASSUME boot.phase # "up", NEW d \in boot.rows
               PROVE  /\ job'[d].phase = "none"
                      /\ boot.phase = "fix" /\ card[d].target \in landed'
                           => card[d].target \in boot.log \/ Excused(card[d].target)
    BY <1>1, <1>2 DEF SweepInv, Excused
  <2>1. d \in Cards /\ job[d].phase = "none" /\ d # c
    BY <1>1 DEF Typed, BootRow, SweepInv
  <2>2. d \in Claimed \/ card[d].st = "gone"
    BY <2>1, ClaimedIs DEF SweepInv
  <2>. QED  BY <1>3, <1>12, <2>1, <2>2 DEF SweepInv
<1>15. SourceFollowsVault'
  <2>1. ASSUME NEW q \in Sources, q \in landed' \ landed
        PROVE  src[q].st \in {"approved", "gone"} \/ InFlight(q) \/ Excused(q)
    <3>1. q = s /\ s # None
      BY <1>1, <2>1, Bounds, TeamBrainAssumption DEF Trailer, Rows
    <3>2. CASE card[c].st = "gone"  BY <1>10, <3>1, <3>2 DEF Excused
    <3>3. CASE card[c].st = "applied"
      <4>1. c \in Claimed  BY <1>9, <3>3, ClaimedIs
      <4>. QED  BY <3>1, <4>1 DEF ClaimInv, InFlight
    <3>. QED  BY <1>9, <3>2, <3>3
  <2>2. \A q \in Sources : /\ src[q].st = "approved" => q \in landed'
                           /\ q \in landed' => src[q].st \in {"approved", "gone"}
                                                 \/ InFlight(q) \/ Excused(q)
    BY <1>1, <2>1, FollowsIs
  <2>. QED  BY <1>1, <1>6, <1>7, <2>2 DEF SourceFollowsVault, Excused
<1>. QED  BY <1>4, <1>5, <1>8, <1>13, <1>14, <1>15

\* The two ends of a press leave the vault alone.
LEMMA PressOver ==
  ASSUME IInv, NEW c \in Cards, job' = [job EXCEPT ![c] = NoJob],
         job[c].phase \in {"done", "failed"},
         UNCHANGED <<head, landed, stray, boot, restore, crashes, late, lockVars>>,
         \A d \in Cards : Same(card'[d], card[d])
  PROVE  /\ VaultInv'
         /\ \A d \in Cards : job'[d].phase = IF d = c THEN "none" ELSE job[d].phase
<1> USE DEF IInv, VaultInv
<1>1. \A d \in Cards : job'[d].phase = IF d = c THEN "none" ELSE job[d].phase
  BY DEF Typed, NoJob
<1>2. Seated' /\ WritersSeeHead'
  BY <1>1 DEF Seated, WritersSeeHead
<1>3. Judged'
  BY <1>1 DEF Judged, Fits, Same, Empty
<1>. QED  BY <1>1, <1>2, <1>3

LEMMA FinishStep ==
  ASSUME IInv, Typed', NEW c \in Cards, Finish(c)
  PROVE  VaultInv' /\ BookInv'
<1> USE DEF IInv, BookInv
<1> DEFINE s == card[c].target
<1>1. /\ job[c].phase = "done" /\ job' = [job EXCEPT ![c] = NoJob]
      /\ UNCHANGED <<card, head, landed, stray, boot, restore, crashes, late, lockVars>>
  BY DEF Finish
<1>2. VaultInv' /\ \A d \in Cards : job'[d].phase = IF d = c THEN "none" ELSE job[d].phase
  BY <1>1, PressOver DEF Same
<1>3. \A q \in Sources :
        src'[q].st = IF /\ q = s
                        /\ src[q].st \in {"pending", "draft", "needs_info", "rejected",
                                          "withdrawn", "expired"}
                     THEN "approved" ELSE src[q].st
  <2>1. CASE s = None  BY <2>1, Bounds DEF Finish
  <2>2. CASE s # None
    <3> DEFINE st == IF src[s].st \in {"pending", "draft", "needs_info", "rejected",
                                       "withdrawn", "expired"}
                     THEN "approved" ELSE src[s].st
    <3>1. s \in Sources  BY <2>2 DEF Aimed
    <3>2. src' = [src EXCEPT ![s].st = st]  BY <2>2 DEF Finish, Approved
    <3>3. st \in SrcStates  BY <3>1 DEF Typed, SrcRow
    <3>4. src \in [Sources -> SrcRow]  BY DEF Typed
    <3> HIDE DEF s, st
    <3>5. \A q \in Sources : src'[q].st = IF q = s THEN st ELSE src[q].st
      BY <3>1, <3>2, <3>3, <3>4, SrcUpdate
    <3>. QED  BY <3>5 DEF st
  <2>. QED  BY <2>1, <2>2
<1>4. Claimed' = Claimed /\ \A q : Excused(q)' = Excused(q)
  BY <1>1 DEF Claimed, Excused
<1>5. Aimed' /\ Held'
  BY <1>1, <1>2 DEF Aimed, Held
<1>6. ClaimInv'
  <2>1. ASSUME NEW d \in Claimed, card[d].target # None
        PROVE  src'[card[d].target].st \in {"pending", "approved", "gone"}
    <3>1. card[d].target \in Sources  BY <2>1, ClaimedIs DEF Aimed
    <3>. QED  BY <1>3, <2>1, <3>1 DEF ClaimInv
  <2>. QED  BY <1>1, <1>4, <2>1 DEF ClaimInv
<1>7. LandedInv'
  BY <1>1, <1>2, <1>4, ClaimedIs DEF LandedInv, Trailer
<1>8. SweepInv'
  BY <1>1, <1>2, <1>4 DEF SweepInv, Typed, BootRow
<1>9. SourceFollowsVault'
  <2> SUFFICES ASSUME NEW q \in Sources
               PROVE  /\ src'[q].st = "approved" => q \in landed
                      /\ q \in landed => src'[q].st \in {"approved", "gone"}
                                           \/ InFlight(q)' \/ Excused(q)
    BY <1>1, <1>4 DEF SourceFollowsVault, Excused
  <2>1. CASE q = s
    <3>1. q \in landed  BY <1>1, <2>1, Bounds DEF LandedInv, Trailer
    <3>2. InFlight(q) => src'[q].st = "approved"  BY <1>3, <2>1 DEF InFlight
    <3>. QED  BY <1>3, <2>1, <3>1, <3>2, FollowsIs
  <2>2. CASE q # s
    <3>1. InFlight(q)' = InFlight(q)  BY <1>1, <1>3, <1>4, <2>2 DEF InFlight
    <3>. QED  BY <1>3, <2>2, <3>1, FollowsIs
  <2>. QED  BY <2>1, <2>2
<1>. QED  BY <1>2, <1>5, <1>6, <1>7, <1>8, <1>9

LEMMA ReleaseStep ==
  ASSUME IInv, Typed', NEW c \in Cards, Release(c)
  PROVE  VaultInv' /\ BookInv'
<1> USE DEF IInv, BookInv
<1>1. /\ job[c].phase = "failed" /\ job' = [job EXCEPT ![c] = NoJob]
      /\ UNCHANGED <<src, head, landed, stray, boot, restore, crashes, late, lockVars>>
  BY DEF Release
<1>0. \A d \in Cards :
        \/ card'[d] = card[d] /\ (d = c => card[d].st # "applied")
        \/ /\ card'[d] = [card[d] EXCEPT !.st = "draft"]
           /\ \/ d = c /\ card[d].st = "applied"
              \/ d # c /\ card[d].st = "cancelled"
  <2>1. c \notin job[c].voided \/ card[c].st # "cancelled"
    BY <1>1 DEF Held
  <2>. QED  BY <1>1, <2>1 DEF Release
<1>2. \A d \in Cards :
        /\ Same(card'[d], card[d])
        /\ \/ card'[d].st = card[d].st /\ (d = c => card[d].st # "applied")
           \/ card'[d].st = "draft" /\ d = c /\ card[d].st = "applied"
           \/ card'[d].st = "draft" /\ d # c /\ card[d].st = "cancelled"
  <2> SUFFICES ASSUME NEW d \in Cards
               PROVE  /\ Same(card'[d], card[d])
                      /\ \/ card'[d].st = card[d].st /\ (d = c => card[d].st # "applied")
                         \/ card'[d].st = "draft" /\ d = c /\ card[d].st = "applied"
                         \/ card'[d].st = "draft" /\ d # c /\ card[d].st = "cancelled"
    OBVIOUS
  <2>1. card[d] \in CardRow  BY DEF Typed
  <2>2. CASE card'[d] = card[d]
    BY <1>0, <2>1, <2>2 DEF Same, CardRow
  <2>3. CASE card'[d] = [card[d] EXCEPT !.st = "draft"]
    <3>1. Same(card'[d], card[d]) /\ card'[d].st = "draft"
      BY <2>1, <2>3, StateChange DEF CardStates, Same
    <3>. QED  BY <1>0, <3>1
  <2>. QED  BY <1>0, <2>2, <2>3
<1>3. VaultInv' /\ \A d \in Cards : job'[d].phase = IF d = c THEN "none" ELSE job[d].phase
  BY <1>1, <1>2, PressOver
<1>4. Claimed' = Claimed \ {c}
  BY <1>2 DEF Claimed, Same
<1>5. \A q : Excused(q) => Excused(q)'
  BY <1>1, <1>2, ExcuseStays DEF Same
<1>6. \A d \in Cards : card'[d].target = card[d].target /\ card'[d].decision = card[d].decision
  BY <1>2 DEF Same
<1>7. Aimed'
  BY <1>1, <1>2, <1>3, <1>6 DEF Aimed
<1>8. Held'
  BY <1>2, <1>3, <1>6 DEF Held
<1>9. ClaimInv'
  BY <1>1, <1>4, <1>6, ClaimedIs DEF ClaimInv
<1>10. LandedInv'
  <2>1. \A d \in late' : card'[d].st \notin {"none", "read", "prepared"}
    BY <1>1, <1>2 DEF LandedInv, Typed
  <2>2. \A d \in Cards : job'[d].phase = "done" => Trailer(d)' \in landed'
    BY <1>1, <1>3, <1>6 DEF LandedInv, Trailer
  <2>. QED  BY <1>1, <1>3, <1>4, <1>5, <1>6, <2>1, <2>2, ClaimedIs DEF LandedInv
<1>11. SweepInv'
  <2> SUFFICES ASSUME boot.phase # "up", NEW d \in boot.rows
               PROVE  /\ job'[d].phase = "none"
                      /\ card'[d].st \in {"applied", "gone"} /\ card'[d].decision = "approve"
                      /\ card'[d].target = card[d].target
    BY <1>1, <1>5 DEF SweepInv
  <2>1. d \in Cards /\ job[d].phase = "none" /\ card[d].st \in {"applied", "gone"}
          /\ card[d].decision = "approve"
    BY DEF Typed, BootRow, SweepInv
  <2>. QED  BY <1>1, <1>2, <1>3, <1>6, <2>1
<1>12. SourceFollowsVault'
  <2> SUFFICES ASSUME NEW q \in Sources, q \in landed, InFlight(q)
               PROVE  InFlight(q)' \/ Excused(q)
    BY <1>1, <1>5, FollowsIs DEF SourceFollowsVault, Excused
  <2>1. PICK d \in Claimed : card[d].target = q  BY DEF InFlight
  <2>2. CASE d = c  BY <1>1, <2>1, <2>2 DEF LandedInv
  <2>3. CASE d # c  BY <1>1, <1>4, <1>6, <2>1, <2>3, ClaimedIs DEF InFlight
  <2>. QED  BY <2>2, <2>3
<1>. QED  BY <1>3, <1>7, <1>8, <1>9, <1>10, <1>11, <1>12

-----------------------------------------------------------------------------
(* The sweep, and what ends. *)

LEMMA SweepReads ==
  ASSUME IInv, SweepList \/ SweepLog
  PROVE  VaultInv' /\ BookInv'
<1>1. VaultInv'
  BY VaultStill DEF SweepList, SweepLog, IInv, Same
<1>2. boot \in BootRow  BY DEF IInv, Typed
<1>3. UNCHANGED <<src, card, job, landed, late>>
  BY DEF SweepList, SweepLog
<1>4. boot'.phase # "up" =>
        /\ boot.phase # "up" /\ boot'.rows \subseteq boot.rows
        /\ \/ boot'.log = boot.log /\ boot'.phase # "fix"
           \/ boot'.log = landed
  <2>1. CASE SweepList
    <3> DEFINE rows == boot.rows \cap Claimed
    <3>1. boot' = Started \/ boot' = [boot EXCEPT !.phase = "log", !.rows = rows]
      BY <2>1 DEF SweepList
    <3> HIDE DEF rows
    <3>2. CASE boot' = Started  BY <3>2 DEF Started
    <3>3. CASE boot' = [boot EXCEPT !.phase = "log", !.rows = rows]
      <4>1. boot'.phase = "log" /\ boot'.rows = rows /\ boot'.log = boot.log
        BY <1>2, <3>3 DEF BootRow
      <4>. QED  BY <2>1, <4>1 DEF SweepList, rows
    <3>. QED  BY <3>1, <3>2, <3>3
  <2>2. CASE SweepLog
    BY <1>2, <2>2 DEF SweepLog, BootRow
  <2>. QED  BY <2>1, <2>2
<1>5. BookInv'
  BY <1>3, <1>4, BooksStill
<1>. QED  BY <1>1, <1>5

LEMMA SweepFixStep ==
  ASSUME IInv, Typed', SweepFix
  PROVE  VaultInv' /\ BookInv'
<1> USE DEF IInv, BookInv
<1> DEFINE found == {c \in boot.rows : SweepKey(c) \in boot.log}
           lost == boot.rows \ found
<1>1. /\ boot.phase = "fix" /\ boot'.phase = "up"
      /\ UNCHANGED <<left, job, head, landed, stray, restore, crashes, late, lockVars>>
  BY DEF SweepFix, Started
<1>2. boot.rows \subseteq Cards  BY DEF Typed, BootRow
<1>3. \A c \in boot.rows :
        /\ job[c].phase = "none" /\ card[c].st \in {"applied", "gone"}
        /\ card[c].target \in landed => card[c].target \in boot.log \/ Excused(card[c].target)
  BY <1>1 DEF SweepInv
<1>4. boot.log \subseteq landed  BY <1>1 DEF SweepInv
<1>5. ASSUME NEW c \in Cards
      PROVE  /\ Same(card'[c], card[c])
             /\ card'[c].st = IF c \in lost /\ card[c].st = "applied" THEN "draft"
                              ELSE card[c].st
  <2>1. card[c] \in CardRow  BY DEF Typed
  <2>2. card'[c] = IF c \in lost /\ card[c].st = "applied"
                   THEN [card[c] EXCEPT !.st = "draft"] ELSE card[c]
    BY DEF SweepFix
  <2>. QED  BY <2>1, <2>2, StateChange DEF CardStates, Same
<1>6. ASSUME NEW s \in Sources
      PROVE  src'[s].st =
        CASE src[s].st = "pending" /\ (\E c \in found : card[c].target = s) -> "approved"
          [] src[s].st = "approved" /\ (\E c \in lost : card[c].target = s) -> "pending"
          [] OTHER -> src[s].st
  <2>1. src[s] \in SrcRow  BY DEF Typed
  <2>2. src'[s] =
        CASE src[s].st = "pending" /\ (\E c \in found : card[c].target = s)
               -> [src[s] EXCEPT !.st = "approved"]
          [] src[s].st = "approved" /\ (\E c \in lost : card[c].target = s)
               -> [src[s] EXCEPT !.st = "pending"]
          [] OTHER -> src[s]
    BY DEF SweepFix
  <2>. QED  BY <2>1, <2>2, SrcChange
<1>7. \A c \in Cards : card'[c].target = card[c].target /\ card'[c].decision = card[c].decision
  BY <1>5 DEF Same
<1>8. ASSUME NEW c \in boot.rows, NEW s \in Sources, card[c].target = s, src[s].st # "gone"
      PROVE  SweepKey(c) = s
  BY <1>8, Bounds DEF SweepKey
<1> HIDE DEF found
<1>9. VaultInv'
  BY <1>1, <1>5, VaultStill
<1>10. Claimed' = Claimed \ lost
  BY <1>5, <1>7 DEF Claimed
<1>11. \A q : Excused(q) => Excused(q)'
  BY <1>1, <1>5, <1>7, ExcuseStays
<1>12. Aimed'
  BY <1>1, <1>5, <1>7 DEF Aimed
<1>13. Held'
  BY <1>1, <1>3, <1>5, <1>7 DEF Held
<1>14. ClaimInv'
  <2>1. ASSUME NEW d \in Claimed, card[d].target # None
        PROVE  src'[card[d].target].st \in {"pending", "approved", "gone"}
    <3>1. card[d].target \in Sources  BY <2>1, ClaimedIs DEF Aimed
    <3>. QED  BY <1>6, <2>1, <3>1 DEF ClaimInv
  <2>. QED  BY <1>7, <1>10, <2>1, ClaimedIs DEF ClaimInv
<1>15. LandedInv'
  <2>1. \A d \in late' : card'[d].st \notin {"none", "read", "prepared"}
    BY <1>1, <1>5 DEF LandedInv, Typed
  <2>2. \A d \in Cards : job'[d].phase = "done" => Trailer(d)' \in landed'
    BY <1>1, <1>7 DEF LandedInv, Trailer
  <2>. QED  BY <1>1, <1>7, <1>10, <1>11, <2>1, <2>2, ClaimedIs DEF LandedInv
<1>16. SweepInv'  BY <1>1 DEF SweepInv
<1>17. SourceFollowsVault'
  <2> SUFFICES ASSUME NEW s \in Sources
               PROVE  /\ src'[s].st = "approved" => s \in landed
                      /\ s \in landed => src'[s].st \in {"approved", "gone"}
                                           \/ InFlight(s)' \/ Excused(s)
    BY <1>1, <1>11 DEF SourceFollowsVault, Excused
  <2>1. CASE src[s].st = "pending" /\ (\E c \in found : card[c].target = s)
    <3>1. src'[s].st = "approved"  BY <1>6, <2>1
    <3>2. s \in landed  BY <1>4, <1>8, <2>1 DEF found
    <3>. QED  BY <3>1, <3>2
  <2>2. CASE src[s].st = "approved" /\ (\E c \in lost : card[c].target = s)
    <3>1. src'[s].st = "pending"  BY <1>6, <2>2
    <3>2. s \in landed => Excused(s)
      BY <1>3, <1>8, <2>2 DEF found
    <3>. QED  BY <3>1, <3>2
  <2>3. CASE /\ ~ (src[s].st = "pending" /\ (\E c \in found : card[c].target = s))
             /\ ~ (src[s].st = "approved" /\ (\E c \in lost : card[c].target = s))
    <3>1. src'[s].st = src[s].st  BY <1>6, <2>3
    <3>2. ASSUME s \in landed, InFlight(s) PROVE InFlight(s)' \/ Excused(s)
      <4>1. src[s].st = "pending" /\ \E d \in Claimed : card[d].target = s
        BY <3>2 DEF InFlight
      <4>2. PICK d \in Claimed : card[d].target = s
        BY <4>1
      <4>3. CASE d \in lost
        BY <1>3, <1>8, <3>2, <4>1, <4>2, <4>3 DEF found
      <4>4. CASE d \notin lost
        BY <1>7, <1>10, <3>1, <4>1, <4>2, <4>4, ClaimedIs DEF InFlight
      <4>. QED  BY <4>3, <4>4
    <3>. QED  BY <3>1, <3>2, FollowsIs
  <2>. QED  BY <2>1, <2>2, <2>3
<1>. QED  BY <1>9, <1>12, <1>13, <1>14, <1>15, <1>16, <1>17

LEMMA DeleteUserStep ==
  ASSUME IInv, Typed', NEW p, DeleteUser(p)
  PROVE  VaultInv' /\ BookInv'
<1> USE DEF IInv, BookInv
<1>1. UNCHANGED <<job, head, landed, stray, boot, restore, crashes, late, lockVars>>
  BY DEF DeleteUser
<1>2. \A c \in Cards : /\ Same(card'[c], card[c])
                       /\ card'[c].st = IF OwnerOf[c] = p THEN "gone" ELSE card[c].st
  BY WithCardsIs DEF DeleteUser, Typed, CardStates
<1>3. \A s \in Sources : src'[s].st \in {src[s].st, "gone"}
  <2> SUFFICES ASSUME NEW s \in Sources PROVE src'[s].st \in {src[s].st, "gone"}
    OBVIOUS
  <2>1. src[s] \in SrcRow  BY DEF Typed
  <2>2. src'[s] = IF OwnerOf[s] = p THEN [src[s] EXCEPT !.st = "gone"] ELSE src[s]
    BY DEF DeleteUser
  <2>. QED  BY <2>1, <2>2, SrcChange
<1>4. \A c \in Cards : card'[c].target = card[c].target /\ card'[c].decision = card[c].decision
  BY <1>2 DEF Same
<1>5. VaultInv'
  BY <1>1, <1>2, VaultStill
<1>6. /\ Claimed' \subseteq Claimed
      /\ \A c \in Claimed : c \in Claimed' \/ card'[c].st = "gone"
  BY <1>2, <1>4 DEF Claimed
<1>7. \A q : Excused(q) => Excused(q)'
  BY <1>1, <1>2, <1>4, ExcuseStays
<1>8. Aimed' /\ Held'
  BY <1>1, <1>2, <1>4 DEF Aimed, Held
<1>9. ClaimInv'
  <2>1. ASSUME NEW d \in Claimed, card[d].target # None
        PROVE  src'[card[d].target].st \in {"pending", "approved", "gone"}
    <3>1. card[d].target \in Sources  BY <2>1, ClaimedIs DEF Aimed
    <3>. QED  BY <1>3, <2>1, <3>1 DEF ClaimInv
  <2>. QED  BY <1>4, <1>6, <2>1, ClaimedIs DEF ClaimInv
<1>10. LandedInv'
  <2>1. \A d \in late' : card'[d].st \notin {"none", "read", "prepared"}
    BY <1>1, <1>2 DEF LandedInv, Typed
  <2>2. \A d \in Cards : job'[d].phase = "done" => Trailer(d)' \in landed'
    BY <1>1, <1>4 DEF LandedInv, Trailer
  <2>. QED  BY <1>1, <1>4, <1>6, <1>7, <2>1, <2>2, ClaimedIs DEF LandedInv
<1>11. SweepInv'
  <2> SUFFICES ASSUME boot.phase # "up", NEW d \in boot.rows
               PROVE  /\ job'[d].phase = "none"
                      /\ card'[d].st \in {"applied", "gone"} /\ card'[d].decision = "approve"
                      /\ card'[d].target = card[d].target
    BY <1>1, <1>7 DEF SweepInv
  <2>1. d \in Cards /\ job[d].phase = "none" /\ card[d].st \in {"applied", "gone"}
          /\ card[d].decision = "approve"
    BY DEF Typed, BootRow, SweepInv
  <2>. QED  BY <1>1, <1>2, <1>4, <2>1
<1>12. SourceFollowsVault'
  <2>1. ASSUME NEW s \in Sources, InFlight(s), src'[s].st # "gone"
        PROVE  InFlight(s)' \/ Excused(s)'
    <3>1. src'[s].st = "pending"  BY <1>3, <2>1 DEF InFlight
    <3>2. PICK d \in Claimed : card[d].target = s  BY <2>1 DEF InFlight
    <3>3. d \in Cards /\ d \in Reviews  BY <3>2, ClaimedIs, Bounds DEF Aimed
    <3>. QED  BY <1>4, <1>6, <3>1, <3>2, <3>3 DEF InFlight, Excused
  <2>. QED  BY <1>1, <1>3, <1>7, <2>1, FollowsIs DEF SourceFollowsVault, Excused
<1>. QED  BY <1>5, <1>8, <1>9, <1>10, <1>11, <1>12

LEMMA CrashStep ==
  ASSUME IInv, Typed', Crash
  PROVE  VaultInv' /\ BookInv'
<1> USE DEF IInv, BookInv
<1>1. /\ UNCHANGED <<src, left, head, landed, stray, late>>
      /\ boot' = [phase |-> "down", rows |-> Claimed, log |-> {}]
      /\ restore' \in {"idle", "ended"}
      /\ \A o \in LockOps : stage'[o] = "idle"
      /\ \A c \in Cards : job'[c].phase = "none"
  BY DEF Crash, GM!Restart, NoJob
<1>2. \A c \in Cards : IF card[c].st \in {"read", "prepared"} THEN card'[c] = NoCard
                       ELSE card'[c] = card[c]
  BY DEF Crash
<1>3. VaultInv'
  BY <1>1, CardsLock DEF VaultInv, Seated, Judged, WritersSeeHead
<1>4. Claimed' = Claimed /\ \A c \in Claimed : card'[c] = card[c]
  BY <1>2 DEF Claimed, NoCard
<1>5. \A q : Excused(q) => Excused(q)'
  BY <1>1, <1>2, ExcuseStays
<1>6. Aimed' /\ Held'
  BY <1>1, <1>2 DEF Aimed, Held, NoCard
<1>7. ClaimInv'
  BY <1>1, <1>4 DEF ClaimInv
<1>8. LandedInv'
  BY <1>1, <1>2, <1>4, ClaimedIs DEF LandedInv, Typed
<1>9. SweepInv'
  BY <1>1, <1>4, ClaimedIs DEF SweepInv
<1>10. SourceFollowsVault'
  BY <1>1, <1>4, <1>5, FollowsIs DEF SourceFollowsVault, Excused, InFlight
<1>. QED  BY <1>3, <1>6, <1>7, <1>8, <1>9, <1>10

-----------------------------------------------------------------------------
(* The theorems. *)

LEMMA IInvStep == IInv /\ [Next]_vars => IInv'
<1> SUFFICES ASSUME IInv, [Next]_vars PROVE IInv'
  OBVIOUS
<1>1. Lock!LockInv'  BY LockInvStep DEF IInv
<1>2. Typed'  BY TypedStep DEF IInv, BookInv
<1>3. CASE UNCHANGED vars
  <2>1. VaultInv'  BY <1>3, VaultStill DEF IInv, vars, Same
  <2>2. BookInv'  BY <1>3, BooksStill DEF IInv, BookInv, SweepInv, vars
  <2>. QED  BY <1>1, <1>2, <2>1, <2>2 DEF IInv
<1>4. ASSUME NEW c \in Cards, WriteStep(c) PROVE VaultInv' /\ BookInv'
  <2>1. CASE Enter(c) \/ Check(c) \/ Write(c) \/ CommitFails(c)
    BY <1>1, <1>2, <2>1, WriteQuiet
  <2>2. CASE Commit(c)  BY <1>1, <1>2, <2>2, CommitStep
  <2>3. CASE Finish(c)  BY <1>2, <2>3, FinishStep
  <2>4. CASE Release(c)  BY <1>2, <2>4, ReleaseStep
  <2>. QED  BY <1>4, <2>1, <2>2, <2>3, <2>4 DEF WriteStep
<1>5. ASSUME BootStep \/ RestoreAsk \/ RestoreStep \/ \E o \in LockOps : DropLock(o)
      PROVE  VaultInv' /\ BookInv'
  <2>1. CASE SweepList \/ SweepLog  BY <2>1, SweepReads
  <2>2. CASE SweepFix  BY <1>2, <2>2, SweepFixStep
  <2>3. CASE RestoreAsk \/ RestoreStep \/ Boot \/ BootEnter \/ BootSettle
               \/ \E o \in LockOps : DropLock(o)
    BY <1>1, <1>2, <2>3, LockedVault
  <2>. QED  BY <1>5, <2>1, <2>2, <2>3 DEF BootStep
<1>6. ASSUME NEW s \in Sources, Propose(s) \/ Submit(s) \/ Answer(s) \/ Withdraw(s)
      PROVE  VaultInv' /\ BookInv'
  BY <1>2, <1>6, SourceQuiet
<1>7. ASSUME NEW c \in Cards,
             Cancel(c) \/ Prepare(c) \/ Draft(c) \/ PressRefusal(c) \/ PressApprove(c)
      PROVE  VaultInv' /\ BookInv'
  <2>1. CASE Cancel(c) \/ Prepare(c) \/ Draft(c)  BY <1>2, <2>1, CardQuiet
  <2>2. CASE PressRefusal(c)  BY <1>2, <2>2, PressRefusalQuiet
  <2>3. CASE PressApprove(c)  BY <1>1, <1>2, <2>3, PressApproveStep
  <2>. QED  BY <1>7, <2>1, <2>2, <2>3
<1>8. ASSUME NEW R \in SUBSET Rows, Expire(R) \/ Rewind(R) PROVE VaultInv' /\ BookInv'
  BY <1>2, <1>8, DroppedQuiet
<1>9. ASSUME \/ \E c \in Cards, s \in Sources \cup {None}, p \in Pages : Read(c, s, p)
             \/ \E c \in Reviews, s \in Sources, d \in {"reject", "ask"} :
                  DraftRefusal(c, s, d)
      PROVE  VaultInv' /\ BookInv'
  BY <1>2, <1>9, ReadQuiet, DraftRefusalQuiet
<1>10. ASSUME Crash \/ \E p \in Leaving : DeleteUser(p) PROVE VaultInv' /\ BookInv'
  BY <1>2, <1>10, CrashStep, DeleteUserStep
<1>11. VaultInv' /\ BookInv'
  BY <1>3, <1>4, <1>5, <1>6, <1>7, <1>8, <1>9, <1>10 DEF IInv, Next
<1>. QED  BY <1>1, <1>2, <1>11 DEF IInv

LEMMA Invariant == Spec => []IInv
<1>1. Init => IInv
  BY InvInit, TypedInit, LockInvInit DEF IInv
<1>. QED  BY <1>1, IInvStep, PTL DEF Spec

\* Rows, presses, vault, boot and lock hold what they are meant to hold.
THEOREM TypeCorrect == Spec => []TypeOK
<1>1. IInv => TypeOK
  BY LockFacts DEF IInv, Typed, TypeOK, SrcRow, CardRow, CardStates, JobRow, BootRow, Ids
<1>. QED  BY <1>1, Invariant, PTL

\* A changeset is judged and committed in a working tree that holds nobody
\* else's files, for any number of cards, restores and crashes.
THEOREM WritersAreAlone == Spec => []WritersSeeHead
<1>1. IInv => WritersSeeHead  BY DEF IInv, VaultInv
<1>. QED  BY <1>1, Invariant, PTL

\* The row of a source says approved only of what is committed, and what is
\* committed is approved or still claimed, unless a commit was reported failed
\* or an account that pressed it is gone.
THEOREM RowsFollowTheVault == Spec => []SourceFollowsVault
<1>1. IInv => SourceFollowsVault  BY DEF IInv, BookInv
<1>. QED  BY <1>1, Invariant, PTL

\* No change of a page is overwritten unseen: a page changes only from the
\* blob its writer was drafted against, or from nothing when it is restored.
THEOREM NoChangeIsOverwritten == Spec => NothingOverwritten
<1> DEFINE Seen == \A p \in Pages : head'[p] # head[p] =>
                     \/ head[p] = None /\ head'[p] = "mirror"
                     \/ \E c \in Cards : head'[p] = c /\ card[c].page = p /\ card[c].base = head[p]
<1>1. ASSUME IInv, [Next]_vars PROVE [Seen]_vars
  <2>1. CASE UNCHANGED head  BY <2>1
  <2>2. ASSUME NEW c \in Cards, Commit(c) PROVE Seen
    <3>1. head' = [head EXCEPT ![card[c].page] = c]  BY <2>2 DEF Commit
    <3>2. head[card[c].page] = card[c].base
      BY <1>1, <2>2 DEF Commit, IInv, VaultInv, Judged, Fits
    <3>. QED  BY <1>1, <3>1, <3>2 DEF IInv, Typed
  <2>3. CASE RestoreEnd
    BY <1>1, <2>3 DEF RestoreEnd, IInv, VaultInv, Judged, Empty
  <2>4. ASSUME NEW c \in Cards,
               PressApprove(c) \/ PressRefusal(c) \/ Cancel(c) \/ Prepare(c) \/ Draft(c)
                 \/ Enter(c) \/ Check(c) \/ Write(c) \/ CommitFails(c) \/ Finish(c) \/ Release(c)
        PROVE  UNCHANGED head
    BY <2>4 DEF PressApprove, PressRefusal, Cancel, Prepare, Draft, Enter, Check, Write,
                CommitFails, Finish, Release
  <2>5. CASE BootStep \/ RestoreAsk \/ RestoreEnter \/ Crash
               \/ \E o \in LockOps : DropLock(o)
    <3>1. UNCHANGED head
      BY <2>5 DEF BootStep, Boot, BootEnter, BootSettle, SweepList, SweepLog, SweepFix,
                  RestoreAsk, RestoreEnter, Crash, DropLock
    <3>. QED  BY <2>1, <3>1
  <2>6. CASE \/ \E s \in Sources : Propose(s) \/ Submit(s) \/ Answer(s) \/ Withdraw(s)
             \/ \E R \in SUBSET Rows : Expire(R) \/ Rewind(R)
             \/ \E c \in Cards, s \in Sources \cup {None}, p \in Pages : Read(c, s, p)
             \/ \E c \in Reviews, s \in Sources, d \in {"reject", "ask"} : DraftRefusal(c, s, d)
             \/ \E p \in Leaving : DeleteUser(p)
    <3>1. UNCHANGED head
      BY <2>6 DEF Propose, Submit, Answer, Withdraw, Expire, Rewind, Read, DraftRefusal, DeleteUser
    <3>. QED  BY <2>1, <3>1
  <2>7. CASE UNCHANGED vars  BY <2>7
  <2>. QED
    BY <1>1, <2>1, <2>2, <2>3, <2>4, <2>5, <2>6, <2>7 DEF Next, WriteStep, RestoreStep
<1>. QED  BY <1>1, Invariant, PTL DEF Spec, NothingOverwritten
=============================================================================
