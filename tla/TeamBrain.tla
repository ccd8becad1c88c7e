----------------------------- MODULE TeamBrain -----------------------------
(***************************************************************************)
(* The team brain (teamBrainActions.ts, teamBrain.ts, store/teamBrain.ts): *)
(* a teammate submits a source, an admin's avatar drafts a decision on it  *)
(* as a card, and a press on the card decides: it claims the rows in the   *)
(* database, writes the changeset into the shared vault under its lock,    *)
(* and settles the rows by what became of the write.  The process may end  *)
(* between any two of those, and a sweep mends the rows at the next start. *)
(*                                                                         *)
(* A changeset writes one page; the blob of a page is the card that wrote  *)
(* it, "mirror" after a restore, None while there is no page.  Drafts fall *)
(* due by the clock, which is left out: any draft may.                     *)
(***************************************************************************)
EXTENDS Naturals, FiniteSets

CONSTANTS
  Sources,     \* rows of kind propose
  Reviews,     \* cards deciding on a source
  Directs,     \* cards of an admin's own, without a source
  Pages,
  OwnerOf,     \* the drafter of each row
  Leaving,     \* the people whose account may be deleted
  None,
  MaxOpen,     \* TEAM_BRAIN_MAX_OPEN_PROPOSALS
  MaxRounds,   \* bound: answers to an admin's questions, per source
  MaxCards,    \* bound: cards begun
  MaxUpsets    \* bound: ends of the process, commits reported failed, restores

Cards == Reviews \cup Directs
Rows == Sources \cup Cards
LockOps == Cards \cup {"boot", "restore"}
Vault == "vault"

ASSUME TeamBrainAssumption ==
  /\ Rows \subseteq DOMAIN OwnerOf /\ IsFiniteSet(Cards)
  /\ {MaxOpen, MaxRounds, MaxCards, MaxUpsets} \subseteq Nat
  /\ None \notin Rows \cup {"boot", "restore", "mirror"}
  /\ Sources \cap Cards = {} /\ Reviews \cap Directs = {}
  /\ Cards \cap {"boot", "restore", "mirror"} = {}

VARIABLES
  src,      \* propose rows: status, answers given so far
  card,     \* review and direct rows
  left,     \* the people whose account was deleted
  job,      \* the press in flight of each card, and the drafts it voided
  head,     \* the committed blob of each page
  landed,   \* the ids that stand in a Proposal: trailer
  stray,    \* cards whose files in the working tree are not as committed
  boot,     \* the start of the process: its phase, the rows and log it read
  restore,  \* the restore from the backup
  crashes,  \* ends of the process so far
  late,     \* cards whose commit landed and was reported failed
  chains, prior, stage, ahead

rowVars == <<src, card, left>>
vaultVars == <<head, landed, stray>>
lockVars == <<chains, prior, stage, ahead>>
vars == <<src, card, left, job, head, landed, stray, boot, restore,
          crashes, late, chains, prior, stage, ahead>>

GM == INSTANCE GitMutex WITH
  Ops <- LockOps, Keys <- {Vault}, KeyOf <- [o \in LockOps |-> Vault]

NoCard == [st |-> "none", target |-> None, decision |-> "approve",
           page |-> None, base |-> None, round |-> 0]
NoJob == [phase |-> "none", voided |-> {}]
Started == [phase |-> "up", rows |-> {}, log |-> {}]

Init ==
  /\ src = [s \in Sources |-> [st |-> "none", round |-> 0]]
  /\ card = [c \in Cards |-> NoCard]
  /\ left = {}
  /\ job = [c \in Cards |-> NoJob]
  /\ head = [p \in Pages |-> None]
  /\ landed = {}
  /\ stray = {}
  /\ boot = Started
  /\ restore = "idle"
  /\ crashes = 0
  /\ late = {}
  /\ GM!Init

-----------------------------------------------------------------------------
(* Rows, which every call reads and writes in one transaction.             *)

Up == boot.phase # "down"
Active(r) == OwnerOf[r] \notin left
Drafts == {s \in Sources : src[s].st = "draft"} \cup {c \in Cards : card[c].st = "draft"}
Open(p) == {r \in Drafts : OwnerOf[r] = p}
             \cup {s \in Sources : src[s].st \in {"pending", "needs_info"} /\ OwnerOf[s] = p}
HasRoom(r) == Cardinality(Open(OwnerOf[r])) < MaxOpen
Claimed == {c \in Cards : card[c].st = "applied" /\ card[c].decision = "approve"}

\* teamBrainApplyInFlight: an approval of the source is being committed.
InFlight(s) == src[s].st = "pending" /\ \E c \in Claimed : card[c].target = s

\* cancelTeamBrainReviewDrafts: the other decisions drafted on the source.
Rivals(s, c) == {d \in Reviews \ {c} : card[d].target = s /\ card[d].st = "draft"}
WithCards(C, st) == [c \in Cards |-> IF c \in C THEN [card[c] EXCEPT !.st = st] ELSE card[c]]

MayBegin(c) == card[c].st = "none" /\ Cardinality({d \in Cards : card[d].st # "none"}) < MaxCards
MayUpset ==
  crashes + Cardinality(late) + (IF restore = "idle" THEN 0 ELSE 1) < MaxUpsets

Rest == <<left, job, head, landed, stray, boot, restore, crashes, late, lockVars>>

\* propose_team_note: a draft of the teammate's.
Propose(s) ==
  /\ Up /\ Active(s) /\ HasRoom(s)
  /\ src[s].st = "none"
  /\ src' = [src EXCEPT ![s].st = "draft"]
  /\ UNCHANGED <<card, Rest>>

\* submitTeamBrainProposal, its provenance complete.
Submit(s) ==
  /\ Up /\ Active(s)
  /\ src[s].st = "draft"
  /\ src' = [src EXCEPT ![s].st = "pending"]
  /\ UNCHANGED <<card, Rest>>

\* answer_team_questions: the answer makes the source a draft again.
Answer(s) ==
  /\ Up /\ Active(s)
  /\ src[s].st = "needs_info" /\ src[s].round < MaxRounds
  /\ src' = [src EXCEPT ![s] = [st |-> "draft", round |-> @.round + 1]]
  /\ UNCHANGED <<card, Rest>>

\* Variant of Withdraw: an approval in flight is not looked for.
WithdrawPublishing(s) ==
  /\ Up
  /\ src[s].st \in {"draft", "pending", "needs_info"}
  /\ src' = [src EXCEPT ![s].st = "withdrawn"]
  /\ card' = WithCards(Rivals(s, None), "cancelled")
  /\ UNCHANGED Rest

\* withdrawTeamBrainProposal of a source: not while it is being published,
\* and the decisions drafted on it are void.
Withdraw(s) ==
  /\ Up
  /\ src[s].st \in {"draft", "pending", "needs_info"}
  /\ ~ InFlight(s)
  /\ src' = [src EXCEPT ![s].st = "withdrawn"]
  /\ card' = WithCards(Rivals(s, None), "cancelled")
  /\ UNCHANGED Rest

\* withdrawTeamBrainProposal of a card: its drafter cancels it.
Cancel(c) ==
  /\ Up
  /\ card[c].st = "draft"
  /\ card' = WithCards({c}, "cancelled")
  /\ UNCHANGED <<src, Rest>>

\* Drafts R end.  A source that was submitted before falls back to the
\* questions of the admin without the answer it holds (reopenAnsweredDrafts);
\* any other row dies.
Dropped(R, srcSt, cardSt) ==
  /\ R # {} /\ R \subseteq Drafts
  /\ src' = [s \in Sources |->
       IF s \notin R THEN src[s]
       ELSE IF src[s].round > 0 THEN [st |-> "needs_info", round |-> src[s].round - 1]
       ELSE [src[s] EXCEPT !.st = srcSt]]
  /\ card' = WithCards(R \cap Cards, cardSt)

\* expireTeamBrainDrafts, with which every read of the rows begins: the
\* drafts R are past their time, or their conversation is gone.
Expire(R) == Up /\ Dropped(R, "expired", "expired") /\ UNCHANGED Rest

\* A rewind cuts the messages that held the cards R (withdrawTeamBrainDrafts).
Rewind(R) ==
  /\ Up /\ \A r, q \in R : OwnerOf[r] = OwnerOf[q]
  /\ Dropped(R, "withdrawn", "cancelled")
  /\ UNCHANGED Rest

\* An admin's avatar reads a pending source and a page and compiles them.
Read(c, s, p) ==
  /\ Up /\ Active(c)
  /\ MayBegin(c)
  /\ IF c \in Reviews THEN s \in Sources /\ src[s].st = "pending" ELSE s = None
  /\ card' = [card EXCEPT ![c] =
       [st |-> "read", target |-> s, decision |-> "approve", page |-> p,
        base |-> head[p], round |-> IF s = None THEN 0 ELSE src[s].round]]
  /\ UNCHANGED <<src, Rest>>

\* prepare_team_review and prepare_team_changes check the source and then,
\* awaiting git, that the page is still as it was read.
Prepare(c) ==
  /\ Up /\ Active(c)
  /\ card[c].st = "read"
  /\ c \in Reviews => src[card[c].target].st = "pending"
  /\ head[card[c].page] = card[c].base
  /\ card' = WithCards({c}, "prepared")
  /\ UNCHANGED <<src, Rest>>

\* The rest of them: the card is drafted.
Draft(c) ==
  /\ Up /\ Active(c) /\ HasRoom(c)
  /\ card[c].st = "prepared"
  /\ card' = WithCards({c}, "draft")
  /\ UNCHANGED <<src, Rest>>

\* prepare_team_review of a refusal or a question, which awaits nothing.
DraftRefusal(c, s, d) ==
  /\ Up /\ Active(c) /\ HasRoom(c)
  /\ MayBegin(c) /\ src[s].st = "pending"
  /\ card' = [card EXCEPT ![c] =
       [NoCard EXCEPT !.st = "draft", !.target = s, !.decision = d, !.round = src[s].round]]
  /\ UNCHANGED <<src, Rest>>

-----------------------------------------------------------------------------
(* A press.                                                                *)

\* Who may press, and in which state of the card and its source.
Pressable(c) ==
  LET s == card[c].target IN
  /\ Up /\ Active(c)
  /\ card[c].st = "draft"
  /\ s # None => src[s].st = "pending" /\ ~ InFlight(s)

\* applyTeamBrainCard of a refusal or a question: card and source at once.
PressRefusal(c) ==
  LET s == card[c].target IN
  /\ Pressable(c) /\ card[c].decision # "approve"
  /\ src' = [src EXCEPT ![s].st =
               IF card[c].decision = "reject" THEN "rejected" ELSE "needs_info"]
  /\ card' = [WithCards(Rivals(s, c), "cancelled") EXCEPT ![c].st = "applied"]
  /\ UNCHANGED Rest

\* applyTeamBrainCard of an approval, up to its first await: the card is
\* claimed, its rivals are void, and the write asks for the vault.
PressApprove(c) ==
  LET s == card[c].target
      voided == IF s = None THEN {} ELSE Rivals(s, c)
  IN  /\ Pressable(c) /\ card[c].decision = "approve"
      /\ card' = [WithCards(voided, "cancelled") EXCEPT ![c].st = "applied"]
      /\ job' = [job EXCEPT ![c] = [phase |-> "asked", voided |-> voided]]
      /\ GM!Call(c)
      /\ UNCHANGED <<src, left, vaultVars, boot, restore, crashes, late>>

Trailer(c) == IF card[c].target # None THEN card[c].target ELSE c
NewPaths(c) == card[c].target # None \/ card[c].base = None

\* The write ends, well or badly, and the vault is free.
Ends(c, how) == job' = [job EXCEPT ![c].phase = how] /\ GM!Settle(c)

\* Variant of Enter: the working tree is taken as it is.
EnterDirty(c) ==
  /\ Up
  /\ GM!Start(c)
  /\ job' = [job EXCEPT ![c].phase = "entered"]
  /\ UNCHANGED <<rowVars, vaultVars, boot, restore, crashes, late>>

\* applyTeamChangeset has the vault: what a crash left there is put back.
Enter(c) ==
  /\ Up
  /\ GM!Start(c)
  /\ job' = [job EXCEPT ![c].phase = "entered"]
  /\ stray' = {}
  /\ UNCHANGED <<rowVars, head, landed, boot, restore, crashes, late>>

\* Variant of Fits: only the raw source is looked for.
FitsRaw(c) == card[c].target # None => card[c].target \notin landed

\* The page is still the one the draft saw, and the raw source is new.
Fits(c) ==
  /\ head[card[c].page] = card[c].base
  /\ card[c].target # None => card[c].target \notin landed

\* Its checks pass; or they refuse it, or git fails.
Check(c) ==
  /\ Up /\ job[c].phase = "entered"
  /\ \/ Fits(c) /\ job' = [job EXCEPT ![c].phase = "checked"] /\ UNCHANGED lockVars
     \/ Ends(c, "failed")
  /\ UNCHANGED <<rowVars, vaultVars, boot, restore, crashes, late>>

\* Its files are written; or one cannot be, and they are put back.
Write(c) ==
  /\ Up /\ job[c].phase = "checked"
  /\ \/ /\ job' = [job EXCEPT ![c].phase = "written"]
        /\ stray' = stray \cup {c}
        /\ UNCHANGED lockVars
     \/ Ends(c, "failed") /\ UNCHANGED stray
  /\ UNCHANGED <<rowVars, head, landed, boot, restore, crashes, late>>

\* git commit fails: every path is put back to HEAD.
CommitFails(c) ==
  /\ Up /\ job[c].phase = "written"
  /\ Ends(c, "failed")
  /\ stray' = stray \ {c}
  /\ UNCHANGED <<rowVars, head, landed, boot, restore, crashes, late>>

\* The commit is made.  Should reading its id fail after that, the write
\* counts as failed, and the paths it created are taken out of the tree.
Commit(c) ==
  /\ Up /\ job[c].phase = "written"
  /\ head' = [head EXCEPT ![card[c].page] = c]
  /\ landed' = landed \cup {Trailer(c)}
  /\ \/ Ends(c, "done") /\ stray' = stray \ {c} /\ UNCHANGED late
     \/ /\ MayUpset
        /\ late' = late \cup {c}
        /\ Ends(c, "failed")
        /\ stray' = IF NewPaths(c) THEN stray ELSE stray \ {c}
  /\ UNCHANGED <<rowVars, boot, restore, crashes>>

\* approveTargetAfterCommit: pending as a rule; whatever else it is, the
\* vault is right.
Approved(s) ==
  [src EXCEPT ![s].st =
     IF @ \in {"pending", "draft", "needs_info", "rejected", "withdrawn", "expired"}
     THEN "approved" ELSE @]

\* The commit landed: the source is approved.
Finish(c) ==
  /\ Up /\ job[c].phase = "done"
  /\ src' = IF card[c].target = None THEN src ELSE Approved(card[c].target)
  /\ job' = [job EXCEPT ![c] = NoJob]
  /\ UNCHANGED <<card, left, vaultVars, boot, restore, crashes, late, lockVars>>

\* Variant of Release: only the voided drafts come back.
ReleaseVoided(c) ==
  /\ Up /\ job[c].phase = "failed"
  /\ card' = WithCards({d \in job[c].voided : card[d].st = "cancelled"}, "draft")
  /\ job' = [job EXCEPT ![c] = NoJob]
  /\ UNCHANGED <<src, left, vaultVars, boot, restore, crashes, late, lockVars>>

\* release: the card is a draft again, and so are the drafts it voided.
Release(c) ==
  /\ Up /\ job[c].phase = "failed"
  /\ card' = [d \in Cards |->
       IF \/ d = c /\ card[d].st = "applied"
          \/ d \in job[c].voided /\ card[d].st = "cancelled"
       THEN [card[d] EXCEPT !.st = "draft"] ELSE card[d]]
  /\ job' = [job EXCEPT ![c] = NoJob]
  /\ UNCHANGED <<src, left, vaultVars, boot, restore, crashes, late, lockVars>>

-----------------------------------------------------------------------------
(* The rest of what uses the vault, or ends.                               *)

Empty == \A p \in Pages : head[p] = None

\* The promise of a call is taken out of the lock's map.
DropLock(o) ==
  /\ Up
  /\ GM!Drop(o)
  /\ UNCHANGED <<rowVars, job, vaultVars, boot, restore, crashes, late>>

\* TeamBrainBackup.restore, up to its lock: the vault holds no pages.
RestoreAsk ==
  /\ Up /\ restore = "idle" /\ Empty /\ MayUpset
  /\ GM!Call("restore")
  /\ restore' = "asked"
  /\ UNCHANGED <<rowVars, job, vaultVars, boot, crashes, late>>

\* Under the lock it looks again, clones the mirror meanwhile, ...
RestoreEnter ==
  /\ Up /\ GM!Start("restore")
  /\ stray' = {}
  /\ restore' = IF Empty THEN "cloning" ELSE "refused"
  /\ UNCHANGED <<rowVars, job, head, landed, boot, crashes, late>>

\* ... and puts the clone in the place of the vault, unless that failed.
RestoreEnd ==
  /\ Up /\ stage["restore"] = "running"
  /\ GM!Settle("restore")
  /\ restore' = "ended"
  /\ \/ UNCHANGED head
     \/ restore = "cloning" /\ head' = [p \in Pages |-> "mirror"]
  /\ UNCHANGED <<rowVars, job, landed, stray, boot, crashes, late>>

\* deleteUser: the account goes, and its rows with it.
DeleteUser(p) ==
  /\ Up /\ p \notin left
  /\ left' = left \cup {p}
  /\ src' = [s \in Sources |->
       IF OwnerOf[s] = p THEN [src[s] EXCEPT !.st = "gone"] ELSE src[s]]
  /\ card' = WithCards({c \in Cards : OwnerOf[c] = p}, "gone")
  /\ UNCHANGED <<job, vaultVars, boot, restore, crashes, late, lockVars>>

\* The process ends: what it held in memory is lost, and what its avatars
\* were at.
Crash ==
  /\ Up /\ MayUpset
  /\ crashes' = crashes + 1
  /\ card' = [c \in Cards |-> IF card[c].st \in {"read", "prepared"} THEN NoCard ELSE card[c]]
  /\ job' = [c \in Cards |-> NoJob]
  /\ boot' = [phase |-> "down", rows |-> Claimed, log |-> {}]
  /\ restore' = IF restore = "idle" THEN "idle" ELSE "ended"
  /\ GM!Restart
  /\ UNCHANGED <<src, left, vaultVars, late>>

\* A new process: rows claimed before it are the sweep's; the vault is put
\* in order first (migrateTeamBrainOnBoot).
Boot ==
  /\ boot.phase = "down"
  /\ boot' = [boot EXCEPT !.phase = "migrate"]
  /\ GM!Call("boot")
  /\ UNCHANGED <<rowVars, job, vaultVars, restore, crashes, late>>

BootEnter ==
  /\ boot.phase = "migrate"
  /\ GM!Start("boot")
  /\ \/ stray' = {}
     \/ UNCHANGED stray
  /\ UNCHANGED <<rowVars, job, head, landed, boot, restore, crashes, late>>

BootSettle ==
  /\ boot.phase = "migrate" /\ stage["boot"] = "running"
  /\ GM!Settle("boot")
  /\ boot' = [boot EXCEPT !.phase = "list"]
  /\ UNCHANGED <<rowVars, job, vaultVars, restore, crashes, late>>

\* sweepTeamBrainAppliesOnBoot up to its await: the claims of before.
SweepList ==
  /\ boot.phase = "list"
  /\ LET rows == boot.rows \cap Claimed
     IN  boot' = IF rows = {} THEN Started ELSE [boot EXCEPT !.phase = "log", !.rows = rows]
  /\ UNCHANGED <<rowVars, job, vaultVars, restore, crashes, late, lockVars>>

\* The trailers in the log of the vault; or git fails, and the sweep ends.
SweepLog ==
  /\ boot.phase = "log"
  /\ \/ boot' = [boot EXCEPT !.phase = "fix", !.log = landed]
     \/ boot' = [boot EXCEPT !.phase = "up"]
  /\ UNCHANGED <<rowVars, job, vaultVars, restore, crashes, late, lockVars>>

\* What the sweep looks for in the log: the id of the source, if its row is
\* still there, or that of the card.
SweepKey(c) ==
  IF card[c].target # None /\ src[card[c].target].st # "gone"
  THEN card[c].target ELSE c

\* The loop of the sweep, which awaits nothing.
SweepFix ==
  LET found == {c \in boot.rows : SweepKey(c) \in boot.log}
      lost == boot.rows \ found
  IN  /\ boot.phase = "fix"
      /\ src' = [s \in Sources |->
           CASE src[s].st = "pending" /\ (\E c \in found : card[c].target = s)
                  -> [src[s] EXCEPT !.st = "approved"]
             [] src[s].st = "approved" /\ (\E c \in lost : card[c].target = s)
                  -> [src[s] EXCEPT !.st = "pending"]
             [] OTHER -> src[s]]
      /\ card' = [c \in Cards |->
           IF c \in lost /\ card[c].st = "applied" THEN [card[c] EXCEPT !.st = "draft"] ELSE card[c]]
      /\ boot' = Started
      /\ UNCHANGED <<left, job, vaultVars, restore, crashes, late, lockVars>>

-----------------------------------------------------------------------------
WriteStep(c) == Enter(c) \/ Check(c) \/ Write(c) \/ CommitFails(c) \/ Commit(c)
                  \/ Finish(c) \/ Release(c)
BootStep == Boot \/ BootEnter \/ BootSettle \/ SweepList \/ SweepLog \/ SweepFix
RestoreStep == RestoreEnter \/ RestoreEnd

Next ==
  \/ \E s \in Sources : Propose(s) \/ Submit(s) \/ Answer(s) \/ Withdraw(s)
  \/ \E c \in Cards : Cancel(c) \/ Prepare(c) \/ Draft(c)
       \/ PressRefusal(c) \/ PressApprove(c) \/ WriteStep(c)
  \/ \E R \in SUBSET Rows : Expire(R) \/ Rewind(R)
  \/ \E c \in Cards, s \in Sources \cup {None}, p \in Pages : Read(c, s, p)
  \/ \E c \in Reviews, s \in Sources, d \in {"reject", "ask"} : DraftRefusal(c, s, d)
  \/ \E o \in LockOps : DropLock(o)
  \/ \E p \in Leaving : DeleteUser(p)
  \/ RestoreAsk \/ RestoreStep \/ Crash \/ BootStep

\* What has been asked of the event loop and of git is done; people, avatars
\* and the end of the process owe nothing.
Fairness ==
  /\ \A c \in Cards : WF_vars(WriteStep(c))
  /\ WF_vars(BootStep)
  /\ WF_vars(RestoreStep)

Spec == Init /\ [][Next]_vars /\ Fairness
-----------------------------------------------------------------------------
TypeOK ==
  /\ src \in [Sources -> [st : {"none", "draft", "pending", "needs_info", "approved",
                               "rejected", "withdrawn", "expired", "gone"},
                          round : 0..MaxRounds]]
  /\ card \in [Cards -> [st : {"none", "read", "prepared", "draft", "applied",
                              "cancelled", "expired", "gone"},
                         target : Sources \cup {None},
                         decision : {"approve", "reject", "ask"},
                         page : Pages \cup {None},
                         base : Cards \cup {"mirror", None},
                         round : 0..MaxRounds]]
  /\ left \subseteq Leaving
  /\ job \in [Cards -> [phase : {"none", "asked", "entered", "checked", "written",
                                "done", "failed"},
                        voided : SUBSET Reviews]]
  /\ head \in [Pages -> Cards \cup {"mirror", None}]
  /\ landed \subseteq Sources \cup Directs
  /\ stray \subseteq Cards
  /\ boot \in [phase : {"up", "down", "migrate", "list", "log", "fix"},
               rows : SUBSET Cards, log : SUBSET (Sources \cup Directs)]
  /\ restore \in {"idle", "asked", "cloning", "refused", "ended"}
  /\ crashes \in 0..MaxUpsets
  /\ late \subseteq Cards
  /\ GM!TypeOK

\* A page changes only from the blob its writer was drafted against, or from
\* nothing when the backup is restored: whatever was approved, restored or
\* crashed in between, no change of a page is overwritten unseen.
NothingOverwritten ==
  [][\A p \in Pages : head'[p] # head[p] =>
       \/ head[p] = None /\ head'[p] = "mirror"
       \/ \E c \in Cards : head'[p] = c /\ card[c].page = p /\ card[c].base = head[p]]_vars

\* A changeset is judged and committed in a working tree that holds no other
\* card's files: neither those of a write that failed nor those a crash left.
WritersSeeHead ==
  \A c \in Cards :
    /\ job[c].phase \in {"entered", "checked"} => stray = {}
    /\ job[c].phase = "written" => stray = {c}

\* The row of a source follows the vault.  It says approved only of a source
\* that is committed; and a committed source is approved, or its approval is
\* still in flight, so nobody can withdraw or refuse it: unless its commit
\* was reported failed or the account that pressed the card is gone.
SourceFollowsVault ==
  \A s \in Sources :
    /\ src[s].st = "approved" => s \in landed
    /\ s \in landed =>
         \/ src[s].st \in {"approved", "gone"}
         \/ InFlight(s)
         \/ \E c \in Reviews : card[c].target = s /\ (c \in late \/ card[c].st = "gone")

\* Every claim is settled: its commit stands in the log, or the card is no
\* longer applied; what a crash cut is mended by the sweep, unless git failed
\* it, which leaves the rows to the next start.
ClaimsSettle ==
  \A c \in Cards :
    c \in Claimed ~> \/ Trailer(c) \in landed
                     \/ c \notin Claimed
                     \/ boot.phase = "up" /\ c \in boot.rows

\* The vault's lock is served first come, first served (GitMutex).
IsAFifoLock == GM!IsAFifoLock

\* The sweep at the start puts back only cards whose commit never landed.
SweepKeepsLanded ==
  [][\A c \in Cards :
       boot.phase = "fix" /\ card[c].st = "applied" /\ card'[c].st = "draft"
         => Trailer(c) \notin landed]_vars
=============================================================================
