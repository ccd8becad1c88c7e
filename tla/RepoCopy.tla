------------------------------ MODULE RepoCopy ------------------------------
(***************************************************************************)
(* The sandbox copy of one registered git repository, shared by all the    *)
(* conversations of its owner (activeRepoLock.ts, activeRepoResolve.ts,    *)
(* agent/gitRepoTools.ts, agent/pi/piRepoCopy.ts).                         *)
(*                                                                         *)
(* Two devices keep one conversation's half-done edits out of another's    *)
(* commit.  The in-memory run lock (heldBy) says whose run works on the    *)
(* copy now: a turn takes it when it starts with the repository open, a    *)
(* git_repo tool takes it in the middle of a run, and both give it back at *)
(* the end.  The persisted claim (holder) says whose uncommitted edits may *)
(* lie in the copy between runs.  Neither is taken in one step: every path *)
(* takes the lock, awaits the claim, awaits git, and may fail in between.  *)
(* A call of a run is a turn start or a tool; its `at` is the await it is  *)
(* suspended at.                                                           *)
(***************************************************************************)
EXTENDS Naturals, FiniteSets

CONSTANTS Conversations,  \* the owner's conversations
          Runs,           \* seats for runs: one run at a time in each, then the next
          Routines,       \* the seats of scheduled runs; the others are chat turns
          ConvOf,         \* the conversation of each seat
          NoOne,          \* no conversation
          MaxAtOnce       \* bound: how many seats are in use at a time

ASSUME SeatsAssumption ==
  /\ Routines \subseteq Runs
  /\ ConvOf \in [Runs -> Conversations]
  /\ NoOne \notin Conversations
  /\ MaxAtOnce \in Nat

VARIABLES
  heldBy,      \* the conversation holding the run lock of the copy
  gives,       \* gives[r]: the turn must give the lock back when it ends
  taken,       \* taken[r]: a tool of the run newly took the lock
  made,        \* the copy exists
  behind,      \* Noah's clone moved since the copy was made
  holder,      \* the conversation the copy's record names
  edits,       \* the conversations whose uncommitted edits lie in the copy
  registered,  \* the repository is registered
  open,        \* open[c]: the conversation's working repository is this one
  phase,       \* where each run is
  works,       \* works[r]: the run was told to work on the copy
  call,        \* the turn start or tool call of each run that is under way
  apart,       \* no two runs of one conversation have overlapped so far
  tidy         \* no tool call has outlived its run so far

lockVars == <<heldBy, gives, taken>>
copyVars == <<made, behind, holder, edits>>
repoVars == <<registered, open>>
runVars  == <<phase, works, call>>
flags    == <<apart, tidy>>
vars     == <<lockVars, copyVars, repoVars, runVars, flags>>

\* A "bring" is a sync_repo with `from`, another registered repository.
Tools  == {"open", "sync", "bring", "commit", "remove"}
\* A register_repo call, of a repository not yet or already registered.
Registrations == {"register", "renew"}
NoCall == [op |-> "none", at |-> "none", fresh |-> FALSE]
Calls  == [op : Tools \cup Registrations \cup {"start"},
           at : {"clone", "ask", "check", "take", "act", "finish"}, fresh : BOOLEAN]
Phases == {"idle", "admitted", "resolving", "prepared", "running", "closing"}

TypeOK ==
  /\ heldBy \in Conversations \cup {NoOne}
  /\ holder \in Conversations \cup {NoOne}
  /\ gives \in [Runs -> BOOLEAN] /\ taken \in [Runs -> BOOLEAN]
  /\ made \in BOOLEAN /\ behind \in BOOLEAN /\ registered \in BOOLEAN
  /\ edits \subseteq Conversations
  /\ open \in [Conversations -> BOOLEAN]
  /\ phase \in [Runs -> Phases] /\ works \in [Runs -> BOOLEAN]
  /\ call \in [Runs -> Calls \cup {NoCall}]
  /\ apart \in BOOLEAN /\ tidy \in BOOLEAN
  /\ \A r \in Runs :
       /\ call[r].op = "start" <=> phase[r] = "resolving"
       /\ call[r].op \in Registrations <=> call[r].at = "clone"
       /\ phase[r] \in {"admitted", "prepared"} => call[r].op = "none"
       /\ gives[r] => phase[r] \in {"prepared", "running", "closing"}
       /\ taken[r] => phase[r] = "running"
       /\ works[r] => phase[r] \in {"prepared", "running"}
  /\ ~made => (edits = {} /\ ~behind)

Init ==
  /\ heldBy = NoOne /\ holder = NoOne
  /\ gives = [r \in Runs |-> FALSE] /\ taken = [r \in Runs |-> FALSE]
  /\ made = FALSE /\ behind = FALSE /\ edits = {}
  /\ registered = TRUE /\ open = [c \in Conversations |-> FALSE]
  /\ phase = [r \in Runs |-> "idle"] /\ works = [r \in Runs |-> FALSE]
  /\ call = [r \in Runs |-> NoCall]
  /\ apart = TRUE /\ tidy = TRUE

-----------------------------------------------------------------------------
(* The lock and the claim. *)

\* acquireActiveRepo succeeds: the lock is free, or the conversation's own.
Free(c) == heldBy \in {NoOne, c}

\* releaseActiveRepo: by conversation, whoever of its runs took the lock.
Release(c) == heldBy' = IF heldBy = c THEN NoOne ELSE heldBy

\* claimPiRepoCopy up to its first await: what is read before it decides what
\* the claim does after it.
Looked(c) ==
  IF ~made THEN "act"
  ELSE IF holder \notin {NoOne, c} /\ open[holder] THEN "check"
  ELSE IF holder # c THEN "take" ELSE "act"

\* A chat turn in the run registry; routines are not in it.
ActiveChat(c) ==
  \E r \in Runs \ Routines : ConvOf[r] = c /\ phase[r] \in {"running", "closing"}

Alone(r) ==
  \A s \in Runs \ {r} : ConvOf[s] = ConvOf[r] => phase[s] = "idle"

At(r, ops, ats) == call[r].op \in ops /\ call[r].at \in ats
MoveTo(r, at) ==
  call' = [call EXCEPT ![r] = [op |-> call[r].op, at |-> at,
                               fresh |-> call[r].fresh /\ at = "take"]]
Return(r) == call' = [call EXCEPT ![r] = NoCall]
Go(r, p) == phase' = [phase EXCEPT ![r] = p]

-----------------------------------------------------------------------------
(* A turn starts: resolveActiveWorkspaceRepo. *)

\* The seat is free, and the bound leaves room for a run.
Seated(r) ==
  /\ phase[r] = "idle" /\ call[r] = NoCall
  /\ Cardinality({s \in Runs : phase[s] # "idle" \/ call[s] # NoCall}) < MaxAtOnce

\* The chat route's first check, with awaits between it and the resolution.
Admit(r) ==
  /\ r \notin Routines /\ Seated(r)
  /\ ~ActiveChat(ConvOf[r])
  /\ Go(r, "admitted")
  /\ apart' = (apart /\ Alone(r))
  /\ UNCHANGED <<lockVars, copyVars, repoVars, works, call, tidy>>

\* A chat turn was admitted; a firing is checked and resolved in one step.
Resolving(r) ==
  IF r \in Routines
  THEN Seated(r) /\ ~ActiveChat(ConvOf[r])
  ELSE phase[r] = "admitted"

\* No repository is open, or git_repo is not among the run's tool groups.  A
\* pointer to a repository that is gone is cleared.
ResolveNone(r) ==
  LET c == ConvOf[r] IN
  /\ Resolving(r)
  /\ \/ UNCHANGED open
     \/ open[c] /\ ~registered /\ open' = [open EXCEPT ![c] = FALSE]
  /\ Go(r, "prepared")
  /\ apart' = (apart /\ Alone(r))
  /\ UNCHANGED <<lockVars, copyVars, registered, works, call, tidy>>

\* Another conversation's run has the copy: 409, or the firing is skipped.
ResolveLocked(r) ==
  LET c == ConvOf[r] IN
  /\ Resolving(r) /\ open[c] /\ registered /\ ~Free(c)
  /\ Go(r, "idle")
  /\ UNCHANGED <<lockVars, copyVars, repoVars, works, call, flags>>

ResolveTakes(r) ==
  LET c == ConvOf[r] IN
  /\ Resolving(r) /\ open[c] /\ registered /\ Free(c)
  /\ heldBy' = c
  /\ Go(r, "resolving")
  /\ call' = [call EXCEPT ![r] = [op |-> "start", at |-> Looked(c), fresh |-> FALSE]]
  /\ apart' = (apart /\ Alone(r))
  /\ UNCHANGED <<gives, taken, copyVars, repoVars, works, tidy>>

\* ensurePiRepoCopy "when-missing": an existing copy is left alone.
StartMakes(r) ==
  /\ At(r, {"start"}, {"act"})
  /\ made' = TRUE
  /\ MoveTo(r, "finish")
  /\ UNCHANGED <<lockVars, behind, holder, edits, repoVars, phase, works, flags>>

\* A mutant: the copy just made is not recorded as the conversation's.
StartReadyUnrecorded(r) ==
  /\ At(r, {"start"}, {"finish"})
  /\ gives' = [gives EXCEPT ![r] = TRUE]
  /\ works' = [works EXCEPT ![r] = TRUE]
  /\ Go(r, "prepared") /\ Return(r)
  /\ UNCHANGED <<heldBy, taken, copyVars, repoVars, flags>>

StartReady(r) ==
  /\ At(r, {"start"}, {"finish"})
  /\ holder' = IF made THEN ConvOf[r] ELSE holder
  /\ gives' = [gives EXCEPT ![r] = TRUE]
  /\ works' = [works EXCEPT ![r] = TRUE]
  /\ Go(r, "prepared") /\ Return(r)
  /\ UNCHANGED <<heldBy, taken, made, behind, edits, repoVars, flags>>

\* The start is refused (`held`) or fails: the lock goes back at once.  A chat
\* turn ends; a firing that failed goes on without the repository.
StartWithdraws(r) ==
  /\ \/ At(r, {"start"}, {"check"}) /\ edits # {} /\ Go(r, "idle")
     \/ /\ At(r, {"start"}, {"check", "take", "act", "finish"})
        /\ Go(r, IF r \in Routines THEN "prepared" ELSE "idle")
  /\ Release(ConvOf[r]) /\ Return(r)
  /\ UNCHANGED <<gives, taken, copyVars, repoVars, works, flags>>

-----------------------------------------------------------------------------
(* The claim's awaits, at a turn's start and in the tools alike. *)

\* A mutant: a copy older than the clone counts as unchanged.
ClaimIsCleanMoved(r) ==
  /\ call[r].at = "check" /\ (edits = {} \/ behind)
  /\ MoveTo(r, "take")
  /\ UNCHANGED <<lockVars, copyVars, repoVars, phase, works, flags>>

\* The foreign claim covers no uncommitted edit: it is taken over.
ClaimIsClean(r) ==
  /\ call[r].at = "check" /\ edits = {}
  /\ MoveTo(r, "take")
  /\ UNCHANGED <<lockVars, copyVars, repoVars, phase, works, flags>>

ClaimTakes(r) ==
  /\ call[r].at = "take"
  /\ holder' = IF made THEN ConvOf[r] ELSE holder
  /\ MoveTo(r, "act")
  /\ UNCHANGED <<lockVars, made, behind, edits, repoVars, phase, works, flags>>

-----------------------------------------------------------------------------
(* The run: edits and git_repo tools. *)

\* The second check, with no await before the run is reserved.
Open(r) ==
  /\ phase[r] = "prepared"
  /\ r \in Routines \/ ~ActiveChat(ConvOf[r])
  /\ Go(r, "running")
  /\ UNCHANGED <<lockVars, copyVars, repoVars, works, call, flags>>

\* Another turn won: its release is forgotten, since the winner frees the lock.
Raced(r) ==
  /\ phase[r] = "prepared" /\ r \notin Routines /\ ActiveChat(ConvOf[r])
  /\ gives' = [gives EXCEPT ![r] = FALSE]
  /\ works' = [works EXCEPT ![r] = FALSE]
  /\ Go(r, "idle")
  /\ UNCHANGED <<heldBy, taken, copyVars, repoVars, call, flags>>

\* The agent edits the copy with its sandbox tools, which take no lock.
Edit(r) ==
  /\ phase[r] = "running" /\ works[r] /\ made
  /\ edits' = edits \cup {ConvOf[r]}
  /\ UNCHANGED <<lockVars, made, behind, holder, repoVars, runVars, flags>>

\* sync_repo with `from` looks up both repositories and awaits git before it
\* asks for the lock; the other calls ask at once.
SyncFetches(r) ==
  /\ phase[r] = "running" /\ call[r] = NoCall /\ registered
  /\ call' = [call EXCEPT ![r] = [op |-> "bring", at |-> "ask", fresh |-> FALSE]]
  /\ UNCHANGED <<lockVars, copyVars, repoVars, phase, works, flags>>

Asking(r, op) ==
  \/ phase[r] = "running" /\ call[r] = NoCall /\ registered /\ op # "bring"
  \/ op = "bring" /\ At(r, {"bring"}, {"ask"})

\* A mutant: a closed RunRepoLocks still takes.
MayTakeLate(r) == TRUE

\* RunRepoLocks.closed: nothing is taken once the run has ended.
MayTake(r) == phase[r] = "running"

AskTakes(r, op) ==
  LET c == ConvOf[r]
      new == heldBy = NoOne /\ ~taken[r]
      at == Looked(c) IN
  /\ Asking(r, op) /\ MayTake(r) /\ Free(c)
  /\ heldBy' = c
  /\ taken' = [taken EXCEPT ![r] = @ \/ new]
  /\ call' = [call EXCEPT ![r] = [op |-> op, at |-> at, fresh |-> new /\ at # "act"]]
  /\ UNCHANGED <<gives, copyVars, repoVars, phase, works, flags>>

AskRefused(r) ==
  /\ At(r, {"bring"}, {"ask"})
  /\ ~MayTake(r) \/ ~Free(ConvOf[r])
  /\ Return(r)
  /\ UNCHANGED <<lockVars, copyVars, repoVars, phase, works, flags>>

\* A mutant: the undo gives back a lock that an earlier tool took.
ToolWithdrawsAll(r) ==
  /\ At(r, Tools, {"check", "take"})
  /\ taken' = [taken EXCEPT ![r] = FALSE]
  /\ IF taken[r] THEN Release(ConvOf[r]) ELSE UNCHANGED heldBy
  /\ Return(r)
  /\ UNCHANGED <<gives, copyVars, repoVars, phase, works, flags>>

\* The claim is held or its check throws: what this call newly took is undone.
ToolWithdraws(r) ==
  LET undo == call[r].fresh /\ taken[r] IN
  /\ At(r, Tools, {"check", "take"})
  /\ taken' = [taken EXCEPT ![r] = @ /\ ~undo]
  /\ IF undo THEN Release(ConvOf[r]) ELSE UNCHANGED heldBy
  /\ Return(r)
  /\ UNCHANGED <<gives, copyVars, repoVars, phase, works, flags>>

\* A later step throws: the tool reports it and keeps the lock.
ToolFails(r) ==
  /\ At(r, Tools, {"act", "finish"})
  /\ Return(r)
  /\ UNCHANGED <<lockVars, copyVars, repoVars, phase, works, flags>>

\* ensurePiRepoCopy "keep": a copy that is not current is moved aside.
OpenCopies(r) ==
  /\ At(r, {"open"}, {"act"})
  /\ IF made /\ ~behind THEN UNCHANGED <<made, behind, edits>>
     ELSE made' = TRUE /\ behind' = FALSE /\ edits' = {}
  /\ MoveTo(r, "finish")
  /\ UNCHANGED <<lockVars, holder, repoVars, phase, works, flags>>

OpenSelects(r) ==
  LET c == ConvOf[r] IN
  /\ At(r, {"open"}, {"finish"})
  /\ holder' = IF made THEN c ELSE holder
  /\ open' = [open EXCEPT ![c] = TRUE]
  /\ works' = [works EXCEPT ![r] = phase[r] = "running"]
  /\ Return(r)
  /\ UNCHANGED <<lockVars, made, behind, edits, registered, phase, flags>>

\* commitPiRepoCopy commits every edit in the copy, whoever made it, and
\* nothing from a copy that is missing or older than the clone.
Commit(r) ==
  /\ At(r, {"commit"}, {"act"})
  /\ edits' = IF made /\ ~behind THEN {} ELSE edits
  /\ Return(r)
  /\ UNCHANGED <<lockVars, made, behind, holder, repoVars, phase, works, flags>>

\* sync_repo: an edited copy is refused, unless its files are what `from`
\* brings; otherwise the clone moves first and the copy is refreshed after it.
SyncRefused(r) ==
  /\ At(r, {"sync", "bring"}, {"act"}) /\ edits # {}
  /\ Return(r)
  /\ UNCHANGED <<lockVars, copyVars, repoVars, phase, works, flags>>

SyncPulls(r) ==
  /\ At(r, {"sync", "bring"}, {"act"})
  /\ edits = {} \/ call[r].op = "bring"
  /\ behind' \in {behind, made}
  /\ MoveTo(r, "finish")
  /\ UNCHANGED <<lockVars, made, holder, edits, repoVars, phase, works, flags>>

SyncRefreshes(r) ==
  /\ At(r, {"sync", "bring"}, {"finish"})
  /\ made' = TRUE /\ behind' = FALSE /\ edits' = {}
  /\ Return(r)
  /\ UNCHANGED <<lockVars, holder, repoVars, phase, works, flags>>

\* remove_repo: the registration goes first, the clone and the copy after it.
RemoveUnlists(r) ==
  /\ At(r, {"remove"}, {"act"})
  /\ registered' = FALSE
  /\ MoveTo(r, "finish")
  /\ UNCHANGED <<lockVars, copyVars, open, phase, works, flags>>

RemoveWipes(r) ==
  /\ At(r, {"remove"}, {"finish"})
  /\ made' = FALSE /\ behind' = FALSE /\ holder' = NoOne /\ edits' = {}
  /\ works' = [works EXCEPT ![r] = FALSE]
  /\ Return(r)
  /\ UNCHANGED <<lockVars, repoVars, phase, flags>>

\* close_repo and register_repo take no lock.
CloseRepo(r) ==
  /\ phase[r] = "running" /\ open[ConvOf[r]]
  /\ open' = [open EXCEPT ![ConvOf[r]] = FALSE]
  /\ UNCHANGED <<lockVars, copyVars, registered, runVars, flags>>

\* The row is written before the clone is awaited, and taken back if that
\* fails, unless it was there before.  A clone that moves leaves the copy behind.
RegisterLists(r) ==
  /\ phase[r] = "running" /\ call[r] = NoCall
  /\ registered' = TRUE
  /\ call' = [call EXCEPT ![r] = [op |-> IF registered THEN "renew" ELSE "register",
                                  at |-> "clone", fresh |-> FALSE]]
  /\ UNCHANGED <<lockVars, copyVars, open, phase, works, flags>>

RegisterSyncs(r) ==
  /\ At(r, Registrations, {"clone"})
  /\ behind' \in {behind, made}
  /\ Return(r)
  /\ UNCHANGED <<lockVars, made, holder, edits, repoVars, phase, works, flags>>

RegisterFails(r) ==
  /\ At(r, Registrations, {"clone"})
  /\ registered' = (registered /\ call[r].op = "renew")
  /\ behind' \in {behind, made}
  /\ Return(r)
  /\ UNCHANGED <<lockVars, made, holder, edits, open, phase, works, flags>>

-----------------------------------------------------------------------------
(* The end. *)

\* runPiAgent's finally.  The token is revoked and the tool calls under way
\* are answered, but their handlers are not stopped.
AgentEnds(r) ==
  /\ phase[r] = "running"
  /\ Go(r, "closing")
  /\ IF taken[r] THEN Release(ConvOf[r]) ELSE UNCHANGED heldBy
  /\ taken' = [taken EXCEPT ![r] = FALSE]
  /\ works' = [works EXCEPT ![r] = FALSE]
  /\ tidy' = (tidy /\ call[r] = NoCall)
  /\ UNCHANGED <<gives, copyVars, repoVars, call, apart>>

\* The turn's outer finally, after a run or after a prelude that threw.
TurnEnds(r) ==
  /\ phase[r] \in {"prepared", "closing"}
  /\ Go(r, "idle")
  /\ IF gives[r] THEN Release(ConvOf[r]) ELSE UNCHANGED heldBy
  /\ gives' = [gives EXCEPT ![r] = FALSE]
  /\ works' = [works EXCEPT ![r] = FALSE]
  /\ UNCHANGED <<taken, copyVars, repoVars, call, flags>>

Starting(r) ==
  \/ Admit(r) \/ ResolveNone(r) \/ ResolveLocked(r) \/ ResolveTakes(r)
  \/ StartMakes(r) \/ StartReady(r) \/ StartWithdraws(r)
  \/ Open(r) \/ Raced(r)

Tool(r) ==
  \/ SyncFetches(r) \/ (\E op \in Tools : AskTakes(r, op)) \/ AskRefused(r)
  \/ ToolWithdraws(r) \/ ToolFails(r)
  \/ OpenCopies(r) \/ OpenSelects(r) \/ Commit(r)
  \/ SyncRefused(r) \/ SyncPulls(r) \/ SyncRefreshes(r)
  \/ RemoveUnlists(r) \/ RemoveWipes(r) \/ CloseRepo(r)
  \/ RegisterLists(r) \/ RegisterSyncs(r) \/ RegisterFails(r)

Next ==
  \E r \in Runs :
    \/ Starting(r) \/ ClaimIsClean(r) \/ ClaimTakes(r)
    \/ Edit(r) \/ Tool(r) \/ AgentEnds(r) \/ TurnEnds(r)

Spec == Init /\ [][Next]_vars

-----------------------------------------------------------------------------
(* Properties. *)

\* No two runs of different conversations are told to work on the copy at the
\* same time, whether they started with the repository open or opened it with
\* a tool, unless two runs of one conversation have overlapped: the lock is
\* re-entrant by conversation and released by it (activeRepoLock.ts).
ExclusiveWork ==
  apart => \A r, s \in Runs : works[r] /\ works[s] => ConvOf[r] = ConvOf[s]

\* The lock is held only on behalf of a conversation that has a run under way:
\* no refusal, failed claim, failed clone, undo or tool call that outlives its
\* run leaves it behind.
LockIsGivenBack ==
  apart /\ heldBy # NoOne =>
    \E r \in Runs : ConvOf[r] = heldBy /\ phase[r] # "idle"

\* The record names the conversation whose uncommitted edits the claim must
\* protect: without it the next claim would take that conversation's work.
HolderOwnsTheEdits ==
  apart /\ tidy => \A c \in edits : open[c] => holder = c

\* A conversation that keeps the repository open loses uncommitted edits from
\* the copy (committed, moved aside or removed) only to a tool of its own.
UncommittedWorkStays ==
  [][apart' /\ tidy' => \A c \in edits \ edits' :
       open[c] => \E r \in Runs : ConvOf[r] = c /\ call'[r] # call[r]]_vars

\* What copyAccessRefusal (agent/gitRepoTools.ts) and RunRepoLocks promise, for
\* tool calls that outlive their run too: the edits of a conversation that
\* keeps the repository open are never taken by another conversation's call.
\* The code does not keep it (README, Disagreements).
HalfDoneWorkStays ==
  [][apart' => \A c \in edits \ edits' :
       open[c] => \E r \in Runs : ConvOf[r] = c /\ call'[r] # call[r]]_vars
=============================================================================
