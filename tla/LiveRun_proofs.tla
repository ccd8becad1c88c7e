--------------------------- MODULE LiveRun_proofs ---------------------------
(***************************************************************************)
(* Proofs about a live run.  First what its registry shows the browsers    *)
(* and parks for them, for any questions, browsers and frames; then the    *)
(* loop that drives pi with its mid-turn messages and background jobs, for *)
(* any messages and jobs, any bound of the queue and of the question       *)
(* rounds, whatever pi does.                                               *)
(***************************************************************************)
EXTENDS RunRegistry, MidTurn, FiniteSetTheorems, TLAPS

(***************************************************************************)
(* The run registry (RunRegistry).                                         *)
(***************************************************************************)

-----------------------------------------------------------------------------
(* The frames of a step have fresh ids. *)

\* What a step may write: frames of the right type, with the ids of this step.
Fresh(new, n) ==
  /\ n \in Nat
  /\ new \in SUBSET Frame
  /\ \A f \in new : nextEventId < f.id /\ f.id <= nextEventId + n

LEMMA FrameOfFresh ==
  ASSUME RegistryTypeOK, NEW i \in Nat, NEW n \in Nat, 1 <= i, i <= n,
         NEW event \in {"ask", "prompt_resolved", "status", "end"},
         NEW q \in Requests \cup {NoRequest}
  PROVE  Fresh({FrameOf(i, event, q)}, n)
BY DEF RegistryTypeOK, Fresh, FrameOf, FrameId, Frame

LEMMA FreshUnion ==
  ASSUME NEW n, NEW A, NEW B, Fresh(A, n), Fresh(B, n)
  PROVE  Fresh(A \cup B, n)
BY DEF Fresh

LEMMA PendingFinite ==
  ASSUME RegistryTypeOK
  PROVE  IsFiniteSet(pending) /\ Cardinality(pending) \in Nat
<1>1. IsFiniteSet(pending)
  BY RequestsAssumption, FS_Subset DEF RegistryTypeOK
<1>. QED  BY <1>1, FS_CardinalityType

LEMMA RankRange ==
  ASSUME RegistryTypeOK, NEW q \in pending
  PROVE  Rank(q) \in Nat /\ 1 <= Rank(q) /\ Rank(q) <= Cardinality(pending)
<1> DEFINE S == {p \in pending : p = q \/ AskedAt(p) < AskedAt(q)}
<1>1. IsFiniteSet(pending) /\ S \subseteq pending /\ q \in S
  BY PendingFinite
<1>2. IsFiniteSet(S) /\ Cardinality(S) <= Cardinality(pending)
  BY <1>1, FS_Subset
<1>3. Cardinality(S) \in Nat
  BY <1>2, FS_CardinalityType
<1>4. Cardinality(S) # 0
  BY <1>1, <1>2, FS_EmptySet
<1>5. Rank(q) = Cardinality(S)
  BY DEF Rank
<1>. QED  BY <1>2, <1>3, <1>4, <1>5

LEMMA ReleasesFresh ==
  ASSUME RegistryTypeOK, NEW n \in Nat, Cardinality(pending) <= n
  PROVE  Fresh(Releases, n)
<1>1. ASSUME NEW q \in pending
      PROVE  Fresh({FrameOf(Rank(q), "prompt_resolved", q)}, n)
  <2>1. Rank(q) \in Nat /\ 1 <= Rank(q) /\ Rank(q) <= n
    BY RankRange, PendingFinite
  <2>2. q \in Requests \cup {NoRequest}
    BY DEF RegistryTypeOK
  <2>. QED  BY <2>1, <2>2, FrameOfFresh
<1>. QED  BY <1>1 DEF Fresh, Releases

-----------------------------------------------------------------------------
(* The journal. *)

\* Ids are positive and never beyond the counter; a browser shows only frames
\* that were emitted.
Numbered ==
  /\ \A f \in frames : 0 < f.id /\ f.id <= nextEventId
  /\ \A c \in Clients : got[c] \subseteq frames /\ cursor[c] <= nextEventId

\* A browser has every kept frame up to its cursor, and all of them while it
\* is connected.
CaughtUp ==
  \A c \in Clients : \A f \in Kept :
    (c \in attached \/ f.id <= cursor[c]) => f \in got[c]

JournalInv == RegistryTypeOK /\ Numbered /\ CaughtUp

LEMMA EmitJournal ==
  ASSUME JournalInv, NEW new, NEW n, Fresh(new, n), Emit(new, n),
         attached' \subseteq attached
  PROVE  /\ frames' \in SUBSET Frame /\ nextEventId' \in Nat
         /\ got' \in [Clients -> SUBSET Frame] /\ cursor' \in [Clients -> Nat]
         /\ Numbered' /\ CaughtUp'
<1>0. /\ n \in Nat /\ nextEventId \in Nat /\ new \in SUBSET Frame
      /\ \A f \in frames \cup new : f.id \in Nat
      /\ \A c \in Clients : cursor[c] \in Nat
  BY DEF JournalInv, RegistryTypeOK, Fresh, Frame
<1>1. frames' = frames \cup new /\ nextEventId' = nextEventId + n
  BY DEF Emit
<1>2. \A c \in Clients : got'[c] = IF c \in attached THEN got[c] \cup new ELSE got[c]
  BY DEF Emit
<1>3. \A c \in Clients : cursor'[c] = IF c \in attached /\ n > 0 THEN nextEventId + n ELSE cursor[c]
  BY DEF Emit, FrameId
<1>4. frames' \in SUBSET Frame /\ nextEventId' \in Nat
  BY <1>0, <1>1 DEF JournalInv, RegistryTypeOK
<1>5. got' \in [Clients -> SUBSET Frame]
  BY <1>0 DEF JournalInv, RegistryTypeOK, Emit
<1>6. cursor' \in [Clients -> Nat]
  BY <1>0 DEF JournalInv, RegistryTypeOK, Emit, FrameId
<1>7. Numbered'
  <2>1. \A f \in frames' : 0 < f.id /\ f.id <= nextEventId'
    BY <1>0, <1>1 DEF JournalInv, Numbered, Fresh
  <2>2. ASSUME NEW c \in Clients PROVE got'[c] \subseteq frames'
    <3>1. got[c] \subseteq frames  BY DEF JournalInv, Numbered
    <3>. QED  BY <1>1, <1>2, <3>1
  <2>3. ASSUME NEW c \in Clients PROVE cursor'[c] <= nextEventId'
    <3>1. cursor[c] \in Nat /\ cursor[c] <= nextEventId
      BY <1>0 DEF JournalInv, Numbered
    <3>. QED  BY <1>0, <1>1, <1>3, <3>1
  <2>. QED  BY <2>1, <2>2, <2>3 DEF Numbered
<1>8. CaughtUp'
  <2> SUFFICES ASSUME NEW c \in Clients, NEW f \in Kept',
                      c \in attached' \/ f.id <= cursor'[c]
               PROVE  f \in got'[c]
    BY DEF CaughtUp
  <2>1. f \in frames \cup new /\ f.replay
    BY <1>1 DEF Kept
  <2>2. CASE c \in attached
    BY <1>2, <2>1, <2>2 DEF JournalInv, CaughtUp, Kept
  <2>3. CASE c \notin attached
    <3>1. f.id <= cursor[c] /\ cursor[c] <= nextEventId
      BY <1>3, <2>3 DEF JournalInv, Numbered
    <3>2. f \notin new
      BY <1>0, <3>1 DEF Fresh
    <3>. QED  BY <1>2, <2>1, <2>3, <3>1, <3>2 DEF JournalInv, CaughtUp, Kept
  <2>. QED  BY <2>2, <2>3
<1>. QED  BY <1>4, <1>5, <1>6, <1>7, <1>8

LEMMA SettledType ==
  ASSUME RegistryTypeOK, NEW S, NEW how \in {"parked", "answered", "cancelled"}
  PROVE  Settled(S, how) \in [Requests -> {"idle", "parked", "answered", "cancelled"}]
BY DEF RegistryTypeOK, Settled

LEMMA JournalInit == RegistryInit => JournalInv
<1> SUFFICES ASSUME RegistryInit PROVE JournalInv
  OBVIOUS
<1>1. RegistryTypeOK
  BY DEF RegistryInit, RegistryTypeOK
<1>2. Numbered /\ CaughtUp
  BY DEF RegistryInit, Numbered, CaughtUp, Kept
<1>. QED  BY <1>1, <1>2 DEF JournalInv

LEMMA JournalStep == JournalInv /\ [RegistryNext]_registryVars => JournalInv'
<1> SUFFICES ASSUME JournalInv, [RegistryNext]_registryVars PROVE JournalInv'
  OBVIOUS
<1>0. RegistryTypeOK  BY DEF JournalInv
<1>1. ASSUME NEW new, NEW n, Fresh(new, n), Emit(new, n), attached' \subseteq attached,
             outcome' \in [Requests -> {"idle", "parked", "answered", "cancelled"}],
             pending' \in SUBSET Requests,
             closed' \in BOOLEAN, cancelled' \in BOOLEAN, aborted' \in BOOLEAN
      PROVE  JournalInv'
  <2>1. attached' \in SUBSET Clients  BY <1>0, <1>1 DEF RegistryTypeOK
  <2>. QED  BY <1>1, <2>1, EmitJournal DEF JournalInv, RegistryTypeOK
<1>2. ASSUME UNCHANGED <<frames, nextEventId, got, cursor>>, attached' \subseteq attached,
             outcome' \in [Requests -> {"idle", "parked", "answered", "cancelled"}],
             pending' \in SUBSET Requests,
             closed' \in BOOLEAN, cancelled' \in BOOLEAN, aborted' \in BOOLEAN
      PROVE  JournalInv'
  BY <1>2 DEF JournalInv, RegistryTypeOK, Numbered, CaughtUp, Kept
<1>3. ASSUME NEW q \in Requests, Ask(q) \/ Submit(q) \/ Expire(q) PROVE JournalInv'
  <2>1. Fresh({FrameOf(1, "ask", q)}, 1) /\ Fresh({FrameOf(1, "prompt_resolved", q)}, 1)
    BY <1>0, FrameOfFresh
  <2>. QED  BY <1>0, <1>1, <1>3, <2>1, SettledType DEF Ask, Submit, Expire, RegistryTypeOK
<1>4. ASSUME NEW q \in Requests, AskRefused(q) PROVE JournalInv'
  <2>1. Fresh({FrameOf(1, "ask", q)}, 2) /\ Fresh({FrameOf(2, "prompt_resolved", q)}, 2)
    BY <1>0, FrameOfFresh
  <2>2. Fresh({FrameOf(1, "ask", q), FrameOf(2, "prompt_resolved", q)}, 2)
    BY <2>1 DEF Fresh
  <2>. QED  BY <1>0, <1>1, <1>4, <2>2, SettledType DEF AskRefused, RegistryTypeOK
<1>5. ASSUME NEW q \in Requests, AskClosed(q) PROVE JournalInv'
  BY <1>0, <1>2, <1>5, SettledType DEF AskClosed, RegistryTypeOK, journal
<1>6. ASSUME Progress PROVE JournalInv'
  <2>1. Fresh({FrameOf(1, "status", NoRequest)}, 1)
    BY <1>0, FrameOfFresh
  <2>. QED  BY <1>0, <1>1, <1>6, <2>1 DEF Progress, RegistryTypeOK
<1>7. ASSUME CloseRun PROVE JournalInv'
  <2>1. Fresh({FrameOf(1, "end", NoRequest)}, 1)
    BY <1>0, FrameOfFresh
  <2>. QED  BY <1>0, <1>1, <1>7, <2>1, SettledType DEF CloseRun, RegistryTypeOK
<1>8. ASSUME Deadline \/ CancelAll PROVE JournalInv'
  <2>1. Fresh(Releases, Cardinality(pending))
    BY <1>0, PendingFinite, ReleasesFresh
  <2>. QED  BY <1>0, <1>1, <1>8, <2>1, SettledType DEF Deadline, CancelAll, RegistryTypeOK
<1>9. ASSUME Cancel PROVE JournalInv'
  <2> DEFINE n == Cardinality(pending)
  <2>1. n \in Nat  BY <1>0, PendingFinite
  <2>2. Fresh(Releases, n + 1)  BY <1>0, <2>1, ReleasesFresh
  <2>3. Fresh({FrameOf(n + 1, "status", NoRequest)}, n + 1)
    BY <1>0, <2>1, FrameOfFresh
  <2>4. Fresh(Releases \cup {FrameOf(n + 1, "status", NoRequest)}, n + 1)
    BY <2>2, <2>3, FreshUnion
  <2>5. Emit(Releases \cup {FrameOf(n + 1, "status", NoRequest)}, n + 1)
    BY <1>9 DEF Cancel
  <2> HIDE DEF n
  <2>. QED  BY <1>0, <1>1, <1>9, <2>4, <2>5, SettledType DEF Cancel, RegistryTypeOK
<1>10. ASSUME NEW c \in Clients, NEW since \in {0, cursor[c]}, Attach(c, since) PROVE JournalInv'
  <2> DEFINE kept == {f \in frames : f.replay /\ f.id > since}
             shown == IF since = 0 THEN kept ELSE got[c] \cup kept
  <2>0. since \in Nat /\ since <= nextEventId /\ nextEventId \in Nat
        /\ \A f \in frames : f \in Frame /\ f.id \in Nat /\ 0 < f.id /\ f.id <= nextEventId
    BY DEF JournalInv, RegistryTypeOK, Numbered, Frame
  <2>1. got' = [got EXCEPT ![c] = shown]
    BY <1>10 DEF Attach
  <2>2. PICK newest \in {since} \cup {f.id : f \in kept} :
          cursor' = [cursor EXCEPT ![c] = newest]
    BY <1>10 DEF Attach
  <2>3. /\ attached' = attached \cup {c}
        /\ UNCHANGED <<closed, cancelled, aborted, frames, nextEventId, pending, outcome>>
    BY <1>10 DEF Attach
  <2>4. newest \in Nat /\ newest <= nextEventId
    BY <2>0
  <2>5. shown \subseteq frames
    BY DEF JournalInv, Numbered
  <2>6. Kept \subseteq shown
    BY <2>0 DEF Kept, JournalInv, CaughtUp
  <2> HIDE DEF shown, kept
  <2>7. RegistryTypeOK'
    BY <1>0, <2>1, <2>2, <2>3, <2>4, <2>5 DEF RegistryTypeOK
  <2>8. Numbered'
    BY <1>0, <2>0, <2>1, <2>2, <2>3, <2>4, <2>5 DEF JournalInv, Numbered, RegistryTypeOK
  <2>9. CaughtUp'
    <3> SUFFICES ASSUME NEW d \in Clients, NEW f \in Kept',
                        d \in attached' \/ f.id <= cursor'[d]
                 PROVE  f \in got'[d]
      BY DEF CaughtUp
    <3>1. f \in Kept  BY <2>3 DEF Kept
    <3>2. CASE d = c  BY <1>0, <2>1, <2>6, <3>1, <3>2 DEF RegistryTypeOK
    <3>3. CASE d # c
      BY <1>0, <2>1, <2>2, <2>3, <3>1, <3>3 DEF JournalInv, CaughtUp, RegistryTypeOK
    <3>. QED  BY <3>2, <3>3
  <2>. QED  BY <2>7, <2>8, <2>9 DEF JournalInv
<1>11. ASSUME NEW c \in Clients, Drop(c) PROVE JournalInv'
  BY <1>0, <1>2, <1>11 DEF Drop, RegistryTypeOK, journal
<1>12. ASSUME UNCHANGED registryVars PROVE JournalInv'
  BY <1>0, <1>2, <1>12 DEF registryVars, RegistryTypeOK
<1>. QED
  BY <1>3, <1>4, <1>5, <1>6, <1>7, <1>8, <1>9, <1>10, <1>11, <1>12 DEF RegistryNext

\* Every variable of the registry keeps its type.
THEOREM RegistryTypeCorrect == RegistrySpec => []RegistryTypeOK
<1>1. JournalInv => RegistryTypeOK  BY DEF JournalInv
<1>. QED  BY <1>1, JournalInit, JournalStep, PTL DEF RegistrySpec

\* A connected browser has every frame the journal keeps, however often its
\* connection dropped, whatever cursor it resumed from.
THEOREM NothingLost == RegistrySpec => []NoFrameLost
<1>1. JournalInv => NoFrameLost
  BY DEF JournalInv, CaughtUp, NoFrameLost, RegistryTypeOK, Kept
<1>. QED  BY <1>1, JournalInit, JournalStep, PTL DEF RegistrySpec

-----------------------------------------------------------------------------
(* Parked requests. *)

Parked == {q \in Requests : outcome[q] = "parked"}

DeskInv ==
  /\ RegistryTypeOK
  /\ pending = Parked
  /\ (aborted \/ cancelled \/ closed) => pending = {}

\* A step that settles some of the parked requests, or parks one.
LEMMA SettledOutcome ==
  ASSUME NEW S, NEW how
  PROVE  \A q \in Requests : Settled(S, how)[q] = IF q \in S THEN how ELSE outcome[q]
BY DEF Settled

LEMMA DeskStep == DeskInv /\ RegistryTypeOK' /\ [RegistryNext]_registryVars => DeskInv'
<1> SUFFICES ASSUME DeskInv, RegistryTypeOK', [RegistryNext]_registryVars PROVE DeskInv'
  OBVIOUS
<1> USE DEF DeskInv, Parked
<1>1. ASSUME NEW q \in Requests, Ask(q) \/ AskRefused(q) \/ AskClosed(q) PROVE DeskInv'
  BY <1>1, SettledOutcome DEF Ask, AskRefused, AskClosed
<1>2. ASSUME NEW q \in Requests, Submit(q) \/ Expire(q) PROVE DeskInv'
  BY <1>2, SettledOutcome DEF Submit, Expire
<1>3. ASSUME CloseRun \/ Deadline \/ Cancel \/ CancelAll PROVE DeskInv'
  <2>1. outcome' = Settled(pending, "cancelled") /\ pending' = {}
    BY <1>3 DEF CloseRun, Deadline, Cancel, CancelAll
  <2>. QED  BY <2>1, SettledOutcome
<1>4. ASSUME UNCHANGED <<closed, cancelled, aborted, pending, outcome>> PROVE DeskInv'
  BY <1>4
<1>5. ASSUME Progress PROVE DeskInv'
  BY <1>4, <1>5 DEF Progress
<1>6. ASSUME NEW c \in Clients, NEW since, Attach(c, since) PROVE DeskInv'
  BY <1>4, <1>6 DEF Attach
<1>7. ASSUME NEW c \in Clients, Drop(c) PROVE DeskInv'
  BY <1>4, <1>7 DEF Drop
<1>8. ASSUME UNCHANGED registryVars PROVE DeskInv'
  BY <1>4, <1>8 DEF registryVars
<1>. QED  BY <1>1, <1>2, <1>3, <1>5, <1>6, <1>7, <1>8 DEF RegistryNext

LEMMA DeskInit == RegistryInit => DeskInv
<1> SUFFICES ASSUME RegistryInit PROVE DeskInv
  OBVIOUS
<1>1. RegistryTypeOK  BY JournalInit DEF JournalInv
<1>. QED  BY <1>1 DEF RegistryInit, DeskInv, Parked

\* The invariant both halves rest on holds in every behaviour.
LEMMA DeskAlways == RegistrySpec => []DeskInv
BY DeskInit, DeskStep, RegistryTypeCorrect, PTL DEF RegistrySpec

\* Nothing stays parked on a run that was stopped, timed out or closed.
THEOREM AbortReleasesAll == RegistrySpec => []NothingParkedAfterAbort
<1>1. DeskInv => NothingParkedAfterAbort
  BY DEF DeskInv, Parked, NothingParkedAfterAbort
<1>. QED  BY <1>1, DeskAlways, PTL

\* What the caller of a settled request was told is never taken back.
THEOREM Settles == RegistrySpec => OutcomeStands
<1>1. DeskInv /\ [RegistryNext]_registryVars
      => [\A q \in Requests : outcome[q] \in {"answered", "cancelled"} => outcome'[q] = outcome[q]]_registryVars
  <2> SUFFICES ASSUME DeskInv, [RegistryNext]_registryVars, NEW q \in Requests,
                      outcome[q] \in {"answered", "cancelled"}
               PROVE  outcome'[q] = outcome[q]
    OBVIOUS
  <2>1. q \notin pending
    BY DEF DeskInv, Parked
  <2>2. ASSUME NEW p \in Requests, AskRefused(p) \/ Ask(p) \/ AskClosed(p)
        PROVE  outcome'[q] = outcome[q]
    <3>1. outcome[p] = "idle" /\ \E how : outcome' = Settled({p}, how)
      BY <2>2 DEF AskRefused, Ask, AskClosed
    <3>. QED  BY <3>1, SettledOutcome
  <2>3. ASSUME NEW p \in Requests, Submit(p) \/ Expire(p)
        PROVE  outcome'[q] = outcome[q]
    <3>1. p \in pending /\ \E how : outcome' = Settled({p}, how)
      BY <2>3 DEF Submit, Expire
    <3>. QED  BY <2>1, <3>1, SettledOutcome
  <2>4. ASSUME CloseRun \/ Deadline \/ Cancel \/ CancelAll
        PROVE  outcome'[q] = outcome[q]
    <3>1. outcome' = Settled(pending, "cancelled")
      BY <2>4 DEF CloseRun, Deadline, Cancel, CancelAll
    <3>. QED  BY <2>1, <3>1, SettledOutcome
  <2>5. ASSUME Progress \/ (\E c \in Clients : Attach(c, 0) \/ Attach(c, cursor[c]) \/ Drop(c))
               \/ UNCHANGED registryVars
        PROVE  outcome'[q] = outcome[q]
    BY <2>5 DEF Progress, Attach, Drop, registryVars
  <2>. QED
    BY <2>2, <2>3, <2>4, <2>5 DEF RegistryNext
<1>. QED  BY <1>1, DeskAlways, PTL DEF RegistrySpec, OutcomeStands

-----------------------------------------------------------------------------
(* The registry implements the desk (its safety part). *)

LEMMA DeskSimulation ==
  ASSUME DeskInv, [RegistryNext]_registryVars
  PROVE  [Desk!Next]_(Desk!deskVars)
<1> USE DEF Desk!deskVars, DeskInv, Parked
<1>0. outcome \in [Requests -> {"idle", "parked", "answered", "cancelled"}]
  BY DEF RegistryTypeOK
<1>1. ASSUME NEW q \in Requests, Ask(q) PROVE Desk!Ask(q)
  BY <1>0, <1>1 DEF Ask, Desk!Ask, Settled
<1>2. ASSUME NEW q \in Requests, AskRefused(q) \/ AskClosed(q) PROVE Desk!Ask(q)
  BY <1>0, <1>2 DEF AskRefused, AskClosed, Desk!Ask, Settled
<1>3. ASSUME NEW q \in Requests, Submit(q) PROVE Desk!Reply(q)
  BY <1>0, <1>3 DEF Submit, Desk!Reply, Settled
<1>4. ASSUME NEW q \in Requests, Expire(q) PROVE Desk!GiveUp(q)
  BY <1>0, <1>4 DEF Expire, Desk!GiveUp, Settled
<1>5. ASSUME CloseRun \/ Deadline \/ Cancel \/ CancelAll
      PROVE  Desk!Shut \/ UNCHANGED Desk!deskVars
  <2>1. /\ outcome' = Settled(pending, "cancelled")
        /\ closed' \/ cancelled' \/ aborted'
    BY <1>5 DEF CloseRun, Deadline, Cancel, CancelAll
  <2>2. CASE closed \/ cancelled \/ aborted
    <3>1. Settled(pending, "cancelled") = outcome
      BY <1>0, <2>2 DEF Settled
    <3>. QED  BY <2>1, <2>2, <3>1
  <2>3. CASE ~(closed \/ cancelled \/ aborted)
    BY <2>1, <2>3 DEF Settled, Desk!Shut
  <2>. QED  BY <2>2, <2>3
<1>6. ASSUME Progress \/ (\E c \in Clients : Attach(c, 0) \/ Attach(c, cursor[c]) \/ Drop(c))
             \/ UNCHANGED registryVars
      PROVE  UNCHANGED Desk!deskVars
  BY <1>6 DEF Progress, Attach, Drop, registryVars
<1>. QED
  BY <1>1, <1>2, <1>3, <1>4, <1>5, <1>6 DEF RegistryNext, Desk!Next

\* Every behaviour of the registry is a behaviour of the desk: a request is
\* parked only while the run takes answers, it is settled once, and a stop, a
\* deadline or the end settles all of them in one step.
THEOREM ImplementsDesk == RegistrySpec => Desk!Init /\ [][Desk!Next]_(Desk!deskVars)
<1>1. RegistryInit => Desk!Init
  BY DEF RegistryInit, Desk!Init
<1>2. DeskInv /\ [RegistryNext]_registryVars => [Desk!Next]_(Desk!deskVars)
  BY DeskSimulation
<1>. QED  BY <1>1, <1>2, DeskAlways, PTL DEF RegistrySpec
-----------------------------------------------------------------------------
(* What a browser shows. *)

AskedIn(fs, q) == \E f \in fs : f.event = "ask" /\ f.request = q
ResolvedIn(fs, q) == \E f \in fs : f.event = "prompt_resolved" /\ f.request = q

\* The frames of an open run tell the state of each request, only the asking
\* frame of a secret operation is not kept, and nobody is attached to a closed
\* run.
FramesTell ==
  /\ ~closed => \A q \in Requests :
       /\ AskedIn(frames, q) <=> outcome[q] # "idle"
       /\ ResolvedIn(frames, q) <=> outcome[q] \in {"answered", "cancelled"}
  /\ \A f \in frames : ~f.replay => f.event = "ask" /\ f.request \in SecretOps
  /\ closed => attached = {}

LEMMA FrameFields ==
  ASSUME NEW n, NEW event, NEW q
  PROVE  /\ FrameOf(n, event, q).event = event
         /\ FrameOf(n, event, q).request = q
         /\ ~FrameOf(n, event, q).replay => event = "ask" /\ q \in SecretOps
BY DEF FrameOf

\* The stop, the deadline and the end of a run resolve what is parked.
LEMMA ReleasesTell ==
  /\ \A f \in Releases : f.event = "prompt_resolved" /\ f.request \in pending /\ f.replay
  /\ \A q \in pending : ResolvedIn(Releases, q)
<1>1. ASSUME NEW f \in Releases
      PROVE  f.event = "prompt_resolved" /\ f.request \in pending /\ f.replay
  <2>1. PICK q \in pending : f = FrameOf(Rank(q), "prompt_resolved", q)
    BY DEF Releases
  <2>. QED  BY <2>1 DEF FrameOf
<1>2. ASSUME NEW q \in pending PROVE ResolvedIn(Releases, q)
  <2>1. FrameOf(Rank(q), "prompt_resolved", q) \in Releases
    BY DEF Releases
  <2>. QED  BY <2>1, FrameFields DEF ResolvedIn
<1>. QED  BY <1>1, <1>2

\* The frames new of a step, which leave the run open.
LEMMA EmitTells ==
  ASSUME FramesTell, ~closed, NEW new, NEW n, Emit(new, n), ~closed',
         \A f \in new : ~f.replay => f.event = "ask" /\ f.request \in SecretOps,
         \A q \in Requests :
           /\ outcome'[q] # "idle" <=> outcome[q] # "idle" \/ AskedIn(new, q)
           /\ outcome'[q] \in {"answered", "cancelled"}
                <=> outcome[q] \in {"answered", "cancelled"} \/ ResolvedIn(new, q)
  PROVE  FramesTell'
<1>1. frames' = frames \cup new
  BY DEF Emit
<1>2. \A q : /\ AskedIn(frames', q) <=> AskedIn(frames, q) \/ AskedIn(new, q)
             /\ ResolvedIn(frames', q) <=> ResolvedIn(frames, q) \/ ResolvedIn(new, q)
  BY <1>1 DEF AskedIn, ResolvedIn
<1>3. ASSUME NEW q \in Requests
      PROVE  /\ AskedIn(frames', q) <=> outcome'[q] # "idle"
             /\ ResolvedIn(frames', q) <=> outcome'[q] \in {"answered", "cancelled"}
  BY <1>2 DEF FramesTell
<1>4. \A f \in frames' : ~f.replay => f.event = "ask" /\ f.request \in SecretOps
  BY <1>1 DEF FramesTell
<1>. QED  BY <1>3, <1>4 DEF FramesTell, AskedIn, ResolvedIn

ShowInv == DeskInv /\ FramesTell

LEMMA ShowStep == ShowInv /\ [RegistryNext]_registryVars => FramesTell'
<1> SUFFICES ASSUME ShowInv, [RegistryNext]_registryVars PROVE FramesTell'
  OBVIOUS
<1> USE DEF ShowInv
<1>0. pending = Parked /\ \A q \in Requests :
         outcome[q] \in {"idle", "parked", "answered", "cancelled"}
  BY DEF DeskInv, RegistryTypeOK
<1>1. ASSUME NEW q \in Requests, Ask(q) PROVE FramesTell'
  <2> DEFINE new == {FrameOf(1, "ask", q)}
  <2>1. \A p : AskedIn(new, p) <=> p = q
    BY FrameFields DEF AskedIn
  <2>2. \A p : ~ResolvedIn(new, p)
    BY FrameFields DEF ResolvedIn
  <2>3. \A f \in new : ~f.replay => f.event = "ask" /\ f.request \in SecretOps
    BY FrameFields
  <2>4. Emit(new, 1) /\ ~closed /\ ~closed' /\ outcome[q] = "idle" /\ outcome' = Settled({q}, "parked")
    BY <1>1 DEF Ask
  <2> HIDE DEF new
  <2>. QED  BY <2>1, <2>2, <2>3, <2>4, EmitTells, SettledOutcome
<1>2. ASSUME NEW q \in Requests, AskRefused(q) PROVE FramesTell'
  <2> DEFINE new == {FrameOf(1, "ask", q), FrameOf(2, "prompt_resolved", q)}
  <2>1. \A p : AskedIn(new, p) <=> p = q
    BY FrameFields DEF AskedIn
  <2>2. \A p : ResolvedIn(new, p) <=> p = q
    BY FrameFields DEF ResolvedIn
  <2>3. \A f \in new : ~f.replay => f.event = "ask" /\ f.request \in SecretOps
    BY FrameFields
  <2>4. Emit(new, 2)
    BY <1>2 DEF AskRefused
  <2> HIDE DEF new
  <2>. QED  BY <1>2, <2>1, <2>2, <2>3, <2>4, EmitTells, SettledOutcome DEF AskRefused
<1>3. ASSUME NEW q \in Requests, Submit(q) \/ Expire(q) PROVE FramesTell'
  <2> DEFINE new == {FrameOf(1, "prompt_resolved", q)}
  <2>1. \A p : ~AskedIn(new, p)
    BY FrameFields DEF AskedIn
  <2>2. \A p : ResolvedIn(new, p) <=> p = q
    BY FrameFields DEF ResolvedIn
  <2>3. \A f \in new : f.replay
    BY FrameFields
  <2>4. Emit(new, 1) /\ ~closed /\ ~closed'
    BY <1>3 DEF Submit, Expire
  <2>5. q \in pending /\ \E how \in {"answered", "cancelled"} : outcome' = Settled({q}, how)
    BY <1>3 DEF Submit, Expire
  <2>6. outcome[q] = "parked"
    BY <1>0, <2>5 DEF Parked
  <2> HIDE DEF new
  <2>. QED  BY <2>1, <2>2, <2>3, <2>4, <2>5, <2>6, EmitTells, SettledOutcome
<1>4. ASSUME Deadline \/ CancelAll PROVE FramesTell'
  <2>1. /\ ~closed /\ ~closed' /\ Emit(Releases, Cardinality(pending))
        /\ outcome' = Settled(pending, "cancelled")
    BY <1>4 DEF Deadline, CancelAll
  <2>2. \A p : ~AskedIn(Releases, p)
    BY ReleasesTell DEF AskedIn
  <2>3. \A p : ResolvedIn(Releases, p) <=> p \in pending
    BY ReleasesTell DEF ResolvedIn
  <2>4. \A p \in pending : outcome[p] = "parked"
    BY <1>0 DEF Parked
  <2>. QED  BY <2>1, <2>2, <2>3, <2>4, ReleasesTell, EmitTells, SettledOutcome
<1>5. ASSUME Cancel PROVE FramesTell'
  <2> DEFINE n == Cardinality(pending)
             new == Releases \cup {FrameOf(n + 1, "status", NoRequest)}
  <2>1. ~closed /\ ~closed' /\ Emit(new, n + 1) /\ outcome' = Settled(pending, "cancelled")
    BY <1>5 DEF Cancel
  <2>2. \A p : ~AskedIn(new, p)
    BY ReleasesTell, FrameFields DEF AskedIn
  <2>3. \A p : ResolvedIn(new, p) <=> p \in pending
    BY ReleasesTell, FrameFields DEF ResolvedIn
  <2>4. \A p \in pending : outcome[p] = "parked"
    BY <1>0 DEF Parked
  <2>5. \A f \in new : f.replay
    BY ReleasesTell, FrameFields
  <2> HIDE DEF new
  <2>. QED  BY <2>1, <2>2, <2>3, <2>4, <2>5, EmitTells, SettledOutcome
<1>6. ASSUME Progress PROVE FramesTell'
  <2> DEFINE new == {FrameOf(1, "status", NoRequest)}
  <2>1. \A p : ~AskedIn(new, p) /\ ~ResolvedIn(new, p)
    BY FrameFields DEF AskedIn, ResolvedIn
  <2>2. \A f \in new : f.replay
    BY FrameFields
  <2>3. Emit(new, 1) /\ ~closed /\ ~closed' /\ outcome' = outcome
    BY <1>6 DEF Progress
  <2> HIDE DEF new
  <2>. QED  BY <2>1, <2>2, <2>3, EmitTells
<1>7. ASSUME CloseRun PROVE FramesTell'
  <2>1. frames' = frames \cup {FrameOf(1, "end", NoRequest)} /\ closed' /\ attached' = {}
    BY <1>7 DEF CloseRun, Emit
  <2>. QED  BY <2>1, FrameFields DEF FramesTell
<1>8. ASSUME closed' = closed, frames' = frames, closed => attached' = {},
             closed \/ outcome' = outcome
      PROVE  FramesTell'
  BY <1>8 DEF FramesTell, AskedIn, ResolvedIn
<1>9. ASSUME NEW q \in Requests, AskClosed(q) PROVE FramesTell'
  BY <1>8, <1>9 DEF AskClosed, FramesTell, journal
<1>10. ASSUME NEW c \in Clients, NEW since, Attach(c, since) PROVE FramesTell'
  BY <1>8, <1>10 DEF Attach
<1>11. ASSUME NEW c \in Clients, Drop(c) PROVE FramesTell'
  BY <1>8, <1>11 DEF Drop, FramesTell, journal
<1>12. ASSUME UNCHANGED registryVars PROVE FramesTell'
  BY <1>8, <1>12 DEF registryVars, FramesTell
<1>. QED
  BY <1>1, <1>2, <1>3, <1>4, <1>5, <1>6, <1>7, <1>9, <1>10, <1>11, <1>12 DEF RegistryNext

\* A connected browser shows exactly the questions the run is parked on,
\* whichever way the others were settled and wherever it resumed.
THEOREM ShowsWhatIsParked == RegistrySpec => []ShownArePending
<1>1. RegistryInit => FramesTell
  BY DEF RegistryInit, FramesTell, AskedIn, ResolvedIn
<1>2. DeskInv /\ FramesTell /\ [RegistryNext]_registryVars => FramesTell'
  BY ShowStep DEF ShowInv
<1>3. JournalInv /\ DeskInv /\ FramesTell => ShownArePending
  <2> SUFFICES ASSUME JournalInv, DeskInv, FramesTell, NEW c \in attached, NEW q \in Questions
               PROVE  q \in Shown(c) <=> q \in pending
    BY DEF ShownArePending, Shown
  <2>1. c \in Clients /\ ~closed /\ q \in Requests
    BY DEF JournalInv, RegistryTypeOK, FramesTell, Requests
  <2>2. got[c] \subseteq frames /\ Kept \subseteq got[c]
    BY <2>1 DEF JournalInv, Numbered, CaughtUp, Kept
  <2>3. q \notin SecretOps
    BY RequestsAssumption
  <2>4. AskedIn(got[c], q) <=> AskedIn(frames, q)
    BY <2>2, <2>3 DEF AskedIn, FramesTell, Kept
  <2>5. ResolvedIn(got[c], q) <=> ResolvedIn(frames, q)
    BY <2>2 DEF ResolvedIn, FramesTell, Kept
  <2>6. q \in Shown(c) <=> AskedIn(got[c], q) /\ ~ResolvedIn(got[c], q)
    BY DEF Shown, AskedIn, ResolvedIn
  <2>7. q \in pending <=> outcome[q] = "parked"
    BY <2>1 DEF DeskInv, Parked
  <2>8. outcome[q] \in {"idle", "parked", "answered", "cancelled"}
    BY <2>1 DEF DeskInv, RegistryTypeOK
  <2>. QED  BY <2>1, <2>4, <2>5, <2>6, <2>7, <2>8 DEF FramesTell
<1>. QED  BY <1>1, <1>2, <1>3, JournalInit, JournalStep, DeskAlways, PTL DEF RegistrySpec

(***************************************************************************)
(* The loop, the channel and the jobs (MidTurn).                           *)
(***************************************************************************)

Event == [event : Events, of : Inputs]
States == {"new", "queued", "delivered", "completed", "dropped"}
JobStates == {"none", "running", "done", "aborted"}

\* TypeOK, one variable at a time, and that the stream is a sequence.
WellTyped ==
  /\ phase \in {"preparing", "sending", "streaming", "asking", "waiting", "wrapping", "over"}
  /\ result \in {"none", "ok", "capped", "failed"}
  /\ state \in [Records -> States] /\ job \in [Jobs -> JobStates]
  /\ chanClosed \in BOOLEAN /\ stopped \in BOOLEAN
  /\ showed \in BOOLEAN /\ acted \in BOOLEAN /\ resumable \in BOOLEAN
  /\ latest \in BOOLEAN /\ wrote \in BOOLEAN
  /\ retried \in SUBSET {"healed", "empty"} /\ effects \in SUBSET SUBSET {"healed", "empty"}
  /\ rounds \in 0..MaxRounds
  /\ committed = NoSession \/ committed \in SUBSET Inputs
  /\ answers \in SUBSET [read : SUBSET Inputs, rows : SUBSET Inputs]
  /\ pi \in {"idle", "running", "ended"}
  /\ input \in SUBSET Inputs /\ base \in SUBSET Inputs /\ ctx \in SUBSET Inputs
  /\ posted \in SUBSET handed /\ taken \in SUBSET handed /\ handed \in SUBSET Records
  /\ stream \in Seq(Event)
Terminal == {"completed", "question", "empty", "failed"}

\* The events of a stream, and those of the records pi consumed.
InStream(s) == {s[i] : i \in DOMAIN s}
Coming == InStream(stream)
Consumed == {s \in Records : \E e \in Coming : e.event = "consumed" /\ e.of = s}
EndsLast(s) == \A i \in DOMAIN s : s[i].event \in Terminal => i = Len(s)

\* Once the channel is closed nothing is queued; until then nothing is dropped.
ChannelInv ==
  /\ chanClosed <=> stopped \/ phase \in {"wrapping", "over"}
  /\ chanClosed => Queued = {}
  /\ ~chanClosed => \A s \in Records : state[s] \in {"new", "queued", "delivered"}
  /\ \A j \in Jobs : job[j] \in {"none", "running"} => state[j] = "new"
  /\ \A s \in handed : state[s] # "new"

\* Where pi is, by where the loop is, and what is under way between them.
PiInv ==
  /\ phase \in {"preparing", "wrapping", "over"} => pi = "idle"
  /\ phase \in {"asking", "waiting"} => pi = "ended" /\ stream = <<>>
  /\ phase = "streaming" => pi # "idle"
  /\ phase = "sending" => handed = {}
  /\ pi = "idle" => stream = <<>> /\ handed = {}
  /\ posted \cap taken = {}
  /\ pi = "running" => \A e \in Coming : e.event \notin Terminal
  /\ EndsLast(stream)

\* The response that runs has read every stored row and, while the run takes
\* messages, beyond them only what it has reported to the loop.
Attended == phase \in {"sending", "streaming", "asking"} /\ pi # "idle"
AtFirst ==
  \/ phase = "preparing"
  \/ phase = "sending" /\ pi = "idle"
  \/ phase \in {"sending", "streaming"} /\ ~showed
ReadingInv ==
  /\ input \cap base = {}
  /\ AtFirst => base \cup input = Rows
  /\ Attended =>
       /\ Rows \subseteq ctx /\ Consumed \subseteq ctx
       /\ \A s \in Records \cap ctx : state[s] # "new" /\ (state[s] = "queued" => s \in handed)
       /\ ~chanClosed => ctx \subseteq Rows \cup Consumed
       /\ pi = "running" => (posted \cup taken) \cap ctx = {}
  /\ phase = "asking" => showed

\* What was committed covers the rows whenever the run may end with it.
CommitInv ==
  /\ latest => /\ phase \in {"waiting", "wrapping", "over"}
               /\ committed # NoSession /\ Rows \subseteq committed
  /\ phase = "waiting" \/ result \in {"ok", "capped"} => latest /\ committed = Rows
  /\ \A a \in answers : a.read = a.rows

\* How the run ends.
EndInv ==
  /\ phase \in {"wrapping", "over"} <=> result # "none"
  /\ result \in {"none", "ok"} => \A j \in Jobs : job[j] # "aborted"
  /\ result \in {"ok", "capped"} =>
       \A s \in Records : state[s] \in {"new", IF phase = "over" THEN "completed" ELSE "delivered"}

\* The tools of an input ran in the present attempt, and the loop knows or will.
EffectInv ==
  /\ effects \subseteq {retried}
  /\ phase \in {"preparing", "sending", "streaming", "asking"} /\ effects # {}
       => acted \/ \E e \in Coming : e.event = "tool"

IInv == WellTyped /\ ChannelInv /\ PiInv /\ ReadingInv /\ CommitInv /\ EndInv /\ EffectInv

-----------------------------------------------------------------------------
(* Streams, and the queue. *)

LEMMA StreamAppend ==
  ASSUME NEW s \in Seq(Event), NEW e \in Event
  PROVE  /\ Append(s, e) \in Seq(Event)
         /\ InStream(Append(s, e)) = InStream(s) \cup {e}
         /\ (\A x \in InStream(s) : x.event \notin Terminal) => EndsLast(Append(s, e))
<1> DEFINE t == Append(s, e)
<1>1. /\ t \in Seq(Event) /\ Len(s) \in Nat /\ Len(t) = Len(s) + 1
      /\ DOMAIN s = 1..Len(s) /\ DOMAIN t = 1..(Len(s) + 1)
      /\ t[Len(s) + 1] = e /\ \A i \in 1..Len(s) : t[i] = s[i]
  OBVIOUS
<1> HIDE DEF t
<1>2. InStream(t) = InStream(s) \cup {e}
  <2>1. ASSUME NEW x \in InStream(t) PROVE x \in InStream(s) \cup {e}
    BY <1>1, <2>1 DEF InStream
  <2>2. ASSUME NEW x \in InStream(s) PROVE x \in InStream(t)
    BY <1>1, <2>2 DEF InStream
  <2>3. e \in InStream(t)
    <3>1. Len(s) + 1 \in DOMAIN t /\ t[Len(s) + 1] = e  BY <1>1
    <3>. QED  BY <3>1 DEF InStream
  <2>. QED  BY <2>1, <2>2, <2>3
<1>3. (\A x \in InStream(s) : x.event \notin Terminal) => EndsLast(t)
  BY <1>1 DEF InStream, EndsLast
<1>. QED  BY <1>1, <1>2, <1>3 DEF t

LEMMA StreamTail ==
  ASSUME NEW s \in Seq(Event), s # <<>>
  PROVE  /\ Head(s) \in Event /\ Tail(s) \in Seq(Event)
         /\ InStream(s) = {Head(s)} \cup InStream(Tail(s))
         /\ EndsLast(s) => EndsLast(Tail(s))
         /\ EndsLast(s) /\ Head(s).event \in Terminal => InStream(s) = {Head(s)}
<1> DEFINE t == Tail(s)
           h == Head(s)
<1>1. /\ h \in Event /\ t \in Seq(Event) /\ Len(s) \in Nat \ {0} /\ Len(t) = Len(s) - 1
      /\ DOMAIN s = 1..Len(s) /\ DOMAIN t = 1..(Len(s) - 1)
      /\ s[1] = h /\ \A i \in 1..(Len(s) - 1) : t[i] = s[i + 1]
  OBVIOUS
<1> HIDE DEF t, h
<1>2. InStream(s) = {h} \cup InStream(t)
  <2>1. ASSUME NEW i \in 1..Len(s) PROVE s[i] \in {h} \cup InStream(t)
    <3>1. CASE i = 1  BY <1>1, <3>1
    <3>2. CASE i # 1
      <4>1. i - 1 \in DOMAIN t /\ t[i - 1] = s[i]  BY <1>1, <3>2
      <4>. QED  BY <4>1 DEF InStream
    <3>. QED  BY <3>1, <3>2
  <2>2. ASSUME NEW i \in 1..(Len(s) - 1) PROVE t[i] \in InStream(s)
    <3>1. i + 1 \in DOMAIN s /\ t[i] = s[i + 1]  BY <1>1
    <3>. QED  BY <3>1 DEF InStream
  <2>3. h \in InStream(s)
    <3>1. 1 \in DOMAIN s  BY <1>1
    <3>. QED  BY <1>1, <3>1 DEF InStream
  <2>. QED  BY <1>1, <2>1, <2>2, <2>3 DEF InStream
<1>3. EndsLast(s) => EndsLast(t)
  BY <1>1 DEF EndsLast
<1>4. EndsLast(s) /\ h.event \in Terminal => InStream(s) = {h}
  <2>1. EndsLast(s) /\ h.event \in Terminal => Len(s) = 1
    BY <1>1 DEF EndsLast
  <2>2. Len(s) = 1 => InStream(t) = {}
    BY <1>1 DEF InStream
  <2>. QED  BY <1>2, <2>1, <2>2
<1>. QED  BY <1>1, <1>2, <1>3, <1>4 DEF t, h

LEMMA StreamEmpty == <<>> \in Seq(Event) /\ InStream(<<>>) = {} /\ EndsLast(<<>>)
BY DEF InStream, EndsLast

USE DEF States, JobStates

LEMMA MovedRows ==
  ASSUME WellTyped, NEW S \in SUBSET Queued, NEW to \in {"delivered", "dropped"},
         state' = Moved(S, to)
  PROVE  /\ state' \in [Records -> States]
         /\ Rows' = IF to = "delivered" THEN Rows \cup S ELSE Rows
         /\ Queued' = Queued \ S
         /\ \A s \in Records : state'[s] = IF s \in S THEN to ELSE state[s]
<1>1. \A s \in Records : state'[s] = IF s \in S THEN to ELSE state[s]
  BY DEF Moved
<1>2. state' \in [Records -> States]
  BY DEF WellTyped, Moved, States
<1>3. S \subseteq Records /\ \A s \in S : state[s] = "queued"
  BY DEF Queued
<1>4. Queued' = Queued \ S
  BY <1>1, <1>3 DEF Queued
<1>5. CASE to = "delivered"
  BY <1>1, <1>2, <1>3, <1>4, <1>5 DEF Rows
<1>6. CASE to = "dropped"
  BY <1>1, <1>2, <1>3, <1>4, <1>6 DEF Rows
<1>. QED  BY <1>5, <1>6

LEMMA SameRows ==
  ASSUME state' = state
  PROVE  Rows' = Rows /\ Queued' = Queued
BY DEF Rows, Queued

LEMMA Enqueued ==
  ASSUME WellTyped, NEW s \in Records, state[s] = "new", state' = Moved({s}, "queued")
  PROVE  /\ state' \in [Records -> States]
         /\ Rows' = Rows /\ Queued' = Queued \cup {s} /\ s \notin Rows
         /\ \A r \in Records : state'[r] = IF r = s THEN "queued" ELSE state[r]
<1>1. \A r \in Records : state'[r] = IF r = s THEN "queued" ELSE state[r]
  BY DEF Moved
<1>2. state' \in [Records -> States]
  BY DEF WellTyped, Moved, States
<1>. QED  BY <1>1, <1>2, MidTurnAssumption DEF Rows, Queued

LEMMA RowsAreInputs == ASSUME WellTyped PROVE Rows \subseteq Inputs /\ Rows # NoSession
<1>1. Rows \in SUBSET Inputs  BY DEF Rows, Inputs
<1>2. \A S \in SUBSET Inputs : S # NoSession  BY MidTurnAssumption
<1>. QED  BY <1>1, <1>2

-----------------------------------------------------------------------------
(* Types. *)

LEMMA HandOverTyped ==
  ASSUME WellTyped, NEW S \in SUBSET Records, HandOver(S)
  PROVE  /\ posted' \subseteq handed' /\ handed' \subseteq Records
         /\ handed \subseteq handed' /\ posted \subseteq posted'
BY DEF WellTyped, HandOver

LEMMA EnqueueTyped ==
  ASSUME WellTyped, NEW s \in Records, state[s] = "new", Enqueue(s)
  PROVE  /\ state' \in [Records -> States]
         /\ posted' \subseteq handed' /\ handed' \subseteq Records
         /\ handed \subseteq handed'
<1>1. state' \in [Records -> States]  BY Enqueued DEF Enqueue
<1>2. CASE phase = "streaming"
  <2>1. HandOver({s})  BY <1>2 DEF Enqueue
  <2>. QED  BY <1>1, <2>1, HandOverTyped
<1>3. CASE phase # "streaming"
  BY <1>1, <1>3 DEF Enqueue, WellTyped
<1>. QED  BY <1>2, <1>3

LEMMA SentTyped ==
  ASSUME WellTyped, NEW e \in Events, NEW of \in Inputs, Send(e, of)
  PROVE  /\ stream' \in Seq(Event)
         /\ Coming' = Coming \cup {[event |-> e, of |-> of]}
         /\ (\A x \in Coming : x.event \notin Terminal) => EndsLast(stream')
<1>1. [event |-> e, of |-> of] \in Event  BY DEF Event
<1>. QED  BY <1>1, StreamAppend DEF WellTyped, Send, Coming

LEMMA WrapTyped ==
  ASSUME WellTyped, NEW how \in {"ok", "capped", "failed"}, Wrap(how),
         committed' = NoSession \/ committed' \subseteq Inputs, latest' \in BOOLEAN
  PROVE  WellTyped'
<1>1. state' \in [Records -> States]
  BY MovedRows DEF Wrap, Close
<1>2. job' \in [Jobs -> JobStates]
  BY DEF Wrap, WellTyped
<1>3. stream' = <<>> /\ stream' \in Seq(Event)  BY StreamEmpty DEF Wrap
<1>4. /\ phase' = "wrapping" /\ result' = how /\ chanClosed' = TRUE
      /\ pi' = "idle" /\ handed' = {} /\ posted' = {} /\ taken' = {}
      /\ UNCHANGED <<stopped, ctx, wrote, effects, showed, acted, retried, resumable, rounds,
                     answers, requestVars>>
  BY DEF Wrap, Close
<1>. QED  BY <1>1, <1>2, <1>3, <1>4 DEF requestVars, WellTyped

LEMMA FollowUpTyped ==
  ASSUME WellTyped, NEW read \in SUBSET Inputs, FollowUp(read),
         committed' = NoSession \/ committed' \subseteq Inputs
  PROVE  WellTyped'
<1>1. state' \in [Records -> States]
  BY MovedRows DEF FollowUp, GoOn
<1>2. stream' = <<>> /\ stream' \in Seq(Event)  BY StreamEmpty DEF FollowUp, GoOn, SendNext
<1>3. Rows \in SUBSET Inputs /\ Queued \in SUBSET Inputs
  BY RowsAreInputs DEF Queued, Inputs
<1>4. answers' \subseteq [read : SUBSET Inputs, rows : SUBSET Inputs]
  BY <1>3 DEF FollowUp, WellTyped
<1>5. 0 \in 0..MaxRounds  BY MidTurnAssumption
<1>6. /\ phase' = "sending" /\ pi' = "idle" /\ latest' = FALSE
      /\ input' = Queued /\ base' = read
      /\ showed' = FALSE /\ acted' = FALSE /\ rounds' = 0 /\ effects' = {}
      /\ handed' = {} /\ posted' = {} /\ taken' = {}
      /\ UNCHANGED <<result, retried, resumable, chanClosed, stopped, job, ctx, wrote>>
  BY DEF FollowUp, GoOn, SendNext
<1>. QED  BY <1>1, <1>2, <1>3, <1>4, <1>5, <1>6 DEF WellTyped

LEMMA WaitTyped ==
  ASSUME WellTyped, WaitForJobs, committed' = NoSession \/ committed' \subseteq Inputs
  PROVE  WellTyped'
<1>1. stream' = <<>> /\ stream' \in Seq(Event)  BY StreamEmpty DEF WaitForJobs
<1>2. /\ phase' = "waiting" /\ latest' = TRUE
      /\ UNCHANGED <<result, showed, acted, retried, resumable, rounds, handed, queueVars, answers,
                     pi, ctx, posted, taken, wrote, effects, requestVars>>
  BY DEF WaitForJobs
<1>. QED  BY <1>1, <1>2 DEF queueVars, requestVars, WellTyped

LEMMA RepeatTyped ==
  ASSUME WellTyped, NEW why \in {"healed", "empty"}, Repeat(why)
  PROVE  WellTyped'
<1>1. stream' = <<>> /\ stream' \in Seq(Event)  BY StreamEmpty DEF Repeat, SendNext
<1>. QED  BY <1>1 DEF Repeat, SendNext, queueVars, rowVars, requestVars, WellTyped

LEMMA HandleTyped == ASSUME WellTyped, PiInv, Handle PROVE WellTyped'
<1> DEFINE e == Head(stream)
<1>1. /\ stream # <<>> /\ e \in Event /\ Tail(stream) \in Seq(Event)
      /\ e.event \in Events /\ e.of \in Inputs
  BY StreamTail DEF Handle, WellTyped, Event
<1> HIDE DEF e
<1>3. CASE stream' = Tail(stream) /\ HandleCreated
  <2>1. Queued \in SUBSET Records  BY DEF Queued
  <2>2. handed' \subseteq Records /\ posted' \subseteq handed' /\ handed \subseteq handed'
    BY <1>3, <2>1, HandOverTyped DEF HandleCreated
  <2>. QED
    BY <1>1, <1>3, <2>2 DEF HandleCreated, queueVars, rowVars, requestVars, WellTyped
<1>4. CASE stream' = Tail(stream) /\ HandleConsumed(e.of)
  <2>1. {e.of} \cap Queued \in SUBSET Queued  OBVIOUS
  <2>2. state' \in [Records -> States]
    BY <1>4, <2>1, MovedRows DEF HandleConsumed
  <2>3. showed' \in BOOLEAN  BY <1>4 DEF HandleConsumed
  <2>4. UNCHANGED <<phase, result, acted, retried, resumable, rounds, handed, chanClosed,
                    stopped, job, rowVars, requestVars, pi, ctx, posted, taken, wrote, effects>>
    BY <1>4 DEF HandleConsumed
  <2>. QED  BY <1>1, <1>4, <2>2, <2>3, <2>4 DEF rowVars, requestVars, WellTyped
<1>5. CASE stream' = Tail(stream) /\ HandleOutput(e.event)
  BY <1>1, <1>5 DEF HandleOutput, queueVars, rowVars, requestVars, WellTyped
<1>6. CASE HandleCommit
  <2>1. ctx \in SUBSET Inputs /\ committed' = ctx  BY <1>6 DEF HandleCommit, WellTyped
  <2>2. CASE stopped
    BY <1>6, <2>1, <2>2, WrapTyped DEF HandleCommit
  <2>3. CASE ~stopped
    <3>1. CASE WaitForJobs  BY <2>1, <3>1, WaitTyped
    <3>2. CASE FollowUp(ctx)  BY <2>1, <3>2, FollowUpTyped
    <3>3. CASE Wrap("ok") /\ latest' = TRUE  BY <2>1, <3>3, WrapTyped
    <3>. QED  BY <1>6, <2>3, <3>1, <3>2, <3>3 DEF HandleCommit, Boundary
  <2>. QED  BY <2>2, <2>3
<1>7. CASE stream' = <<>> /\ HandleQuestion
  <2>1. CASE Wrap("failed") /\ UNCHANGED <<committed, latest>>
    BY <2>1, WrapTyped DEF WellTyped
  <2>2. CASE ~(Wrap("failed") /\ UNCHANGED <<committed, latest>>)
    <3>1. /\ phase' = "asking" /\ showed' = TRUE /\ rounds' = rounds + 1
          /\ ~(rounds + 1 >= MaxRounds)
          /\ UNCHANGED <<result, acted, retried, resumable, handed, queueVars, rowVars,
                         requestVars, pi, ctx, posted, taken, wrote, effects>>
      BY <1>7, <2>2 DEF HandleQuestion
    <3>2. rounds' \in 0..MaxRounds
      BY <3>1, MidTurnAssumption DEF WellTyped
    <3>. QED
      BY <1>7, <3>1, <3>2, StreamEmpty DEF queueVars, rowVars, requestVars, WellTyped
  <2>. QED  BY <2>1, <2>2
<1>8. CASE HandleFailure(e.event)
  <2>1. CASE Repeat("empty")  BY <2>1, RepeatTyped
  <2>2. CASE Wrap("failed") /\ UNCHANGED <<committed, latest>>
    BY <2>2, WrapTyped DEF WellTyped
  <2>. QED  BY <1>8, <2>1, <2>2 DEF HandleFailure
<1>. QED  BY <1>3, <1>4, <1>5, <1>6, <1>7, <1>8 DEF Handle, e

LEMMA TypedStep == IInv /\ [Next]_vars => WellTyped'
<1> SUFFICES ASSUME WellTyped, ChannelInv, PiInv, CommitInv, EndInv, [Next]_vars PROVE WellTyped'
  BY DEF IInv
<1> USE DEF Records
<1>1. ASSUME NEW s \in Typed, Push(s) PROVE WellTyped'
  <2>1. /\ state' \in [Records -> States] /\ posted' \subseteq handed'
        /\ handed' \subseteq Records /\ handed \subseteq handed'
    BY <1>1, EnqueueTyped DEF Push
  <2>. QED  BY <1>1, <2>1 DEF Push, rowVars, requestVars, WellTyped
<1>2. CASE Stop
  <2>1. state' \in [Records -> States]  BY <1>2, MovedRows DEF Stop, Close
  <2>. QED  BY <1>2, <2>1 DEF Stop, Close, loopVars, rowVars, piVars, requestVars, WellTyped
<1>3. ASSUME NEW j \in Jobs, JobDelivers(j) PROVE WellTyped'
  <2>1. CASE chanClosed
    BY <1>3, <2>1 DEF JobDelivers, rowVars, requestVars, WellTyped
  <2>2. CASE ~chanClosed
    <3>1. /\ state' \in [Records -> States] /\ posted' \subseteq handed'
          /\ handed' \subseteq Records /\ handed \subseteq handed'
      BY <1>3, <2>2, EnqueueTyped DEF JobDelivers, ChannelInv
    <3>2. /\ job' = [job EXCEPT ![j] = "done"]
          /\ UNCHANGED <<phase, result, showed, acted, retried, resumable, rounds, chanClosed,
                         stopped, rowVars, pi, ctx, taken, wrote, effects, stream, requestVars>>
      BY <1>3 DEF JobDelivers
    <3>. QED  BY <3>1, <3>2 DEF rowVars, requestVars, WellTyped
  <2>. QED  BY <2>1, <2>2
<1>4. ASSUME NEW j \in Jobs, JobFails(j) PROVE WellTyped'
  BY <1>4 DEF JobFails, loopVars, rowVars, piVars, requestVars, WellTyped
<1>5. CASE PiStarts
  <2>1. stream' \in Seq(Event)  BY <1>5, SentTyped DEF PiStarts, Events, Inputs
  <2>. QED  BY <1>5, <2>1 DEF PiStarts, loopVars, queueVars, rowVars, requestVars, WellTyped
<1>6. CASE PiWrites
  <2>1. stream' \in Seq(Event)  BY <1>6, SentTyped DEF PiWrites, Events, Inputs
  <2>. QED  BY <1>6, <2>1 DEF PiWrites, loopVars, queueVars, rowVars, requestVars, WellTyped
<1>7. ASSUME NEW s \in Records, PiTakes(s) PROVE WellTyped'
  BY <1>7 DEF PiTakes, loopVars, queueVars, rowVars, requestVars, WellTyped
<1>8. ASSUME NEW s \in Records, PiConsumes(s) PROVE WellTyped'
  <2>1. stream' \in Seq(Event)  BY <1>8, SentTyped DEF PiConsumes, Events, Inputs
  <2>2. ctx' \subseteq Inputs /\ taken' \subseteq taken
    BY <1>8 DEF PiConsumes, WellTyped, Inputs
  <2>. QED  BY <1>8, <2>1, <2>2 DEF PiConsumes, loopVars, queueVars, rowVars, requestVars, WellTyped
<1>9. ASSUME NEW started \in SUBSET Jobs, PiActs(started) PROVE WellTyped'
  <2>1. stream' \in Seq(Event)  BY <1>9, SentTyped DEF PiActs, Events, Inputs
  <2>2. job' \in [Jobs -> JobStates]
    BY <1>9 DEF PiActs, WellTyped
  <2>3. effects' \subseteq SUBSET {"healed", "empty"}
    BY <1>9 DEF PiActs, WellTyped
  <2>. QED  BY <1>9, <2>1, <2>2, <2>3 DEF PiActs, loopVars, rowVars, requestVars, WellTyped
<1>10. ASSUME NEW how \in {"completed", "question", "empty", "failed"}, PiEnds(how) PROVE WellTyped'
  <2>1. stream' \in Seq(Event)  BY <1>10, SentTyped DEF PiEnds, Events, Inputs
  <2>. QED  BY <1>10, <2>1 DEF PiEnds, loopVars, queueVars, rowVars, requestVars, WellTyped
<1>11. CASE Prepare
  <2>1. CASE stopped
    BY <1>11, <2>1, WrapTyped DEF Prepare, WellTyped
  <2>2. CASE ~stopped
    BY <1>11, <2>2, StreamEmpty DEF Prepare, SendNext, queueVars, rowVars, requestVars, WellTyped
  <2>. QED  BY <2>1, <2>2
<1>12. CASE PrepareFails
  <2>1. state' \in [Records -> States]  BY <1>12, MovedRows DEF PrepareFails, Close
  <2>. QED  BY <1>12, <2>1 DEF PrepareFails, Close, piVars, requestVars, WellTyped
<1>13. CASE OpenFails
  BY <1>13, RepeatTyped, WrapTyped DEF OpenFails, WellTyped
<1>14. CASE StreamCut
  BY <1>14, WrapTyped DEF StreamCut, WellTyped
<1>15. CASE Answer
  <2>1. CASE stopped
    BY <1>15, <2>1, WrapTyped DEF Answer, WellTyped
  <2>2. CASE ~stopped
    BY <1>15, <2>2, StreamEmpty DEF Answer, SendNext, queueVars, rowVars, WellTyped
  <2>. QED  BY <2>1, <2>2
<1>16. CASE WaitEnds
  <2>1. CASE FollowUp(committed) /\ UNCHANGED committed
    <3>1. committed \in SUBSET Inputs
      BY <1>16, RowsAreInputs DEF WaitEnds, CommitInv
    <3>. QED  BY <2>1, <3>1, FollowUpTyped
  <2>. QED  BY <1>16, <2>1, WrapTyped DEF WaitEnds, WellTyped
<1>17. CASE WaitCap
  BY <1>17, WrapTyped DEF WaitCap, WellTyped
<1>18. CASE Finish
  <2>1. CASE result = "failed"
    BY <1>18, <2>1 DEF Finish, piVars, requestVars, WellTyped
  <2>2. CASE result # "failed"
    <3>1. Rows \in SUBSET Inputs /\ answers' \in SUBSET [read : SUBSET Inputs, rows : SUBSET Inputs]
      <4>1. result \in {"ok", "capped"}
        BY <1>18, <2>2 DEF Finish, EndInv, WellTyped
      <4>2. committed = Rows /\ Rows \in SUBSET Inputs
        BY <4>1, RowsAreInputs DEF CommitInv
      <4>. QED  BY <1>18, <2>2, <4>2 DEF Finish, WellTyped
    <3>2. state' \in [Records -> States]
      BY <1>18, <2>2 DEF Finish, Moved, WellTyped
    <3>. QED  BY <1>18, <2>2, <3>1, <3>2 DEF Finish, piVars, requestVars, WellTyped
  <2>. QED  BY <2>1, <2>2
<1>19. CASE UNCHANGED vars
  BY <1>19 DEF vars, loopVars, queueVars, rowVars, piVars, requestVars, WellTyped
<1>. QED
  BY <1>1, <1>2, <1>3, <1>4, <1>5, <1>6, <1>7, <1>8, <1>9, <1>10, <1>11, <1>12, <1>13, <1>14,
     <1>15, <1>16, <1>17, <1>18, <1>19, HandleTyped DEF Next, People, Background, Pi, Loop

-----------------------------------------------------------------------------
(* The invariant holds at first. *)

LEMMA IInvInit == Init => IInv
<1> SUFFICES ASSUME Init PROVE IInv
  OBVIOUS
<1>1. Queued = {} /\ Rows = {Opening} /\ Opening \notin Records
  BY MidTurnAssumption DEF Init, Queued, Rows
<1>2. WellTyped
  <2>1. 0 \in 0..MaxRounds  BY MidTurnAssumption
  <2>. QED  BY <2>1, StreamEmpty DEF Init, WellTyped, Inputs
<1>3. ChannelInv  BY <1>1 DEF Init, ChannelInv, Records
<1>4. PiInv  BY StreamEmpty DEF Init, PiInv, Coming
<1>5. ReadingInv  BY <1>1 DEF Init, ReadingInv, AtFirst, Attended
<1>6. CommitInv /\ EndInv  BY DEF Init, CommitInv, EndInv
<1>7. EffectInv  BY DEF Init, EffectInv
<1>. QED  BY <1>2, <1>3, <1>4, <1>5, <1>6, <1>7 DEF IInv

-----------------------------------------------------------------------------
(* Steps of the loop that leave the response. *)

LEMMA QueueApart ==
  ASSUME WellTyped
  PROVE  Queued \cap Rows = {} /\ Queued \subseteq Records /\ Opening \in Rows
BY MidTurnAssumption DEF Queued, Rows

LEMMA WrapStep ==
  ASSUME IInv, WellTyped', NEW how \in {"ok", "capped", "failed"}, Wrap(how),
         phase \notin {"wrapping", "over"},
         how = "ok" => Running = {},
         how \in {"ok", "capped"} => ~stopped /\ Queued = {} /\ latest' /\ committed' = Rows,
         latest' => committed' # NoSession /\ Rows \subseteq committed'
  PROVE  IInv'
<1>0. WellTyped /\ ChannelInv /\ PiInv /\ ReadingInv /\ CommitInv /\ EndInv /\ EffectInv
  BY DEF IInv
<1>1. /\ phase' = "wrapping" /\ result' = how /\ chanClosed' = TRUE
      /\ pi' = "idle" /\ handed' = {} /\ posted' = {} /\ taken' = {} /\ stream' = <<>>
      /\ job' = [j \in Jobs |-> IF j \in Running THEN "aborted" ELSE job[j]]
      /\ UNCHANGED <<stopped, ctx, wrote, effects, showed, acted, retried, resumable, rounds,
                     answers, input, base>>
  BY DEF Wrap, Close, requestVars
<1>2. /\ Rows' = Rows /\ Queued' = {}
      /\ \A s \in Records : state'[s] = IF s \in Queued THEN "dropped" ELSE state[s]
  BY <1>0, MovedRows DEF Wrap, Close
<1>3. ChannelInv'
  BY <1>0, <1>1, <1>2 DEF ChannelInv, Queued, Records
<1>4. PiInv'  BY <1>1, StreamEmpty DEF PiInv, Coming
<1>5. ReadingInv'  BY <1>0, <1>1 DEF ReadingInv, AtFirst, Attended
<1>6. CommitInv'  BY <1>0, <1>1, <1>2 DEF CommitInv
<1>7. EndInv'
  <2>1. result = "none"  BY <1>0 DEF EndInv
  <2>2. how = "ok" => \A j \in Jobs : job'[j] # "aborted"
    BY <1>0, <1>1, <2>1 DEF EndInv
  <2>3. how \in {"ok", "capped"} => \A s \in Records : state'[s] \in {"new", "delivered"}
    BY <1>0, <1>2 DEF ChannelInv, Queued
  <2>. QED  BY <1>1, <2>2, <2>3 DEF EndInv
<1>8. EffectInv'  BY <1>0, <1>1 DEF EffectInv
<1>. QED  BY <1>3, <1>4, <1>5, <1>6, <1>7, <1>8 DEF IInv

LEMMA FollowUpStep ==
  ASSUME IInv, WellTyped', FollowUp(Rows), ~stopped, phase \notin {"wrapping", "over"}
  PROVE  IInv'
<1>0. WellTyped /\ ChannelInv /\ PiInv /\ ReadingInv /\ CommitInv /\ EndInv /\ EffectInv
  BY DEF IInv
<1>1. /\ phase' = "sending" /\ pi' = "idle" /\ latest' = FALSE
      /\ answers' = answers \cup {[read |-> Rows, rows |-> Rows]}
      /\ input' = Queued /\ base' = Rows
      /\ showed' = FALSE /\ acted' = FALSE /\ rounds' = 0 /\ effects' = {}
      /\ handed' = {} /\ posted' = {} /\ taken' = {} /\ stream' = <<>>
      /\ UNCHANGED <<result, retried, resumable, chanClosed, stopped, job, ctx, wrote>>
  BY DEF FollowUp, GoOn, SendNext
<1>2. /\ Rows' = Rows \cup Queued /\ Queued' = {}
      /\ \A s \in Records : state'[s] = IF s \in Queued THEN "delivered" ELSE state[s]
  BY <1>0, MovedRows DEF FollowUp, GoOn
<1>3. ChannelInv'
  BY <1>0, <1>1, <1>2 DEF ChannelInv, Queued, Records
<1>4. PiInv'  BY <1>1, StreamEmpty DEF PiInv, Coming
<1>5. ReadingInv'
  BY <1>0, <1>1, <1>2, QueueApart DEF ReadingInv, AtFirst, Attended
<1>6. result = "none"  BY <1>0 DEF EndInv
<1>7. CommitInv'  BY <1>0, <1>1, <1>6 DEF CommitInv
<1>8. EndInv'  BY <1>0, <1>1, <1>6 DEF EndInv
<1>9. EffectInv'  BY <1>1 DEF EffectInv
<1>. QED  BY <1>3, <1>4, <1>5, <1>7, <1>8, <1>9 DEF IInv

LEMMA WaitStep ==
  ASSUME IInv, WellTyped', WaitForJobs, pi = "ended", ~stopped, committed' = Rows,
         phase \notin {"wrapping", "over"}
  PROVE  IInv'
<1>0. WellTyped /\ ChannelInv /\ PiInv /\ ReadingInv /\ CommitInv /\ EndInv /\ EffectInv
  BY DEF IInv
<1>1. /\ phase' = "waiting" /\ latest' = TRUE /\ stream' = <<>>
      /\ UNCHANGED <<result, showed, acted, retried, resumable, rounds, handed, state, chanClosed,
                     stopped, job, answers, pi, ctx, posted, taken, wrote, effects, input, base>>
  BY DEF WaitForJobs, queueVars, requestVars
<1>2. Rows' = Rows /\ Queued' = Queued  BY <1>1, SameRows
<1>3. ChannelInv'  BY <1>0, <1>1, <1>2 DEF ChannelInv
<1>4. PiInv'  BY <1>0, <1>1, StreamEmpty DEF PiInv, Coming
<1>5. ReadingInv'  BY <1>0, <1>1 DEF ReadingInv, AtFirst, Attended
<1>6. CommitInv'  BY <1>0, <1>1, <1>2, RowsAreInputs DEF CommitInv
<1>7. EndInv'  BY <1>0, <1>1 DEF EndInv
<1>8. EffectInv'  BY <1>0, <1>1 DEF EffectInv
<1>. QED  BY <1>3, <1>4, <1>5, <1>6, <1>7, <1>8 DEF IInv

\* A request is sent again, or the first one, or the answer to a question.
LEMMA SendStep ==
  ASSUME IInv, WellTyped', SendNext, phase \in {"preparing", "sending", "streaming", "asking"},
         retried' = retried \/ effects = {}, effects # {} => acted,
         input' \cap base' = {}, base' \cup input' = Rows,
         UNCHANGED <<result, showed, acted, queueVars, rowVars, effects>>
  PROVE  IInv'
<1>0. WellTyped /\ ChannelInv /\ PiInv /\ ReadingInv /\ CommitInv /\ EndInv /\ EffectInv
  BY DEF IInv
<1>1. /\ phase' = "sending" /\ pi' = "idle" /\ stream' = <<>>
      /\ handed' = {} /\ posted' = {} /\ taken' = {}
      /\ UNCHANGED <<result, showed, acted, state, chanClosed, stopped, job, committed, latest,
                     answers, effects>>
  BY DEF SendNext, queueVars, rowVars
<1>2. Rows' = Rows /\ Queued' = Queued  BY <1>1, SameRows
<1>3. ChannelInv'  BY <1>0, <1>1, <1>2 DEF ChannelInv
<1>4. PiInv'  BY <1>1, StreamEmpty DEF PiInv, Coming
<1>5. ReadingInv'  BY <1>1, <1>2 DEF ReadingInv, AtFirst, Attended
<1>6. CommitInv'  BY <1>0, <1>1, <1>2 DEF CommitInv
<1>7. EndInv'  BY <1>0, <1>1 DEF EndInv
<1>8. EffectInv'  BY <1>0, <1>1 DEF EffectInv
<1>. QED  BY <1>3, <1>4, <1>5, <1>6, <1>7, <1>8 DEF IInv

-----------------------------------------------------------------------------
(* The queue and the jobs. *)

\* A record that joins the queue is new to the response that streams.
LEMMA EnqueueStep ==
  ASSUME IInv, WellTyped', NEW s \in Records, state[s] = "new", ~chanClosed, Enqueue(s),
         job' \in [Jobs -> JobStates],
         \A j \in Jobs : (j = s \/ job'[j] # job[j]) => job'[j] = "done",
         UNCHANGED <<phase, result, showed, acted, retried, resumable, rounds, chanClosed,
                     stopped, rowVars, pi, ctx, taken, wrote, effects, stream, requestVars>>
  PROVE  IInv'
<1>0. WellTyped /\ ChannelInv /\ PiInv /\ ReadingInv /\ CommitInv /\ EndInv /\ EffectInv
  BY DEF IInv
<1>1. UNCHANGED <<phase, result, showed, acted, retried, chanClosed, stopped, committed, latest,
                  answers, pi, ctx, taken, effects, stream, input, base>>
  BY DEF rowVars, requestVars
<1>2. /\ Rows' = Rows /\ Queued' = Queued \cup {s}
      /\ \A r \in Records : state'[r] = IF r = s THEN "queued" ELSE state[r]
  BY <1>0, Enqueued DEF Enqueue
<1>3. Coming' = Coming /\ Consumed' = Consumed  BY <1>1 DEF Coming, Consumed
<1>4. /\ handed \subseteq handed' /\ posted \subseteq posted' /\ handed' \subseteq handed \cup {s}
      /\ posted' \subseteq posted \cup ({s} \ handed)
      /\ phase # "streaming" => handed' = handed /\ posted' = posted
  <2>1. CASE phase = "streaming"  BY <2>1 DEF Enqueue, HandOver
  <2>2. CASE phase # "streaming"  BY <2>2 DEF Enqueue
  <2>. QED  BY <2>1, <2>2
<1>5. ChannelInv'
  <2>1. ASSUME NEW j \in Jobs, job'[j] \in {"none", "running"} PROVE state'[j] = "new"
    <3>1. j # s /\ job[j] = job'[j]  BY <2>1
    <3>. QED  BY <1>0, <1>2, <2>1, <3>1 DEF ChannelInv, Records
  <2>2. \A r \in handed' : state'[r] # "new"
    BY <1>0, <1>2, <1>4 DEF ChannelInv, WellTyped
  <2>. QED  BY <1>0, <1>1, <1>2, <2>1, <2>2 DEF ChannelInv
<1>6. PiInv'
  BY <1>0, <1>1, <1>3, <1>4 DEF PiInv, WellTyped
<1>7. ReadingInv'
  <2>1. Attended => s \notin ctx  BY <1>0 DEF ReadingInv
  <2>. QED  BY <1>0, <1>1, <1>2, <1>3, <1>4, <2>1 DEF ReadingInv, AtFirst, Attended
<1>8. CommitInv'  BY <1>0, <1>1, <1>2 DEF CommitInv
<1>9. EndInv'
  <2>1. result = "none"  BY <1>0 DEF EndInv, ChannelInv
  <2>2. \A j \in Jobs : job'[j] # "aborted"
    BY <1>0, <2>1 DEF EndInv
  <2>. QED  BY <1>0, <1>1, <2>1, <2>2 DEF EndInv
<1>10. EffectInv'  BY <1>0, <1>1, <1>3 DEF EffectInv
<1>. QED  BY <1>5, <1>6, <1>7, <1>8, <1>9, <1>10 DEF IInv

\* Of the queue only its closing touches the rest.
LEMMA CloseStep ==
  ASSUME IInv, WellTyped', Close, stopped',
         UNCHANGED <<loopVars, job, rowVars, piVars, requestVars>>
  PROVE  IInv'
<1>0. WellTyped /\ ChannelInv /\ PiInv /\ ReadingInv /\ CommitInv /\ EndInv /\ EffectInv
  BY DEF IInv
<1>1. UNCHANGED <<phase, result, showed, acted, retried, handed, job, committed, latest,
                  answers, pi, ctx, posted, taken, effects, stream, input, base>>
  BY DEF loopVars, rowVars, piVars, requestVars
<1>2. /\ Rows' = Rows /\ Queued' = {} /\ chanClosed'
      /\ \A s \in Records : state'[s] = IF s \in Queued THEN "dropped" ELSE state[s]
  BY <1>0, MovedRows DEF Close
<1>3. Coming' = Coming /\ Consumed' = Consumed  BY <1>1 DEF Coming, Consumed
<1>4. ChannelInv'
  <2>1. \A s \in handed' : state'[s] # "new"
    BY <1>0, <1>1, <1>2 DEF ChannelInv, WellTyped
  <2>. QED  BY <1>0, <1>1, <1>2, <2>1 DEF ChannelInv, Queued, Records
<1>5. PiInv'  BY <1>0, <1>1, <1>3 DEF PiInv
<1>6. ReadingInv'
  BY <1>0, <1>1, <1>2, <1>3 DEF ReadingInv, AtFirst, Attended, Queued
<1>7. CommitInv'  BY <1>0, <1>1, <1>2 DEF CommitInv
<1>8. EndInv'
  <2>1. result \in {"ok", "capped"} => chanClosed  BY <1>0 DEF ChannelInv, EndInv
  <2>2. result \in {"ok", "capped"} => \A s \in Records : state'[s] = state[s]
    BY <1>0, <1>2, <2>1 DEF ChannelInv
  <2>. QED  BY <1>0, <1>1, <2>2 DEF EndInv
<1>9. EffectInv'  BY <1>0, <1>1, <1>3 DEF EffectInv
<1>. QED  BY <1>4, <1>5, <1>6, <1>7, <1>8, <1>9 DEF IInv

\* Only the jobs change.
LEMMA JobStep ==
  ASSUME IInv, WellTyped',
         \A j \in Jobs : /\ job'[j] \in {"none", "running"} => job[j] \in {"none", "running"}
                         /\ job'[j] = "aborted" => job[j] = "aborted",
         UNCHANGED <<loopVars, state, chanClosed, stopped, rowVars, piVars, requestVars>>
  PROVE  IInv'
<1>0. WellTyped /\ ChannelInv /\ PiInv /\ ReadingInv /\ CommitInv /\ EndInv /\ EffectInv
  BY DEF IInv
<1>1. UNCHANGED <<phase, result, showed, acted, retried, handed, state, chanClosed, stopped,
                  committed, latest, answers, pi, ctx, posted, taken, effects, stream, input, base>>
  BY DEF loopVars, rowVars, piVars, requestVars
<1>2. Rows' = Rows /\ Queued' = Queued /\ Coming' = Coming /\ Consumed' = Consumed
  BY <1>1, SameRows DEF Coming, Consumed
<1>3. ChannelInv' /\ PiInv'  BY <1>0, <1>1, <1>2 DEF ChannelInv, PiInv
<1>4. ReadingInv' /\ CommitInv'
  BY <1>0, <1>1, <1>2 DEF ReadingInv, AtFirst, Attended, CommitInv
<1>5. EndInv' /\ EffectInv'  BY <1>0, <1>1, <1>2 DEF EndInv, EffectInv
<1>. QED  BY <1>3, <1>4, <1>5 DEF IInv

LEMMA QueueStep ==
  ASSUME IInv, WellTyped', People \/ Background
  PROVE  IInv'
<1>0. WellTyped /\ ChannelInv  BY DEF IInv
<1>1. ASSUME NEW s \in Typed, Push(s) PROVE IInv'
  <2>1. s \in Records /\ s \notin Jobs /\ job' = job
    BY <1>1, MidTurnAssumption DEF Push, Records
  <2>2. job' \in [Jobs -> JobStates]  BY <1>0, <2>1 DEF WellTyped
  <2>. QED  BY <1>1, <2>1, <2>2, EnqueueStep DEF Push
<1>2. CASE Stop
  BY <1>2, CloseStep DEF Stop
<1>3. ASSUME NEW j \in Jobs, JobDelivers(j) PROVE IInv'
  <2>1. job' = [job EXCEPT ![j] = "done"]  BY <1>3 DEF JobDelivers
  <2>2. \A k \in Jobs : job'[k] = IF k = j THEN "done" ELSE job[k]
    BY <1>0, <2>1 DEF WellTyped
  <2>3. CASE chanClosed
    BY <1>3, <2>2, <2>3, JobStep DEF JobDelivers, loopVars, piVars
  <2>4. CASE ~chanClosed
    <3>1. j \in Records /\ state[j] = "new"
      BY <1>0, <1>3 DEF ChannelInv, JobDelivers, Records
    <3>2. job' \in [Jobs -> JobStates]  BY DEF WellTyped
    <3>. QED  BY <1>3, <2>2, <2>4, <3>1, <3>2, EnqueueStep DEF JobDelivers
  <2>. QED  BY <2>3, <2>4
<1>4. ASSUME NEW j \in Jobs, JobFails(j) PROVE IInv'
  <2>1. \A k \in Jobs : job'[k] = IF k = j THEN "done" ELSE job[k]
    BY <1>0, <1>4 DEF WellTyped, JobFails
  <2>. QED  BY <1>4, <2>1, JobStep DEF JobFails
<1>. QED  BY <1>1, <1>2, <1>3, <1>4 DEF People, Background

-----------------------------------------------------------------------------
(* pi. *)

LEMMA PiAttended ==
  ASSUME IInv, pi = "running"
  PROVE  /\ phase \in {"sending", "streaming"} /\ Attended
         /\ ~latest /\ result = "none"
BY DEF IInv, WellTyped, PiInv, CommitInv, EndInv, Attended

LEMMA ConsumedAfter ==
  ASSUME NEW e \in Events, NEW of \in Inputs,
         Coming' = Coming \cup {[event |-> e, of |-> of]}
  PROVE  Consumed' = Consumed \cup (IF e = "consumed" THEN {of} \cap Records ELSE {})
<1> DEFINE r == [event |-> e, of |-> of]
<1>1. r.event = e /\ r.of = of  OBVIOUS
<1>2. r \in Coming' /\ Coming \subseteq Coming' /\ \A x \in Coming' : x \in Coming \/ x = r
  OBVIOUS
<1> HIDE DEF r
<1>. QED  BY <1>1, <1>2 DEF Consumed

LEMMA PiStartsStep == ASSUME IInv, WellTyped', PiStarts PROVE IInv'
<1>0. WellTyped /\ ChannelInv /\ PiInv /\ ReadingInv /\ CommitInv /\ EndInv /\ EffectInv
  BY DEF IInv
<1>1. /\ phase = "sending" /\ pi = "idle" /\ pi' = "running" /\ ctx' = base \cup input
      /\ UNCHANGED <<phase, result, showed, acted, retried, handed, state, chanClosed, stopped, job,
                     committed, latest, answers, posted, taken, effects, input, base>>
  BY DEF PiStarts, loopVars, queueVars, rowVars, requestVars
<1>2. Rows' = Rows /\ Queued' = Queued  BY <1>1, SameRows
<1>3. /\ Coming = {} /\ Coming' = {[event |-> "created", of |-> Opening]} /\ EndsLast(stream')
      /\ posted = {} /\ taken = {}
  <2>1. stream = <<>> /\ Coming = {} /\ posted = {} /\ taken = {}
    BY <1>0, <1>1, StreamEmpty DEF PiInv, Coming, WellTyped
  <2>2. Send("created", Opening) /\ "created" \in Events /\ Opening \in Inputs
    BY DEF PiStarts, Events, Inputs
  <2>. QED  BY <1>0, <2>1, <2>2, SentTyped
<1>4. Consumed' = {}  BY <1>3 DEF Consumed
<1>5. ChannelInv'  BY <1>0, <1>1, <1>2 DEF ChannelInv
<1>6. PiInv'  BY <1>0, <1>1, <1>3 DEF PiInv, Terminal
<1>7. ReadingInv'
  <2>1. ctx' = Rows  BY <1>0, <1>1 DEF ReadingInv, AtFirst
  <2>2. \A s \in Records \cap Rows : state[s] \notin {"new", "queued"}
    BY MidTurnAssumption DEF Rows
  <2>. QED
    BY <1>0, <1>1, <1>2, <1>3, <1>4, <2>1, <2>2 DEF ReadingInv, AtFirst, Attended
<1>8. CommitInv' /\ EndInv'  BY <1>0, <1>1, <1>2 DEF CommitInv, EndInv
<1>9. EffectInv'  BY <1>0, <1>1, <1>3 DEF EffectInv
<1>. QED  BY <1>5, <1>6, <1>7, <1>8, <1>9 DEF IInv

LEMMA PiTakesStep == ASSUME IInv, WellTyped', NEW s \in Records, PiTakes(s) PROVE IInv'
<1>0. WellTyped /\ ChannelInv /\ PiInv /\ ReadingInv /\ CommitInv /\ EndInv /\ EffectInv
  BY DEF IInv
<1>1. /\ s \in posted /\ posted' = posted \ {s}
      /\ taken' = taken \/ taken' = taken \cup {s}
      /\ UNCHANGED <<phase, result, showed, acted, retried, handed, state, chanClosed, stopped, job,
                     committed, latest, answers, pi, ctx, stream, effects, input, base>>
  BY DEF PiTakes, loopVars, queueVars, rowVars, requestVars
<1>2. Rows' = Rows /\ Queued' = Queued /\ Coming' = Coming /\ Consumed' = Consumed
  BY <1>1, SameRows DEF Coming, Consumed
<1>3. ChannelInv'  BY <1>0, <1>1, <1>2 DEF ChannelInv
<1>4. PiInv'
  <2>1. posted' \cap taken' = {}  BY <1>0, <1>1 DEF PiInv
  <2>. QED  BY <1>0, <1>1, <1>2, <2>1 DEF PiInv
<1>5. ReadingInv'
  <2>1. posted' \cup taken' \subseteq posted \cup taken  BY <1>1
  <2>. QED  BY <1>0, <1>1, <1>2, <2>1 DEF ReadingInv, AtFirst, Attended
<1>6. CommitInv' /\ EndInv' /\ EffectInv'
  BY <1>0, <1>1, <1>2 DEF CommitInv, EndInv, EffectInv
<1>. QED  BY <1>3, <1>4, <1>5, <1>6 DEF IInv

\* What pi reports: it read a record, wrote, ran a tool, or ended the turn.
LEMMA PiSendsStep ==
  ASSUME IInv, WellTyped', pi = "running",
         NEW e \in Events, NEW of \in Inputs, Send(e, of), pi' \in {"running", "ended"},
         e \in Terminal => pi' = "ended",
         \/ e # "consumed" /\ ctx' = ctx /\ taken' = taken
         \/ e = "consumed" /\ of \in taken /\ ctx' = ctx \cup {of} /\ taken' = taken \ {of},
         effects' = effects \/ (e = "tool" /\ effects' = effects \cup {retried}),
         \A j \in Jobs : /\ job'[j] \in {"none", "running"} => job[j] \in {"none", "running"}
                         /\ job'[j] = "aborted" => job[j] = "aborted",
         UNCHANGED <<loopVars, state, chanClosed, stopped, rowVars, requestVars, posted>>
  PROVE  IInv'
<1>0. WellTyped /\ ChannelInv /\ PiInv /\ ReadingInv /\ CommitInv /\ EndInv /\ EffectInv
  BY DEF IInv
<1>1. UNCHANGED <<phase, result, showed, acted, retried, handed, state, chanClosed, stopped,
                  committed, latest, answers, posted, input, base>>
  BY DEF loopVars, rowVars, requestVars
<1>2. Rows' = Rows /\ Queued' = Queued  BY <1>1, SameRows
<1>3. /\ Coming' = Coming \cup {[event |-> e, of |-> of]} /\ EndsLast(stream')
      /\ \A x \in Coming : x.event \notin Terminal
  BY <1>0, SentTyped DEF PiInv
<1>4. Consumed' = Consumed \cup (IF e = "consumed" THEN {of} \cap Records ELSE {})
  BY <1>3, ConsumedAfter
<1>5. phase \in {"sending", "streaming"} /\ Attended /\ ~latest /\ result = "none"
  BY PiAttended
<1>6. ChannelInv'  BY <1>0, <1>1, <1>2 DEF ChannelInv
<1>7. PiInv'
  <2>1. posted' \cap taken' = {}  BY <1>0, <1>1 DEF PiInv
  <2>2. pi' = "running" => \A x \in Coming' : x.event \notin Terminal  BY <1>3
  <2>. QED  BY <1>0, <1>1, <1>3, <1>5, <2>1, <2>2 DEF PiInv
<1>8. ReadingInv'
  <2>1. CASE e # "consumed"
    <3>1. ctx' = ctx /\ taken' = taken /\ Consumed' = Consumed  BY <1>4, <2>1
    <3>. QED  BY <1>0, <1>1, <1>2, <1>5, <3>1 DEF ReadingInv, AtFirst, Attended
  <2>2. CASE e = "consumed"
    <3>1. /\ of \in taken /\ ctx' = ctx \cup {of} /\ taken' = taken \ {of}
          /\ Consumed' = Consumed \cup {of} /\ of \in handed /\ of \in Records
      BY <1>0, <1>4, <2>2 DEF WellTyped
    <3>2. of \notin posted /\ state[of] # "new"
      BY <1>0, <3>1 DEF PiInv, ChannelInv
    <3>. QED  BY <1>0, <1>1, <1>2, <1>5, <3>1, <3>2 DEF ReadingInv, AtFirst, Attended
  <2>. QED  BY <2>1, <2>2
<1>9. CommitInv' /\ EndInv'  BY <1>0, <1>1, <1>2, <1>5 DEF CommitInv, EndInv
<1>10. EffectInv'
  <2>1. effects' \subseteq {retried}  BY <1>0 DEF EffectInv
  <2>2. CASE effects' = effects  BY <1>0, <1>1, <1>3, <2>1, <2>2 DEF EffectInv
  <2>3. CASE e = "tool"
    <3>1. [event |-> e, of |-> of].event = "tool" /\ [event |-> e, of |-> of] \in Coming'
      BY <1>3, <2>3
    <3>2. \E x \in Coming' : x.event = "tool"  BY <3>1
    <3>. QED  BY <1>1, <2>1, <3>2 DEF EffectInv
  <2>. QED  BY <2>2, <2>3
<1>. QED  BY <1>6, <1>7, <1>8, <1>9, <1>10 DEF IInv

LEMMA PiStep == ASSUME IInv, WellTyped', Pi PROVE IInv'
<1>0. WellTyped  BY DEF IInv
<1>1. Opening \in Inputs /\ Records \subseteq Inputs  BY DEF Inputs
<1>2. CASE PiWrites
  BY <1>1, <1>2, PiSendsStep DEF PiWrites, Events, Terminal, loopVars, queueVars
<1>3. ASSUME NEW s \in Records, PiConsumes(s) PROVE IInv'
  BY <1>1, <1>3, PiSendsStep DEF PiConsumes, Events, Terminal, loopVars, queueVars
<1>4. ASSUME NEW started \in SUBSET Jobs, PiActs(started) PROVE IInv'
  <2>1. \A j \in Jobs : /\ job'[j] \in {"none", "running"} => job[j] \in {"none", "running"}
                        /\ job'[j] = "aborted" => job[j] = "aborted"
    BY <1>4 DEF PiActs
  <2>. QED  BY <1>1, <1>4, <2>1, PiSendsStep DEF PiActs, Events, Terminal, loopVars
<1>5. ASSUME NEW how \in {"completed", "question", "empty", "failed"}, PiEnds(how) PROVE IInv'
  BY <1>1, <1>5, PiSendsStep DEF PiEnds, Events, Terminal, loopVars, queueVars
<1>. QED  BY <1>2, <1>3, <1>4, <1>5, PiStartsStep, PiTakesStep DEF Pi

-----------------------------------------------------------------------------
(* The loop reads the stream. *)

\* The event at the head is handled; what else was on its way still is.
LEMMA HandleFacts ==
  ASSUME IInv, phase \in {"sending", "streaming"}, stream # <<>>
  PROVE  /\ pi # "idle" /\ Attended /\ ~latest /\ result = "none"
         /\ Head(stream) \in Event /\ Head(stream) \in Coming
         /\ EndsLast(Tail(stream)) /\ Coming = {Head(stream)} \cup InStream(Tail(stream))
         /\ Head(stream).event \in Terminal =>
              /\ pi = "ended" /\ Coming = {Head(stream)} /\ Consumed = {}
<1>0. WellTyped /\ PiInv /\ CommitInv /\ EndInv  BY DEF IInv
<1>1. pi # "idle" /\ Attended /\ ~latest /\ result = "none"
  BY <1>0 DEF PiInv, CommitInv, EndInv, Attended
<1>2. /\ Head(stream) \in Event /\ EndsLast(Tail(stream))
      /\ Coming = {Head(stream)} \cup InStream(Tail(stream))
      /\ Head(stream).event \in Terminal => Coming = {Head(stream)}
  BY <1>0, StreamTail DEF WellTyped, PiInv, Coming
<1>3. Head(stream).event \in Terminal => pi = "ended" /\ Consumed = {}
  BY <1>0, <1>1, <1>2 DEF PiInv, WellTyped, Consumed, Terminal
<1>. QED  BY <1>1, <1>2, <1>3

LEMMA CreatedStep ==
  ASSUME IInv, WellTyped', phase \in {"sending", "streaming"}, stream # <<>>,
         Head(stream).event = "created", stream' = Tail(stream), HandleCreated
  PROVE  IInv'
<1>0. WellTyped /\ ChannelInv /\ PiInv /\ ReadingInv /\ CommitInv /\ EndInv /\ EffectInv
  BY DEF IInv
<1>1. /\ phase' = "streaming"
      /\ handed' = handed \cup (Queued \ Slashed)
      /\ posted' = posted \cup (Queued \ (Slashed \cup handed))
      /\ UNCHANGED <<result, showed, acted, retried, state, chanClosed, stopped, job, committed,
                     latest, answers, pi, ctx, taken, effects, input, base>>
  BY DEF HandleCreated, HandOver, queueVars, rowVars, requestVars
<1>2. Rows' = Rows /\ Queued' = Queued  BY <1>1, SameRows
<1>3. /\ pi # "idle" /\ Attended /\ ~latest /\ result = "none"
      /\ EndsLast(stream') /\ Coming = {Head(stream)} \cup Coming'
  BY HandleFacts DEF Coming
<1>4. Consumed' = Consumed  BY <1>3 DEF Consumed
<1>5. ChannelInv'
  <2>1. \A s \in handed' : state'[s] # "new"  BY <1>0, <1>1 DEF ChannelInv, Queued
  <2>. QED  BY <1>0, <1>1, <1>2, <1>3, <2>1 DEF ChannelInv
<1>6. PiInv'
  <2>1. posted' \cap taken' = {}  BY <1>0, <1>1 DEF PiInv, WellTyped
  <2>. QED  BY <1>0, <1>1, <1>3, <2>1 DEF PiInv
<1>7. ReadingInv'
  <2>1. \A s \in Queued \cap ctx : s \in handed
    BY <1>0, <1>3 DEF ReadingInv, Queued
  <2>. QED  BY <1>0, <1>1, <1>2, <1>3, <1>4, <2>1 DEF ReadingInv, AtFirst, Attended
<1>8. CommitInv' /\ EndInv'  BY <1>0, <1>1, <1>2, <1>3 DEF CommitInv, EndInv
<1>9. EffectInv'  BY <1>0, <1>1, <1>3 DEF EffectInv
<1>. QED  BY <1>5, <1>6, <1>7, <1>8, <1>9 DEF IInv

LEMMA ConsumedStep ==
  ASSUME IInv, WellTyped', phase \in {"sending", "streaming"}, stream # <<>>,
         Head(stream).event = "consumed", stream' = Tail(stream), HandleConsumed(Head(stream).of)
  PROVE  IInv'
<1> DEFINE s == Head(stream).of
<1>0. WellTyped /\ ChannelInv /\ PiInv /\ ReadingInv /\ CommitInv /\ EndInv /\ EffectInv
  BY DEF IInv
<1>1. /\ state' = Moved({s} \cap Queued, "delivered")
      /\ showed' = (showed \/ s \in Queued)
      /\ UNCHANGED <<phase, result, acted, retried, handed, chanClosed, stopped, job, committed,
                     latest, answers, pi, ctx, posted, taken, effects, input, base>>
  BY DEF HandleConsumed, rowVars, requestVars
<1>2. /\ Rows' = Rows \cup ({s} \cap Queued) /\ Queued' = Queued \ {s}
      /\ \A r \in Records : state'[r] = IF r \in {s} \cap Queued THEN "delivered" ELSE state[r]
  <2> DEFINE S == {s} \cap Queued
  <2>1. S \in SUBSET Queued /\ state' = Moved(S, "delivered")  BY <1>1
  <2>2. Queued \ S = Queued \ {s}  OBVIOUS
  <2> HIDE DEF S
  <2>3. /\ Rows' = Rows \cup S /\ Queued' = Queued \ S
        /\ \A r \in Records : state'[r] = IF r \in S THEN "delivered" ELSE state[r]
    BY <1>0, <2>1, MovedRows
  <2>. QED  BY <2>2, <2>3 DEF S
<1>3. /\ pi # "idle" /\ Attended /\ ~latest /\ result = "none"
      /\ EndsLast(stream') /\ Coming = {Head(stream)} \cup Coming' /\ Head(stream) \in Coming
  BY HandleFacts DEF Coming
<1>4. /\ Consumed' \subseteq Consumed /\ Consumed \subseteq Consumed' \cup {s}
      /\ s \in Records => s \in Consumed
  BY <1>3 DEF Consumed
<1> HIDE DEF s
<1>5. ChannelInv'
  <2>1. /\ chanClosed' => Queued' = {}
        /\ ~chanClosed' => \A r \in Records : state'[r] \in {"new", "queued", "delivered"}
        /\ \A j \in Jobs : job'[j] \in {"none", "running"} => state'[j] = "new"
    BY <1>0, <1>1, <1>2 DEF ChannelInv, Queued, Records
  <2>2. \A r \in handed' : state'[r] # "new"
    BY <1>0, <1>1, <1>2 DEF ChannelInv, WellTyped
  <2>. QED  BY <1>0, <1>1, <2>1, <2>2 DEF ChannelInv
<1>6. PiInv'  BY <1>0, <1>1, <1>3 DEF PiInv
<1>7. ReadingInv'
  <2>1. s \in Queued => s \in Records  BY DEF Queued
  <2>2. Rows' \subseteq ctx /\ Consumed' \subseteq ctx
    BY <1>0, <1>2, <1>3, <1>4, <2>1 DEF ReadingInv
  <2>3. \A r \in Records \cap ctx : state'[r] # "new" /\ (state'[r] = "queued" => r \in handed)
    BY <1>0, <1>2, <1>3 DEF ReadingInv
  <2>4. ~chanClosed => ctx \subseteq Rows' \cup Consumed'
    <3> SUFFICES ASSUME ~chanClosed PROVE ctx \subseteq Rows' \cup Consumed'
      OBVIOUS
    <3>1. ctx \subseteq Rows \cup Consumed  BY <1>0, <1>3 DEF ReadingInv
    <3>2. s \in Records => s \in ctx /\ state[s] \in {"queued", "delivered"}
      BY <1>0, <1>3, <1>4 DEF ReadingInv, ChannelInv
    <3>3. s \in Records => s \in Rows'
      BY <1>2, <3>2 DEF Queued, Rows
    <3>4. Consumed \subseteq Records  BY DEF Consumed
    <3>. QED  BY <1>2, <1>4, <3>1, <3>3, <3>4
  <2>5. AtFirst' => base' \cup input' = Rows'
    BY <1>0, <1>1, <1>2, <1>3 DEF ReadingInv, AtFirst, Attended
  <2>. QED
    BY <1>0, <1>1, <1>3, <2>2, <2>3, <2>4, <2>5 DEF ReadingInv, Attended
<1>8. CommitInv' /\ EndInv'  BY <1>0, <1>1, <1>3 DEF CommitInv, EndInv, Attended
<1>9. EffectInv'
  <2>1. \A x \in Coming : x.event = "tool" => x \in Coming'  BY <1>3
  <2>. QED  BY <1>0, <1>1, <2>1 DEF EffectInv
<1>. QED  BY <1>5, <1>6, <1>7, <1>8, <1>9 DEF IInv

LEMMA OutputStep ==
  ASSUME IInv, WellTyped', phase \in {"sending", "streaming"}, stream # <<>>,
         Head(stream).event \in {"text", "tool"}, stream' = Tail(stream),
         HandleOutput(Head(stream).event)
  PROVE  IInv'
<1> DEFINE e == Head(stream).event
<1>0. WellTyped /\ ChannelInv /\ PiInv /\ ReadingInv /\ CommitInv /\ EndInv /\ EffectInv
  BY DEF IInv
<1>1. /\ showed' = (showed \/ e = "text") /\ acted' = (acted \/ e = "tool")
      /\ UNCHANGED <<phase, result, retried, handed, state, chanClosed, stopped, job, committed,
                     latest, answers, pi, ctx, posted, taken, effects, input, base>>
  BY DEF HandleOutput, queueVars, rowVars, requestVars
<1>2. Rows' = Rows /\ Queued' = Queued  BY <1>1, SameRows
<1>3. /\ pi # "idle" /\ Attended /\ ~latest /\ result = "none"
      /\ EndsLast(stream') /\ Coming = {Head(stream)} \cup Coming'
  BY HandleFacts DEF Coming
<1>4. Consumed' = Consumed  BY <1>3 DEF Consumed
<1>5. ChannelInv' /\ PiInv'  BY <1>0, <1>1, <1>2, <1>3 DEF ChannelInv, PiInv
<1>6. ReadingInv'
  BY <1>0, <1>1, <1>2, <1>3, <1>4 DEF ReadingInv, AtFirst, Attended
<1>7. CommitInv' /\ EndInv'  BY <1>0, <1>1, <1>2, <1>3 DEF CommitInv, EndInv
<1>8. EffectInv'
  <2>1. acted' \/ \A x \in Coming : x.event = "tool" => x \in Coming'  BY <1>1, <1>3
  <2>. QED  BY <1>0, <1>1, <2>1 DEF EffectInv
<1>. QED  BY <1>5, <1>6, <1>7, <1>8 DEF IInv

LEMMA CommitStep ==
  ASSUME IInv, WellTyped', phase \in {"sending", "streaming"}, stream # <<>>,
         Head(stream).event = "completed", HandleCommit
  PROVE  IInv'
<1>0. WellTyped /\ ChannelInv /\ ReadingInv /\ PiInv  BY DEF IInv
<1>1. pi = "ended" /\ Attended /\ Consumed = {}
  BY HandleFacts DEF Terminal
<1>2. /\ committed' = ctx /\ Rows \subseteq ctx /\ ctx # NoSession
      /\ ~stopped => ctx = Rows
  <2>1. ctx # NoSession  BY <1>0, MidTurnAssumption DEF WellTyped
  <2>2. ~stopped => ~chanClosed  BY <1>0 DEF ChannelInv
  <2>. QED  BY <1>0, <1>1, <2>1, <2>2 DEF ReadingInv, HandleCommit
<1>3. CASE stopped
  <2>1. Wrap("failed") /\ latest' = TRUE  BY <1>3 DEF HandleCommit
  <2>. QED  BY <1>2, <2>1, WrapStep
<1>4. CASE ~stopped
  <2>1. Boundary(Rows)  BY <1>2, <1>4 DEF HandleCommit
  <2>2. CASE WaitForJobs  BY <1>1, <1>2, <1>4, <2>2, WaitStep
  <2>3. CASE FollowUp(Rows)  BY <1>4, <2>3, FollowUpStep
  <2>4. CASE Queued = {} /\ Running = {} /\ Wrap("ok") /\ latest' = TRUE
    BY <1>2, <1>4, <2>4, WrapStep
  <2>. QED  BY <2>1, <2>2, <2>3, <2>4 DEF Boundary
<1>. QED  BY <1>3, <1>4

LEMMA QuestionStep ==
  ASSUME IInv, WellTyped', phase \in {"sending", "streaming"}, stream # <<>>,
         Head(stream).event = "question", stream' = <<>>, HandleQuestion
  PROVE  IInv'
<1>0. WellTyped /\ ChannelInv /\ PiInv /\ ReadingInv /\ CommitInv /\ EndInv /\ EffectInv
  BY DEF IInv
<1>1. CASE Wrap("failed") /\ UNCHANGED <<committed, latest>>
  BY <1>0, <1>1, WrapStep DEF CommitInv
<1>2. CASE ~(Wrap("failed") /\ UNCHANGED <<committed, latest>>)
  <2>1. /\ phase' = "asking" /\ showed' = TRUE
        /\ UNCHANGED <<result, acted, retried, handed, state, chanClosed, stopped, job, committed,
                       latest, answers, pi, ctx, posted, taken, effects, input, base>>
    BY <1>2 DEF HandleQuestion, queueVars, rowVars, requestVars
  <2>2. Rows' = Rows /\ Queued' = Queued  BY <2>1, SameRows
  <2>3. /\ pi = "ended" /\ Attended /\ ~latest /\ result = "none"
        /\ Coming = {Head(stream)} /\ Consumed = {}
    BY HandleFacts DEF Terminal
  <2>4. Coming' = {} /\ Consumed' = {} /\ EndsLast(stream')
    BY StreamEmpty DEF Coming, Consumed
  <2>5. ChannelInv'  BY <1>0, <2>1, <2>2 DEF ChannelInv
  <2>6. PiInv'  BY <1>0, <2>1, <2>3, <2>4 DEF PiInv
  <2>7. ReadingInv'
    BY <1>0, <2>1, <2>2, <2>3, <2>4 DEF ReadingInv, AtFirst, Attended
  <2>8. CommitInv' /\ EndInv'  BY <1>0, <2>1, <2>2, <2>3 DEF CommitInv, EndInv
  <2>9. EffectInv'
    <3>1. \A x \in Coming : x.event # "tool"  BY <2>3
    <3>. QED  BY <1>0, <2>1, <3>1 DEF EffectInv
  <2>. QED  BY <2>5, <2>6, <2>7, <2>8, <2>9 DEF IInv
<1>. QED  BY <1>1, <1>2

LEMMA FailureStep ==
  ASSUME IInv, WellTyped', phase \in {"sending", "streaming"}, stream # <<>>,
         Head(stream).event \in {"empty", "failed"}, HandleFailure(Head(stream).event)
  PROVE  IInv'
<1>0. WellTyped /\ ReadingInv /\ CommitInv /\ EffectInv  BY DEF IInv
<1>1. CASE Wrap("failed") /\ UNCHANGED <<committed, latest>>
  BY <1>0, <1>1, WrapStep DEF CommitInv
<1>2. CASE Repeatable /\ Repeat("empty")
  <2>1. Coming = {Head(stream)}  BY HandleFacts DEF Terminal
  <2>2. \A x \in Coming : x.event # "tool"  BY <2>1
  <2>3. effects = {} /\ base \cup input = Rows
    BY <1>0, <1>2, <2>2 DEF Repeatable, EffectInv, ReadingInv, AtFirst
  <2>. QED
    BY <1>0, <1>2, <2>3, SendStep DEF Repeat, requestVars, ReadingInv
<1>. QED  BY <1>1, <1>2 DEF HandleFailure

LEMMA HandleStep == ASSUME IInv, WellTyped', Handle PROVE IInv'
BY CreatedStep, ConsumedStep, OutputStep, CommitStep, QuestionStep, FailureStep DEF Handle

-----------------------------------------------------------------------------
(* The rest of the loop. *)

\* The connection, the preparation or the wait ends the run.
LEMMA FailStep ==
  ASSUME IInv, WellTyped', Wrap("failed"), UNCHANGED <<committed, latest>>,
         phase \notin {"wrapping", "over"}
  PROVE  IInv'
BY WrapStep DEF IInv, CommitInv

LEMMA PrepareStep == ASSUME IInv, WellTyped', Prepare PROVE IInv'
<1>0. WellTyped /\ PiInv /\ ReadingInv /\ EffectInv  BY DEF IInv
<1>1. CASE stopped  BY <1>1, FailStep DEF Prepare
<1>2. CASE ~stopped
  <2>1. Coming = {}  BY <1>0, StreamEmpty DEF Prepare, PiInv, Coming
  <2>2. effects # {} => acted  BY <1>0, <2>1 DEF EffectInv, Prepare
  <2>3. /\ base \cup input = Rows /\ input \cap base = {} /\ retried' = retried
        /\ input' = input /\ base' = base
    BY <1>0, <1>2 DEF Prepare, ReadingInv, AtFirst, requestVars
  <2>. QED  BY <1>2, <2>2, <2>3, SendStep DEF Prepare
<1>. QED  BY <1>1, <1>2

LEMMA PrepareFailsStep == ASSUME IInv, WellTyped', PrepareFails PROVE IInv'
<1>0. WellTyped /\ ChannelInv /\ PiInv /\ ReadingInv /\ CommitInv /\ EndInv /\ EffectInv
  BY DEF IInv
<1>1. /\ phase = "preparing" /\ phase' = "over" /\ result' = "failed"
      /\ UNCHANGED <<stopped, showed, acted, retried, handed, job, committed, latest, answers,
                     pi, ctx, posted, taken, effects, stream, input, base>>
  BY DEF PrepareFails, piVars, requestVars
<1>2. /\ Rows' = Rows /\ Queued' = {} /\ chanClosed'
      /\ \A s \in Records : state'[s] = IF s \in Queued THEN "dropped" ELSE state[s]
  BY <1>0, MovedRows DEF PrepareFails, Close
<1>3. Coming' = Coming  BY <1>1 DEF Coming
<1>4. ChannelInv'
  <2>1. handed' = {}  BY <1>0, <1>1 DEF PiInv
  <2>. QED  BY <1>0, <1>1, <1>2, <2>1 DEF ChannelInv, Queued, Records
<1>5. PiInv'  BY <1>0, <1>1, <1>3 DEF PiInv
<1>6. ReadingInv'  BY <1>0, <1>1 DEF ReadingInv, AtFirst, Attended
<1>7. CommitInv'  BY <1>0, <1>1, <1>2 DEF CommitInv
<1>8. EndInv' /\ EffectInv'  BY <1>0, <1>1 DEF EndInv, EffectInv
<1>. QED  BY <1>4, <1>5, <1>6, <1>7, <1>8 DEF IInv

LEMMA OpenFailsStep == ASSUME IInv, WellTyped', OpenFails PROVE IInv'
<1>0. WellTyped /\ PiInv /\ ReadingInv /\ EffectInv  BY DEF IInv
<1>1. phase = "sending" /\ pi = "idle"  BY DEF OpenFails
<1>2. CASE Wrap("failed") /\ UNCHANGED <<committed, latest>>
  BY <1>1, <1>2, FailStep
<1>3. CASE Repeatable /\ Repeat("healed")
  <2>1. Coming = {}  BY <1>0, <1>1, StreamEmpty DEF PiInv, Coming
  <2>2. effects = {}  BY <1>0, <1>1, <1>3, <2>1 DEF EffectInv, Repeatable
  <2>3. /\ base \cup input = Rows /\ input \cap base = {} /\ input' = input /\ base' = base
    BY <1>0, <1>1, <1>3 DEF Repeat, ReadingInv, AtFirst, requestVars
  <2>. QED  BY <1>1, <1>3, <2>2, <2>3, SendStep DEF Repeat
<1>. QED  BY <1>2, <1>3 DEF OpenFails

LEMMA AnswerStep == ASSUME IInv, WellTyped', Answer PROVE IInv'
<1>0. WellTyped /\ ChannelInv /\ PiInv /\ ReadingInv /\ EffectInv  BY DEF IInv
<1>1. phase = "asking"  BY DEF Answer
<1>2. CASE stopped  BY <1>1, <1>2, FailStep DEF Answer
<1>3. CASE ~stopped
  <2>1. pi = "ended" /\ Coming = {} /\ Consumed = {}
    BY <1>0, <1>1, StreamEmpty DEF PiInv, Coming, Consumed
  <2>2. ctx = Rows
    BY <1>0, <1>1, <1>3, <2>1 DEF ReadingInv, ChannelInv, Attended
  <2>3. effects # {} => acted  BY <1>0, <1>1, <2>1 DEF EffectInv
  <2>4. base' = Rows /\ input' = {} /\ retried' = retried  BY <1>3, <2>2 DEF Answer
  <2>. QED  BY <1>1, <1>3, <2>3, <2>4, SendStep DEF Answer
<1>. QED  BY <1>2, <1>3

LEMMA WaitEndsStep == ASSUME IInv, WellTyped', WaitEnds \/ WaitCap PROVE IInv'
<1>0. WellTyped /\ CommitInv  BY DEF IInv
<1>1. phase = "waiting" /\ latest /\ committed = Rows /\ Rows # NoSession
  BY <1>0, RowsAreInputs DEF WaitEnds, WaitCap, CommitInv
<1>2. CASE Wrap("failed") /\ UNCHANGED <<committed, latest>>
  BY <1>1, <1>2, FailStep
<1>3. CASE ~stopped /\ FollowUp(committed)
  BY <1>1, <1>3, FollowUpStep
<1>4. CASE ~stopped /\ Queued = {} /\ UNCHANGED <<committed, latest>>
           /\ (Wrap("capped") \/ (Running = {} /\ Wrap("ok")))
  BY <1>1, <1>4, WrapStep
<1>. QED  BY <1>2, <1>3, <1>4 DEF WaitEnds, WaitCap

LEMMA FinishStep == ASSUME IInv, WellTyped', Finish PROVE IInv'
<1>0. WellTyped /\ ChannelInv /\ PiInv /\ ReadingInv /\ CommitInv /\ EndInv /\ EffectInv
  BY DEF IInv
<1>1. /\ phase = "wrapping" /\ phase' = "over" /\ result # "none"
      /\ UNCHANGED <<result, showed, acted, retried, handed, chanClosed, stopped, job, committed,
                     latest, pi, ctx, posted, taken, effects, stream, input, base>>
  BY <1>0 DEF Finish, piVars, requestVars, EndInv
<1>2. /\ Rows' = Rows /\ Queued' = Queued
      /\ \A s \in Records : state[s] # "new" => state'[s] # "new"
      /\ \A s \in Records : state[s] = "new" => state'[s] = "new"
  <2>1. CASE state' = state  BY <2>1, SameRows
  <2>2. CASE state' = Moved({s \in Records : state[s] = "delivered"}, "completed")
    <3>1. \A s \in Records : state'[s] = IF state[s] = "delivered" THEN "completed" ELSE state[s]
      BY <2>2 DEF Moved
    <3>. QED  BY <3>1 DEF Rows, Queued
  <2>. QED  BY <2>1, <2>2 DEF Finish
<1>3. Coming' = Coming  BY <1>1 DEF Coming
<1>4. ChannelInv'  BY <1>0, <1>1, <1>2 DEF ChannelInv, Records, WellTyped
<1>5. PiInv'  BY <1>0, <1>1, <1>3 DEF PiInv
<1>6. ReadingInv'  BY <1>0, <1>1 DEF ReadingInv, AtFirst, Attended
<1>7. CommitInv'
  <2>1. CASE result = "failed"
    <3>1. answers' = answers  BY <2>1 DEF Finish
    <3>. QED  BY <1>0, <1>1, <1>2, <2>1, <3>1 DEF CommitInv
  <2>2. CASE result # "failed"
    <3>1. committed = Rows  BY <1>0, <1>1, <2>2 DEF CommitInv, WellTyped
    <3>2. \A a \in answers' : a \in answers \/ a = [read |-> committed, rows |-> Rows]
      BY <2>2 DEF Finish
    <3>. QED  BY <1>0, <1>1, <1>2, <3>1, <3>2 DEF CommitInv
  <2>. QED  BY <2>1, <2>2
<1>8. EndInv'
  <2>1. ASSUME result # "failed", NEW s \in Records PROVE state'[s] \in {"new", "completed"}
    <3>1. state[s] \in {"new", "delivered"}  BY <1>0, <1>1, <2>1 DEF EndInv, WellTyped
    <3>. QED  BY <2>1, <3>1 DEF Finish, Moved
  <2>. QED  BY <1>0, <1>1, <2>1 DEF EndInv
<1>9. EffectInv'  BY <1>0, <1>1 DEF EffectInv
<1>. QED  BY <1>4, <1>5, <1>6, <1>7, <1>8, <1>9 DEF IInv

LEMMA StutterStep == ASSUME IInv, UNCHANGED vars PROVE IInv'
<1>1. UNCHANGED <<phase, result, showed, acted, retried, handed, state, chanClosed, stopped, job,
                  committed, latest, answers, pi, ctx, posted, taken, effects, stream, input, base,
                  resumable, rounds, wrote>>
  BY DEF vars, loopVars, queueVars, rowVars, piVars, requestVars
<1>. QED
  BY <1>1 DEF IInv, WellTyped, ChannelInv, PiInv, ReadingInv, CommitInv, EndInv, EffectInv,
     AtFirst, Attended, Rows, Queued, Coming, Consumed

LEMMA IInvStep == IInv /\ [Next]_vars => IInv'
<1> SUFFICES ASSUME IInv, [Next]_vars PROVE IInv'
  OBVIOUS
<1>1. WellTyped'  BY TypedStep
<1>2. CASE StreamCut  BY <1>1, <1>2, FailStep DEF StreamCut
<1>3. CASE Loop
  BY <1>1, <1>2, <1>3, PrepareStep, PrepareFailsStep, OpenFailsStep, HandleStep, AnswerStep,
     WaitEndsStep, FinishStep DEF Loop
<1>. QED  BY <1>1, <1>3, QueueStep, PiStep, StutterStep DEF Next

\* Every state a run of the turn loop reaches satisfies the inductive invariant.
LEMMA Invariant == Spec => []IInv
BY IInvInit, IInvStep, PTL DEF Spec

-----------------------------------------------------------------------------
(* What it says of the run. *)

\* Every variable keeps its type in every run.
THEOREM TypeCorrect == Spec => []TypeOK
<1>1. IInv => TypeOK
  <2> SUFFICES ASSUME WellTyped PROVE TypeOK  BY DEF IInv
  <2>1. \A i \in DOMAIN stream : stream[i] \in [event : Events, of : Inputs]
    <3>1. stream \in Seq(Event)  BY DEF WellTyped
    <3>2. \A i \in DOMAIN stream : stream[i] \in Event  BY <3>1
    <3>. QED  BY <3>2, Zenon DEF Event
  <2>2. {chanClosed, stopped, showed, acted, resumable, latest, wrote} \subseteq BOOLEAN
    BY DEF WellTyped
  <2>3. posted \subseteq handed /\ taken \subseteq handed /\ handed \subseteq Records
    BY DEF WellTyped
  <2>4. rounds \in 0..MaxRounds /\ (committed = NoSession \/ committed \subseteq Inputs)
    BY DEF WellTyped
  <2>. QED  BY <2>1, <2>2, <2>3, <2>4 DEF WellTyped, TypeOK
<1>. QED  BY <1>1, Invariant, PTL

\* The session the next turn continues has read every row of this one, however
\* the run ended and at whichever of its responses.
THEOREM KeptSessionsAreComplete == Spec => []SessionCoversRows
<1>1. IInv => SessionCoversRows
  <2> SUFFICES ASSUME IInv, phase = "over", Session # NoSession PROVE Rows \subseteq Session
    BY DEF SessionCoversRows
  <2>1. WellTyped /\ CommitInv /\ result # "none"  BY DEF IInv, EndInv
  <2>2. CASE result = "failed"  BY <2>1, <2>2 DEF Session, CommitInv
  <2>3. CASE result # "failed"  BY <2>1, <2>3 DEF Session, CommitInv, WellTyped
  <2>. QED  BY <2>2, <2>3
<1>. QED  BY <1>1, Invariant, PTL

\* An answer is stored behind exactly the rows its response had read.
THEOREM AnswersStandInPlace == Spec => []AnswersReadTheirRows
<1>1. IInv => AnswersReadTheirRows  BY DEF IInv, CommitInv, AnswersReadTheirRows
<1>. QED  BY <1>1, Invariant, PTL

\* A run that ends well leaves no accepted message unanswered.
THEOREM NothingAcceptedIsLost == Spec => []AcceptedAreAnswered
<1>1. IInv => AcceptedAreAnswered
  BY DEF IInv, EndInv, WellTyped, AcceptedAreAnswered
<1>. QED  BY <1>1, Invariant, PTL

\* A run that ends well, its wait not capped, cut none of its jobs short.
THEOREM JobsAreWaitedFor == Spec => []JobsAreAwaited
<1>1. IInv => JobsAreAwaited  BY DEF IInv, EndInv, JobsAreAwaited
<1>. QED  BY <1>1, Invariant, PTL

\* No message is given to a model that has read it: not in a request, and not
\* over the input of the response that streams.
THEOREM ReadOnce == Spec => []NothingReadTwice
<1>1. IInv => NothingReadTwice
  BY PiAttended DEF IInv, ReadingInv, NothingReadTwice
<1>. QED  BY <1>1, Invariant, PTL

\* The tools of one input ran in one attempt at it: no retry repeats them.
THEOREM ToolsRunInOneAttempt == Spec => []EffectsOnce
<1>1. IInv => EffectsOnce
  <2> SUFFICES ASSUME IInv PROVE Cardinality(effects) <= 1
    BY DEF EffectsOnce
  <2>1. effects = {} \/ effects = {retried}  BY DEF IInv, EffectInv
  <2>2. Cardinality({}) = 0 /\ Cardinality({retried}) = 1
    BY FS_EmptySet, FS_Singleton
  <2>. QED  BY <2>1, <2>2
<1>. QED  BY <1>1, Invariant, PTL
=============================================================================
