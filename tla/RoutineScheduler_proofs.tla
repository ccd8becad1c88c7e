---------------------- MODULE RoutineScheduler_proofs ----------------------
(***************************************************************************)
(* Theorems about RoutineScheduler, for any jobs, owners, limits and       *)
(* schedules: its slots match its firings, the limits hold, and no due     *)
(* run is lost or caught up twice.                                         *)
(***************************************************************************)
EXTENDS RoutineScheduler, TLAPS, FiniteSetTheorems

-----------------------------------------------------------------------------
(* Types. *)

Stages == {"none", "resolving", "running"}

LEMMA EditedType ==
  ASSUME TypeOK, NEW r \in Rows, NEW s \in Schedules, NEW enabled \in BOOLEAN
  PROVE  Edited(r, s, enabled) \in Rows
BY DEF TypeOK, Edited, Rows, IsFuture, NextRun, Schedules, Times

LEMMA RecordedType ==
  ASSUME TypeOK, NEW r \in Rows
  PROVE  Recorded(r) \in Rows
<1>1. r.schedule \in Schedules /\ now \in Nat
  BY RoutineAssumption DEF TypeOK, Rows, Times
<1>2. NextRun(r.schedule) \in Nat
  BY <1>1 DEF NextRun, Schedules
<1> QED
  BY <1>1, <1>2 DEF Recorded, Rows

LEMMA NoRowIsNone == NoRow \notin Rows
BY DEF NoRow, Rows

LEMMA FiringType ==
  ASSUME TypeOK, NEW j \in Jobs, NEW w \in Ways, NEW at \in Stages
  PROVE  [firing EXCEPT ![j][w] = at] \in [Jobs -> [Ways -> Stages]]
BY DEF TypeOK, Stages

\* Owned sets of jobs are finite, and add up.
LEMMA OwnedFinite ==
  ASSUME NEW S \in SUBSET Jobs, NEW o
  PROVE  IsFiniteSet(Owned(S, o)) /\ Cardinality(Owned(S, o)) \in Nat
<1>1. Owned(S, o) \in SUBSET Jobs
  BY DEF Owned
<1>2. IsFiniteSet(Owned(S, o))
  BY <1>1, FS_Subset, RoutineAssumption
<1> QED
  BY <1>2, FS_CardinalityType

LEMMA OwnedUnion ==
  ASSUME NEW A \in SUBSET Jobs, NEW B \in SUBSET Jobs, A \cap B = {}, NEW o
  PROVE  Cardinality(Owned(A \cup B, o)) = Cardinality(Owned(A, o)) + Cardinality(Owned(B, o))
<1>1. /\ IsFiniteSet(Owned(A, o)) /\ Cardinality(Owned(A, o)) \in Nat
      /\ IsFiniteSet(Owned(B, o)) /\ Cardinality(Owned(B, o)) \in Nat
  BY OwnedFinite
<1>2. /\ Owned(A \cup B, o) = Owned(A, o) \cup Owned(B, o)
      /\ Owned(A, o) \cap Owned(B, o) = {}
  BY DEF Owned
<1>3. Cardinality(Owned(A, o) \cup Owned(B, o))
        = Cardinality(Owned(A, o)) + Cardinality(Owned(B, o))
            - Cardinality(Owned(A, o) \cap Owned(B, o))
  BY <1>1, FS_Union
<1>4. Cardinality(Owned(A, o) \cap Owned(B, o)) = 0
  BY <1>2, FS_EmptySet
<1>5. Cardinality(Owned(A \cup B, o)) = Cardinality(Owned(A, o) \cup Owned(B, o))
  BY <1>2
<1> QED
  BY <1>1, <1>3, <1>4, <1>5

LEMMA OwnedRemove ==
  ASSUME NEW A \in SUBSET Jobs, NEW j \in A, NEW o
  PROVE  Cardinality(Owned(A \ {j}, o)) =
           IF OwnerOf[j] = o THEN Cardinality(Owned(A, o)) - 1 ELSE Cardinality(Owned(A, o))
<1>1. IsFiniteSet(Owned(A, o))
  BY OwnedFinite
<1>2. Cardinality(Owned(A, o) \ {j}) =
        IF j \in Owned(A, o) THEN Cardinality(Owned(A, o)) - 1 ELSE Cardinality(Owned(A, o))
  BY <1>1, FS_RemoveElement
<1>3. Owned(A \ {j}, o) = Owned(A, o) \ {j} /\ (j \in Owned(A, o) <=> OwnerOf[j] = o)
  BY DEF Owned
<1> QED
  BY <1>2, <1>3

LEMMA ClaimType ==
  ASSUME TypeOK, NEW S \in SUBSET Jobs, Claim(S)
  PROVE  runningJobs' \subseteq Jobs /\ perOwner' \in [Owners -> Nat]
BY OwnedFinite DEF TypeOK, Claim

LEMMA ReleaseType ==
  ASSUME TypeOK, NEW j \in Jobs, Release(j)
  PROVE  runningJobs' \subseteq Jobs /\ perOwner' \in [Owners -> Nat]
<1>1. OwnerOf[j] \in Owners
  BY RoutineAssumption
<1> QED
  BY <1>1 DEF TypeOK, Release

LEMMA TypeInit == Init => TypeOK
BY RoutineAssumption DEF Init, TypeOK, Idle, Ways, Times

LEMMA TypeRows ==
  ASSUME TypeOK, NEW j \in Jobs, Create(j) \/ Edit(j) \/ Delete(j)
  PROVE  TypeOK'
<1>1. Plans[j] \subseteq Schedules /\ now \in Nat
  BY RoutineAssumption DEF TypeOK, Times
<1>2. CASE Create(j)
  <2>1. PICK s \in Plans[j], enabled \in BOOLEAN :
          /\ row' = [row EXCEPT ![j] =
               [schedule |-> s, enabled |-> enabled,
                next |-> IF enabled THEN NextRun(s) ELSE Never]]
          /\ UNCHANGED <<now, firing, slots, world>>
    BY <1>2 DEF Create
  <2>2. NextRun(s) \in Nat
    BY <1>1 DEF NextRun, Schedules
  <2>3. [schedule |-> s, enabled |-> enabled,
         next |-> IF enabled THEN NextRun(s) ELSE Never] \in Rows
    BY <1>1, <2>2 DEF Rows
  <2> QED
    BY <2>1, <2>3 DEF TypeOK, slots, world
<1>3. CASE Edit(j)
  <2>1. PICK s \in Plans[j], enabled \in BOOLEAN :
          /\ row[j] # NoRow /\ row' = [row EXCEPT ![j] = Edited(row[j], s, enabled)]
          /\ UNCHANGED <<now, firing, slots, world>>
    BY <1>3 DEF Edit
  <2>2. Edited(row[j], s, enabled) \in Rows
    BY <1>1, <2>1, EditedType DEF TypeOK
  <2> QED
    BY <2>1, <2>2 DEF TypeOK, slots, world
<1>4. CASE Delete(j)
  BY <1>4 DEF Delete, TypeOK, slots, world
<1> QED
  BY <1>2, <1>3, <1>4

LEMMA TypeFiring ==
  ASSUME TypeOK, NEW j \in Jobs, NEW w \in Ways, Firing(j, w) \/ RecordFails(j, w)
  PROVE  TypeOK'
<1>1. /\ [firing EXCEPT ![j][w] = "none"] \in [Jobs -> [Ways -> Stages]]
      /\ [firing EXCEPT ![j][w] = "running"] \in [Jobs -> [Ways -> Stages]]
  BY FiringType DEF Stages
<1>2. CASE Resolve(j, w)
  BY <1>1, <1>2 DEF Resolve, TypeOK, Stages, slots, world
<1>3. CASE SkipBusy(j, w) \/ RecordFails(j, w)
  BY <1>1, <1>3, ReleaseType DEF SkipBusy, RecordFails, TypeOK, Stages, world
<1>4. CASE Finish(j, w)
  <2>1. row[j] = NoRow \/ Recorded(row[j]) \in Rows
    BY RecordedType DEF TypeOK
  <2>2. row' = [row EXCEPT ![j] = IF row[j] = NoRow THEN row[j] ELSE Recorded(row[j])]
    BY <1>4 DEF Finish, TypeOK
  <2>3. row' \in [Jobs -> Rows \cup {NoRow}]
    BY <2>1, <2>2 DEF TypeOK
  <2> QED
    BY <1>1, <1>4, <2>3, ReleaseType DEF Finish, TypeOK, Stages, world
<1> QED
  BY <1>2, <1>3, <1>4 DEF Firing

LEMMA TypeStart ==
  ASSUME TypeOK, Tick \/ \E j \in Jobs : RunNow(j)
  PROVE  TypeOK'
<1>1. CASE Tick
  <2>1. PICK S \in SUBSET Jobs :
          /\ Claim(S)
          /\ firing' = [j \in Jobs |->
                         IF j \in S THEN [firing[j] EXCEPT !["tick"] = "resolving"]
                         ELSE firing[j]]
          /\ UNCHANGED <<now, row, world>>
    BY <1>1 DEF Tick
  <2>2. firing' \in [Jobs -> [Ways -> Stages]]
    BY <2>1 DEF TypeOK, Stages
  <2> QED
    BY <2>1, <2>2, ClaimType DEF TypeOK, Stages, world
<1>2. ASSUME NEW j \in Jobs, RunNow(j) PROVE TypeOK'
  <2>1. [firing EXCEPT ![j]["manual"] = "resolving"] \in [Jobs -> [Ways -> Stages]]
    BY DEF TypeOK, Stages
  <2> QED
    BY <1>2, <2>1, ClaimType DEF RunNow, TypeOK, Stages, world
<1> QED
  BY <1>1, <1>2

LEMMA TypeStep == TypeOK /\ [Next]_vars => TypeOK'
<1> SUFFICES ASSUME TypeOK, [Next]_vars PROVE TypeOK'
  OBVIOUS
<1>1. CASE Restart
  BY <1>1 DEF Restart, TypeOK, Idle, Ways
<1>2. CASE TimePasses
  BY <1>2, RoutineAssumption DEF TimePasses, TypeOK, Times, slots, world
<1>3. ASSUME NEW j \in Jobs, World(j) PROVE TypeOK'
  BY <1>3 DEF World, ChatStarts, ChatEnds, RepoTaken, RepoFreed, TypeOK, slots
<1>4. CASE UNCHANGED vars
  BY <1>4 DEF vars, TypeOK, slots, world
<1> QED
  BY <1>1, <1>2, <1>3, <1>4, TypeStart, TypeRows, TypeFiring DEF Next, Owner

\* Every variable keeps its type; no owner's count of firings goes below zero.
THEOREM TypeCorrect == Spec => []TypeOK
BY TypeInit, TypeStep, PTL DEF Spec

-----------------------------------------------------------------------------
(* Slots. *)

LEMMA IdleWays ==
  ASSUME TypeOK, NEW j \in Jobs
  PROVE  firing[j] = Idle <=> \A w \in Ways : firing[j][w] = "none"
BY DEF TypeOK, Idle

\* A step that starts the jobs of S, none of which is in flight.
LEMMA ClaimSlots ==
  ASSUME TypeOK, TypeOK', SlotsMatchFirings, NEW S \in SUBSET Jobs, S \cap runningJobs = {},
         NEW way \in Ways, Claim(S),
         firing' = [j \in Jobs |-> IF j \in S THEN [firing[j] EXCEPT ![way] = "resolving"]
                                  ELSE firing[j]]
  PROVE  SlotsMatchFirings' /\ InFlight' = InFlight \cup S
<1>1. \A j \in S : \A w \in Ways : firing[j][w] = "none"
  BY IdleWays DEF SlotsMatchFirings, InFlight
<1>2. \A j \in Jobs : firing'[j] # Idle <=> firing[j] # Idle \/ j \in S
  <2> SUFFICES ASSUME NEW j \in Jobs PROVE firing'[j] # Idle <=> firing[j] # Idle \/ j \in S
    OBVIOUS
  <2>1. CASE j \in S
    <3>1. firing'[j] = [firing[j] EXCEPT ![way] = "resolving"] /\ firing[j] \in [Ways -> Stages]
      BY <2>1 DEF TypeOK, Stages
    <3>2. firing'[j][way] = "resolving" /\ Idle[way] = "none"
      BY <3>1 DEF Idle
    <3> QED
      BY <2>1, <3>2
  <2>2. CASE j \notin S
    BY <2>2
  <2> QED
    BY <2>1, <2>2
<1>3. InFlight' = InFlight \cup S
  BY <1>2 DEF InFlight
<1>4. \A j \in Jobs : \E w \in Ways : firing'[j][w] = "none"
  <2> SUFFICES ASSUME NEW j \in Jobs PROVE \E w \in Ways : firing'[j][w] = "none"
    OBVIOUS
  <2>1. CASE j \in S
    <3>1. PICK w \in Ways : w # way
      BY DEF Ways
    <3>2. firing'[j] = [firing[j] EXCEPT ![way] = "resolving"] /\ firing[j] \in [Ways -> Stages]
      BY <2>1 DEF TypeOK, Stages
    <3> QED
      BY <1>1, <2>1, <3>1, <3>2
  <2>2. CASE j \notin S
    BY <2>2 DEF SlotsMatchFirings
  <2> QED
    BY <2>1, <2>2
<1>5. runningJobs' = InFlight'
  BY <1>3 DEF Claim, SlotsMatchFirings
<1>6. ASSUME NEW o \in Owners PROVE perOwner'[o] = Cardinality(Owned(InFlight', o))
  <2>1. InFlight \in SUBSET Jobs /\ InFlight \cap S = {}
    BY DEF InFlight, SlotsMatchFirings
  <2>2. Cardinality(Owned(InFlight \cup S, o))
          = Cardinality(Owned(InFlight, o)) + Cardinality(Owned(S, o))
    BY <2>1, OwnedUnion
  <2>3. perOwner'[o] = Cardinality(Owned(InFlight, o)) + Cardinality(Owned(S, o))
    BY DEF Claim, SlotsMatchFirings
  <2>4. Cardinality(Owned(InFlight', o)) = Cardinality(Owned(InFlight \cup S, o))
    BY <1>3
  <2> QED
    BY <2>2, <2>3, <2>4
<1> QED
  BY <1>3, <1>4, <1>5, <1>6 DEF SlotsMatchFirings

\* A firing ends, however it ends.
LEMMA ReleaseSlots ==
  ASSUME TypeOK, TypeOK', SlotsMatchFirings, NEW j \in Jobs, NEW w \in Ways,
         firing[j][w] # "none", firing' = [firing EXCEPT ![j][w] = "none"], Release(j)
  PROVE  SlotsMatchFirings'
<1>1. firing'[j] = Idle /\ \A k \in Jobs \ {j} : firing'[k] = firing[k]
  <2>1. \A v \in Ways : firing'[j][v] = "none"
    BY DEF TypeOK, SlotsMatchFirings, Ways
  <2>2. firing'[j] = Idle
    BY <2>1, IdleWays DEF TypeOK, Idle
  <2> QED
    BY <2>2 DEF TypeOK
<1>2. firing[j] # Idle
  BY IdleWays
<1>3. InFlight' = InFlight \ {j} /\ j \in InFlight /\ InFlight \in SUBSET Jobs
  BY <1>1, <1>2 DEF InFlight
<1>4. \A k \in Jobs : \E v \in Ways : firing'[k][v] = "none"
  BY <1>1 DEF SlotsMatchFirings, Idle, Ways
<1>5. runningJobs' = InFlight'
  BY <1>3 DEF Release, SlotsMatchFirings
<1>6. ASSUME NEW o \in Owners PROVE perOwner'[o] = Cardinality(Owned(InFlight', o))
  <2>1. Cardinality(Owned(InFlight \ {j}, o)) =
          IF OwnerOf[j] = o THEN Cardinality(Owned(InFlight, o)) - 1
          ELSE Cardinality(Owned(InFlight, o))
    BY <1>3, OwnedRemove
  <2>2. Cardinality(Owned(InFlight \ {j}, o)) \in Nat /\ Cardinality(Owned(InFlight, o)) \in Nat
    BY <1>3, OwnedFinite
  <2>3. perOwner[o] = Cardinality(Owned(InFlight, o))
    BY DEF SlotsMatchFirings
  <2>4. perOwner'[o] = IF OwnerOf[j] = o THEN (IF perOwner[o] > 0 THEN perOwner[o] - 1 ELSE 0)
                       ELSE perOwner[o]
    BY DEF Release, TypeOK
  <2>5. Cardinality(Owned(InFlight', o)) = Cardinality(Owned(InFlight \ {j}, o))
    BY <1>3
  <2> QED
    BY <2>1, <2>2, <2>3, <2>4, <2>5
<1> QED
  BY <1>4, <1>5, <1>6 DEF SlotsMatchFirings

\* A firing goes on with its repository resolved.
LEMMA ResolveSlots ==
  ASSUME TypeOK, SlotsMatchFirings, NEW j \in Jobs, NEW w \in Ways, Resolve(j, w)
  PROVE  SlotsMatchFirings'
<1>1. /\ \A k \in Jobs \ {j} : firing'[k] = firing[k]
      /\ \A v \in Ways \ {w} : firing'[j][v] = firing[j][v]
      /\ firing'[j][w] = "running" /\ firing[j][w] = "resolving"
  BY DEF Resolve, TypeOK
<1>2. firing[j] # Idle /\ firing'[j] # Idle
  BY <1>1 DEF Idle
<1>3. InFlight' = InFlight
  BY <1>1, <1>2 DEF InFlight
<1>4. \A k \in Jobs : \E v \in Ways : firing'[k][v] = "none"
  BY <1>1 DEF SlotsMatchFirings
<1> QED
  BY <1>3, <1>4 DEF SlotsMatchFirings, Resolve, slots

LEMMA SlotsStay ==
  ASSUME SlotsMatchFirings, UNCHANGED <<firing, slots>>
  PROVE  SlotsMatchFirings'
BY DEF SlotsMatchFirings, InFlight, slots

LEMMA TickStarts ==
  ASSUME TypeOK, TypeOK', SlotsMatchFirings, Tick
  PROVE  /\ SlotsMatchFirings'
         /\ \E S \in SUBSET Jobs : /\ InFlight' = InFlight \cup S /\ InFlight \cap S = {}
                                   /\ \A j \in S : Room(j, S \ {j})
                                   /\ \A j \in Jobs \ S : firing'[j] = firing[j]
<1>1. PICK S \in SUBSET Jobs :
        /\ \A j \in S : MayStart(j) /\ Room(j, S \ {j})
        /\ Claim(S)
        /\ firing' = [j \in Jobs |->
                       IF j \in S THEN [firing[j] EXCEPT !["tick"] = "resolving"]
                       ELSE firing[j]]
  BY DEF Tick
<1>2. S \cap runningJobs = {}
  BY <1>1 DEF MayStart
<1>3. SlotsMatchFirings' /\ InFlight' = InFlight \cup S
  BY <1>1, <1>2, ClaimSlots DEF Ways
<1>4. InFlight \cap S = {}
  BY <1>2 DEF SlotsMatchFirings
<1> QED
  BY <1>1, <1>3, <1>4

LEMMA SlotsInit == Init => SlotsMatchFirings
<1> SUFFICES ASSUME Init PROVE SlotsMatchFirings
  OBVIOUS
<1>1. InFlight = {}
  BY DEF Init, InFlight
<1>2. \A o \in Owners : Owned(InFlight, o) = {}
  BY <1>1 DEF Owned
<1> QED
  BY <1>1, <1>2, FS_EmptySet DEF Init, SlotsMatchFirings, Idle, Ways

LEMMA SlotsStep ==
  ASSUME TypeOK, TypeOK', SlotsMatchFirings, [Next]_vars
  PROVE  SlotsMatchFirings'
<1>1. CASE Tick
  BY <1>1, TickStarts
<1>2. ASSUME NEW j \in Jobs, RunNow(j) PROVE SlotsMatchFirings'
  <2>1. firing' = [k \in Jobs |-> IF k \in {j} THEN [firing[k] EXCEPT !["manual"] = "resolving"]
                                 ELSE firing[k]]
    BY <1>2 DEF RunNow, TypeOK
  <2>2. {j} \cap runningJobs = {} /\ Claim({j})
    BY <1>2 DEF RunNow, MayStart
  <2> QED
    BY <2>1, <2>2, ClaimSlots DEF Ways
<1>3. ASSUME NEW j \in Jobs, NEW w \in Ways, SkipBusy(j, w) \/ Finish(j, w) \/ RecordFails(j, w)
      PROVE  SlotsMatchFirings'
  BY <1>3, ReleaseSlots DEF SkipBusy, Finish, RecordFails
<1>4. ASSUME NEW j \in Jobs, NEW w \in Ways, Resolve(j, w) PROVE SlotsMatchFirings'
  BY <1>4, ResolveSlots
<1>5. CASE Restart
  <2>1. InFlight' = {}
    BY <1>5 DEF Restart, InFlight
  <2>2. \A o \in Owners : Owned(InFlight', o) = {}
    BY <2>1 DEF Owned
  <2> QED
    BY <1>5, <2>1, <2>2, FS_EmptySet DEF Restart, SlotsMatchFirings, Idle, Ways
<1>6. ASSUME NEW j \in Jobs, World(j) \/ Create(j) \/ Edit(j) \/ Delete(j) PROVE SlotsMatchFirings'
  BY <1>6, SlotsStay
  DEF World, ChatStarts, ChatEnds, RepoTaken, RepoFreed, Create, Edit, Delete
<1>7. CASE TimePasses \/ UNCHANGED vars
  BY <1>7, SlotsStay DEF TimePasses, vars
<1> QED
  BY <1>1, <1>2, <1>3, <1>4, <1>5, <1>6, <1>7 DEF Next, Owner, Firing

\* The registry holds exactly the slots of the firings in flight, one for each
\* job at most, through skips, failures, edits, deletes and restarts.
THEOREM SlotsMatch == Spec => []SlotsMatchFirings
<1>1. Init => TypeOK /\ SlotsMatchFirings
  BY TypeInit, SlotsInit
<1>2. TypeOK /\ SlotsMatchFirings /\ [Next]_vars => (TypeOK /\ SlotsMatchFirings)'
  BY TypeStep, SlotsStep
<1> QED
  BY <1>1, <1>2, PTL DEF Spec

-----------------------------------------------------------------------------
(* Limits. *)

LEMMA OnlyTickStarts ==
  ASSUME TypeOK, [Next]_vars, NEW j \in Jobs,
         firing[j]["tick"] = "none", firing'[j]["tick"] # "none"
  PROVE  Tick
<1>1. ASSUME NEW k \in Jobs, NEW w \in Ways, Firing(k, w) \/ RecordFails(k, w) PROVE FALSE
  BY <1>1 DEF Firing, SkipBusy, Resolve, Finish, RecordFails, TypeOK, Ways
<1>2. ASSUME NEW k \in Jobs, RunNow(k) PROVE FALSE
  BY <1>2 DEF RunNow, TypeOK, Ways
<1>3. ASSUME NEW k \in Jobs, World(k) \/ Create(k) \/ Edit(k) \/ Delete(k) PROVE FALSE
  BY <1>3 DEF World, ChatStarts, ChatEnds, RepoTaken, RepoFreed, Create, Edit, Delete
<1>4. ~Restart /\ ~TimePasses /\ ~UNCHANGED vars
  BY DEF Restart, TimePasses, vars, Idle, Ways
<1> QED
  BY <1>1, <1>2, <1>3, <1>4 DEF Next, Owner

LEMMA LimitsStep ==
  ASSUME TypeOK, TypeOK', SlotsMatchFirings, [Next]_vars, NEW j \in Jobs,
         firing[j]["tick"] = "none", firing'[j]["tick"] # "none"
  PROVE  /\ Cardinality(InFlight') <= MaxRuns
         /\ Cardinality(Owned(InFlight', OwnerOf[j])) <= MaxPerOwner
<1>1. PICK S \in SUBSET Jobs : /\ InFlight' = InFlight \cup S /\ InFlight \cap S = {}
                               /\ \A k \in S : Room(k, S \ {k})
                               /\ \A k \in Jobs \ S : firing'[k] = firing[k]
  BY OnlyTickStarts, TickStarts
<1>2. j \in S /\ Room(j, S \ {j})
  BY <1>1
<1>3. /\ runningJobs = InFlight
      /\ InFlight \in SUBSET Jobs /\ InFlight' \in SUBSET Jobs
  BY DEF SlotsMatchFirings, InFlight
<1>4. Cardinality(InFlight') <= MaxRuns
  <2>1. IsFiniteSet(InFlight \cup (S \ {j})) /\ Cardinality(InFlight \cup (S \ {j})) \in Nat
    <3>1. InFlight \cup (S \ {j}) \in SUBSET Jobs
      BY <1>1 DEF InFlight
    <3>2. IsFiniteSet(InFlight \cup (S \ {j}))
      BY <3>1, FS_Subset, RoutineAssumption
    <3> QED
      BY <3>2, FS_CardinalityType
  <2>2. InFlight' = (InFlight \cup (S \ {j})) \cup {j}
    BY <1>1, <1>2
  <2>3. Cardinality((InFlight \cup (S \ {j})) \cup {j}) \in
          {Cardinality(InFlight \cup (S \ {j})), Cardinality(InFlight \cup (S \ {j})) + 1}
    <3> DEFINE F == InFlight \cup (S \ {j})
    <3>1. IsFiniteSet(F)
      BY <2>1
    <3> HIDE DEF F
    <3>2. Cardinality(F \cup {j}) = IF j \in F THEN Cardinality(F) ELSE Cardinality(F) + 1
      BY <3>1, FS_AddElement
    <3>3. Cardinality(F \cup {j}) \in {Cardinality(F), Cardinality(F) + 1}
      BY <3>2
    <3> QED
      BY <3>3 DEF F
  <2>4. Cardinality(InFlight \cup (S \ {j})) < MaxRuns
    BY <1>2, <1>3 DEF Room
  <2>5. Cardinality(InFlight') = Cardinality((InFlight \cup (S \ {j})) \cup {j})
    BY <2>2
  <2>6. Cardinality(InFlight') \in Nat
    BY <1>3, FS_Subset, FS_CardinalityType, RoutineAssumption
  <2> QED
    BY <2>1, <2>3, <2>4, <2>5, <2>6, RoutineAssumption
<1>5. Cardinality(Owned(InFlight', OwnerOf[j])) <= MaxPerOwner
  <2> DEFINE o == OwnerOf[j]
  <2>1. o \in Owners /\ perOwner[o] = Cardinality(Owned(InFlight, o))
    BY RoutineAssumption DEF SlotsMatchFirings
  <2>2. perOwner[o] + Cardinality(Owned(S \ {j}, o)) < MaxPerOwner
    BY <1>2 DEF Room
  <2>3. Cardinality(Owned(S \ {j}, o)) = Cardinality(Owned(S, o)) - 1
    BY <1>2, OwnedRemove
  <2>4. Cardinality(Owned(InFlight \cup S, o))
          = Cardinality(Owned(InFlight, o)) + Cardinality(Owned(S, o))
    BY <1>1, <1>3, OwnedUnion
  <2>5. Cardinality(Owned(InFlight', o)) = Cardinality(Owned(InFlight \cup S, o))
    BY <1>1
  <2>6. /\ Cardinality(Owned(InFlight, o)) \in Nat
        /\ Cardinality(Owned(S, o)) \in Nat
    BY <1>3, OwnedFinite
  <2> QED
    BY <2>1, <2>2, <2>3, <2>4, <2>5, <2>6, RoutineAssumption
<1> QED
  BY <1>4, <1>5

\* A tick starts nothing over the limits, whatever it started in the same loop.
THEOREM LimitsAlwaysHold == Spec => LimitsHold
<1>1. TypeOK /\ TypeOK' /\ SlotsMatchFirings /\ [Next]_vars
        => [\A j \in Jobs :
              firing[j]["tick"] = "none" /\ firing'[j]["tick"] # "none" =>
                /\ Cardinality(InFlight') <= MaxRuns
                /\ Cardinality(Owned(InFlight', OwnerOf[j])) <= MaxPerOwner]_vars
  BY LimitsStep
<1> QED
  BY <1>1, TypeCorrect, SlotsMatch, PTL DEF Spec, LimitsHold

-----------------------------------------------------------------------------
(* Rows. *)

LEMMA EditedArms ==
  ASSUME TypeOK, NEW r \in Rows, NEW s \in Schedules, NEW enabled \in BOOLEAN
  PROVE  Edited(r, s, enabled).enabled <=> Edited(r, s, enabled).next # Never
<1>1. NextRun(s) # Never
  BY RoutineAssumption DEF TypeOK, NextRun, Schedules, Times
<1>2. s.kind = "every" => IsFuture(s)
  BY DEF IsFuture
<1> QED
  BY <1>1, <1>2 DEF Edited

LEMMA RecordedArms ==
  ASSUME TypeOK, NEW r \in Rows
  PROVE  Recorded(r).enabled <=> Recorded(r).next # Never
<1>1. r.schedule \in Schedules /\ now \in Nat
  BY RoutineAssumption DEF TypeOK, Rows, Times
<1>2. NextRun(r.schedule) \in Nat
  BY <1>1 DEF NextRun, Schedules
<1> QED
  BY <1>2, RoutineAssumption DEF Recorded, Rows

LEMMA RecordedIsNotDue ==
  ASSUME TypeOK, NEW r \in Rows
  PROVE  Recorded(r).next = Never \/ (Recorded(r).next \in Nat /\ Recorded(r).next > now)
<1>1. r.schedule \in Schedules /\ now \in Nat
  BY RoutineAssumption DEF TypeOK, Rows, Times
<1>2. r.schedule.kind = "every" => NextRun(r.schedule) \in Nat /\ NextRun(r.schedule) > now
  BY <1>1 DEF NextRun, Schedules
<1> QED
  BY <1>2 DEF Recorded, Rows

\* What a step does to the rows.
LEMMA RowStep ==
  ASSUME TypeOK, [Next]_vars, NEW j \in Jobs, row'[j] # row[j]
  PROVE  \/ row'[j] = NoRow /\ UNCHANGED firing
         \/ /\ row[j] = NoRow /\ UNCHANGED <<firing, now>>
            /\ \E s \in Schedules, enabled \in BOOLEAN :
                 /\ NextRun(s) \in Nat
                 /\ row'[j] = [schedule |-> s, enabled |-> enabled,
                               next |-> IF enabled THEN NextRun(s) ELSE Never]
         \/ /\ row[j] \in Rows /\ UNCHANGED <<firing, now>>
            /\ \E s \in Schedules, enabled \in BOOLEAN : row'[j] = Edited(row[j], s, enabled)
         \/ /\ row[j] \in Rows /\ UNCHANGED now /\ row'[j] = Recorded(row[j])
            /\ \E w \in Ways : firing[j][w] = "running" /\ firing'[j][w] = "none"
<1>1. /\ \A k \in Jobs : Plans[k] \subseteq Schedules
      /\ now \in Nat /\ row \in [Jobs -> Rows \cup {NoRow}]
  BY RoutineAssumption DEF TypeOK, Times
<1>2. ASSUME NEW k \in Jobs, Create(k)
      PROVE  /\ row[j] = NoRow /\ UNCHANGED <<firing, now>>
             /\ \E s \in Schedules, enabled \in BOOLEAN :
                  /\ NextRun(s) \in Nat
                  /\ row'[j] = [schedule |-> s, enabled |-> enabled,
                                next |-> IF enabled THEN NextRun(s) ELSE Never]
  <2>1. PICK s \in Plans[k], enabled \in BOOLEAN :
          /\ row[k] = NoRow
          /\ row' = [row EXCEPT ![k] =
               [schedule |-> s, enabled |-> enabled,
                next |-> IF enabled THEN NextRun(s) ELSE Never]]
          /\ UNCHANGED <<now, firing, slots, world>>
    BY <1>2 DEF Create
  <2>2. s \in Schedules /\ NextRun(s) \in Nat
    BY <1>1 DEF NextRun, Schedules
  <2> QED
    BY <1>1, <2>1, <2>2
<1>3. ASSUME NEW k \in Jobs, Edit(k)
      PROVE  /\ row[j] \in Rows /\ UNCHANGED <<firing, now>>
             /\ \E s \in Schedules, enabled \in BOOLEAN : row'[j] = Edited(row[j], s, enabled)
  <2>1. PICK s \in Plans[k], enabled \in BOOLEAN :
          /\ row[k] # NoRow /\ row' = [row EXCEPT ![k] = Edited(row[k], s, enabled)]
          /\ UNCHANGED <<now, firing, slots, world>>
    BY <1>3 DEF Edit
  <2> QED
    BY <1>1, <2>1
<1>4. ASSUME NEW k \in Jobs, Delete(k) PROVE row'[j] = NoRow /\ UNCHANGED firing
  BY <1>1, <1>4 DEF Delete
<1>5. ASSUME NEW k \in Jobs, NEW w \in Ways, Finish(k, w)
      PROVE  /\ row[j] \in Rows /\ UNCHANGED now /\ row'[j] = Recorded(row[j])
             /\ firing[j][w] = "running" /\ firing'[j][w] = "none"
  <2>1. row' = [row EXCEPT ![k] = IF row[k] = NoRow THEN row[k] ELSE Recorded(row[k])]
    BY <1>1, <1>5 DEF Finish
  <2>2. j = k /\ row[j] # NoRow /\ row'[j] = Recorded(row[j])
    BY <1>1, <2>1
  <2>3. firing[j][w] = "running" /\ firing'[j][w] = "none"
    BY <1>5, <2>2 DEF Finish, TypeOK
  <2> QED
    BY <1>1, <1>5, <2>2, <2>3 DEF Finish
<1>6. ASSUME \/ Tick \/ Restart \/ TimePasses \/ UNCHANGED vars
             \/ \E k \in Jobs :
                  \/ RunNow(k) \/ World(k)
                  \/ \E w \in Ways : SkipBusy(k, w) \/ Resolve(k, w) \/ RecordFails(k, w)
      PROVE  FALSE
  BY <1>6 DEF Tick, Restart, TimePasses, vars, RunNow, World, ChatStarts, ChatEnds, RepoTaken,
              RepoFreed, SkipBusy, Resolve, RecordFails
<1> QED
  BY <1>2, <1>3, <1>4, <1>5, <1>6 DEF Next, Owner, Firing

LEMMA ArmedStep ==
  ASSUME TypeOK, EnabledHasSlot, [Next]_vars
  PROVE  EnabledHasSlot'
<1> SUFFICES ASSUME NEW j \in Jobs, row'[j] # NoRow
             PROVE  row'[j].enabled <=> row'[j].next # Never
  BY DEF EnabledHasSlot
<1>1. CASE row'[j] = row[j]
  BY <1>1 DEF EnabledHasSlot
<1>2. ASSUME row[j] \in Rows, NEW s \in Schedules, NEW enabled \in BOOLEAN,
             row'[j] = Edited(row[j], s, enabled)
      PROVE  row'[j].enabled <=> row'[j].next # Never
  BY <1>2, EditedArms
<1>3. CASE row[j] \in Rows /\ row'[j] = Recorded(row[j])
  BY <1>3, RecordedArms
<1>4. ASSUME NEW s \in Schedules, NEW enabled \in BOOLEAN, NextRun(s) \in Nat,
             row'[j] = [schedule |-> s, enabled |-> enabled,
                        next |-> IF enabled THEN NextRun(s) ELSE Never]
      PROVE  row'[j].enabled <=> row'[j].next # Never
  BY <1>4, RoutineAssumption
<1> QED
  BY <1>1, <1>2, <1>3, <1>4, RowStep

\* Exactly the enabled jobs wait for a slot, whatever happened to their rows
\* while they ran.
THEOREM EnabledJobsHaveSlots == Spec => []EnabledHasSlot
<1>1. Init => EnabledHasSlot
  BY DEF Init, EnabledHasSlot
<1> QED
  BY <1>1, ArmedStep, TypeCorrect, PTL DEF Spec

LEMMA RecordedStep ==
  ASSUME TypeOK, [Next]_vars, NEW j \in Jobs, NEW w \in Ways,
         firing[j][w] = "running", firing'[j][w] = "none", row'[j] # row[j]
  PROVE  ~Due(j)'
<1>1. ~UNCHANGED firing
  OBVIOUS
<1>2. row'[j] = NoRow \/ (UNCHANGED now /\ row[j] \in Rows /\ row'[j] = Recorded(row[j]))
  BY <1>1, RowStep
<1>3. now \in Nat
  BY RoutineAssumption DEF TypeOK, Times
<1> QED
  BY <1>2, <1>3, RecordedIsNotDue DEF Due

\* A job whose run was recorded waits for a slot still to come.
THEOREM NothingCaughtUp == Spec => NoCatchingUp
<1>1. TypeOK /\ [Next]_vars
        => [\A j \in Jobs, w \in Ways :
              firing[j][w] = "running" /\ firing'[j][w] = "none" /\ row'[j] # row[j] =>
                ~Due(j)']_vars
  BY RecordedStep
<1> QED
  BY <1>1, TypeCorrect, PTL DEF Spec, NoCatchingUp

LEMMA DueStep ==
  ASSUME TypeOK, [Next]_vars, NEW j \in Jobs, Due(j), ~Due(j)'
  PROVE  \/ \E w \in Ways : firing[j][w] = "running" /\ firing'[j][w] = "none"
         \/ /\ UNCHANGED firing
            /\ \/ row'[j] = NoRow
               \/ ~row'[j].enabled
               \/ row'[j].schedule # row[j].schedule
<1>1. now \in Nat /\ now' \in Nat /\ now <= now' /\ row[j] \in Rows
  <2>1. now \in Nat /\ row[j] \in Rows
    BY RoutineAssumption DEF TypeOK, Times, Due
  <2>2. UNCHANGED now \/ now' = now + 1
    BY DEF Next, Tick, Restart, TimePasses, vars, Owner, Create, Edit, Delete, RunNow, World,
           ChatStarts, ChatEnds, RepoTaken, RepoFreed, Firing, SkipBusy, Resolve, Finish, RecordFails
  <2> QED
    BY <2>1, <2>2
<1>2. row[j].next \in Nat
  BY <1>1 DEF Due, Rows
<1>3. row'[j] # row[j]
  BY <1>1, <1>2 DEF Due
<1>4. ASSUME NEW s \in Schedules, NEW enabled \in BOOLEAN,
             row'[j] = Edited(row[j], s, enabled), UNCHANGED <<firing, now>>
      PROVE  ~row'[j].enabled \/ row'[j].schedule # row[j].schedule
  BY <1>1, <1>2, <1>4 DEF Due, Edited, Rows
<1> QED
  BY <1>3, <1>4, RowStep DEF Due

\* A due job stays due until a firing of it has ended or its owner changed it:
\* no skip, rename or restart loses the run.
THEOREM NoRunLost == Spec => DueUntilRun
<1>1. TypeOK /\ [Next]_vars
        => [\A j \in Jobs : Due(j) /\ ~Due(j)' =>
              \/ \E w \in Ways : firing[j][w] = "running" /\ firing'[j][w] = "none"
              \/ /\ UNCHANGED firing
                 /\ \/ row'[j] = NoRow
                    \/ ~row'[j].enabled
                    \/ row'[j].schedule # row[j].schedule]_vars
  BY DueStep
<1> QED
  BY <1>1, TypeCorrect, PTL DEF Spec, DueUntilRun
=============================================================================
