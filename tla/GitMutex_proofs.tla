-------------------------- MODULE GitMutex_proofs --------------------------
(***************************************************************************)
(* The lock of gitMutex.ts excludes and is fair, for any calls and keys.   *)
(***************************************************************************)
EXTENDS GitMutex, TLAPS

\* A call waits for exactly the calls that came before it: behind an active
\* promise it has that call and those ahead of it, behind none it has nobody.
ChainIsTheQueue ==
  \A o \in Ops :
    /\ ahead[o] \subseteq {p \in Ops : p # o /\ Active(p) /\ KeyOf[p] = KeyOf[o]}
    /\ prior[o] = None => ahead[o] = {}
    /\ prior[o] # None =>
         /\ Active(prior[o]) /\ KeyOf[prior[o]] = KeyOf[o]
         /\ prior[o] # o
         /\ ahead[o] = ahead[prior[o]] \cup {prior[o]}
    /\ ~ Active(o) => prior[o] = None
    /\ stage[o] = "running" => prior[o] = None

\* Any two calls of one key that are there know who is first.
Ordered ==
  \A o, p \in Ops :
    Active(o) /\ Active(p) /\ KeyOf[o] = KeyOf[p] /\ o # p
      => o \in ahead[p] \/ p \in ahead[o]

\* While a key has a call, its map entry is the last of them.
TailIsLast ==
  /\ \A k \in Keys : chains[k] # None =>
       KeyOf[chains[k]] = k /\ stage[chains[k]] # "idle"
  /\ \A o \in Ops : Active(o) =>
       LET t == chains[KeyOf[o]] IN
       t # None /\ Active(t) /\ (o = t \/ o \in ahead[t])

\* The inductive invariant.
LockInv == TypeOK /\ ChainIsTheQueue /\ Ordered /\ TailIsLast

LEMMA LockInvInit ==
  ASSUME LockConstants, Init
  PROVE  LockInv
  BY SMT DEF LockConstants, Init, LockInv, TypeOK, ChainIsTheQueue, Ordered, TailIsLast, Active

LEMMA CallKeepsLockInv ==
  ASSUME LockConstants, LockInv, NEW o \in Ops, Call(o)
  PROVE  LockInv'
<1> DEFINE k == KeyOf[o]
           tail == chains[k]
<1> USE DEF LockConstants, LockInv, Active
<1>1. TypeOK'
  BY DEF TypeOK, Call
<1>2. k \in Keys /\ stage[o] = "idle" /\ tail \in Ops \cup {None}
  BY DEF TypeOK, Call
<1>3. \A p \in Ops : p # o => /\ Active(p)' = Active(p)
                              /\ prior'[p] = prior[p]
                              /\ ahead'[p] = ahead[p]
  BY DEF TypeOK, Call
<1>4. Active(o)' /\ chains'[k] = o /\ ~ Active(o)
  BY <1>2 DEF TypeOK, Call
<1>5. ahead'[o] = {p \in Ops : Active(p) /\ KeyOf[p] = k}
  BY DEF TypeOK, Call
<1>6. \A p \in Ops : o \notin ahead[p] /\ prior[p] # o
  <2> SUFFICES ASSUME NEW p \in Ops
               PROVE  o \notin ahead[p] /\ prior[p] # o
    OBVIOUS
  <2>1. o \notin ahead[p]
    BY <1>4 DEF ChainIsTheQueue
  <2>2. o # None
    OBVIOUS
  <2>3. prior[p] # o
    BY <1>4, <2>2 DEF ChainIsTheQueue
  <2>4. QED
    BY <2>1, <2>3
<1>7. CASE tail # None /\ Active(tail)
  <2>1. prior'[o] = tail
    BY <1>7 DEF TypeOK, Call
  <2>2. ahead'[o] = ahead[tail] \cup {tail}
    <3>1. tail \in Ops /\ KeyOf[tail] = k
      BY <1>2, <1>7 DEF TailIsLast
    <3>2. ahead[tail] \cup {tail} \subseteq ahead'[o]
      BY <1>5, <1>7, <3>1 DEF ChainIsTheQueue
    <3>3. \A p \in ahead'[o] : p = tail \/ p \in ahead[tail]
      BY <1>5, <1>7, <3>1 DEF TailIsLast
    <3>4. QED
      BY <3>2, <3>3
  <2>3. KeyOf[tail] = k /\ tail # o
    BY <1>2, <1>4, <1>7 DEF TailIsLast
  <2>4. ChainIsTheQueue'
    BY <1>2, <1>3, <1>4, <1>5, <1>6, <1>7, <2>1, <2>2, <2>3 DEF ChainIsTheQueue, TypeOK, Call
  <2>5. Ordered'
    BY <1>3, <1>4, <1>5 DEF Ordered, TypeOK
  <2>6. TailIsLast'
    BY <1>1, <1>2, <1>3, <1>4, <1>5 DEF TailIsLast, TypeOK, Call
  <2>7. QED
    BY <1>1, <2>4, <2>5, <2>6
<1>8. CASE tail = None \/ ~ Active(tail)
  <2>1. \A p \in Ops : ~ (Active(p) /\ KeyOf[p] = k)
    BY <1>2, <1>8 DEF TailIsLast
  <2>2. prior'[o] = None
    BY <1>2, <1>8 DEF TailIsLast, TypeOK, Call
  <2>3. ahead'[o] = {}
    BY <1>5, <2>1
  <2>4. ChainIsTheQueue'
    BY <1>2, <1>3, <1>4, <1>6, <2>2, <2>3 DEF ChainIsTheQueue, TypeOK, Call
  <2>5. Ordered'
    BY <1>3, <1>4, <1>5 DEF Ordered, TypeOK
  <2>6. TailIsLast'
    BY <1>1, <1>2, <1>3, <1>4, <1>5 DEF TailIsLast, TypeOK, Call
  <2>7. QED
    BY <1>1, <2>4, <2>5, <2>6
<1>9. QED
  BY <1>7, <1>8

LEMMA StartKeepsLockInv ==
  ASSUME LockConstants, LockInv, NEW o \in Ops, Start(o)
  PROVE  LockInv'
<1> USE DEF LockConstants, LockInv, Active
<1>1. \A p \in Ops : Active(p)' = Active(p)
  BY DEF TypeOK, Start
<1>2. \A p \in Ops : stage[p] # "idle" <=> stage'[p] # "idle"
  BY DEF TypeOK, Start
<1>3. TypeOK' /\ UNCHANGED <<chains, prior, ahead>>
  BY DEF TypeOK, Start
<1>4. ChainIsTheQueue'
  BY <1>1, <1>3 DEF ChainIsTheQueue, TypeOK, Start
<1>5. Ordered' /\ TailIsLast'
  BY <1>1, <1>2, <1>3 DEF Ordered, TailIsLast, TypeOK
<1>6. QED
  BY <1>3, <1>4, <1>5

LEMMA SettleKeepsLockInv ==
  ASSUME LockConstants, LockInv, NEW o \in Ops, Settle(o)
  PROVE  LockInv'
<1> USE DEF LockConstants, LockInv, Active
<1>1. TypeOK'
  BY DEF TypeOK, Settle
<1>2. \A p \in Ops : /\ p # o => Active(p)' = Active(p)
                     /\ stage[p] # "idle" <=> stage'[p] # "idle"
                     /\ p # o => stage'[p] = stage[p]
  BY DEF TypeOK, Settle
<1>3. Active(o) /\ ~ Active(o)' /\ prior[o] = None /\ ahead[o] = {}
  BY DEF TypeOK, Settle, ChainIsTheQueue
<1>4. \A p \in Ops : /\ ahead'[p] = ahead[p] \ {o}
                     /\ prior'[p] = IF prior[p] = o THEN None ELSE prior[p]
  BY DEF TypeOK, Settle
<1>5. ChainIsTheQueue'
  <2> SUFFICES ASSUME NEW p \in Ops
               PROVE  ChainIsTheQueue!(p)'
    BY DEF ChainIsTheQueue
  <2>1. CASE prior[p] = o
    BY <1>2, <1>3, <1>4, <2>1 DEF ChainIsTheQueue, TypeOK
  <2>2. CASE prior[p] # o
    BY <1>2, <1>3, <1>4, <2>2 DEF ChainIsTheQueue, TypeOK
  <2>3. QED
    BY <2>1, <2>2
<1>6. Ordered'
  BY <1>2, <1>3, <1>4 DEF Ordered
<1>7. TailIsLast'
  <2>1. chains' = chains
    BY DEF Settle
  <2>2. \A p \in Ops : Active(p)' => chains[KeyOf[p]] # o
    BY <1>2, <1>3 DEF TailIsLast
  <2>3. \A k \in Keys : chains[k] # None =>
           KeyOf[chains[k]] = k /\ stage'[chains[k]] # "idle"
    BY <1>2 DEF TailIsLast, TypeOK
  <2>4. ASSUME NEW p \in Ops, Active(p)'
        PROVE  LET t == chains[KeyOf[p]] IN
               t # None /\ Active(t)' /\ (p = t \/ p \in ahead'[t])
    <3>1. p # o /\ Active(p)
      BY <1>2, <1>3, <2>4
    <3> DEFINE t == chains[KeyOf[p]]
    <3>2. t # None /\ t \in Ops /\ Active(t) /\ (p = t \/ p \in ahead[t])
      BY <3>1 DEF TailIsLast, TypeOK
    <3>3. t # o
      BY <2>2, <2>4
    <3>4. Active(t)'
      BY <1>2, <2>1, <3>2, <3>3
    <3>5. p = t \/ p \in ahead'[t]
      BY <1>4, <3>1, <3>2
    <3>6. QED
      BY <3>2, <3>4, <3>5
  <2>5. QED
    BY <2>1, <2>3, <2>4 DEF TailIsLast
<1>8. QED
  BY <1>1, <1>5, <1>6, <1>7

LEMMA DropKeepsLockInv ==
  ASSUME LockConstants, LockInv, NEW o \in Ops, Drop(o)
  PROVE  LockInv'
<1> USE DEF LockConstants, LockInv, Active
<1>1. TypeOK' /\ UNCHANGED <<prior, ahead>>
  BY DEF TypeOK, Drop
<1>2. \A p \in Ops : /\ Active(p)' = Active(p)
                     /\ p # o => stage'[p] = stage[p]
                     /\ stage'[p] = "running" <=> stage[p] = "running"
  BY DEF TypeOK, Drop
<1>3. ~ Active(o)
  BY DEF Drop
<1>4. \A k \in Keys : chains'[k] = IF chains[k] = o /\ k = KeyOf[o] THEN None ELSE chains[k]
  BY DEF TypeOK, Drop
<1>5. ChainIsTheQueue'
  BY <1>1, <1>2 DEF ChainIsTheQueue, TypeOK
<1>6. Ordered'
  BY <1>1, <1>2 DEF Ordered
<1>7. TailIsLast'
  BY <1>1, <1>2, <1>3, <1>4 DEF TailIsLast, TypeOK
<1>8. QED
  BY <1>1, <1>5, <1>6, <1>7

LEMMA LockInvStep ==
  ASSUME LockConstants, LockInv, [Next]_lockVars
  PROVE  LockInv'
<1>1. CASE Restart
  BY <1>1
     DEF LockConstants, Restart, LockInv, TypeOK, ChainIsTheQueue, Ordered, TailIsLast, Active
<1>2. CASE \E o \in Ops : Call(o) \/ Start(o) \/ Settle(o) \/ Drop(o)
  BY <1>2, CallKeepsLockInv, StartKeepsLockInv, SettleKeepsLockInv, DropKeepsLockInv
<1>3. CASE UNCHANGED lockVars
  BY <1>3 DEF lockVars, LockInv, TypeOK, ChainIsTheQueue, Ordered, TailIsLast, Active
<1>4. QED
  BY <1>1, <1>2, <1>3 DEF Next

LEMMA LockInvAlways ==
  ASSUME LockConstants
  PROVE  Spec => []LockInv
<1>1. Init => LockInv
  BY LockInvInit
<1>2. LockInv /\ [Next]_lockVars => LockInv'
  BY LockInvStep
<1>3. QED
  BY <1>1, <1>2, PTL DEF Spec

\* No two calls of one path run their git commands at once.
THEOREM MutualExclusion ==
  ASSUME LockConstants
  PROVE  Spec => []OneAtATime
<1>1. LockInv => OneAtATime
  BY DEF LockInv, ChainIsTheQueue, Ordered, OneAtATime, Active
<1>2. QED
  BY <1>1, LockInvAlways, PTL

-----------------------------------------------------------------------------
(***************************************************************************)
(* The chain implements the first-come-first-served lock.                  *)
(***************************************************************************)
TurnOf == [o \in Ops |-> CASE stage[o] = "queued" -> "waiting"
                           [] stage[o] = "running" -> "holding"
                           [] OTHER -> "out"]

LEMMA FifoInit == Init => Fifo!Init
  BY DEF Init, Fifo!Init

LEMMA CallAsks ==
  ASSUME LockInv, NEW o \in Ops, Call(o)
  PROVE  Fifo!Ask(o)
<1>1. TurnOf[o] = "out" /\ TurnOf' = [TurnOf EXCEPT ![o] = "waiting"]
  BY DEF TurnOf, Call, LockInv, TypeOK
<1>2. {p \in Ops : Active(p) /\ KeyOf[p] = KeyOf[o]}
        = {p \in Ops : TurnOf[p] # "out" /\ KeyOf[p] = KeyOf[o]}
  BY DEF Active, TurnOf, LockInv, TypeOK
<1>3. ahead' = [ahead EXCEPT ![o] = {p \in Ops : TurnOf[p] # "out" /\ KeyOf[p] = KeyOf[o]}]
  BY <1>2 DEF Call
<1>4. QED
  BY <1>1, <1>3 DEF Fifo!Ask, TurnOf

LEMMA StartHolds ==
  ASSUME LockInv, NEW o \in Ops, Start(o)
  PROVE  Fifo!Hold(o)
<1>1. TurnOf[o] = "waiting" /\ TurnOf' = [TurnOf EXCEPT ![o] = "holding"]
  BY DEF TurnOf, Start, LockInv, TypeOK
<1>2. ahead[o] = {} /\ ahead' = ahead
  BY DEF Start, LockInv, ChainIsTheQueue
<1>3. QED
  BY <1>1, <1>2 DEF Fifo!Hold, TurnOf

LEMMA SettleLeaves ==
  ASSUME LockInv, NEW o \in Ops, Settle(o)
  PROVE  Fifo!Leave(o)
<1>1. TurnOf[o] = "holding" /\ TurnOf' = [TurnOf EXCEPT ![o] = "out"]
  BY DEF TurnOf, Settle, LockInv, TypeOK
<1>2. QED
  BY <1>1 DEF Fifo!Leave, TurnOf, Settle

LEMMA DropIsUnseen ==
  ASSUME LockInv, NEW o \in Ops, Drop(o)
  PROVE  UNCHANGED Fifo!fifoVars
<1>1. TurnOf' = TurnOf
  BY DEF TurnOf, Drop, LockInv, TypeOK
<1>2. QED
  BY <1>1 DEF Fifo!fifoVars, TurnOf, Drop

\* Every step of the chain is a step of the abstract lock, or is not seen there.
LEMMA FifoStep ==
  ASSUME LockInv, [Next]_lockVars
  PROVE  [Fifo!Next]_(Fifo!fifoVars)
<1>1. CASE Restart
  BY <1>1 DEF Restart, Fifo!Next, Fifo!Restart
<1>2. CASE \E o \in Ops : Call(o) \/ Start(o) \/ Settle(o) \/ Drop(o)
  BY <1>2, CallAsks, StartHolds, SettleLeaves, DropIsUnseen DEF Fifo!Next
<1>3. CASE UNCHANGED lockVars
  BY <1>3 DEF lockVars, Fifo!fifoVars
<1>4. QED
  BY <1>1, <1>2, <1>3 DEF Next

\* The chain of promises serves its callers first come, first served.
THEOREM ImplementsFifoLock ==
  ASSUME LockConstants
  PROVE  Spec => IsAFifoLock
<1>1. LockInv /\ [Next]_lockVars => [Fifo!Next]_(Fifo!fifoVars)
  BY FifoStep
<1>2. QED
  BY <1>1, FifoInit, LockInvAlways, PTL DEF Spec, IsAFifoLock, Fifo!Spec
=============================================================================
