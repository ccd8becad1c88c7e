---------------------- MODULE BrowserExtension_proofs ----------------------
(***************************************************************************)
(* Proofs about the browser extension.  First its uids, for any number of  *)
(* operations, tabs, nodes and documents; then the relay of operations to  *)
(* it, for any number of requests, pages and cuts, and any bound of the    *)
(* pages' memory, while the worker's map has room for those of the run.    *)
(***************************************************************************)
EXTENDS ElementRefs, BrowserRelay, SequenceTheorems, FiniteSetTheorems, TLAPS

-----------------------------------------------------------------------------
(* The uids of page elements (ElementRefs). *)

Events == {"frameNavigated", "detach"}

\* TypeOK, and that an operation under way is on a tab.
Typed ==
  /\ TypeOK
  /\ \A o \in Ops : op[o].at # "idle" => op[o].tab \in Tabs

LEMMA NoOpTyped == NoOp \in Pending /\ NoOp.at = "idle"
  BY DEF NoOp, Pending, Stages

LEMMA NewsTyped ==
  ASSUME NEW q \in Seq(Events)
  PROVE  /\ \A e \in Events : Append(q, e) \in Seq(Events) /\ Append(q, e) # <<>>
         /\ q # <<>> => Tail(q) \in Seq(Events)
         /\ <<>> \in Seq(Events)
  <1>1. \A e \in Events : Append(q, e) \in Seq(Events) /\ Append(q, e) # <<>>
    BY DEF Events
  <1>2. q # <<>> => Tail(q) \in Seq(Events)
    BY DEF Events
  <1>3. <<>> \in Seq(Events)
    BY DEF Events
  <1> QED
    BY <1>1, <1>2, <1>3

LEMMA TypedInit == Init => Typed
  <1> SUFFICES ASSUME Init PROVE Typed
    OBVIOUS
  <1>1. news \in [Tabs -> Seq({"frameNavigated", "detach"})]
    BY DEF Init
  <1> QED
    BY <1>1, NoOpTyped DEF Init, Typed, TypeOK

LEMMA TypedStep == Typed /\ [Next]_vars => Typed'
  <1> SUFFICES ASSUME Typed, [Next]_vars PROVE Typed'
    OBVIOUS
  <1> USE DEF Typed, TypeOK
  <1>1. CASE UNCHANGED vars
    BY <1>1 DEF vars, browserVars, workerVars
  <1>2. CASE Restart
    BY <1>2, NoOpTyped, NewsTyped DEF Restart, Events
  <1>3. ASSUME NEW t \in Tabs, Navigate(t) PROVE Typed'
    BY <1>3, NewsTyped DEF Navigate, workerVars, Events
  <1>4. ASSUME NEW t \in Tabs, CutOff(t) PROVE Typed'
    BY <1>4, NewsTyped DEF CutOff, workerVars, Events
  <1>5. ASSUME NEW t \in Tabs, OnFrameNavigated(t) PROVE Typed'
    BY <1>5, NewsTyped DEF OnFrameNavigated, Bump, Events
  <1>6. ASSUME NEW t \in Tabs, OnDetach(t) PROVE Typed'
    BY <1>6, NewsTyped DEF OnDetach, Bump, Events
  <1>7. ASSUME NEW t \in Tabs, OnRemoved(t) PROVE Typed'
    BY <1>7, NewsTyped DEF OnRemoved, Events
  <1>8. ASSUME NEW o \in Ops, NEW t \in Tabs, Begin(o, t) PROVE Typed'
    BY <1>8 DEF Begin, NoOp, Pending, Stages, browserVars, workerVars
  <1>9. ASSUME NEW o \in Ops, Attached(o) PROVE Typed'
    BY <1>9 DEF Attached, At, Pending, Stages
  <1>10. ASSUME NEW o \in Ops, Enabled(o) PROVE Typed'
    BY <1>10 DEF Enabled, At, Pending, Stages, workerVars
  <1>11. ASSUME NEW o \in Ops, NEW r \in refs, Resolve(o, r) PROVE Typed'
    <2>1. op[o] \in Pending /\ op[o].tab \in Tabs /\ r.tab \in Tabs
      BY <1>11 DEF Resolve, At, Refs
    <2>2. op' = [op EXCEPT ![o] = [op[o] EXCEPT !.at = "acting",
                                               !.target = r.tab]]
      BY <1>11 DEF Resolve, Pending
    <2>3. op'[o] \in Pending /\ op'[o].tab \in Tabs
      BY <2>1, <2>2 DEF Pending, Stages
    <2> QED
      BY <1>11, <2>2, <2>3 DEF Resolve, browserVars, workerVars
  <1>12. ASSUME NEW o \in Ops, Act(o) PROVE Typed'
    <2>1. op[o] \in Pending /\ op[o].tab \in Tabs
      BY <1>12 DEF Act, At
    <2>2. op' = [op EXCEPT ![o] = [op[o] EXCEPT !.at = "ready",
                                               !.target = None]]
      BY <1>12 DEF Act, Pending
    <2>3. op'[o] \in Pending /\ op'[o].tab \in Tabs
      BY <2>1, <2>2 DEF Pending, Stages
    <2> QED
      BY <1>12, <2>2, <2>3 DEF Act, browserVars, workerVars
  <1>13. ASSUME NEW o \in Ops, Fail(o) PROVE Typed'
    BY <1>13, NoOpTyped DEF Fail, browserVars, workerVars
  <1>14. ASSUME NEW o \in Ops, Walk(o) PROVE Typed'
    BY <1>14 DEF Walk, At, Pending, Stages, browserVars
  <1>15. ASSUME NEW o \in Ops, Read(o) PROVE Typed'
    <2> DEFINE t == op[o].tab
               w == op[o].tab \in reporting
    <2>0. w \in BOOLEAN
      OBVIOUS
    <2>1. op[o] \in Pending /\ t \in Tabs
      BY <1>15 DEF Read, At
    <2>2. op' = [op EXCEPT ![o] = [op[o] EXCEPT !.at = "rendering",
                                               !.doc = doc[t],
                                               !.epoch = epoch[t],
                                               !.watched = w]]
      BY <1>15 DEF Read, Pending
    <2> HIDE DEF w
    <2>3. op'[o] \in Pending /\ op'[o].tab \in Tabs
      BY <2>0, <2>1, <2>2 DEF Pending, Stages
    <2> QED
      BY <1>15, <2>2, <2>3 DEF Read, browserVars, workerVars
  <1>16. ASSUME NEW o \in Ops, Answer(o) PROVE Typed'
    BY <1>16, NoOpTyped DEF Answer, browserVars, workerVars
  <1>17. ASSUME NEW o \in Ops, NEW n \in Nodes, Mint(o, n) PROVE Typed'
    <2>1. op[o].tab \in Tabs /\ op[o].doc \in Nat
      BY <1>17 DEF Mint, At, Pending
    <2>2. ASSUME NEW u \in Nat \ {0}, Printed(o, n, u) PROVE shown' \subseteq Prints
      <3> DEFINE w == op[o].epoch = epoch[op[o].tab]
      <3>1. w \in BOOLEAN
        BY Zenon
      <3>2. shown' \subseteq shown \cup {[uid |-> u, tab |-> op[o].tab,
                        node |-> n, doc |-> op[o].doc, steady |-> w]}
        BY <2>2 DEF Printed
      <3> HIDE DEF w
      <3> QED
        BY <2>1, <3>1, <3>2 DEF Prints
    <2>3. refSeq' \in Nat /\ refs' \subseteq Refs /\ shown' \subseteq Prints
      BY <1>17, <2>1, <2>2 DEF Mint, UidFor, Refs
    <2> QED
      BY <1>17, <2>3 DEF Mint, browserVars
  <1> QED
    BY <1>1, <1>2, <1>3, <1>4, <1>5, <1>6, <1>7, <1>8, <1>9, <1>10, <1>11,
       <1>12, <1>13, <1>14, <1>15, <1>16, <1>17 DEF Next

\* Every variable keeps its type: the worker's tables, the browser's state and
\* the history of what was printed.
THEOREM TypeCorrect == Spec => []TypeOK
  <1>1. Spec => []Typed
    BY TypedInit, TypedStep, PTL DEF Spec
  <1>2. Typed => TypeOK
    BY DEF Typed
  <1> QED
    BY <1>1, <1>2, PTL

-----------------------------------------------------------------------------
(* Why an accepted uid names its element.  A tab's count vouches for one   *)
(* document: whoever read the page with the events on while the count was  *)
(* e, and every uid printed by it, saw the same document; and while the    *)
(* count is still e and nothing is on its way, the tab still shows it and  *)
(* its events are still on.                                                *)

Watching(o) == op[o].at = "rendering" /\ op[o].watched

\* Numbers are given out once, and a number keeps its node.
Numbered ==
  /\ \A r \in refs : r.uid <= refSeq
  /\ \A s \in shown : s.uid <= refSeq
  /\ \A r, q \in refs : r.uid = q.uid => r = q
  /\ \A r \in refs, s \in shown :
       s.uid = r.uid => s.tab = r.tab /\ s.node = r.node
  /\ \A s, z \in shown : s.uid = z.uid => s.tab = z.tab /\ s.node = z.node

\* A count belongs to one document.
OneDocument ==
  /\ \A o, p \in Ops :
       /\ Watching(o) /\ Watching(p)
       /\ op[o].tab = op[p].tab /\ op[o].epoch = op[p].epoch
       => op[o].doc = op[p].doc
  /\ \A o \in Ops, r \in refs, s \in shown :
       /\ Watching(o) /\ s.uid = r.uid /\ s.steady
       /\ op[o].tab = r.tab /\ op[o].epoch = r.epoch
       => op[o].doc = s.doc
  /\ \A s, z \in shown :
       s.uid = z.uid /\ s.steady /\ z.steady => s.doc = z.doc

\* The count of an open tab is the highest yet.
Counted ==
  /\ \A o \in Ops : Watching(o) /\ Open(op[o].tab)
                      => op[o].epoch <= epoch[op[o].tab]
  /\ \A r \in refs : Open(r.tab) => r.epoch <= epoch[r.tab]
  /\ \A t \in debugging : Open(t)

\* While nothing is on its way, the document of the count is the one shown.
Vouched ==
  /\ \A o \in Ops :
       /\ Watching(o) /\ op[o].epoch = epoch[op[o].tab]
       /\ UpToDate(op[o].tab)
       => op[o].doc = doc[op[o].tab] /\ op[o].tab \in reporting
  /\ \A r \in refs, s \in shown :
       s.uid = r.uid /\ s.steady /\ Current(r) /\ UpToDate(r.tab)
       => s.doc = doc[r.tab] /\ r.tab \in reporting

IInv == Typed /\ Numbered /\ OneDocument /\ Counted /\ Vouched

LEMMA IInvInit == Init => IInv
  BY TypedInit DEF Init, IInv, Numbered, OneDocument, Counted, Vouched,
     Watching, NoOp

\* A step that keeps the browser and the counts, forgets uids at most, and
\* starts no rendering.
LEMMA Quiet ==
  ASSUME IInv, Typed',
         UNCHANGED <<doc, debugging, reporting, news, epoch, refSeq, shown>>,
         refs' \subseteq refs,
         \A o \in Ops : Watching(o)' => op'[o] = op[o]
  PROVE  IInv'
  <1>1. \A o \in Ops : Watching(o)' => Watching(o)
    BY DEF Watching
  <1>2. Numbered'
    BY DEF IInv, Numbered
  <1>3. OneDocument'
    BY <1>1 DEF IInv, OneDocument
  <1>4. Counted'
    BY <1>1 DEF IInv, Counted, Open
  <1>5. Vouched'
    BY <1>1 DEF IInv, Vouched, UpToDate, Open, Current
  <1> QED
    BY <1>2, <1>3, <1>4, <1>5 DEF IInv

LEMMA IInvStep == IInv /\ [Next]_vars => IInv'
  <1> SUFFICES ASSUME IInv, [Next]_vars PROVE IInv'
    OBVIOUS
  <1>0. Typed'
    BY TypedStep DEF IInv
  <1>1. CASE UNCHANGED vars
    BY <1>1, <1>0, Quiet DEF vars, browserVars, workerVars, Watching
  <1>2. CASE Restart
    BY <1>2, <1>0 DEF Restart, IInv, Numbered, OneDocument, Counted, Vouched,
       Watching, NoOp
  <1>3. ASSUME NEW t \in Tabs, Navigate(t) PROVE IInv'
    <2>1. news'[t] # <<>> \/ (t \notin reporting /\ news' = news)
      BY <1>3, NewsTyped DEF Navigate, IInv, Typed, TypeOK, Events
    <2>2. \A u \in Tabs : UpToDate(u)' => UpToDate(u) /\ (u # t \/ t \notin reporting)
      BY <1>3, <2>1 DEF Navigate, UpToDate, Open, IInv, Typed, TypeOK
    <2>3. \A u \in Tabs : Open(u)' <=> Open(u)
      BY <1>3 DEF Navigate, Open, IInv, Typed, TypeOK
    <2>4. Counted'
      BY <1>3, <2>3 DEF Navigate, Counted, Watching, IInv, Typed, TypeOK, Refs,
         workerVars, Pending
    <2>5. Vouched'
      BY <1>3, <2>2 DEF Navigate, Vouched, Watching, Current, IInv, Typed,
         TypeOK, Refs, workerVars
    <2>6. Numbered' /\ OneDocument'
      BY <1>3 DEF Navigate, Numbered, OneDocument, Watching, IInv, workerVars
    <2> QED
      BY <1>0, <2>4, <2>5, <2>6 DEF IInv
  <1>4. ASSUME NEW t \in Tabs, CutOff(t) PROVE IInv'
    <2>1. news'[t] # <<>>
      BY <1>4, NewsTyped DEF CutOff, IInv, Typed, TypeOK, Events
    <2>2. \A u \in Tabs : UpToDate(u)' => UpToDate(u) /\ u # t
      BY <1>4, <2>1 DEF CutOff, UpToDate, Open, IInv, Typed, TypeOK
    <2>3. Counted'
      BY <1>4 DEF CutOff, Counted, Watching, Open, IInv, workerVars
    <2>4. Vouched'
      BY <1>4, <2>2 DEF CutOff, Vouched, Watching, Current, IInv, Typed,
         TypeOK, Refs, workerVars
    <2>5. Numbered' /\ OneDocument'
      BY <1>4 DEF CutOff, Numbered, OneDocument, Watching, IInv, workerVars
    <2> QED
      BY <1>0, <2>3, <2>4, <2>5 DEF IInv
  \* The count moves past everything it vouched for.
  <1>5. ASSUME NEW t \in Tabs, OnFrameNavigated(t) \/ OnDetach(t) PROVE IInv'
    <2>1. /\ epoch' = [epoch EXCEPT ![t] = @ + 1]
          /\ news' = [news EXCEPT ![t] = Tail(@)]
          /\ UNCHANGED <<doc, debugging, reporting, refs, refSeq, op, shown>>
      BY <1>5 DEF OnFrameNavigated, OnDetach, Bump
    <2>2. \A u \in Tabs : Open(u)' <=> Open(u)
      BY <2>1 DEF Open
    <2>3. Counted'
      BY <2>1, <2>2 DEF Counted, Watching, IInv, Typed, TypeOK, Refs, Pending
    <2>4. \A r \in refs : Current(r)' /\ UpToDate(r.tab)' =>
            r.tab # t /\ Current(r) /\ UpToDate(r.tab)
      BY <2>1, <2>2 DEF Current, UpToDate, Counted, IInv, Typed, TypeOK, Refs
    <2>5. \A o \in Ops :
            Watching(o)' /\ (op[o].epoch = epoch[op[o].tab])' /\ UpToDate(op[o].tab)'
            => /\ op[o].tab # t /\ Watching(o)
               /\ op[o].epoch = epoch[op[o].tab] /\ UpToDate(op[o].tab)
      <3> SUFFICES ASSUME NEW o \in Ops, Watching(o)',
                          (op[o].epoch = epoch[op[o].tab])',
                          UpToDate(op[o].tab)'
                   PROVE  /\ op[o].tab # t /\ Watching(o)
                          /\ op[o].epoch = epoch[op[o].tab]
                          /\ UpToDate(op[o].tab)
        OBVIOUS
      <3>1. Watching(o) /\ op[o].epoch = epoch'[op[o].tab]
        BY <2>1 DEF Watching
      <3>2. op[o].tab \in Tabs /\ epoch[op[o].tab] \in Nat
        BY <3>1 DEF Watching, IInv, Typed, TypeOK
      <3>3. Open(op[o].tab)
        BY <2>1, <2>2, <3>2 DEF UpToDate
      <3>4. op[o].epoch <= epoch[op[o].tab]
        BY <3>1, <3>3 DEF IInv, Counted
      <3>5. op[o].tab # t
        BY <2>1, <3>1, <3>2, <3>4 DEF IInv, Typed, TypeOK
      <3> QED
        BY <2>1, <3>1, <3>2, <3>3, <3>5 DEF UpToDate, IInv, Typed, TypeOK
    <2>6. Vouched'
      BY <2>1, <2>4, <2>5 DEF Vouched, IInv
    <2>7. Numbered' /\ OneDocument'
      BY <2>1 DEF Numbered, OneDocument, Watching, IInv
    <2> QED
      BY <1>0, <2>3, <2>6, <2>7 DEF IInv
  <1>6. ASSUME NEW t \in Tabs, OnRemoved(t) PROVE IInv'
    <2>1. \A u \in Tabs : Open(u)' => Open(u) /\ u # t
      BY <1>6 DEF OnRemoved, Open, IInv, Typed, TypeOK
    <2>2. \A u \in Tabs : UpToDate(u)' => UpToDate(u) /\ u # t
      BY <1>6, <2>1 DEF OnRemoved, UpToDate, IInv, Typed, TypeOK
    <2>3. Counted'
      <3>1. \A o \in Ops : Watching(o)' => Watching(o) /\ op[o].tab \in Tabs
        BY <1>6 DEF OnRemoved, Watching, IInv, Typed
      <3>2. \A u \in Tabs : u # t => epoch'[u] = epoch[u]
        BY <1>6 DEF OnRemoved, IInv, Typed, TypeOK
      <3>3. \A r \in refs : r.tab \in Tabs
        BY DEF IInv, Typed, TypeOK, Refs
      <3>4. debugging \subseteq Tabs
        BY DEF IInv, Typed, TypeOK
      <3>5. \A u \in Tabs : u # t /\ Open(u) => Open(u)'
        BY <1>6 DEF OnRemoved, Open, IInv, Typed, TypeOK
      <3> QED
        BY <1>6, <2>1, <3>1, <3>2, <3>3, <3>4, <3>5 DEF OnRemoved, Counted, IInv
    <2>4. Vouched'
      BY <1>6, <2>2 DEF OnRemoved, Vouched, Watching, Current, IInv, Typed,
         TypeOK, Refs
    <2>5. Numbered' /\ OneDocument'
      BY <1>6 DEF OnRemoved, Numbered, OneDocument, Watching, IInv
    <2> QED
      BY <1>0, <2>3, <2>4, <2>5 DEF IInv
  <1>7. ASSUME NEW o \in Ops, NEW t \in Tabs, Begin(o, t) PROVE IInv'
    BY <1>7, <1>0, Quiet DEF Begin, NoOp, Watching, browserVars, workerVars,
       IInv, Typed, TypeOK
  <1>8. ASSUME NEW o \in Ops, Attached(o) PROVE IInv'
    <2>1. \A p \in Ops : Watching(p)' => op'[p] = op[p] /\ Watching(p)
      BY <1>8 DEF Attached, Watching, IInv, Typed, TypeOK
    <2>2. Counted'
      BY <1>8, <2>1 DEF Attached, Counted, Open, IInv
    <2>3. Vouched'
      BY <1>8, <2>1 DEF Attached, Vouched, UpToDate, Open, Current, IInv
    <2>4. Numbered' /\ OneDocument'
      BY <1>8, <2>1 DEF Attached, Numbered, OneDocument, IInv
    <2> QED
      BY <1>0, <2>2, <2>3, <2>4 DEF IInv
  <1>9. ASSUME NEW o \in Ops, Enabled(o) PROVE IInv'
    <2>1. \A p \in Ops : Watching(p)' => op'[p] = op[p] /\ Watching(p)
      BY <1>9 DEF Enabled, Watching, IInv, Typed, TypeOK
    <2>2. Counted'
      BY <1>9, <2>1 DEF Enabled, Counted, Open, IInv, workerVars
    <2>3. Vouched'
      BY <1>9, <2>1 DEF Enabled, Vouched, UpToDate, Open, Current, IInv,
         workerVars
    <2>4. Numbered' /\ OneDocument'
      BY <1>9, <2>1 DEF Enabled, Numbered, OneDocument, IInv, workerVars
    <2> QED
      BY <1>0, <2>2, <2>3, <2>4 DEF IInv
  <1>10. ASSUME NEW o \in Ops, NEW r \in refs, Resolve(o, r) PROVE IInv'
    <2>1. op'[o].at = "acting" /\ \A p \in Ops : p # o => op'[p] = op[p]
      BY <1>10 DEF Resolve, IInv, Typed, TypeOK, Pending
    <2> QED
      BY <1>10, <1>0, <2>1, Quiet DEF Resolve, Watching, browserVars, workerVars
  <1>11. ASSUME NEW o \in Ops, Act(o) PROVE IInv'
    BY <1>11, <1>0, Quiet DEF Act, Watching, browserVars, workerVars,
       IInv, Typed, TypeOK, Pending
  <1>12. ASSUME NEW o \in Ops, Fail(o) \/ Answer(o) PROVE IInv'
    BY <1>12, <1>0, Quiet, NoOpTyped DEF Fail, Answer, Watching, browserVars,
       workerVars, NoOp, IInv, Typed, TypeOK
  <1>13. ASSUME NEW o \in Ops, Walk(o) PROVE IInv'
    BY <1>13, <1>0, Quiet DEF Walk, Watching, browserVars, IInv, Typed, TypeOK,
       Pending
  \* The reader sees the document the count vouches for.
  <1>14. ASSUME NEW o \in Ops, Read(o) PROVE IInv'
    <2> DEFINE t == op[o].tab
    <2>1. /\ t \in Tabs /\ t \in debugging /\ Open(t) /\ UpToDate(t)
          /\ UNCHANGED <<doc, debugging, reporting, news, epoch, refs, refSeq,
                         shown>>
      BY <1>14 DEF Read, At, UpToDate, Counted, IInv, Typed, browserVars,
         workerVars
    <2>2. \A p \in Ops : p # o => op'[p] = op[p]
      BY <1>14 DEF Read, IInv, Typed, TypeOK
    <2>3. /\ op'[o].tab = t /\ op'[o].doc = doc[t] /\ op'[o].epoch = epoch[t]
          /\ Watching(o)' => t \in reporting
      BY <1>14 DEF Read, Watching, IInv, Typed, TypeOK, Pending
    <2>4. \A p \in Ops : p # o /\ Watching(p)' => Watching(p)
      BY <2>2 DEF Watching
    <2>5. \A p \in Ops :
            Watching(p) /\ op[p].tab = t /\ op[p].epoch = epoch[t]
              => op[p].doc = doc[t]
      BY <2>1 DEF IInv, Vouched
    <2>6. \A r \in refs, s \in shown :
            s.uid = r.uid /\ s.steady /\ r.tab = t /\ r.epoch = epoch[t]
              => s.doc = doc[t]
      BY <2>1 DEF IInv, Vouched, Current
    <2>7. Numbered'
      BY <2>1 DEF Numbered, IInv
    <2>8. OneDocument'
      BY <2>1, <2>2, <2>3, <2>4, <2>5, <2>6 DEF OneDocument, IInv
    <2>9. Counted'
      <3>1. epoch[t] \in Nat
        BY <2>1 DEF IInv, Typed, TypeOK
      <3> QED
        BY <2>1, <2>2, <2>3, <2>4, <3>1 DEF Counted, IInv, Open
    <2>10. Vouched'
      BY <2>1, <2>2, <2>3, <2>4 DEF Vouched, IInv, UpToDate, Open, Current
    <2> QED
      BY <1>0, <2>7, <2>8, <2>9, <2>10 DEF IInv
  \* A uid is printed for what the reader saw, which is what its count
  \* vouches for when the two counts agree.
  <1>15. ASSUME NEW o \in Ops, NEW n \in Nodes, Mint(o, n) PROVE IInv'
    <2> DEFINE t == op[o].tab
               new == [uid |-> refSeq + 1, tab |-> t, node |-> n,
                       epoch |-> epoch[t]]
               Line(s, u) ==
                 /\ Watching(o) /\ s.uid = u /\ s.tab = t /\ s.node = n
                 /\ s.doc = op[o].doc
                 /\ s.steady => op[o].epoch = epoch[t]
    <2>1. /\ UNCHANGED <<doc, debugging, reporting, news, epoch, op>>
          /\ t \in Tabs /\ epoch[t] \in Nat /\ refSeq \in Nat
          /\ op[o].at = "rendering"
      BY <1>15 DEF Mint, At, browserVars, IInv, Typed, TypeOK
    <2>2. ASSUME NEW u, Printed(o, n, u)
          PROVE  \A s \in shown' : s \in shown \/ Line(s, u)
      <3> DEFINE w == op[o].epoch = epoch[op[o].tab]
                 z == [uid |-> u, tab |-> op[o].tab, node |-> n,
                       doc |-> op[o].doc, steady |-> w]
      <3>1. \A s \in shown' : s \in shown \/ (op[o].watched /\ s = z)
        BY <2>2 DEF Printed
      <3> HIDE DEF w
      <3>2. /\ z.uid = u /\ z.tab = t /\ z.node = n /\ z.doc = op[o].doc
            /\ z.steady = w
        OBVIOUS
      <3> HIDE DEF z
      <3>3. z.steady => op[o].epoch = epoch[t]
        BY <3>2 DEF w
      <3> QED
        BY <2>1, <3>1, <3>2, <3>3 DEF Watching
    <2>3. Counted' /\ \A p \in Ops : Watching(p)' <=> Watching(p)
      <3>1. refs' \subseteq refs \cup {new}
        BY <1>15 DEF Mint
      <3> QED
        BY <2>1, <3>1 DEF Counted, Watching, Open, IInv
    <2>4. Watching(o) /\ op[o].epoch = epoch[t] /\ UpToDate(t)
            => op[o].doc = doc[t] /\ t \in reporting
      BY DEF IInv, Vouched
    <2>5. CASE refSeq' = refSeq + 1 /\ refs' = refs \cup {new}
               /\ Printed(o, n, refSeq + 1)
      <3>1. \A s \in shown' : s \in shown \/ Line(s, refSeq + 1)
        BY <2>2, <2>5
      <3>2. /\ \A r \in refs : r.uid \in Nat /\ r.uid < refSeq + 1
            /\ \A s \in shown : s.uid \in Nat /\ s.uid < refSeq + 1
        BY <2>1 DEF IInv, Typed, TypeOK, Refs, Prints, Numbered
      <3> HIDE DEF Line
      <3>3. \A s : Line(s, refSeq + 1) =>
              /\ Watching(o) /\ s.uid = refSeq + 1 /\ s.tab = t /\ s.node = n
              /\ s.doc = op[o].doc /\ (s.steady => op[o].epoch = epoch[t])
        BY DEF Line
      <3>4. Numbered'
        BY <2>1, <2>5, <3>1, <3>2, <3>3 DEF Numbered, IInv
      <3>5. OneDocument'
        BY <2>1, <2>3, <2>5, <3>1, <3>2, <3>3 DEF OneDocument, IInv
      <3>6. Vouched'
        BY <2>1, <2>3, <2>4, <2>5, <3>1, <3>2, <3>3
           DEF Vouched, Current, UpToDate, Open, IInv
      <3> QED
        BY <1>0, <2>3, <3>4, <3>5, <3>6 DEF IInv
    <2>6. ASSUME NEW r \in UidFor(t, n), UNCHANGED <<refSeq, refs>>,
                 Printed(o, n, r.uid)
          PROVE  IInv'
      <3>1. \A s \in shown' : s \in shown \/ Line(s, r.uid)
        BY <2>2, <2>6
      <3>2. r \in refs /\ r.tab = t /\ r.node = n /\ r.epoch = epoch[t]
        BY <2>6 DEF UidFor
      <3> HIDE DEF Line
      <3>3. \A s : Line(s, r.uid) =>
              /\ Watching(o) /\ s.uid = r.uid /\ s.tab = t /\ s.node = n
              /\ s.doc = op[o].doc /\ (s.steady => op[o].epoch = epoch[t])
        BY DEF Line
      <3>4. Numbered'
        BY <2>1, <2>6, <3>1, <3>2, <3>3 DEF Numbered, IInv
      <3>5. OneDocument'
        BY <2>1, <2>3, <2>6, <3>1, <3>2, <3>3 DEF OneDocument, Numbered, IInv
      <3>6. Vouched'
        BY <2>1, <2>3, <2>4, <2>6, <3>1, <3>2, <3>3
           DEF Vouched, Numbered, Current, UpToDate, Open, IInv
      <3> QED
        BY <1>0, <2>3, <3>4, <3>5, <3>6 DEF IInv
    <2> QED
      BY <1>15, <2>5, <2>6 DEF Mint
  <1> QED
    BY <1>1, <1>2, <1>3, <1>4, <1>5, <1>6, <1>7, <1>8, <1>9, <1>10, <1>11,
       <1>12, <1>13, <1>14, <1>15 DEF Next

\* An accepted uid names the element it was printed for: navigations, cuts,
\* concurrent snapshots and the ceiling included.
THEOREM AcceptedUidsAreRight == Spec => []AcceptedUidsNameTheirElement
  <1>1. Spec => []IInv
    BY IInvInit, IInvStep, PTL DEF Spec
  <1>2. IInv => AcceptedUidsNameTheirElement
    BY DEF IInv, Numbered, Vouched, AcceptedUidsNameTheirElement, Names
  <1> QED
    BY <1>1, <1>2, PTL

\* No number is given out twice while the worker lives.
THEOREM UidsAreUnique == Spec => []UidNamesOneElement
  <1>1. Spec => []IInv
    BY IInvInit, IInvStep, PTL DEF Spec
  <1>2. IInv => UidNamesOneElement
    BY DEF IInv, Numbered, OneDocument, UidNamesOneElement
  <1> QED
    BY <1>1, <1>2, PTL

-----------------------------------------------------------------------------
(* The relay of operations (BrowserRelay). *)

(* Sequences that stand for bounded sets. *)

LEMMA InAppend ==
  ASSUME NEW S, NEW s \in Seq(S), NEW o \in S, NEW x
  PROVE  /\ Append(s, o) \in Seq(S)
         /\ In(x, Append(s, o)) <=> In(x, s) \/ x = o
  <1> DEFINE all == Append(s, o)
  <1>1. /\ all \in Seq(S) /\ Len(s) \in Nat
        /\ DOMAIN s = 1..Len(s) /\ DOMAIN all = 1..(Len(s) + 1)
        /\ all[Len(s) + 1] = o /\ \A i \in 1..Len(s) : all[i] = s[i]
    OBVIOUS
  <1> HIDE DEF all
  <1>2. (\E i \in 1..(Len(s) + 1) : all[i] = x) <=> (\E i \in 1..Len(s) : s[i] = x) \/ x = o
    BY <1>1
  <1> QED
    BY <1>1, <1>2 DEF In, all

LEMMA InTail ==
  ASSUME NEW S, NEW s \in Seq(S), s # <<>>
  PROVE  /\ Tail(s) \in Seq(S) /\ Head(s) \in S
         /\ In(Head(s), s)
         /\ \A x : In(x, Tail(s)) => In(x, s)
  BY DEF In

LEMMA InEmpty == ASSUME NEW S PROVE <<>> \in Seq(S) /\ \A x : ~In(x, <<>>)
  <1>1. <<>> \in Seq(S) /\ Len(<<>>) = 0
    BY EmptySeq
  <1>2. DOMAIN <<>> = 1..0
    BY <1>1, LenProperties
  <1>3. 1..0 = {}
    OBVIOUS
  <1> QED
    BY <1>1, <1>2, <1>3 DEF In

LEMMA BoundedTyped ==
  ASSUME NEW S, NEW s \in Seq(S), NEW o \in S, NEW max
  PROVE  Bounded(s, o, max) \in Seq(S)
  <1>0. Append(s, o) \in Seq(S) /\ Len(Append(s, o)) = Len(s) + 1 /\ Len(s) \in Nat
    OBVIOUS
  <1>1. Append(s, o) \in Seq(S) /\ Append(s, o) # <<>>
    BY <1>0, EmptySeq
  <1>2. Tail(Append(s, o)) \in Seq(S)
    BY <1>1
  <1> QED
    BY <1>1, <1>2 DEF Bounded

NoTwice(s) == \A i, j \in DOMAIN s : s[i] = s[j] => i = j

LEMMA WithoutTyped ==
  ASSUME NEW S, NEW s \in Seq(S), NEW o, In(o, s)
  PROVE  Without(s, o) \in Seq(S)
  <1> DEFINE k == CHOOSE i \in DOMAIN s : s[i] = o
             r == [i \in 1..(Len(s) - 1) |-> s[IF i < k THEN i ELSE i + 1]]
  <1>1. k \in 1..Len(s) /\ Len(s) \in Nat /\ DOMAIN s = 1..Len(s)
    BY DEF In
  <1> HIDE DEF k
  <1>2. Len(s) - 1 \in Nat /\ \A i \in 1..(Len(s) - 1) : r[i] \in S
    BY <1>1
  <1>3. r \in Seq(S)
    BY <1>2
  <1> QED
    BY <1>3 DEF Without, k

\* What is left is what was there, in the order it was there.
LEMMA WithoutIsRemoval ==
  ASSUME NEW S, NEW s \in Seq(S), NoTwice(s), NEW o, In(o, s)
  PROVE  /\ Without(s, o) \in Seq(S)
         /\ NoTwice(Without(s, o))
         /\ \A x : In(x, Without(s, o)) <=> In(x, s) /\ x # o
  <1> DEFINE k == CHOOSE i \in DOMAIN s : s[i] = o
             r == [i \in 1..(Len(s) - 1) |-> s[IF i < k THEN i ELSE i + 1]]
  <1>1. k \in 1..Len(s) /\ s[k] = o /\ Len(s) \in Nat /\ DOMAIN s = 1..Len(s)
    BY DEF In
  <1>2. Without(s, o) = r
    BY DEF Without
  <1> HIDE DEF k
  <1>3. Len(s) - 1 \in Nat /\ \A i \in 1..(Len(s) - 1) : r[i] \in S
    BY <1>1
  <1>4. r \in Seq(S) /\ DOMAIN r = 1..(Len(s) - 1)
    BY <1>3
  <1>5. NoTwice(r)
    BY <1>1, <1>4 DEF NoTwice
  <1>6. ASSUME NEW x, In(x, r) PROVE In(x, s) /\ x # o
    BY <1>1, <1>4, <1>6 DEF In, NoTwice
  <1>7. ASSUME NEW x, In(x, s), x # o PROVE In(x, r)
    <2>1. PICK i \in 1..Len(s) : s[i] = x
      BY <1>1, <1>7 DEF In
    <2>2. i # k
      BY <1>1, <1>7, <2>1
    <2>3. CASE i < k
      <3>1. i \in 1..(Len(s) - 1) /\ r[i] = x
        BY <1>1, <2>1, <2>3
      <3> QED
        BY <1>4, <3>1 DEF In
    <2>4. CASE i > k
      <3>1. i - 1 \in 1..(Len(s) - 1) /\ r[i - 1] = x
        BY <1>1, <2>1, <2>4
      <3> QED
        BY <1>4, <3>1 DEF In
    <2> QED
      BY <1>1, <2>1, <2>2, <2>3, <2>4
  <1> QED
    BY <1>2, <1>4, <1>5, <1>6, <1>7

\* The map of the worker has room for one entry of every operation.
LEMMA NothingEvicted ==
  ASSUME NEW s \in Seq(Requests), NoTwice(s), NEW o \in Requests, ~In(o, s)
  PROVE  /\ Bounded(s, o, CoalesceMax) = Append(s, o)
         /\ NoTwice(Append(s, o))
  <1> DEFINE all == Append(s, o)
  <1>1. all \in Seq(Requests) /\ Len(all) \in Nat /\ DOMAIN all = 1..Len(all)
    OBVIOUS
  <1>2. NoTwice(all)
    BY DEF In, NoTwice
  <1>3. all \in Injection(1..Len(all), Requests)
    <2> HIDE DEF all
    <2>1. all \in [1..Len(all) -> Requests]
      BY <1>1
    <2>2. IsInjective(all)
      BY <1>2 DEF NoTwice, IsInjective
    <2> QED
      BY <2>1, <2>2 DEF Injection
  <1>4. Cardinality(1..Len(all)) <= Cardinality(Requests)
    BY <1>3, FS_Injection, RelayAssumption
  <1>5. Cardinality(1..Len(all)) = Len(all)
    BY <1>1, FS_Interval
  <1>6. Cardinality(Requests) \in Nat
    BY FS_CardinalityType, RelayAssumption
  <1>7. ~(Len(all) > CoalesceMax)
    BY <1>1, <1>4, <1>5, <1>6, RelayAssumption
  <1> QED
    BY <1>2, <1>7 DEF Bounded

-----------------------------------------------------------------------------
(* Types. *)

Answers == {"none", "sent", "waiting", "result", "excuse"}

LEMMA RelayUpdate ==
  ASSUME NEW r \in [Pages -> [Requests -> Answers]], NEW p \in Pages, NEW o \in Requests,
         NEW v \in Answers
  PROVE  /\ [r EXCEPT ![p][o] = v] \in [Pages -> [Requests -> Answers]]
         /\ \A q \in Pages, x \in Requests :
              [r EXCEPT ![p][o] = v][q][x] = IF q = p /\ x = o THEN v ELSE r[q][x]
  <1>1. [r[p] EXCEPT ![o] = v] \in [Requests -> Answers]
    OBVIOUS
  <1> QED
    BY <1>1

LEMMA TypeInit == RelayInit => RelayTypeOK
  <1> SUFFICES ASSUME RelayInit PROVE RelayTypeOK
    OBVIOUS
  <1>1. <<>> \in Seq(Requests)
    BY InEmpty
  <1> QED
    BY <1>1 DEF RelayInit, RelayTypeOK

LEMMA TypeStep == RelayTypeOK /\ [RelayNext]_relayVars => RelayTypeOK'
  <1> SUFFICES ASSUME RelayTypeOK, [RelayNext]_relayVars PROVE RelayTypeOK'
    OBVIOUS
  <1> USE DEF RelayTypeOK, promiseVars
  <1>0. <<>> \in Seq(Requests)
    BY InEmpty
  <1>1. CASE UNCHANGED relayVars
    BY <1>1 DEF relayVars, runVars, pageVars
  <1>2. CASE RestartWorker
    BY <1>0, <1>2 DEF RestartWorker, runVars
  <1>3. ASSUME NEW o \in Requests, Ask(o) PROVE RelayTypeOK'
    <2>1. log' \in Seq(Requests)
      BY <1>3, InAppend DEF Ask, Emit
    <2>2. frames' \in [Pages -> Seq(Requests)]
      BY <1>3, InAppend DEF Ask, Emit
    <2> QED
      BY <1>3, <2>1, <2>2 DEF Ask, Emit
  <1>4. ASSUME NEW o \in Requests, Expire(o) PROVE RelayTypeOK'
    BY <1>4 DEF Expire, pageVars
  <1>5. ASSUME NEW o \in Requests, Finish(o) PROVE RelayTypeOK'
    BY <1>5 DEF Finish, runVars, pageVars
  <1>6. ASSUME NEW o \in Requests, Retire(o) PROVE RelayTypeOK'
    <2>1. Without(coalesced, o) \in Seq(Requests)
      BY <1>6, WithoutTyped DEF Retire
    <2> QED
      BY <1>6, <2>1 DEF Retire, runVars, pageVars
  <1>7. ASSUME NEW p \in Pages, Drop(p) PROVE RelayTypeOK'
    BY <1>0, <1>7 DEF Drop, runVars
  <1>8. ASSUME NEW p \in Pages, Reconnect(p) PROVE RelayTypeOK'
    BY <1>8 DEF Reconnect, Attach, runVars
  <1>9. ASSUME NEW p \in Pages, Reload(p) PROVE RelayTypeOK'
    BY <1>0, <1>9 DEF Reload, Attach, runVars
  <1>10. ASSUME NEW p \in Pages, Receive(p) PROVE RelayTypeOK'
    <2>1. Tail(frames[p]) \in Seq(Requests) /\ Head(frames[p]) \in Requests
      BY <1>10, InTail DEF Receive
    <2>2. Bounded(handled[p], Head(frames[p]), HandledMax) \in Seq(Requests)
      BY <2>1, BoundedTyped
    <2>3. frames' \in [Pages -> Seq(Requests)] /\ handled' \in [Pages -> Seq(Requests)]
      BY <1>10, <2>1, <2>2 DEF Receive
    <2>4. relay' \in [Pages -> [Requests -> Answers]]
      <3>1. relay' = relay \/ relay' = [relay EXCEPT ![p][Head(frames[p])] = "sent"]
        BY <1>10 DEF Receive
      <3>2. relay \in [Pages -> [Requests -> Answers]] /\ "sent" \in Answers
        BY DEF Answers
      <3>3. [relay EXCEPT ![p][Head(frames[p])] = "sent"] \in [Pages -> [Requests -> Answers]]
        BY <2>1, <3>2, RelayUpdate
      <3> QED
        BY <3>1, <3>2, <3>3
    <2> QED
      BY <1>10, <2>3, <2>4 DEF Receive, runVars, Answers
  <1>11. ASSUME NEW p \in Pages, NEW o \in Requests, GiveUp(p, o) PROVE RelayTypeOK'
    BY <1>11 DEF GiveUp, runVars
  <1>12. ASSUME NEW p \in Pages, NEW o \in Requests, Hear(p, o) PROVE RelayTypeOK'
    BY <1>12 DEF Hear, runVars
  <1>13. ASSUME NEW p \in Pages, NEW o \in Requests, Post(p, o) PROVE RelayTypeOK'
    BY <1>13 DEF Post
  <1>14. ASSUME NEW p \in Pages, NEW o \in Requests, Perform(p, o) PROVE RelayTypeOK'
    <2>1. Bounded(coalesced, o, CoalesceMax) \in Seq(Requests)
      BY BoundedTyped
    <2>2. coalesced' \in Seq(Requests) /\ running' \subseteq Requests
      BY <1>14, <2>1 DEF Perform
    <2>3. begun' \in [Requests -> Nat]
      BY <1>14 DEF Perform
    <2>4. relay' \in [Pages -> [Requests -> Answers]]
      BY <1>14, RelayUpdate DEF Perform, Answers
    <2> QED
      BY <1>14, <2>2, <2>3, <2>4 DEF Perform, runVars, Answers
  <1> QED
    BY <1>1, <1>2, <1>3, <1>4, <1>5, <1>6, <1>7, <1>8, <1>9, <1>10, <1>11,
       <1>12, <1>13, <1>14 DEF RelayNext

\* Every state of every run of the relay is of its type.
THEOREM RelayTypeCorrect == RelaySpec => []RelayTypeOK
  BY TypeInit, TypeStep, PTL DEF RelaySpec

-----------------------------------------------------------------------------
(* The inductive invariant. *)

\* What nobody has asked for is nowhere.
NotYet ==
  \A o \in Requests : asked[o] = "unasked" =>
    /\ begun[o] = 0 /\ ~In(o, log)
    /\ \A p \in Pages : ~In(o, frames[p]) /\ relay[p][o] = "none"

\* What was begun for a run that waits is still in the worker's map.
Remembered ==
  \A o \in Requests : asked[o] = "parked" =>
    begun[o] <= 1 /\ (begun[o] > 0 => In(o, coalesced))

RelayIInv ==
  /\ RelayTypeOK
  /\ NoTwice(coalesced)
  /\ \A o \in Secrets : ~In(o, log)
  /\ NotYet
  /\ Remembered

LEMMA RelayIInvInit == RelayInit => RelayIInv
  <1> SUFFICES ASSUME RelayInit PROVE RelayIInv
    OBVIOUS
  <1>1. \A x : ~In(x, <<>>)
    BY InEmpty
  <1>2. NoTwice(coalesced)
    BY <1>1 DEF RelayInit, NoTwice, In
  <1> QED
    BY <1>1, <1>2, TypeInit DEF RelayInit, RelayIInv, NotYet, Remembered

LEMMA RelayIInvStep == RelayIInv /\ [RelayNext]_relayVars => RelayIInv'
  <1> SUFFICES ASSUME RelayIInv, [RelayNext]_relayVars PROVE RelayIInv'
    OBVIOUS
  <1> USE DEF RelayIInv, NotYet, Remembered, promiseVars
  <1>0. RelayTypeOK' /\ Secrets \subseteq Requests
    BY TypeStep, RelayAssumption
  <1>e. \A x : ~In(x, <<>>)
    BY InEmpty
  <1>1. CASE UNCHANGED relayVars
    BY <1>0, <1>1 DEF relayVars, runVars, pageVars
  <1>2. CASE RestartWorker
    <2>1. NoTwice(coalesced')
      BY <1>2, <1>e DEF RestartWorker, NoTwice, In
    <2>2. \A p \in Pages, o \in Requests : relay[p][o] = "none" => relay'[p][o] = "none"
      BY <1>2 DEF RestartWorker
    <2> QED
      BY <1>0, <1>2, <2>1, <2>2 DEF RestartWorker, runVars, RelayTypeOK
  <1>3. ASSUME NEW o \in Requests, Ask(o) PROVE RelayIInv'
    <2> USE <1>3 DEF Ask, Emit, RelayTypeOK
    <2>1. \A x : In(x, log') => In(x, log) \/ (x = o /\ o \notin Secrets)
      BY InAppend
    <2>2. \A p \in Pages : \A x : In(x, frames'[p]) => In(x, frames[p]) \/ x = o
      BY InAppend
    <2>3. \A x \in Requests : asked'[x] = "unasked" => asked[x] = "unasked" /\ x # o
      OBVIOUS
    <2>4. \A x \in Requests : asked'[x] = "parked" => asked[x] = "parked" \/ x = o
      OBVIOUS
    <2>5. asked[o] = "unasked" /\ begun[o] = 0
      OBVIOUS
    <2>6. NotYet'
      BY <2>1, <2>2, <2>3
    <2>7. Remembered'
      BY <2>4, <2>5
    <2> QED
      BY <1>0, <2>1, <2>6, <2>7
  <1>4. ASSUME NEW o \in Requests, Expire(o) PROVE RelayIInv'
    BY <1>0, <1>4 DEF Expire, pageVars, RelayTypeOK
  <1>5. ASSUME NEW o \in Requests, Finish(o) PROVE RelayIInv'
    BY <1>0, <1>5 DEF Finish, runVars, pageVars, RelayTypeOK
  <1>6. ASSUME NEW o \in Requests, Retire(o) PROVE RelayIInv'
    <2>1. /\ NoTwice(coalesced')
          /\ \A x : In(x, coalesced') <=> In(x, coalesced) /\ x # o
      BY <1>6, WithoutIsRemoval DEF Retire, RelayTypeOK
    <2> QED
      BY <1>0, <1>6, <2>1 DEF Retire, runVars, pageVars, RelayTypeOK
  <1>7. ASSUME NEW p \in Pages, Drop(p) PROVE RelayIInv'
    <2>1. \A q \in Pages : \A x : In(x, frames'[q]) => In(x, frames[q])
      BY <1>7, <1>e DEF Drop, RelayTypeOK
    <2> QED
      BY <1>0, <1>7, <2>1 DEF Drop, runVars
  <1>8. ASSUME NEW p \in Pages, Attach(p), handled' \in [Pages -> Seq(Requests)],
               \A q \in Pages, o \in Requests : relay[q][o] = "none" => relay'[q][o] = "none"
        PROVE  RelayIInv'
    <2>1. \A q \in Pages : \A x : In(x, frames'[q]) => In(x, frames[q]) \/ In(x, log)
      BY <1>8 DEF Attach, RelayTypeOK
    <2> QED
      BY <1>0, <1>8, <2>1 DEF Attach, runVars
  <1>9. ASSUME NEW p \in Pages, Reconnect(p) \/ Reload(p) PROVE RelayIInv'
    <2>1. Attach(p)
      BY <1>9 DEF Reconnect, Reload
    <2>2. \A q \in Pages, o \in Requests : relay[q][o] = "none" => relay'[q][o] = "none"
      <3>1. CASE Reconnect(p)
        BY <3>1 DEF Reconnect
      <3>2. CASE Reload(p)
        BY <3>2 DEF Reload, RelayTypeOK
      <3> QED
        BY <1>9, <3>1, <3>2
    <2> QED
      BY <1>0, <1>8, <2>1, <2>2 DEF RelayTypeOK
  <1>10. ASSUME NEW p \in Pages, Receive(p) PROVE RelayIInv'
    <2> DEFINE o == Head(frames[p])
    <2>1. o \in Requests /\ In(o, frames[p]) /\ \A x : In(x, Tail(frames[p])) => In(x, frames[p])
      BY <1>10, InTail DEF Receive, RelayTypeOK
    <2>2. asked[o] # "unasked"
      BY <2>1
    <2>3. \A q \in Pages : \A x : In(x, frames'[q]) => In(x, frames[q])
      BY <1>10, <2>1 DEF Receive, RelayTypeOK
    <2>4. \A q \in Pages, x \in Requests : relay'[q][x] = relay[q][x] \/ x = o
      <3>1. relay' = relay \/ relay' = [relay EXCEPT ![p][o] = "sent"]
        BY <1>10 DEF Receive
      <3> QED
        <4>1. relay \in [Pages -> [Requests -> Answers]] /\ "sent" \in Answers
          BY DEF RelayTypeOK, Answers
        <4> HIDE DEF o
        <4>2. \A q \in Pages, x \in Requests :
                [relay EXCEPT ![p][o] = "sent"][q][x] = IF q = p /\ x = o THEN "sent" ELSE relay[q][x]
          BY <2>1, <4>1, RelayUpdate
        <4>3. CASE relay' = relay
          BY <4>3
        <4>4. CASE relay' = [relay EXCEPT ![p][o] = "sent"]
          BY <4>2, <4>4
        <4> QED
          BY <3>1, <4>3, <4>4
    <2>5. UNCHANGED <<asked, log, coalesced, running, begun>>
      BY <1>10 DEF Receive, runVars
    <2> HIDE DEF o
    <2> QED
      BY <1>0, <2>2, <2>3, <2>4, <2>5
  <1>11. ASSUME NEW p \in Pages, NEW o \in Requests, GiveUp(p, o) \/ Hear(p, o) PROVE RelayIInv'
    <2>1. \A q \in Pages, x \in Requests : relay[q][x] = "none" => relay'[q][x] = "none"
      <3>1. /\ relay[p][o] # "none"
            /\ \E v \in Answers : relay' = [relay EXCEPT ![p][o] = v]
        BY <1>11 DEF GiveUp, Hear, Answers
      <3> QED
        <4>1. relay \in [Pages -> [Requests -> Answers]]
          BY DEF RelayTypeOK, Answers
        <4>2. PICK v \in Answers : relay' = [relay EXCEPT ![p][o] = v]
          BY <3>1
        <4>3. \A q \in Pages, x \in Requests :
                relay'[q][x] = IF q = p /\ x = o THEN v ELSE relay[q][x]
          BY <4>1, <4>2, RelayUpdate
        <4> QED
          BY <3>1, <4>3
    <2> QED
      BY <1>0, <1>11, <2>1 DEF GiveUp, Hear, runVars
  <1>12. ASSUME NEW p \in Pages, NEW o \in Requests, Post(p, o) PROVE RelayIInv'
    <2>1. \A q \in Pages, x \in Requests : relay[q][x] = "none" => relay'[q][x] = "none"
      BY <1>12 DEF Post, RelayTypeOK
    <2>2. \A x \in Requests : /\ asked'[x] = "unasked" => asked[x] = "unasked"
                              /\ asked'[x] = "parked" => asked[x] = "parked"
      BY <1>12 DEF Post, RelayTypeOK
    <2>3. UNCHANGED <<log, frames, coalesced, running, begun>>
      BY <1>12 DEF Post
    <2>4. NotYet'
      <3> SUFFICES ASSUME NEW x \in Requests, asked'[x] = "unasked"
                   PROVE  /\ begun[x] = 0 /\ ~In(x, log)
                          /\ \A q \in Pages : ~In(x, frames[q]) /\ relay'[q][x] = "none"
        BY <2>3
      <3>1. asked[x] = "unasked"
        BY <2>2
      <3>2. /\ begun[x] = 0 /\ ~In(x, log)
            /\ \A q \in Pages : ~In(x, frames[q]) /\ relay[q][x] = "none"
        BY <3>1, Zenon DEF NotYet, RelayIInv
      <3>3. \A q \in Pages : relay'[q][x] = "none"
        BY <2>1, <3>2
      <3> QED
        BY <3>2, <3>3
    <2>5. Remembered'
      BY <2>2, <2>3
    <2> QED
      BY <1>0, <2>3, <2>4, <2>5
  <1>13. ASSUME NEW p \in Pages, NEW o \in Requests, Perform(p, o) PROVE RelayIInv'
    <2>1. \A q \in Pages, x \in Requests : relay[q][x] = "none" => relay'[q][x] = "none"
      BY <1>13 DEF Perform, RelayTypeOK
    <2>2. asked[o] # "unasked"
      BY <1>13 DEF Perform
    <2>3. CASE In(o, coalesced)
      BY <1>0, <1>13, <2>1, <2>3 DEF Perform, runVars
    <2>4. CASE ~In(o, coalesced)
      <3>1. /\ coalesced' = Append(coalesced, o)
            /\ NoTwice(coalesced')
            /\ \A x : In(x, coalesced') <=> In(x, coalesced) \/ x = o
        <4>1. coalesced \in Seq(Requests)
          BY DEF RelayTypeOK
        <4>2. coalesced' = Bounded(coalesced, o, CoalesceMax)
          BY <1>13, <2>4 DEF Perform
        <4>3. coalesced' = Append(coalesced, o) /\ NoTwice(coalesced')
          BY <2>4, <4>1, <4>2, NothingEvicted
        <4> QED
          BY <4>1, <4>3, InAppend
      <3>2. \A x \in Requests : begun'[x] = IF x = o THEN begun[o] + 1 ELSE begun[x]
        BY <1>13, <2>4 DEF Perform, RelayTypeOK
      <3>3. asked[o] = "parked" => begun[o] = 0
        BY <2>4 DEF RelayTypeOK
      <3>4. UNCHANGED <<asked, log, frames>>
        BY <1>13 DEF Perform, runVars
      <3>5. NotYet'
        BY <2>1, <2>2, <3>2, <3>4
      <3>6. Remembered'
        BY <3>1, <3>2, <3>3, <3>4
      <3> QED
        BY <1>0, <3>1, <3>4, <3>5, <3>6
    <2> QED
      BY <2>3, <2>4
  <1> QED
    BY <1>1, <1>2, <1>3, <1>4, <1>5, <1>6, <1>7, <1>9, <1>10, <1>11, <1>12,
       <1>13 DEF RelayNext

\* While a run waits for an operation, the worker begins it at most once,
\* whoever relays it and however often.
THEOREM RelayedOnce == RelaySpec => []PerformedOnce
  <1>1. RelayIInv => PerformedOnce
    BY DEF RelayIInv, Remembered, PerformedOnce
  <1> QED
    BY <1>1, RelayIInvInit, RelayIInvStep, PTL DEF RelaySpec

\* A page that connects again or is loaded again is never sent a secret.
THEOREM SecretsAreNotReplayed == RelaySpec => SecretsSentOnce
  <1> DEFINE A == \A o \in Secrets, p \in Pages :
                    asked[o] # "unasked" /\ ~In(o, frames[p]) => ~In(o, frames'[p])
  <1>1. RelayIInv /\ [RelayNext]_relayVars => [A]_relayVars
    <2> SUFFICES ASSUME RelayIInv, RelayNext, NEW o \in Secrets, NEW p \in Pages,
                        asked[o] # "unasked", In(o, frames'[p])
                 PROVE  In(o, frames[p])
      OBVIOUS
    <2> USE DEF RelayIInv, RelayTypeOK
    <2>1. ~In(o, log) /\ \A x : ~In(x, <<>>)
      BY InEmpty
    <2>2. ASSUME NEW x \in Requests, Ask(x) PROVE In(o, frames[p])
      BY <2>2, InAppend DEF Ask, Emit
    <2>3. ASSUME NEW q \in Pages, Drop(q) PROVE In(o, frames[p])
      BY <2>1, <2>3 DEF Drop
    <2>4. ASSUME NEW q \in Pages, Reconnect(q) \/ Reload(q) PROVE In(o, frames[p])
      BY <2>1, <2>4 DEF Reconnect, Reload, Attach
    <2>5. ASSUME NEW q \in Pages, Receive(q) PROVE In(o, frames[p])
      BY <2>5, InTail DEF Receive
    <2>6. CASE UNCHANGED frames
      BY <2>6
    <2> QED
      BY <2>2, <2>3, <2>4, <2>5, <2>6
         DEF RelayNext, RestartWorker, Expire, Finish, Retire, GiveUp, Hear, Post,
             Perform, pageVars
  <1>2. RelaySpec => []RelayIInv
    BY RelayIInvInit, RelayIInvStep, PTL DEF RelaySpec
  <1> QED
    BY <1>1, <1>2, PTL DEF RelaySpec, SecretsSentOnce
=============================================================================
