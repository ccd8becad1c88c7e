---------------------------- MODULE ElementRefs ----------------------------
(***************************************************************************)
(* How the browser extension names page elements (background.js).  A       *)
(* snapshot prints a uid for each element; an action sends one back.  The  *)
(* browser numbers the nodes of every document of a tab alike, so the      *)
(* worker counts documents (docEpochs) and stamps each uid with the count. *)
(* It hears of a new document, or of a debugger cut off, only by events    *)
(* that queue behind the replies already sent.                             *)
(***************************************************************************)
EXTENDS Naturals, Sequences, FiniteSets

CONSTANTS
  Ops,         \* operations of the agents that may run at once
  Tabs,        \* tabs of the group (their root sessions)
  Nodes,       \* the node numbers every document uses
  RefMapMax,   \* REF_MAP_MAX
  None,
  MaxDocs, MaxEpoch, MaxUids   \* bounds of the model

ASSUME NoneIsNoTab == None \notin Tabs

VARIABLES
  \* the browser
  doc,         \* the document each tab shows, 0 once closed
  debugging,   \* tabs the debugger is attached to
  reporting,   \* tabs whose Page events are on
  news,        \* the events on their way to the worker, by tab
  \* the worker
  attached,    \* attached: the tabs it takes for attached
  epoch,       \* docEpochs
  refs,        \* refMap, and uidByNode read the other way
  refSeq,      \* the last number given out
  op,          \* what each operation awaits, and what it read before
  \* history
  shown        \* which element each uid was printed for, by this worker

browserVars == <<doc, debugging, reporting, news>>
workerVars == <<attached, epoch, refs, refSeq>>
vars == <<browserVars, workerVars, op, shown>>

Stages == {"idle", "attaching", "enabling", "ready", "walking", "rendering",
           "acting"}
NoOp == [at |-> "idle", tab |-> None, target |-> None, doc |-> 0,
         epoch |-> 0, watched |-> FALSE]

Open(t) == doc[t] > 0

Init ==
  /\ doc = [t \in Tabs |-> 1]
  /\ debugging = {}
  /\ reporting = {}
  /\ news = [t \in Tabs |-> <<>>]
  /\ attached = {}
  /\ epoch = [t \in Tabs |-> 0]
  /\ refs = {}
  /\ refSeq = 0
  /\ op = [o \in Ops |-> NoOp]
  /\ shown = {}

-----------------------------------------------------------------------------
(* The browser. *)

Room(t) == epoch[t] + Len(news[t]) < MaxEpoch

\* A tab shows a new document; the worker is told if Page events are on.
Navigate(t) ==
  /\ Open(t)
  /\ doc[t] < MaxDocs
  /\ Room(t)
  /\ doc' = [doc EXCEPT ![t] = @ + 1]
  /\ news' = IF t \in reporting
             THEN [news EXCEPT ![t] = Append(@, "frameNavigated")]
             ELSE news
  /\ UNCHANGED <<debugging, reporting, workerVars, op, shown>>

\* The user presses "cancel" on the debugging banner, or the page crashes.
CutOff(t) ==
  /\ t \in debugging
  /\ Room(t)
  /\ debugging' = debugging \ {t}
  /\ reporting' = reporting \ {t}
  /\ news' = [news EXCEPT ![t] = Append(@, "detach")]
  /\ UNCHANGED <<doc, workerVars, op, shown>>

-----------------------------------------------------------------------------
(* The worker's listeners. *)

Bump(t) == [epoch EXCEPT ![t] = @ + 1]

\* Page.frameNavigated of a root frame.
OnFrameNavigated(t) ==
  /\ news[t] # <<>>
  /\ Head(news[t]) = "frameNavigated"
  /\ news' = [news EXCEPT ![t] = Tail(@)]
  /\ epoch' = Bump(t)
  /\ UNCHANGED <<doc, debugging, reporting, attached, refs, refSeq, op, shown>>

\* Variant of OnDetach: the state goes, the epoch stays.
OnDetachOnly(t) ==
  /\ news[t] # <<>>
  /\ Head(news[t]) = "detach"
  /\ news' = [news EXCEPT ![t] = Tail(@)]
  /\ attached' = attached \ {t}
  /\ UNCHANGED <<doc, debugging, reporting, epoch, refs, refSeq, op, shown>>

\* chrome.debugger.onDetach: what happened since went unobserved.
OnDetach(t) ==
  /\ news[t] # <<>>
  /\ Head(news[t]) = "detach"
  /\ news' = [news EXCEPT ![t] = Tail(@)]
  /\ attached' = attached \ {t}
  /\ epoch' = Bump(t)
  /\ UNCHANGED <<doc, debugging, reporting, refs, refSeq, op, shown>>

\* A tab is closed, by the user or by close_tab: its uids and its count go.
OnRemoved(t) ==
  /\ Open(t)
  /\ doc' = [doc EXCEPT ![t] = 0]
  /\ debugging' = debugging \ {t}
  /\ reporting' = reporting \ {t}
  /\ news' = [news EXCEPT ![t] = <<>>]
  /\ attached' = attached \ {t}
  /\ refs' = {r \in refs : r.tab # t}
  /\ epoch' = [epoch EXCEPT ![t] = 0]
  /\ UNCHANGED <<refSeq, op, shown>>

\* The worker is ended between turns, or is reloaded: the debugger goes with
\* it, and with its memory every uid and the count of them.
Restart ==
  /\ debugging' = {}
  /\ reporting' = {}
  /\ news' = [t \in Tabs |-> <<>>]
  /\ attached' = {}
  /\ epoch' = [t \in Tabs |-> 0]
  /\ refs' = {}
  /\ refSeq' = 0
  /\ op' = [o \in Ops |-> NoOp]
  /\ shown' = {}
  /\ UNCHANGED doc

-----------------------------------------------------------------------------
(* An operation: it attaches, acts on a uid if it carries one, and walks   *)
(* the page for the snapshot it answers with.                              *)

At(o, s) == op[o].at = s

\* ensureAttached: a tab in the map is taken for attached, also while the
\* operation that put it there is still turning its events on.
Begin(o, t) ==
  /\ At(o, "idle")
  /\ Open(t)
  /\ op' = [op EXCEPT ![o] =
       [NoOp EXCEPT !.at = IF t \in attached THEN "ready" ELSE "attaching",
                    !.tab = t]]
  /\ UNCHANGED <<browserVars, workerVars, shown>>

Attached(o) ==
  LET t == op[o].tab
  IN  /\ At(o, "attaching")
      /\ Open(t)
      /\ debugging' = debugging \cup {t}
      /\ attached' = attached \cup {t}
      /\ op' = [op EXCEPT ![o].at = "enabling"]
      /\ UNCHANGED <<doc, reporting, news, epoch, refs, refSeq, shown>>

Enabled(o) ==
  LET t == op[o].tab
  IN  /\ At(o, "enabling")
      /\ t \in debugging
      /\ reporting' = reporting \cup {t}
      /\ op' = [op EXCEPT ![o].at = "ready"]
      /\ UNCHANGED <<doc, debugging, news, workerVars, shown>>

\* resolveRef: a uid is known, and of the tab's present count, or refused.
Current(r) == r.epoch = epoch[r.tab]

Resolve(o, r) ==
  /\ At(o, "ready")
  /\ Current(r)
  /\ op' = [op EXCEPT ![o].at = "acting", ![o].target = r.tab]
  /\ UNCHANGED <<browserVars, workerVars, shown>>

\* The click is dispatched: it lands on the node of that number, in whatever
\* document the tab shows by now.  A form goes on to its next field.
Act(o) ==
  /\ At(o, "acting")
  /\ op[o].target \in debugging
  /\ op' = [op EXCEPT ![o].at = "ready", ![o].target = None]
  /\ UNCHANGED <<browserVars, workerVars, shown>>

\* Any other uid is an error, and so is a command to a tab that is closed or
\* no longer attached.
Fail(o) ==
  /\ \/ At(o, "ready")
     \/ At(o, "attaching") /\ ~Open(op[o].tab)
     \/ op[o].at \in {"enabling", "walking", "rendering"}
        /\ op[o].tab \notin debugging
     \/ At(o, "acting") /\ op[o].target \notin debugging
  /\ op' = [op EXCEPT ![o] = NoOp]
  /\ UNCHANGED <<browserVars, workerVars, shown>>

\* Variant of Walk: the count starts again as well.
WalkAnew(o) ==
  /\ At(o, "ready")
  /\ refs' = IF Cardinality(refs) > RefMapMax THEN {} ELSE refs
  /\ refSeq' = IF Cardinality(refs) > RefMapMax THEN 0 ELSE refSeq
  /\ op' = [op EXCEPT ![o].at = "walking"]
  /\ UNCHANGED <<browserVars, attached, epoch, shown>>

\* buildSnapshot begins: past the ceiling everything is forgotten, but for
\* the count.
Walk(o) ==
  /\ At(o, "ready")
  /\ refs' = IF Cardinality(refs) > RefMapMax THEN {} ELSE refs
  /\ op' = [op EXCEPT ![o].at = "walking"]
  /\ UNCHANGED <<browserVars, attached, epoch, refSeq, shown>>

\* The accessibility tree arrives, behind the events sent before it.
Read(o) ==
  LET t == op[o].tab
  IN  /\ At(o, "walking")
      /\ t \in debugging
      /\ news[t] = <<>>
      /\ op' = [op EXCEPT ![o].at = "rendering", ![o].doc = doc[t],
                          ![o].epoch = epoch[t],
                          ![o].watched = t \in reporting]
      /\ UNCHANGED <<browserVars, workerVars, shown>>

\* mintUid: the uid of a node at the tab's present count, new if it has none.
UidFor(t, n) ==
  {r \in refs : r.tab = t /\ r.node = n /\ r.epoch = epoch[t]}

Printed(o, n, u) ==
  shown' = IF op[o].watched
           THEN shown \cup {[uid |-> u, tab |-> op[o].tab, node |-> n,
                             doc |-> op[o].doc,
                             steady |-> op[o].epoch = epoch[op[o].tab]]}
           ELSE shown

\* The hints, the frames and the clickable extras are awaited in between: the
\* count is the one of the moment the line is rendered.
Mint(o, n) ==
  LET t == op[o].tab
      new == [uid |-> refSeq + 1, tab |-> t, node |-> n, epoch |-> epoch[t]]
  IN  /\ At(o, "rendering")
      /\ \/ /\ UidFor(t, n) = {}
            /\ refSeq < MaxUids
            /\ refSeq' = refSeq + 1
            /\ refs' = refs \cup {new}
            /\ Printed(o, n, refSeq + 1)
         \/ /\ \E r \in UidFor(t, n) : Printed(o, n, r.uid)
            /\ UNCHANGED <<refSeq, refs>>
      /\ UNCHANGED <<browserVars, attached, epoch, op>>

\* The snapshot is returned.
Answer(o) ==
  /\ At(o, "rendering")
  /\ op' = [op EXCEPT ![o] = NoOp]
  /\ UNCHANGED <<browserVars, workerVars, shown>>

Next ==
  \/ Restart
  \/ \E t \in Tabs :
       \/ Navigate(t) \/ CutOff(t) \/ OnFrameNavigated(t) \/ OnDetach(t)
       \/ OnRemoved(t)
  \/ \E o \in Ops :
       \/ \E t \in Tabs : Begin(o, t)
       \/ Attached(o) \/ Enabled(o)
       \/ \E r \in refs : Resolve(o, r)
       \/ Act(o) \/ Fail(o)
       \/ Walk(o) \/ Read(o) \/ Answer(o)
       \/ \E n \in Nodes : Mint(o, n)

Spec == Init /\ [][Next]_vars

-----------------------------------------------------------------------------
Refs == [uid : Nat \ {0}, tab : Tabs, node : Nodes, epoch : Nat]
Prints == [uid : Nat \ {0}, tab : Tabs, node : Nodes, doc : Nat,
           steady : BOOLEAN]
Pending == [at : Stages, tab : Tabs \cup {None}, target : Tabs \cup {None},
            doc : Nat, epoch : Nat, watched : BOOLEAN]

TypeOK ==
  /\ doc \in [Tabs -> Nat]
  /\ debugging \subseteq Tabs
  /\ reporting \subseteq debugging
  /\ news \in [Tabs -> Seq({"frameNavigated", "detach"})]
  /\ attached \subseteq Tabs
  /\ epoch \in [Tabs -> Nat]
  /\ refs \subseteq Refs
  /\ refSeq \in Nat
  /\ op \in [Ops -> Pending]
  /\ shown \subseteq Prints

\* What the worker would act on for a uid it was asked for: the present
\* document's node of the number it remembers.
Names(r, s) == s.tab = r.tab /\ s.node = r.node /\ s.doc = doc[r.tab]

\* The worker has heard all there is to hear of the tab.
UpToDate(t) == Open(t) /\ news[t] = <<>>

\* A uid printed by a snapshot that read its page with the events on, and
\* during which the tab's count stood still, is refused or is acted on the
\* element it was printed for: across navigations, a debugger cut off and
\* attached again, other operations' snapshots, and the ceiling.
AcceptedUidsNameTheirElement ==
  \A r \in refs, s \in shown :
    /\ s.uid = r.uid /\ s.steady
    /\ Current(r) /\ UpToDate(r.tab)
    => Names(r, s)

\* Two prints of one uid, while the worker lives, are of one element: no
\* number is given out again, also not when everything was forgotten.
UidNamesOneElement ==
  \A s, z \in shown :
    s.uid = z.uid /\ s.steady /\ z.steady
    => <<s.tab, s.node, s.doc>> = <<z.tab, z.node, z.doc>>

\* What the comment at docEpochs promises: comparing the count when a uid is
\* resolved turns an action on a stranger into a refusal.  Nothing is said
\* there of a navigation heard between the tree's arrival and its lines, and
\* then it is not kept (README, Disagreements).
NoStrangerIsAccepted ==
  \A r \in refs, s \in shown :
    /\ s.uid = r.uid
    /\ Current(r) /\ UpToDate(r.tab)
    => Names(r, s)
=============================================================================
