---------------------- MODULE FolderControllerProofs ----------------------
(***************************************************************************)
(* Proofs about the folder controllers, for any tabs, directories, ids,    *)
(* flows and commands.                                                     *)
(*                                                                         *)
(* Types: no call of open runs without an id (TypesHold).                  *)
(*                                                                         *)
(* One folder behind a tab: a tab that is not overtaken has one call that  *)
(* opens a folder, at most, and no rescan beside it; that call works on    *)
(* the folder and the id the controller shows, and while it runs the tab   *)
(* is not active (OpenFits).                                               *)
(*                                                                         *)
(* Writers exclude each other: the id that names the lock of a request is  *)
(* the one the manifest of the folder had when it was opened, and it has   *)
(* it still, unless the id was replaced (Named, LocksFit).                 *)
(***************************************************************************)
EXTENDS FolderController, TLAPS

-----------------------------------------------------------------------------
(* Controllers, field by field *)

\* The folder, its id and whether another call came beside its last open.
Shown(c, e) ==
    /\ c.record = e.record /\ c.folder = e.folder /\ c.journal = e.journal /\ c.index = e.index
    /\ c.overtaken = e.overtaken

\* That, the state and the mode.
Same(c, e) == Shown(c, e) /\ c.state = e.state /\ c.mode = e.mode

LEMMA EntersShape ==
  ASSUME NEW c \in Controller, NEW state \in States
  PROVE  /\ Enters(c, state) \in Controller /\ Shown(Enters(c, state), c)
         /\ Enters(c, state).state = state
         /\ state # "active" => Enters(c, state).mode = c.mode
<1>1. CASE state = "active" /\ c.enter
  BY <1>1 DEF Enters, Controller, Shown
<1>2. CASE ~(state = "active" /\ c.enter)
  BY <1>2 DEF Enters, Controller, Shown
<1> QED BY <1>1, <1>2

\* The step changes the controller of t and its call in slot s, at most.
Only(t, s) ==
    /\ \A u \in Tabs \ {t} : tab'[u] = tab[u] /\ flow'[u] = flow[u]
    /\ \A q \in Slots \ {s} : flow'[t][q] = flow[t][q]
    /\ tab' = [u \in Tabs |-> tab'[u]]
    /\ flow' = [u \in Tabs |-> [q \in Slots |-> flow'[u][q]]]
    /\ tab'[t] \in Controller /\ flow'[t][s] \in Flow

\* Types; an open that loads a handle has an id to load it for, and a folder
\* to be initialised is a directory.
Types == /\ TypeOK
         /\ \A t \in Tabs, s \in Slots : /\ At(t, s, "load") => flow[t][s].id \in Ids
                                         /\ At(t, s, "init") => flow[t][s].dir \in Dirs

LEMMA Moves ==
  ASSUME TypeOK, NEW t \in Tabs, NEW s \in Slots, NEW c \in Controller, NEW f \in Flow,
         Becomes(t, c), Goes(t, s, f)
  PROVE  Only(t, s) /\ tab'[t] = c /\ flow'[t][s] = f
BY DEF TypeOK, Becomes, Goes, Only

LEMMA Keeps ==
  ASSUME TypeOK, NEW t \in Tabs, NEW s \in Slots, NEW f \in Flow,
         UNCHANGED tab, Goes(t, s, f)
  PROVE  Only(t, s) /\ tab'[t] = tab[t] /\ flow'[t][s] = f
BY DEF TypeOK, Goes, Only

LEMMA Leaves ==
  ASSUME TypeOK, NEW t \in Tabs, NEW s \in Slots, NEW c \in Controller,
         Becomes(t, c), UNCHANGED flow
  PROVE  Only(t, s) /\ tab'[t] = c /\ flow'[t][s] = flow[t][s]
BY DEF TypeOK, Becomes, Only

LEMMA NoFlowTyped == NoFlow \in Flow /\ NoFlow.at = "none"
BY DEF NoFlow, Flow, Waits

LEMMA EndsShape ==
  ASSUME TypeOK, NEW t \in Tabs, NEW s \in Slots, NEW c \in Controller, Ends(t, s, c)
  PROVE  Only(t, s) /\ Same(tab'[t], c) /\ flow'[t][s] = NoFlow
<1> DEFINE e == IF flow[t][s].use THEN [c EXCEPT !.enter = FALSE] ELSE c
<1>1. e \in Controller /\ Same(e, c)
  <2>1. CASE flow[t][s].use
    BY <2>1 DEF Controller, Same, Shown
  <2>2. CASE ~flow[t][s].use
    BY <2>2 DEF Controller, Same, Shown
  <2> QED BY <2>1, <2>2
<1>2. Becomes(t, e) /\ Goes(t, s, NoFlow)
  BY DEF Ends
<1> HIDE DEF e
<1> QED BY <1>1, <1>2, Moves, NoFlowTyped

-----------------------------------------------------------------------------
(* What each step does to the controller and to its call *)

\* A call that goes on from place at, and keeps what it captured.
GoesOn(f, g, at) == f.at = at /\ f.dir = g.dir /\ f.id = g.id

\* The step calls _openGranted on the folder and the id the tab shows, and
\* the tab is overtaken if another call opens or scans a folder.
Opens(t, s) ==
    /\ flow'[t][s].at = "manifest"
    /\ flow'[t][s].dir = tab'[t].folder /\ flow'[t][s].id = tab'[t].record
    /\ ~tab'[t].overtaken =>
         /\ ~Beside(t, s)
         /\ tab'[t].state = "active" =>
              At(t, s, "query") /\ tab[t].state = "active" /\ ~tab[t].overtaken

LEMMA FlowTyped ==
  ASSUME TypeOK, NEW t \in Tabs, NEW s \in Slots
  PROVE  /\ tab[t] \in Controller /\ flow[t][s] \in Flow
         /\ \A at \in Waits : /\ [flow[t][s] EXCEPT !.at = at] \in Flow
                              /\ GoesOn([flow[t][s] EXCEPT !.at = at], flow[t][s], at)
<1>1. tab[t] \in Controller /\ flow[t][s] \in Flow
  BY DEF TypeOK
<1>2. ASSUME NEW f \in Flow, NEW at \in Waits
      PROVE  [f EXCEPT !.at = at] \in Flow /\ GoesOn([f EXCEPT !.at = at], f, at)
  BY DEF Flow, GoesOn
<1> QED BY <1>1, <1>2

LEMMA BesideTyped ==
  ASSUME NEW t \in Tabs, NEW s \in Slots
  PROVE  Beside(t, s) \in BOOLEAN
BY DEF Beside

LEMMA OpenGrantedShape ==
  ASSUME TypeOK, NEW t \in Tabs, NEW s \in Slots, NEW c \in Controller, NEW f \in Flow,
         c.state = "active" =>
             At(t, s, "query") /\ tab[t].state = "active" /\ c.overtaken = tab[t].overtaken,
         OpenGranted(t, s, f, c)
  PROVE  Only(t, s) /\ Opens(t, s)
<1> DEFINE over == Beside(t, s) \/ (c.overtaken /\ c.state = "active")
           d == [c EXCEPT !.overtaken = over]
           g == [f EXCEPT !.at = "manifest", !.dir = c.folder, !.id = c.record]
<1>1. over \in BOOLEAN
  BY BesideTyped
<1>2. over = FALSE => ~Beside(t, s) /\ (c.state = "active" => ~c.overtaken)
  OBVIOUS
<1>3. Becomes(t, d) /\ Goes(t, s, g)
  BY DEF OpenGranted
<1> HIDE DEF over
<1>4. /\ d \in Controller /\ d.overtaken = over /\ d.state = c.state
      /\ d.folder = c.folder /\ d.record = c.record
  BY <1>1 DEF Controller
<1>5. g \in Flow /\ g.at = "manifest" /\ g.dir = c.folder /\ g.id = c.record
  BY DEF Flow, Controller, Waits
<1> HIDE DEF d, g
<1>6. Only(t, s) /\ tab'[t] = d /\ flow'[t][s] = g
  BY <1>3, <1>4, <1>5, Moves
<1>7. over \in BOOLEAN /\ ~over => over = FALSE
  OBVIOUS
<1> QED BY <1>1, <1>2, <1>4, <1>5, <1>6, <1>7 DEF Opens

LEMMA ConnectShape ==
  ASSUME TypeOK, NEW t \in Tabs, NEW s \in Slots, Connect(t, s)
  PROVE  /\ Only(t, s) /\ tab'[t] = tab[t] /\ flow'[t][s].at = "init"
         /\ flow'[t][s].dir \in Dirs
<1>1. PICK d \in Dirs : Goes(t, s, [NoFlow EXCEPT !.at = "init", !.dir = d, !.id = manifest[d]])
  BY DEF Connect
<1> DEFINE f == [NoFlow EXCEPT !.at = "init", !.dir = d, !.id = manifest[d]]
<1>2. f \in Flow /\ f.at = "init" /\ f.dir = d /\ f.id = manifest[d]
  BY DEF TypeOK, NoFlow, Flow, Waits
<1>3. UNCHANGED tab /\ Goes(t, s, f)
  BY <1>1 DEF Connect
<1> HIDE DEF f
<1> QED BY <1>2, <1>3, Keeps

LEMMA DisconnectShape ==
  ASSUME TypeOK, NEW t \in Tabs, NEW s \in Slots, Disconnect(t, s)
  PROVE  /\ Only(t, s) /\ Shown(tab'[t], tab[t]) /\ tab'[t].state = "disconnected"
         /\ flow'[t][s].at = "dropKey"
<1> DEFINE e == Enters(tab[t], "disconnected")
           c == [e EXCEPT !.reason = "thisTab"]
           f == [NoFlow EXCEPT !.at = "dropKey", !.id = tab[t].record]
<1>1. tab[t] \in Controller
  BY DEF TypeOK
<1>2. e \in Controller /\ Shown(e, tab[t]) /\ e.state = "disconnected"
  BY <1>1, EntersShape DEF States
<1> HIDE DEF e
<1>3. c \in Controller /\ Shown(c, tab[t]) /\ c.state = "disconnected"
  BY <1>2 DEF Controller, Shown
<1>4. f \in Flow /\ f.at = "dropKey"
  BY <1>1 DEF NoFlow, Flow, Waits, Controller
<1>5. Becomes(t, c) /\ Goes(t, s, f)
  BY DEF Disconnect, e
<1> HIDE DEF c, f
<1> QED BY <1>3, <1>4, <1>5, Moves

LEMMA ReconnectShape ==
  ASSUME TypeOK, NEW t \in Tabs, NEW s \in Slots, Reconnect(t, s)
  PROVE  Only(t, s) /\ tab'[t] = tab[t] /\ flow'[t][s].at = "request"
<1> DEFINE f == [NoFlow EXCEPT !.at = "request"]
<1>1. f \in Flow /\ f.at = "request"
  BY DEF NoFlow, Flow, Waits
<1> HIDE DEF f
<1>2. UNCHANGED tab /\ Goes(t, s, f)
  BY DEF Reconnect, f
<1> QED BY <1>1, <1>2, Keeps

LEMMA ChooseAgainShape ==
  ASSUME TypeOK, NEW t \in Tabs, NEW s \in Slots, ChooseAgain(t, s)
  PROVE  /\ Only(t, s) /\ tab'[t] = tab[t]
         /\ flow'[t][s].at = "picker"
<1> DEFINE f == [NoFlow EXCEPT !.at = "picker", !.id = tab[t].record]
<1>1. f \in Flow /\ f.at = "picker"
  BY DEF TypeOK, Controller, NoFlow, Flow, Waits
<1>2. UNCHANGED tab /\ Goes(t, s, f)
  BY DEF ChooseAgain
<1> HIDE DEF f
<1> QED BY <1>1, <1>2, Keeps

LEMMA RescanShape ==
  ASSUME TypeOK, NEW t \in Tabs, NEW s \in Slots, Rescan(t, s)
  PROVE  /\ Only(t, s) /\ tab'[t] = tab[t]
         /\ flow'[t][s].at = "rescan" /\ flow'[t][s].dir = tab[t].folder
<1> DEFINE f == [NoFlow EXCEPT !.at = "rescan", !.dir = tab[t].folder]
<1>1. f \in Flow /\ f.at = "rescan" /\ f.dir = tab[t].folder
  BY DEF TypeOK, Controller, NoFlow, Flow, Waits
<1>2. UNCHANGED tab /\ Goes(t, s, f)
  BY DEF Rescan
<1> HIDE DEF f
<1> QED BY <1>1, <1>2, Keeps

\* What was picked, or is to be switched to, is not what the tab shows.
LEMMA PicksKept ==
  ASSUME NEW c \in Controller, NEW d \in Dirs \cup {NoDir}, NEW id \in Ids \cup {NoId}
  PROVE  /\ [c EXCEPT !.pending = d, !.pendingId = id] \in Controller
         /\ Same([c EXCEPT !.pending = d, !.pendingId = id], c)
<1> DEFINE e == [c EXCEPT !.pending = d, !.pendingId = id]
<1>1. e \in Controller
  BY DEF Controller
<1>2. /\ e.record = c.record /\ e.folder = c.folder /\ e.journal = c.journal
      /\ e.index = c.index /\ e.state = c.state /\ e.mode = c.mode
  BY DEF Controller
<1>3. e.overtaken = c.overtaken
  BY Zenon DEF Controller
<1> QED BY <1>1, <1>2, <1>3, Zenon DEF Same, Shown

LEMMA SwitchShape ==
  ASSUME TypeOK, NEW t \in Tabs, NEW s \in Slots, Switch(t, s)
  PROVE  Only(t, s) /\ Same(tab'[t], tab[t]) /\ flow'[t][s].at = "switchKey"
<1> DEFINE f == [NoFlow EXCEPT !.at = "switchKey", !.dir = tab[t].pending,
                               !.id = tab[t].pendingId, !.old = tab[t].record]
           c == [tab[t] EXCEPT !.pending = NoDir, !.pendingId = NoId]
<1>1. f \in Flow /\ f.at = "switchKey"
  BY DEF TypeOK, Controller, NoFlow, Flow, Waits
<1>2. c \in Controller /\ Same(c, tab[t])
  BY FlowTyped, PicksKept
<1>3. Becomes(t, c) /\ Goes(t, s, f)
  BY DEF Switch
<1> HIDE DEF f, c
<1> QED BY <1>1, <1>2, <1>3, Moves

LEMMA UseConnectedShape ==
  ASSUME TypeOK, NEW t \in Tabs, NEW s \in Slots, UseConnected(t, s)
  PROVE  /\ Only(t, s) /\ tab'[t].mode = "browserOrCloud"
         /\ ~tab'[t].overtaken => ~Beside(t, s)
         /\ flow'[t][s].at \in {"request", "picker"}
<1> DEFINE over == tab[t].overtaken \/ Beside(t, s)
           d == IF tab[t].folder = NoDir THEN handles[tab[t].record] ELSE tab[t].folder
           e == [tab[t] EXCEPT !.enter = TRUE, !.overtaken = over]
           c == [e EXCEPT !.folder = d]
           f == [NoFlow EXCEPT !.at = "request", !.use = TRUE]
           g == [NoFlow EXCEPT !.at = "picker", !.id = tab[t].record, !.use = TRUE]
<1>1. tab[t] \in Controller /\ tab[t].mode = "browserOrCloud" /\ tab[t].record \in Ids
  BY DEF UseConnected, TypeOK, Controller
<1>2. d \in Dirs \cup {NoDir} /\ over \in BOOLEAN /\ (over = FALSE => ~Beside(t, s))
  BY <1>1, BesideTyped DEF TypeOK, Controller
<1>3. e.folder = tab[t].folder
  BY <1>1 DEF Controller
<1>4. (Becomes(t, c) /\ Goes(t, s, f)) \/ (Becomes(t, e) /\ Goes(t, s, g))
  BY <1>1, <1>3 DEF UseConnected, Controller
<1> HIDE DEF d, over
<1>5. e \in Controller /\ e.mode = "browserOrCloud" /\ e.overtaken = over
  BY <1>1, <1>2 DEF Controller
<1> HIDE DEF e
<1>6. c \in Controller /\ c.mode = "browserOrCloud" /\ c.overtaken = over
  BY <1>2, <1>5 DEF Controller
<1>7. f \in Flow /\ f.at = "request"
  BY DEF NoFlow, Flow, Waits
<1>8. g \in Flow /\ g.at = "picker"
  BY <1>1 DEF Controller, NoFlow, Flow, Waits
<1> HIDE DEF c, f, g
<1>9. CASE Becomes(t, c) /\ Goes(t, s, f)
  BY <1>2, <1>6, <1>7, <1>9, Moves
<1>10. CASE Becomes(t, e) /\ Goes(t, s, g)
  BY <1>2, <1>5, <1>8, <1>10, Moves
<1> QED BY <1>4, <1>9, <1>10

LEMMA AcceptedShape ==
  ASSUME NEW c \in Controller, NEW d \in Dirs
  PROVE  /\ Accepted(c, d) \in Controller /\ Accepted(c, d).state = "opening"
         /\ Accepted(c, d).record = c.record /\ Accepted(c, d).folder = d
<1> DEFINE e == Enters(c, "opening")
<1>1. e \in Controller /\ Shown(e, c) /\ e.state = "opening"
  BY EntersShape DEF States
<1>2. Accepted(c, d) = [e EXCEPT !.picked = NoDir, !.folder = d]
  BY DEF Accepted
<1> HIDE DEF e
<1> QED BY <1>1, <1>2 DEF Controller, Shown

LEMMA TreatAsMovedShape ==
  ASSUME TypeOK, NEW t \in Tabs, NEW s \in Slots, TreatAsMoved(t, s)
  PROVE  Only(t, s) /\ Opens(t, s)
<1> DEFINE c == Accepted(tab[t], tab[t].picked)
<1>1. tab[t] \in Controller /\ tab[t].picked \in Dirs
  BY DEF TreatAsMoved, TypeOK, Controller
<1>2. c \in Controller /\ c.state = "opening"
  BY <1>1, AcceptedShape
<1>3. OpenGranted(t, s, NoFlow, c)
  BY DEF TreatAsMoved
<1> HIDE DEF c
<1> QED BY <1>2, <1>3, OpenGrantedShape, NoFlowTyped

LEMMA GiveOwnIdentityShape ==
  ASSUME TypeOK, NEW t \in Tabs, NEW s \in Slots, GiveOwnIdentity(t, s)
  PROVE  /\ Only(t, s) /\ flow' = flow /\ Same(tab'[t], tab[t])
         /\ manifest' \in [Dirs -> Ids \cup {NoId}]
         /\ used' \subseteq Ids /\ renamed' \subseteq Dirs
<1>1. PICK id \in Ids :
        /\ manifest' = [manifest EXCEPT ![tab[t].picked] = IF @ = NoId THEN NoId ELSE id]
        /\ used' = used \cup {id}
        /\ Becomes(t, [tab[t] EXCEPT !.pending = tab[t].picked, !.pendingId = id])
  BY DEF GiveOwnIdentity
<1> DEFINE c == [tab[t] EXCEPT !.pending = tab[t].picked, !.pendingId = id]
<1>2. c \in Controller /\ Same(c, tab[t])
  BY FlowTyped, PicksKept DEF Controller
<1>3. Becomes(t, c) /\ UNCHANGED flow
  BY <1>1 DEF GiveOwnIdentity
<1>4. manifest' \in [Dirs -> Ids \cup {NoId}] /\ used' \subseteq Ids
  BY <1>1 DEF TypeOK
<1>5. renamed' \subseteq Dirs
  BY DEF GiveOwnIdentity, TypeOK, Controller
<1> HIDE DEF c
<1> QED BY <1>2, <1>3, <1>4, <1>5, Leaves

\* Startup gives a page that loads one call, or none.
LEMMA StartupShape ==
  ASSUME NEW id \in Ids \cup {NoId}, NEW wins \in BOOLEAN
  PROVE  LET c == decideStorageMode(id, wins) IN
         /\ c \in Controller /\ c.record = id /\ c.state # "active"
         /\ Startup(c) \in [Slots -> Flow]
         /\ \A s \in Slots : Startup(c)[s].at \in {"none", "load"}
         /\ \A s \in Slots : Startup(c)[s].at = "load" =>
              /\ Startup(c)[s].id = id /\ id \in Ids
              /\ \A q \in Slots : Startup(c)[q].at = "load" => q = s
<1> DEFINE c == decideStorageMode(id, wins)
           first == CHOOSE x \in Slots : TRUE
           f == [NoFlow EXCEPT !.at = "load", !.id = c.record]
<1>1. /\ c \in Controller /\ c.record = id /\ c.state # "active"
      /\ c.mode = "folder" => id \in Ids
  BY DEF decideStorageMode, Controller, States
<1> HIDE DEF c
<1>2. f \in Flow /\ f.at = "load" /\ f.id = id
  BY <1>1 DEF NoFlow, Flow, Waits, Controller
<1>3. Startup(c) = [s \in Slots |-> IF c.mode = "folder" /\ s = first THEN f ELSE NoFlow]
  BY DEF Startup
<1> HIDE DEF f, first
<1>4. /\ Startup(c) \in [Slots -> Flow]
      /\ \A s \in Slots : /\ Startup(c)[s].at \in {"none", "load"}
                          /\ Startup(c)[s].at = "load" =>
                               c.mode = "folder" /\ s = first /\ Startup(c)[s].id = id
  BY <1>2, <1>3, NoFlowTyped
<1>5. \A s \in Slots : Startup(c)[s].at = "load" =>
              /\ Startup(c)[s].id = id /\ id \in Ids
              /\ \A q \in Slots : Startup(c)[q].at = "load" => q = s
  BY <1>1, <1>4
<1> QED BY <1>1, <1>4, <1>5 DEF c

\* A call that ends: what it showed stays, and the state is as given.
LEMMA EndsEntering ==
  ASSUME TypeOK, NEW t \in Tabs, NEW s \in Slots, NEW c \in Controller, NEW state \in States,
         Ends(t, s, Enters(c, state))
  PROVE  /\ Only(t, s) /\ Shown(tab'[t], c) /\ tab'[t].state = state
         /\ flow'[t][s].at = "none"
<1> DEFINE e == Enters(c, state)
<1>1. e \in Controller /\ Shown(e, c) /\ e.state = state
  BY EntersShape
<1> HIDE DEF e
<1>2. Only(t, s) /\ Same(tab'[t], e) /\ flow'[t][s] = NoFlow
  BY <1>1, EndsShape DEF e
<1> QED BY <1>1, <1>2, NoFlowTyped DEF Same, Shown

LEMMA StartsOpenShape ==
  ASSUME TypeOK, NEW t \in Tabs, NEW s \in Slots, NEW c \in Controller, Shown(c, tab[t]),
         c.state = "active" => At(t, s, "query") /\ tab[t].state = "active",
         StartsOpen(t, s, c)
  PROVE  /\ Only(t, s)
         /\ \/ Shown(tab'[t], tab[t]) /\ tab'[t].state = "error" /\ flow'[t][s].at = "none"
            \/ Opens(t, s)
<1>1. CASE c.folder = NoDir
  <2>1. Ends(t, s, Enters(c, "error")) /\ "error" \in States
    BY <1>1 DEF StartsOpen, States
  <2> QED BY <2>1, EndsEntering DEF Shown
<1>2. CASE c.folder # NoDir
  <2>1. OpenGranted(t, s, flow[t][s], c) /\ flow[t][s] \in Flow
    BY <1>2, FlowTyped DEF StartsOpen
  <2> QED BY <2>1, OpenGrantedShape DEF Shown
<1> QED BY <1>1, <1>2

LEMMA StepFailsShape ==
  ASSUME TypeOK, NEW t \in Tabs, NEW s \in Slots, StepFails(t, s)
  PROVE  /\ Only(t, s) /\ Shown(tab'[t], tab[t]) /\ flow'[t][s].at = "none"
         /\ tab'[t].state = "active" => Same(tab'[t], tab[t])
<1>1. CASE \E state \in FailedStates : Ends(t, s, Enters(tab[t], state))
  <2>1. PICK state \in FailedStates : Ends(t, s, Enters(tab[t], state))
    BY <1>1
  <2>2. state \in States /\ state # "active"
    BY DEF FailedStates, States
  <2> QED BY <2>1, <2>2, FlowTyped, EndsEntering
<1>2. CASE Ends(t, s, tab[t])
  BY <1>2, FlowTyped, EndsShape, NoFlowTyped DEF Same
<1> QED BY <1>1, <1>2 DEF StepFails

LEMMA OpenLoadsShape ==
  ASSUME TypeOK, NEW t \in Tabs, NEW s \in Slots, flow[t][s].id \in Ids, OpenLoads(t, s)
  PROVE  /\ Only(t, s) /\ At(t, s, "load")
         /\ \/ Shown(tab'[t], tab[t]) /\ tab'[t].state = "needsPick" /\ flow'[t][s].at = "none"
            \/ /\ Shown(tab'[t], [tab[t] EXCEPT !.folder = handles[flow[t][s].id]])
               /\ tab'[t].state = tab[t].state /\ flow'[t][s].at = "query"
<1>1. CASE Ends(t, s, Enters(tab[t], "needsPick"))
  <2>1. "needsPick" \in States
    BY DEF States
  <2> QED BY <1>1, <2>1, FlowTyped, EndsEntering DEF OpenLoads
<1> DEFINE d == handles[flow[t][s].id]
           c == [tab[t] EXCEPT !.folder = d]
           f == [flow[t][s] EXCEPT !.at = "query"]
<1>2. CASE Becomes(t, c) /\ Goes(t, s, f)
  <2>1. d \in Dirs \cup {NoDir}
    BY DEF TypeOK
  <2> HIDE DEF d
  <2>2. c \in Controller /\ c.state = tab[t].state /\ Shown(c, [tab[t] EXCEPT !.folder = d])
    BY <2>1 DEF TypeOK, Controller, Shown
  <2>3. f \in Flow /\ GoesOn(f, flow[t][s], "query")
    BY FlowTyped DEF Waits
  <2> HIDE DEF c, f
  <2>4. Only(t, s) /\ tab'[t] = c /\ flow'[t][s] = f
    BY <1>2, <2>2, <2>3, Moves
  <2> QED BY <2>2, <2>3, <2>4 DEF OpenLoads, GoesOn, d
<1> QED BY <1>1, <1>2 DEF OpenLoads

LEMMA OpenQueriesShape ==
  ASSUME TypeOK, NEW t \in Tabs, NEW s \in Slots, OpenQueries(t, s)
  PROVE  /\ Only(t, s) /\ At(t, s, "query")
         /\ \/ Shown(tab'[t], tab[t]) /\ tab'[t].state = "error" /\ flow'[t][s].at = "none"
            \/ Opens(t, s)
<1>1. Shown(tab[t], tab[t]) /\ tab[t] \in Controller /\ StartsOpen(t, s, tab[t])
  BY FlowTyped DEF Shown, OpenQueries
<1> QED BY <1>1, StartsOpenShape DEF OpenQueries

LEMMA RequestGrantedShape ==
  ASSUME TypeOK, NEW t \in Tabs, NEW s \in Slots, RequestGranted(t, s)
  PROVE  /\ Only(t, s)
         /\ \/ Shown(tab'[t], tab[t]) /\ tab'[t].state = "error" /\ flow'[t][s].at = "none"
            \/ Opens(t, s)
<1> DEFINE c == Enters(tab[t], "opening")
<1>1. c \in Controller /\ Shown(c, tab[t]) /\ c.state # "active"
  BY FlowTyped, EntersShape DEF States
<1>2. StartsOpen(t, s, c)
  BY DEF RequestGranted
<1> HIDE DEF c
<1> QED BY <1>1, <1>2, StartsOpenShape

LEMMA ManifestReadShape ==
  ASSUME TypeOK, NEW t \in Tabs, NEW s \in Slots, ManifestRead(t, s)
  PROVE  /\ Only(t, s) /\ At(t, s, "manifest")
         /\ \/ /\ Shown(tab'[t], tab[t]) /\ tab'[t].state = "error" /\ flow'[t][s].at = "none"
            \/ /\ Shown(tab'[t], [tab[t] EXCEPT !.journal = flow[t][s].dir])
               /\ tab'[t].state = tab[t].state /\ GoesOn(flow'[t][s], flow[t][s], "roll")
               /\ flow[t][s].id # NoId /\ manifest[flow[t][s].dir] = flow[t][s].id
<1> DEFINE found == manifest[flow[t][s].dir] # NoId /\ manifest[flow[t][s].dir] = flow[t][s].id
<1>1. CASE ~found
  <2>1. "error" \in States
    BY DEF States
  <2> QED BY <1>1, <2>1, FlowTyped, EndsEntering DEF ManifestRead
<1> DEFINE c == [tab[t] EXCEPT !.journal = flow[t][s].dir]
           f == [flow[t][s] EXCEPT !.at = "roll"]
<1>2. CASE found
  <2>1. c \in Controller /\ c.state = tab[t].state
    BY FlowTyped DEF Controller, Flow
  <2>2. f \in Flow /\ GoesOn(f, flow[t][s], "roll")
    BY FlowTyped DEF Waits
  <2>3. Becomes(t, c) /\ Goes(t, s, f)
    BY <1>2 DEF ManifestRead
  <2>4. Shown(c, c)
    BY DEF Shown
  <2>5. Only(t, s) /\ tab'[t] = c /\ flow'[t][s] = f
    <3> HIDE DEF c, f
    <3> QED BY <2>1, <2>2, <2>3, Moves
  <2> HIDE DEF f
  <2> QED BY <1>2, <2>1, <2>2, <2>4, <2>5 DEF ManifestRead
<1> QED BY <1>1, <1>2

LEMMA RollForwardShape ==
  ASSUME TypeOK, NEW t \in Tabs, NEW s \in Slots, RollForwardEnds(t, s)
  PROVE  /\ Only(t, s) /\ At(t, s, "roll") /\ tab'[t] = tab[t]
         /\ GoesOn(flow'[t][s], flow[t][s], "index")
<1> DEFINE f == [flow[t][s] EXCEPT !.at = "index"]
<1>1. f \in Flow /\ GoesOn(f, flow[t][s], "index")
  BY FlowTyped DEF Waits
<1>2. UNCHANGED tab /\ Goes(t, s, f)
  BY DEF RollForwardEnds
<1> HIDE DEF f
<1> QED BY <1>1, <1>2, Keeps DEF RollForwardEnds

\* The call of a tab whose folder became active, with its index of d.
Activates(t, s, d) ==
    /\ Shown(tab'[t], [tab[t] EXCEPT !.index = d]) /\ flow'[t][s].at = "none"

LEMMA IndexSet ==
  ASSUME NEW c \in Controller, NEW d \in Dirs \cup {NoDir}
  PROVE  [c EXCEPT !.index = d] \in Controller
BY DEF Controller

LEMMA IndexReadShape ==
  ASSUME TypeOK, NEW t \in Tabs, NEW s \in Slots, IndexRead(t, s)
  PROVE  /\ Only(t, s) /\ At(t, s, "index")
         /\ \/ Activates(t, s, flow[t][s].dir)
            \/ Shown(tab'[t], tab[t]) /\ tab'[t].state = "error" /\ flow'[t][s].at = "none"
            \/ /\ Shown(tab'[t], tab[t]) /\ tab'[t].state = "scanning"
               /\ flow'[t][s].at = "scan" /\ flow'[t][s].dir = tab[t].folder
               /\ flow'[t][s].id = flow[t][s].id
<1> DEFINE c == [tab[t] EXCEPT !.index = flow[t][s].dir]
           e == Enters(tab[t], "scanning")
           f == [flow[t][s] EXCEPT !.at = "scan", !.dir = tab[t].folder]
<1>1. CASE Ends(t, s, Enters(c, "active"))
  <2>1. c \in Controller /\ "active" \in States
    BY FlowTyped, IndexSet DEF Flow, States
  <2> HIDE DEF c
  <2>2. Only(t, s) /\ Shown(tab'[t], c) /\ flow'[t][s].at = "none"
    BY <1>1, <2>1, EndsEntering
  <2> QED BY <2>2 DEF IndexRead, Activates, c
<1>2. CASE Ends(t, s, Enters(tab[t], "error"))
  <2>1. "error" \in States
    BY DEF States
  <2> QED BY <1>2, <2>1, FlowTyped, EndsEntering DEF IndexRead
<1>3. CASE Becomes(t, e) /\ Goes(t, s, f)
  <2>1. e \in Controller /\ Shown(e, tab[t]) /\ e.state = "scanning"
    BY FlowTyped, EntersShape DEF States
  <2>2. f \in Flow /\ f.at = "scan" /\ f.dir = tab[t].folder /\ f.id = flow[t][s].id
    <3>1. tab[t].folder \in Dirs \cup {NoDir}
      BY FlowTyped DEF Controller
    <3>2. flow[t][s] \in Flow /\ "scan" \in Waits
      BY FlowTyped DEF Waits
    <3> QED BY <3>1, <3>2 DEF Flow
  <2> HIDE DEF e, f
  <2>3. Only(t, s) /\ tab'[t] = e /\ flow'[t][s] = f
    BY <1>3, <2>1, <2>2, Moves
  <2> QED BY <2>1, <2>2, <2>3 DEF IndexRead
<1> QED BY <1>1, <1>2, <1>3 DEF IndexRead

LEMMA ScanEndsShape ==
  ASSUME TypeOK, NEW t \in Tabs, NEW s \in Slots, ScanEnds(t, s)
  PROVE  Only(t, s) /\ At(t, s, "scan") /\ Activates(t, s, flow[t][s].dir)
<1> DEFINE c == [tab[t] EXCEPT !.index = flow[t][s].dir]
<1>1. c \in Controller /\ "active" \in States
  BY FlowTyped, IndexSet DEF Flow, States
<1>2. Ends(t, s, Enters(c, "active"))
  BY DEF ScanEnds
<1> HIDE DEF c
<1>3. Only(t, s) /\ Shown(tab'[t], c) /\ flow'[t][s].at = "none"
  BY <1>1, <1>2, EndsEntering
<1> QED BY <1>3 DEF ScanEnds, Activates, c

LEMMA RescanEndsShape ==
  ASSUME TypeOK, NEW t \in Tabs, NEW s \in Slots, RescanEnds(t, s)
  PROVE  /\ Only(t, s) /\ At(t, s, "rescan") /\ Activates(t, s, flow[t][s].dir)
         /\ tab'[t].state = tab[t].state /\ tab'[t].mode = tab[t].mode
<1> DEFINE c == [tab[t] EXCEPT !.index = flow[t][s].dir]
<1>1. c \in Controller
  BY FlowTyped, IndexSet DEF Flow
<1>2. c.state = tab[t].state /\ c.mode = tab[t].mode
  BY FlowTyped DEF Controller
<1>3. Ends(t, s, c)
  BY DEF RescanEnds
<1> HIDE DEF c
<1>4. Only(t, s) /\ Same(tab'[t], c) /\ flow'[t][s].at = "none"
  BY <1>1, <1>3, EndsShape, NoFlowTyped
<1>5. Shown(tab'[t], c) /\ tab'[t].state = tab[t].state /\ tab'[t].mode = tab[t].mode
  BY <1>2, <1>4 DEF Same
<1> QED BY <1>4, <1>5 DEF RescanEnds, Activates, c

LEMMA PickCancelledShape ==
  ASSUME TypeOK, NEW t \in Tabs, NEW s \in Slots, PickCancelled(t, s)
  PROVE  Only(t, s) /\ Same(tab'[t], tab[t]) /\ flow'[t][s].at = "none"
BY FlowTyped, EndsShape, NoFlowTyped DEF PickCancelled

LEMMA PickDiffersShape ==
  ASSUME TypeOK, NEW t \in Tabs, NEW s \in Slots, PickDiffers(t, s)
  PROVE  Only(t, s) /\ Same(tab'[t], tab[t]) /\ flow'[t][s].at = "none"
<1>1. PICK d \in Dirs :
        Becomes(t, [tab[t] EXCEPT !.pending = d, !.pendingId = manifest[d]])
  BY DEF PickDiffers
<1> DEFINE c == [tab[t] EXCEPT !.pending = d, !.pendingId = manifest[d]]
<1>2. c \in Controller /\ Same(c, tab[t])
  BY FlowTyped, PicksKept DEF TypeOK
<1>3. Becomes(t, c) /\ Goes(t, s, NoFlow)
  BY <1>1 DEF PickDiffers
<1> HIDE DEF c
<1> QED BY <1>2, <1>3, Moves, NoFlowTyped

LEMMA PickLooksLikeCopyShape ==
  ASSUME TypeOK, NEW t \in Tabs, NEW s \in Slots, PickLooksLikeCopy(t, s)
  PROVE  Only(t, s) /\ Same(tab'[t], tab[t]) /\ flow'[t][s].at = "none"
<1>1. PICK d \in Dirs : Becomes(t, [tab[t] EXCEPT !.picked = d])
  BY DEF PickLooksLikeCopy
<1> DEFINE c == [tab[t] EXCEPT !.picked = d]
<1>2. c \in Controller /\ Same(c, tab[t])
  BY FlowTyped DEF Controller, Same, Shown
<1>3. Becomes(t, c) /\ Goes(t, s, NoFlow)
  BY <1>1 DEF PickLooksLikeCopy
<1> HIDE DEF c
<1> QED BY <1>2, <1>3, Moves, NoFlowTyped

LEMMA PickAcceptedShape ==
  ASSUME TypeOK, NEW t \in Tabs, NEW s \in Slots, PickAccepted(t, s)
  PROVE  /\ Only(t, s) /\ Opens(t, s)
         /\ \E d \in Dirs : handles' \in {handles, [handles EXCEPT ![tab[t].record] = d]}
<1>1. PICK d \in Dirs :
        /\ OpenGranted(t, s, flow[t][s], Accepted(tab[t], d))
        /\ \/ handles' = [handles EXCEPT ![Accepted(tab[t], d).record] = d]
           \/ UNCHANGED handles
  BY DEF PickAccepted
<1> DEFINE c == Accepted(tab[t], d)
<1>2. c \in Controller /\ c.state = "opening" /\ c.record = tab[t].record
  BY FlowTyped, AcceptedShape
<1>3. OpenGranted(t, s, flow[t][s], c) /\ handles' \in {handles, [handles EXCEPT ![c.record] = d]}
  BY <1>1
<1> HIDE DEF c
<1> QED BY <1>2, <1>3, FlowTyped, OpenGrantedShape

LEMMA SwitchRecordsShape ==
  ASSUME TypeOK, NEW t \in Tabs, NEW s \in Slots, SwitchRecords(t, s)
  PROVE  /\ Only(t, s) /\ tab'[t] = tab[t] /\ At(t, s, "switchKey")
         /\ GoesOn(flow'[t][s], flow[t][s], "switched")
<1> DEFINE f == [flow[t][s] EXCEPT !.at = "switched"]
<1>1. f \in Flow /\ GoesOn(f, flow[t][s], "switched")
  BY FlowTyped DEF Waits
<1>2. UNCHANGED tab /\ Goes(t, s, f)
  BY DEF SwitchRecords
<1> HIDE DEF f
<1> QED BY <1>1, <1>2, Keeps DEF SwitchRecords

LEMMA SwitchOpensShape ==
  ASSUME TypeOK, NEW t \in Tabs, NEW s \in Slots, SwitchOpens(t, s)
  PROVE  Only(t, s) /\ Opens(t, s)
<1> DEFINE e == Enters(tab[t], "opening")
           c == [e EXCEPT !.record = flow[t][s].id, !.folder = flow[t][s].dir, !.index = NoDir]
<1>1. e \in Controller /\ e.state = "opening"
  BY FlowTyped, EntersShape DEF States
<1>2. OpenGranted(t, s, flow[t][s], c)
  BY DEF SwitchOpens
<1> HIDE DEF e
<1>3. c \in Controller /\ c.state = "opening"
  <2>1. flow[t][s].id \in Ids \cup {NoId} /\ flow[t][s].dir \in Dirs \cup {NoDir}
    BY FlowTyped DEF Flow
  <2> QED BY <1>1, <2>1 DEF Controller
<1> HIDE DEF c
<1> QED BY <1>2, <1>3, FlowTyped, OpenGrantedShape

LEMMA ConnectInitialisesShape ==
  ASSUME TypeOK, NEW t \in Tabs, NEW s \in Slots, flow[t][s].dir \in Dirs, ConnectInitialises(t, s)
  PROVE  /\ Only(t, s) /\ tab'[t] = tab[t] /\ flow'[t][s].at = "record"
         /\ manifest' \in [Dirs -> Ids \cup {NoId}]
         /\ used' \subseteq Ids /\ renamed' \subseteq Dirs
<1>1. CASE flow[t][s].id # NoId
  <2> DEFINE f == [flow[t][s] EXCEPT !.at = "record"]
  <2>1. f \in Flow /\ GoesOn(f, flow[t][s], "record")
    BY FlowTyped DEF Waits
  <2>2. UNCHANGED <<tab, manifest, used, renamed>> /\ Goes(t, s, f)
    BY <1>1 DEF ConnectInitialises
  <2> HIDE DEF f
  <2>3. Only(t, s) /\ tab'[t] = tab[t] /\ flow'[t][s] = f
    BY <2>1, <2>2, Keeps
  <2>4. manifest \in [Dirs -> Ids \cup {NoId}] /\ used \subseteq Ids /\ renamed \subseteq Dirs
    BY DEF TypeOK
  <2> QED BY <2>1, <2>2, <2>3, <2>4 DEF GoesOn
<1>2. CASE flow[t][s].id = NoId
  <2>1. PICK id \in Ids :
          /\ manifest' = [manifest EXCEPT ![flow[t][s].dir] = id]
          /\ used' = used \cup {id}
          /\ renamed' \in {renamed, renamed \cup {flow[t][s].dir}}
          /\ Goes(t, s, [flow[t][s] EXCEPT !.at = "record", !.id = id])
    BY <1>2 DEF ConnectInitialises
  <2> DEFINE f == [flow[t][s] EXCEPT !.at = "record", !.id = id]
  <2>2. f \in Flow /\ f.at = "record"
    <3>1. flow[t][s] \in Flow /\ id \in Ids \cup {NoId} /\ "record" \in Waits
      BY FlowTyped DEF Waits
    <3> QED BY <3>1 DEF Flow
  <2>3. UNCHANGED tab /\ Goes(t, s, f)
    BY <2>1 DEF ConnectInitialises
  <2> HIDE DEF f
  <2>4. Only(t, s) /\ tab'[t] = tab[t] /\ flow'[t][s] = f
    BY <2>2, <2>3, Keeps
  <2>5. /\ manifest' \in [Dirs -> Ids \cup {NoId}] /\ used' \subseteq Ids
        /\ renamed' \subseteq Dirs
    BY <2>1 DEF TypeOK
  <2> QED BY <2>2, <2>4, <2>5
<1> QED BY <1>1, <1>2

LEMMA ConnectRecordsShape ==
  ASSUME TypeOK, NEW t \in Tabs, NEW s \in Slots, ConnectRecords(t, s)
  PROVE  /\ Only(t, s) /\ tab'[t] = tab[t] /\ At(t, s, "record")
         /\ GoesOn(flow'[t][s], flow[t][s], "joined")
<1> DEFINE f == [flow[t][s] EXCEPT !.at = "joined"]
<1>1. f \in Flow /\ GoesOn(f, flow[t][s], "joined")
  BY FlowTyped DEF Waits
<1>2. UNCHANGED tab /\ Goes(t, s, f)
  BY DEF ConnectRecords
<1> HIDE DEF f
<1> QED BY <1>1, <1>2, Keeps DEF ConnectRecords

LEMMA ConnectOpensShape ==
  ASSUME TypeOK, NEW t \in Tabs, NEW s \in Slots, ConnectOpens(t, s)
  PROVE  Only(t, s) /\ Opens(t, s)
<1> DEFINE e == Enters(tab[t], "opening")
           c == [e EXCEPT !.record = flow[t][s].id, !.folder = flow[t][s].dir,
                          !.mode = "folder", !.reason = "none"]
<1>1. e \in Controller /\ e.state = "opening"
  BY FlowTyped, EntersShape DEF States
<1>2. OpenGranted(t, s, flow[t][s], c)
  BY DEF ConnectOpens
<1> HIDE DEF e
<1>3. c \in Controller /\ c.state = "opening"
  <2>1. flow[t][s].id \in Ids \cup {NoId} /\ flow[t][s].dir \in Dirs \cup {NoDir}
    BY FlowTyped DEF Flow
  <2> QED BY <1>1, <2>1 DEF Controller
<1> HIDE DEF c
<1> QED BY <1>2, <1>3, FlowTyped, OpenGrantedShape

LEMMA DropsKeyShape ==
  ASSUME TypeOK, NEW t \in Tabs, NEW s \in Slots, DisconnectDropsKey(t, s)
  PROVE  Only(t, s) /\ tab'[t] = tab[t] /\ flow'[t][s].at = "leave"
<1> DEFINE f == [flow[t][s] EXCEPT !.at = "leave"]
<1>1. f \in Flow /\ GoesOn(f, flow[t][s], "leave")
  BY FlowTyped DEF Waits
<1>2. UNCHANGED tab /\ Goes(t, s, f)
  BY DEF DisconnectDropsKey
<1> HIDE DEF f
<1> QED BY <1>1, <1>2, Keeps DEF GoesOn

LEMMA LeavesShape ==
  ASSUME TypeOK, NEW t \in Tabs, NEW s \in Slots, DisconnectLeaves(t, s)
  PROVE  /\ Only(t, s) /\ flow'[t][s].at = "none" /\ tab'[t].mode = "browserOrCloud"
         /\ ~tab'[t].overtaken => ~Beside(t, s)
<1> DEFINE c == [tab[t] EXCEPT !.mode = "browserOrCloud", !.folder = NoDir,
                               !.journal = NoDir, !.index = NoDir, !.overtaken = Beside(t, s)]
<1>1. c \in Controller /\ c.mode = "browserOrCloud" /\ c.overtaken = Beside(t, s)
  BY FlowTyped, BesideTyped DEF Controller
<1>2. Ends(t, s, c)
  BY DEF DisconnectLeaves
<1> HIDE DEF c
<1> QED BY <1>1, <1>2, EndsShape, NoFlowTyped DEF Same, Shown

-----------------------------------------------------------------------------
(* Types *)

\* What a step leaves to be typed besides the controllers and their calls.
SharedTyped ==
    /\ write \in [Tabs -> Write] /\ key \in Ids \cup {NoId}
    /\ handles \in [Ids -> Dirs \cup {NoDir}] /\ manifest \in [Dirs -> Ids \cup {NoId}]
    /\ inbox \in [Tabs -> Seq(Message)] /\ used \subseteq Ids /\ renamed \subseteq Dirs
    /\ commands \in 0..MaxCommands

LEMMA TypesAfter ==
  ASSUME Types, NEW t \in Tabs, NEW s \in Slots, Only(t, s), SharedTyped',
         flow'[t][s].at \in {"load", "init"} =>
             flow'[t][s] = flow[t][s] \/ (flow'[t][s].at = "init" /\ flow'[t][s].dir \in Dirs)
  PROVE  Types'
<1>1. tab' \in [Tabs -> Controller]
  BY DEF Only, Types, TypeOK
<1>2. flow' \in [Tabs -> [Slots -> Flow]]
  <2>1. ASSUME NEW u \in Tabs, NEW q \in Slots PROVE flow'[u][q] \in Flow
    <3>1. flow[u][q] \in Flow
      BY DEF Types, TypeOK
    <3>2. CASE u = t /\ q = s
      BY <3>2 DEF Only
    <3>3. CASE u # t \/ q # s
      BY <3>1, <3>3 DEF Only
    <3> QED BY <3>2, <3>3
  <2> QED BY <2>1 DEF Only
<1>3. \A u \in Tabs, q \in Slots : /\ flow'[u][q].at = "load" => flow'[u][q].id \in Ids
                                   /\ flow'[u][q].at = "init" => flow'[u][q].dir \in Dirs
  <2>1. ASSUME NEW u \in Tabs, NEW q \in Slots, u # t \/ q # s
        PROVE  /\ flow'[u][q].at = "load" => flow'[u][q].id \in Ids
               /\ flow'[u][q].at = "init" => flow'[u][q].dir \in Dirs
    BY <2>1 DEF Only, Types, At
  <2>2. /\ flow'[t][s].at = "load" => flow'[t][s].id \in Ids
        /\ flow'[t][s].at = "init" => flow'[t][s].dir \in Dirs
    BY DEF Types, At
  <2> QED BY <2>1, <2>2
<1>4. TypeOK'
  BY <1>1, <1>2 DEF SharedTyped, TypeOK
<1> QED BY <1>3, <1>4 DEF Types, At

LEMMA SharedKept ==
  ASSUME TypeOK, UNCHANGED <<write, shared, commands>>
  PROVE  SharedTyped'
BY DEF TypeOK, SharedTyped, shared

LEMMA PostTyped ==
  ASSUME TypeOK, NEW t \in Tabs, NEW op \in {"connect", "switch", "disconnect"},
         NEW id \in Ids \cup {NoId}, Post(t, op, id)
  PROVE  inbox' \in [Tabs -> Seq(Message)]
<1> DEFINE m == [op |-> op, id |-> id]
<1>1. m \in Message
  BY DEF Message
<1>2. inbox' = [u \in Tabs |-> IF u = t THEN inbox[u] ELSE Append(inbox[u], m)]
  BY DEF Post
<1> HIDE DEF m
<1>3. \A u \in Tabs : inbox[u] \in Seq(Message) /\ Append(inbox[u], m) \in Seq(Message)
  BY <1>1 DEF TypeOK
<1> QED BY <1>2, <1>3

LEMMA CommandTyped ==
  ASSUME TypeOK, NEW t \in Tabs, NEW s \in Slots, Command(t, s)
  PROVE  commands' \in 0..MaxCommands
BY ControllerAssumption DEF Command, TypeOK

LEMMA CommandsTyped ==
  ASSUME Types, NEW t \in Tabs, NEW s \in Slots,
         \/ Connect(t, s) \/ Disconnect(t, s) \/ Reconnect(t, s) \/ ChooseAgain(t, s)
         \/ UseConnected(t, s) \/ Switch(t, s) \/ TreatAsMoved(t, s)
         \/ GiveOwnIdentity(t, s) \/ SetRemember(t, s) \/ Rescan(t, s)
  PROVE  Types'
<1> USE DEF Types
<1>1. commands' \in 0..MaxCommands
  BY CommandTyped DEF Connect, Disconnect, Reconnect, ChooseAgain, UseConnected, Switch,
                      TreatAsMoved, GiveOwnIdentity, SetRemember, Rescan
<1>2. UNCHANGED <<write, shared>> => SharedTyped'
  BY <1>1 DEF TypeOK, SharedTyped, shared
<1>3. CASE Connect(t, s)
  BY <1>2, <1>3, ConnectShape, TypesAfter DEF Connect
<1>4. CASE Disconnect(t, s)
  BY <1>2, <1>4, DisconnectShape, TypesAfter DEF Disconnect
<1>5. CASE Reconnect(t, s)
  BY <1>2, <1>5, ReconnectShape, TypesAfter DEF Reconnect
<1>6. CASE ChooseAgain(t, s)
  BY <1>2, <1>6, ChooseAgainShape, TypesAfter DEF ChooseAgain
<1>7. CASE UseConnected(t, s)
  <2>1. SharedTyped'
    BY <1>2, <1>7 DEF UseConnected
  <2> QED BY <1>7, <2>1, UseConnectedShape, TypesAfter
<1>8. CASE Switch(t, s)
  BY <1>2, <1>8, SwitchShape, TypesAfter DEF Switch
<1>9. CASE Rescan(t, s)
  BY <1>2, <1>9, RescanShape, TypesAfter DEF Rescan
<1>10. CASE TreatAsMoved(t, s)
  <2> DEFINE c == Accepted(tab[t], tab[t].picked)
  <2>1. tab[t].picked \in Dirs /\ tab[t].record \in Ids
    BY <1>10, FlowTyped DEF TreatAsMoved, Controller
  <2>2. c.record \in Ids /\ c.folder \in Dirs
    BY <2>1, FlowTyped, AcceptedShape
  <2>3. handles' \in {handles, [handles EXCEPT ![c.record] = c.folder]}
    BY <1>10 DEF TreatAsMoved
  <2> HIDE DEF c
  <2>4. handles' \in [Ids -> Dirs \cup {NoDir}]
    BY <2>2, <2>3 DEF TypeOK
  <2>5. SharedTyped'
    BY <1>1, <1>10, <2>4 DEF TreatAsMoved, TypeOK, SharedTyped
  <2> QED BY <1>10, <2>5, TreatAsMovedShape, TypesAfter DEF Opens
<1>11. CASE GiveOwnIdentity(t, s)
  <2>1. SharedTyped'
    BY <1>1, <1>11, GiveOwnIdentityShape DEF GiveOwnIdentity, TypeOK, SharedTyped
  <2> QED BY <1>11, <2>1, GiveOwnIdentityShape, TypesAfter
<1>12. CASE SetRemember(t, s)
  <2>1. tab[t].record \in Ids /\ tab[t].folder \in Dirs \cup {NoDir}
    BY <1>12, FlowTyped DEF SetRemember, Controller
  <2>2. key' \in Ids /\ handles' \in [Ids -> Dirs \cup {NoDir}]
    BY <1>12, <2>1 DEF SetRemember, TypeOK
  <2>3. SharedTyped'
    BY <1>1, <1>12, <2>2 DEF SetRemember, TypeOK, SharedTyped
  <2>4. UNCHANGED <<tab, flow>>
    BY <1>12 DEF SetRemember
  <2> QED BY <2>3, <2>4 DEF SharedTyped, TypeOK, At
<1> QED BY <1>10, <1>11, <1>12, <1>3, <1>4, <1>5, <1>6, <1>7, <1>8, <1>9

LEMMA OpenStepTyped ==
  ASSUME Types, NEW t \in Tabs, NEW s \in Slots, OpenStep(t, s)
  PROVE  Types'
<1> USE DEF Types
<1>1. SharedTyped'
  BY SharedKept DEF OpenStep, OpenLoads, OpenQueries, RequestGranted, ManifestRead,
       RollForwardEnds, IndexRead, ScanEnds, RescanEnds, StepFails
<1>2. CASE OpenLoads(t, s)
  <2>1. flow[t][s].id \in Ids
    BY <1>2 DEF OpenLoads
  <2> QED BY <1>1, <1>2, <2>1, OpenLoadsShape, TypesAfter
<1>3. CASE OpenQueries(t, s)
  BY <1>1, <1>3, OpenQueriesShape, TypesAfter DEF Opens
<1>4. CASE RequestGranted(t, s)
  BY <1>1, <1>4, RequestGrantedShape, TypesAfter DEF Opens
<1>5. CASE ManifestRead(t, s)
  BY <1>1, <1>5, ManifestReadShape, TypesAfter DEF GoesOn
<1>6. CASE RollForwardEnds(t, s)
  BY <1>1, <1>6, RollForwardShape, TypesAfter DEF GoesOn
<1>7. CASE IndexRead(t, s)
  BY <1>1, <1>7, IndexReadShape, TypesAfter DEF Activates
<1>8. CASE ScanEnds(t, s)
  BY <1>1, <1>8, ScanEndsShape, TypesAfter DEF Activates
<1>9. CASE RescanEnds(t, s)
  BY <1>1, <1>9, RescanEndsShape, TypesAfter DEF Activates
<1>10. CASE StepFails(t, s)
  BY <1>1, <1>10, StepFailsShape, TypesAfter
<1> QED BY <1>2, <1>3, <1>4, <1>5, <1>6, <1>7, <1>8, <1>9, <1>10 DEF OpenStep

LEMMA OtherStepTyped ==
  ASSUME Types, NEW t \in Tabs, NEW s \in Slots, OtherStep(t, s)
  PROVE  Types'
<1> USE DEF Types
<1>1. flow[t][s].id \in Ids \cup {NoId} /\ flow[t][s].dir \in Dirs \cup {NoDir}
  BY FlowTyped DEF Flow
<1>2. UNCHANGED <<write, shared, commands>> => SharedTyped'
  BY SharedKept
<1>3. CASE PickCancelled(t, s)
  BY <1>2, <1>3, PickCancelledShape, TypesAfter DEF PickCancelled
<1>4. CASE PickDiffers(t, s)
  BY <1>2, <1>4, PickDiffersShape, TypesAfter DEF PickDiffers
<1>5. CASE PickLooksLikeCopy(t, s)
  BY <1>2, <1>5, PickLooksLikeCopyShape, TypesAfter DEF PickLooksLikeCopy
<1>6. CASE PickAccepted(t, s)
  <2>1. handles' \in [Ids -> Dirs \cup {NoDir}]
    BY <1>6, PickAcceptedShape, FlowTyped DEF TypeOK, Controller
  <2>2. SharedTyped'
    BY <1>6, <2>1 DEF PickAccepted, TypeOK, SharedTyped
  <2> QED BY <1>6, <2>2, PickAcceptedShape, TypesAfter DEF Opens
<1>7. CASE SwitchRecords(t, s)
  <2>1. SharedTyped'
    BY <1>1, <1>7 DEF SwitchRecords, TypeOK, SharedTyped
  <2> QED BY <1>7, <2>1, SwitchRecordsShape, TypesAfter DEF GoesOn
<1>8. CASE SwitchOpens(t, s)
  <2>1. PICK d \in {flow[t][s].dir, NoDir} :
          handles' = [handles EXCEPT ![flow[t][s].old] = NoDir, ![flow[t][s].id] = d]
    BY <1>8 DEF SwitchOpens
  <2>2. handles' \in [Ids -> Dirs \cup {NoDir}]
    BY <1>1, <2>1 DEF TypeOK
  <2>3. inbox' \in [Tabs -> Seq(Message)]
    BY <1>1, <1>8, PostTyped DEF SwitchOpens
  <2>4. SharedTyped'
    BY <1>8, <2>2, <2>3 DEF SwitchOpens, TypeOK, SharedTyped
  <2> QED BY <1>8, <2>4, SwitchOpensShape, TypesAfter DEF Opens
<1>9. CASE ConnectInitialises(t, s)
  <2>1. flow[t][s].dir \in Dirs
    BY <1>9 DEF ConnectInitialises
  <2>2. SharedTyped'
    BY <1>9, <2>1, ConnectInitialisesShape DEF ConnectInitialises, TypeOK, SharedTyped
  <2> QED BY <1>9, <2>1, <2>2, ConnectInitialisesShape, TypesAfter
<1>10. CASE ConnectRecords(t, s)
  <2>1. SharedTyped'
    BY <1>1, <1>10 DEF ConnectRecords, TypeOK, SharedTyped
  <2> QED BY <1>10, <2>1, ConnectRecordsShape, TypesAfter DEF GoesOn
<1>11. CASE ConnectOpens(t, s)
  <2>1. PICK d \in {flow[t][s].dir, NoDir} : handles' = [handles EXCEPT ![flow[t][s].id] = d]
    BY <1>11 DEF ConnectOpens
  <2>2. handles' \in [Ids -> Dirs \cup {NoDir}]
    BY <1>1, <2>1 DEF TypeOK
  <2>3. inbox' \in [Tabs -> Seq(Message)]
    BY <1>1, <1>11, PostTyped DEF ConnectOpens
  <2>4. SharedTyped'
    BY <1>11, <2>2, <2>3 DEF ConnectOpens, TypeOK, SharedTyped
  <2> QED BY <1>11, <2>4, ConnectOpensShape, TypesAfter DEF Opens
<1>12. CASE DisconnectDropsKey(t, s)
  <2>1. SharedTyped'
    BY <1>12 DEF DisconnectDropsKey, TypeOK, SharedTyped
  <2> QED BY <1>12, <2>1, DropsKeyShape, TypesAfter
<1>13. CASE DisconnectLeaves(t, s)
  <2>1. inbox' \in [Tabs -> Seq(Message)]
    BY <1>1, <1>13, PostTyped DEF DisconnectLeaves
  <2>2. handles' \in [Ids -> Dirs \cup {NoDir}]
    BY <1>13 DEF DisconnectLeaves, TypeOK
  <2>3. SharedTyped'
    BY <1>13, <2>1, <2>2 DEF DisconnectLeaves, TypeOK, SharedTyped
  <2> QED BY <1>13, <2>3, LeavesShape, TypesAfter
<1> QED BY <1>3, <1>4, <1>5, <1>6, <1>7, <1>8, <1>9, <1>10, <1>11, <1>12, <1>13 DEF OtherStep

LEMMA ReloadShape ==
  ASSUME Types, NEW t \in Tabs, Reload(t)
  PROVE  \E wins \in BOOLEAN :
           /\ tab' = [tab EXCEPT ![t] = decideStorageMode(key, wins)]
           /\ flow' = [flow EXCEPT ![t] = Startup(decideStorageMode(key, wins))]
BY DEF Reload, Becomes

LEMMA ReloadTyped ==
  ASSUME Types, NEW t \in Tabs, Reload(t)
  PROVE  Types'
<1>1. PICK wins \in BOOLEAN :
           /\ tab' = [tab EXCEPT ![t] = decideStorageMode(key, wins)]
           /\ flow' = [flow EXCEPT ![t] = Startup(decideStorageMode(key, wins))]
  BY ReloadShape
<1> DEFINE c == decideStorageMode(key, wins)
<1>2. key \in Ids \cup {NoId}
  BY DEF Types, TypeOK
<1>3. /\ c \in Controller /\ Startup(c) \in [Slots -> Flow]
      /\ \A s \in Slots : /\ Startup(c)[s].at # "init"
                          /\ Startup(c)[s].at = "load" => Startup(c)[s].id \in Ids
  BY <1>2, StartupShape
<1>4. tab' = [tab EXCEPT ![t] = c] /\ flow' = [flow EXCEPT ![t] = Startup(c)]
  BY <1>1
<1> HIDE DEF c
<1>5. tab' \in [Tabs -> Controller] /\ flow' \in [Tabs -> [Slots -> Flow]]
  BY <1>3, <1>4 DEF Types, TypeOK
<1>6. \A u \in Tabs, s \in Slots : /\ flow'[u][s].at = "load" => flow'[u][s].id \in Ids
                                   /\ flow'[u][s].at = "init" => flow'[u][s].dir \in Dirs
  BY <1>3, <1>4 DEF Types, TypeOK, At
<1>7. write' \in [Tabs -> Write] /\ inbox' \in [Tabs -> Seq(Message)]
  <2>1. NoWrite \in Write /\ <<>> \in Seq(Message)
    BY DEF NoWrite, Write
  <2> QED BY <2>1 DEF Reload, Types, TypeOK
<1>8. commands' \in 0..MaxCommands
  BY ControllerAssumption DEF Reload, Types, TypeOK
<1>9. TypeOK'
  BY <1>5, <1>7, <1>8 DEF Reload, Types, TypeOK
<1> QED BY <1>6, <1>9 DEF Types, At

LEMMA OnMessageShape ==
  ASSUME TypeOK, NEW t \in Tabs, OnMessage(t)
  PROVE  /\ tab' \in [Tabs -> Controller] /\ \A u \in Tabs \ {t} : tab'[u] = tab[u]
         /\ Shown(tab'[t], tab[t])
         /\ tab'[t] = tab[t] \/ tab'[t].state = "disconnected"
<1> DEFINE e == Enters(tab[t], "disconnected")
<1>1. e \in Controller /\ Shown(e, tab[t]) /\ e.state = "disconnected"
  BY FlowTyped, EntersShape DEF States, TypeOK
<1>2. \/ \E r \in {"otherTab", "switchedElsewhere"} : Becomes(t, [e EXCEPT !.reason = r])
      \/ UNCHANGED tab
  BY DEF OnMessage
<1> HIDE DEF e
<1>3. ASSUME NEW r \in {"otherTab", "switchedElsewhere"}, Becomes(t, [e EXCEPT !.reason = r])
      PROVE  /\ tab' \in [Tabs -> Controller] /\ \A u \in Tabs \ {t} : tab'[u] = tab[u]
             /\ Shown(tab'[t], tab[t]) /\ tab'[t].state = "disconnected"
  <2> DEFINE c == [e EXCEPT !.reason = r]
  <2>1. c \in Controller /\ Shown(c, tab[t]) /\ c.state = "disconnected"
    BY <1>1 DEF Controller, Shown
  <2>2. tab' = [tab EXCEPT ![t] = c]
    BY <1>3 DEF Becomes
  <2> HIDE DEF c
  <2> QED BY <2>1, <2>2 DEF TypeOK
<1>4. CASE UNCHANGED tab
  BY <1>4 DEF TypeOK, Shown
<1> QED BY <1>2, <1>3, <1>4

LEMMA OnMessageTyped ==
  ASSUME Types, NEW t \in Tabs, OnMessage(t)
  PROVE  Types'
<1>1. tab' \in [Tabs -> Controller] /\ UNCHANGED flow
  BY OnMessageShape DEF Types, OnMessage
<1>2. inbox' \in [Tabs -> Seq(Message)]
  <2>1. inbox[t] \in Seq(Message) /\ inbox[t] # <<>>
    BY DEF OnMessage, Types, TypeOK
  <2>2. Tail(inbox[t]) \in Seq(Message)
    BY <2>1
  <2> QED BY <2>2 DEF OnMessage, Types, TypeOK
<1>3. TypeOK'
  BY <1>1, <1>2 DEF OnMessage, Types, TypeOK
<1> QED BY <1>1, <1>3 DEF Types, At

\* A write changes the state of its tab at most, and never to active.
LEMMA WriteShape ==
  ASSUME TypeOK, NEW t \in Tabs, WriteStep(t)
  PROVE  /\ tab' \in [Tabs -> Controller] /\ \A u \in Tabs \ {t} : tab'[u] = tab[u]
         /\ Shown(tab'[t], tab[t])
         /\ tab'[t] = tab[t] \/ tab'[t].state # "active"
<1>1. CASE UNCHANGED tab
  BY <1>1 DEF TypeOK, Shown
<1>2. ASSUME NEW state \in FailedStates, Becomes(t, Enters(tab[t], state))
      PROVE  /\ tab' \in [Tabs -> Controller] /\ \A u \in Tabs \ {t} : tab'[u] = tab[u]
             /\ Shown(tab'[t], tab[t]) /\ tab'[t].state # "active"
  <2> DEFINE e == Enters(tab[t], state)
  <2>1. state \in States /\ state # "active"
    BY DEF FailedStates, States
  <2>2. e \in Controller /\ Shown(e, tab[t]) /\ e.state # "active"
    BY <2>1, EntersShape DEF TypeOK
  <2>3. tab' = [tab EXCEPT ![t] = e]
    BY <1>2 DEF Becomes
  <2> HIDE DEF e
  <2> QED BY <2>2, <2>3 DEF TypeOK
<1> QED BY <1>1, <1>2 DEF WriteStep, WriteWaits, WriteGranted, WriteStarts, WriteEnds

LEMMA WriteTyped ==
  ASSUME Types, NEW t \in Tabs, WriteStep(t)
  PROVE  Types'
<1>1. write[t] \in Write /\ tab[t] \in Controller
  BY DEF Types, TypeOK
<1>2. write' \in [Tabs -> Write]
  <2>1. CASE WriteWaits(t)
    <3> DEFINE w == [at |-> "waiting", lock |-> tab[t].record,
                     from |-> IF tab[t].overtaken THEN NoDir ELSE tab[t].journal, dir |-> NoDir]
    <3>1. w \in Write
      BY <1>1 DEF Write, Controller
    <3>2. write' = [write EXCEPT ![t] = w]
      BY <2>1 DEF WriteWaits
    <3> HIDE DEF w
    <3> QED BY <3>1, <3>2 DEF Types, TypeOK
  <2>2. CASE WriteGranted(t)
    <3>1. write' = [write EXCEPT ![t].at = "held"]
      BY <2>2 DEF WriteGranted
    <3>2. [write[t] EXCEPT !.at = "held"] \in Write
      BY <1>1 DEF Write
    <3> QED BY <3>1, <3>2 DEF Types, TypeOK
  <2>3. CASE WriteStarts(t)
    <3>1. write' = [write EXCEPT ![t] = [write[t] EXCEPT !.at = "writing", !.dir = tab[t].journal]]
      BY <2>3 DEF WriteStarts, Types, TypeOK
    <3>2. [write[t] EXCEPT !.at = "writing", !.dir = tab[t].journal] \in Write
      BY <1>1 DEF Write, Controller
    <3> QED BY <3>1, <3>2 DEF Types, TypeOK
  <2>4. CASE WriteEnds(t)
    <3>1. NoWrite \in Write
      BY DEF NoWrite, Write
    <3> QED BY <2>4, <3>1 DEF WriteEnds, Types, TypeOK
  <2> QED BY <2>1, <2>2, <2>3, <2>4 DEF WriteStep
<1>3. UNCHANGED <<flow, shared, commands>>
  BY DEF WriteStep, WriteWaits, WriteGranted, WriteStarts, WriteEnds
<1>4. TypeOK'
  BY <1>2, <1>3, WriteShape DEF Types, TypeOK, shared
<1> QED BY <1>3, <1>4 DEF Types, At

LEMMA InitTyped == Init => Types
<1> SUFFICES ASSUME Init PROVE Types
  OBVIOUS
<1>1. key \in Ids \cup {NoId} /\ manifest \in [Dirs -> Ids \cup {NoId}]
  BY ControllerAssumption DEF Init
<1>2. ASSUME NEW t \in Tabs
      PROVE  /\ tab[t] \in Controller /\ Startup(tab[t]) \in [Slots -> Flow]
             /\ \A s \in Slots : /\ Startup(tab[t])[s].at # "init"
                                 /\ Startup(tab[t])[s].at = "load" => Startup(tab[t])[s].id \in Ids
  <2>1. PICK wins \in BOOLEAN : tab[t] = decideStorageMode(key, wins)
    BY DEF Init
  <2> QED BY <1>1, <2>1, StartupShape
<1>3. \A t \in Tabs : flow[t] = Startup(tab[t])
  BY DEF Init
<1>4. tab \in [Tabs -> Controller] /\ flow \in [Tabs -> [Slots -> Flow]]
  BY <1>2 DEF Init
<1>5. write \in [Tabs -> Write] /\ inbox \in [Tabs -> Seq(Message)]
  <2>1. NoWrite \in Write /\ <<>> \in Seq(Message)
    BY DEF NoWrite, Write
  <2> QED BY <2>1 DEF Init
<1>6. used \subseteq Ids /\ renamed \subseteq Dirs /\ commands \in 0..MaxCommands
  BY <1>1, ControllerAssumption DEF Init
<1>7. TypeOK
  BY <1>1, <1>4, <1>5, <1>6 DEF Init, TypeOK
<1> QED BY <1>2, <1>3, <1>7 DEF Types, At

LEMMA NextTyped ==
  ASSUME Types, [Next]_vars
  PROVE  Types'
<1>1. ASSUME NEW t \in Tabs, UserCommand(t) PROVE Types'
  BY <1>1, CommandsTyped, ReloadTyped DEF UserCommand
<1>2. ASSUME NEW t \in Tabs, FlowStep(t) PROVE Types'
  BY <1>2, OpenStepTyped, OtherStepTyped DEF FlowStep
<1>3. CASE UNCHANGED vars
  BY <1>3 DEF vars, Types, TypeOK, At
<1> QED BY <1>1, <1>2, <1>3, OnMessageTyped, WriteTyped DEF Next

LEMMA TypesHold == Spec => []Types
BY InitTyped, NextTyped, PTL DEF Spec

\* Every variable of every tab has its type.
THEOREM TypeCorrect == Spec => []TypeOK
<1>1. Types => TypeOK
  BY DEF Types
<1> QED BY <1>1, TypesHold, PTL

-----------------------------------------------------------------------------
(* Names of folders *)

\* The directory had the id in its manifest, and has it still, unless its id
\* was replaced.
Named(d, id) == d \in Dirs => d \in renamed \/ (id # NoId /\ manifest[d] = id)

\* No step takes an id away but one that replaces it.
NamesStay ==
    /\ renamed \subseteq renamed'
    /\ \A d \in Dirs : d \notin renamed' /\ manifest[d] # NoId => manifest'[d] = manifest[d]

LEMMA NextNamesStay ==
  ASSUME Types, [Next]_vars
  PROVE  NamesStay
<1>1. TypeOK
  BY DEF Types
<1>2. CASE UNCHANGED <<manifest, renamed>>
  BY <1>2 DEF NamesStay
<1>3. ASSUME NEW t \in Tabs, NEW s \in Slots, GiveOwnIdentity(t, s) PROVE NamesStay
  BY <1>1, <1>3 DEF GiveOwnIdentity, NamesStay, TypeOK
<1>4. ASSUME NEW t \in Tabs, NEW s \in Slots, ConnectInitialises(t, s) PROVE NamesStay
  <2>1. CASE flow[t][s].id # NoId
    BY <1>2, <1>4, <2>1 DEF ConnectInitialises
  <2>2. CASE flow[t][s].id = NoId
    <3>1. PICK id \in Ids : manifest' = [manifest EXCEPT ![flow[t][s].dir] = id]
      BY <1>4, <2>2 DEF ConnectInitialises
    <3>2. renamed' = IF manifest[flow[t][s].dir] = NoId THEN renamed
                     ELSE renamed \cup {flow[t][s].dir}
      BY <1>4, <2>2 DEF ConnectInitialises
    <3> QED BY <1>1, <3>1, <3>2 DEF NamesStay, TypeOK
  <2> QED BY <2>1, <2>2
<1>5. ASSUME NEW t \in Tabs, UserCommand(t) PROVE NamesStay
  BY <1>2, <1>3, <1>5 DEF UserCommand, Reload, Connect, Disconnect, Reconnect, ChooseAgain,
       UseConnected, Switch, TreatAsMoved, SetRemember, Rescan, shared
<1>6. ASSUME NEW t \in Tabs, NEW s \in Slots, OpenStep(t, s) PROVE NamesStay
  BY <1>2, <1>6 DEF OpenStep, OpenLoads, OpenQueries, RequestGranted, ManifestRead,
       RollForwardEnds, IndexRead, ScanEnds, RescanEnds, StepFails, shared
<1>7. ASSUME NEW t \in Tabs, NEW s \in Slots, OtherStep(t, s) PROVE NamesStay
  BY <1>2, <1>4, <1>7 DEF OtherStep, PickCancelled, PickDiffers, PickAccepted, PickLooksLikeCopy,
       SwitchRecords, SwitchOpens, ConnectRecords, ConnectOpens,
       DisconnectDropsKey, DisconnectLeaves, shared
<1>8. ASSUME NEW t \in Tabs, OnMessage(t) \/ WriteStep(t) PROVE NamesStay
  BY <1>2, <1>8 DEF OnMessage, WriteStep, WriteWaits, WriteGranted, WriteStarts, WriteEnds, shared
<1>9. CASE UNCHANGED vars
  BY <1>2, <1>9 DEF vars
<1> QED BY <1>5, <1>6, <1>7, <1>8, <1>9 DEF Next, FlowStep

\* Named, after a step.
StillNamed(d, id) == d \in Dirs => d \in renamed' \/ (id # NoId /\ manifest'[d] = id)

LEMMA NamedStays ==
  ASSUME NamesStay, NEW d, NEW id, Named(d, id)
  PROVE  StillNamed(d, id)
BY DEF NamesStay, Named, StillNamed

-----------------------------------------------------------------------------
(* One folder behind a tab *)

\* The waits of a call that opens a folder.
OpenWaits == Opening \ {"rescan"}

\* A call of the tab works on the folder and the id the controller shows; while
\* it opens the folder the tab is not active, and no other call opens or scans.
Fits(t, s) ==
    LET c == tab[t]
        f == flow[t][s]
    IN /\ f.at \in {"manifest", "roll", "index", "scan"} => f.dir = c.folder /\ f.id = c.record
       /\ f.at \in {"roll", "index", "scan"} => c.journal = f.dir /\ Named(f.dir, f.id)
       /\ f.at = "rescan" => f.dir = c.folder
       /\ f.at \in OpenWaits => c.state # "active" /\ ~Beside(t, s)

SeesOne(t) ==
    LET c == tab[t]
    IN c.mode = "folder" /\ c.state = "active" =>
         c.journal = c.folder /\ c.index = c.folder /\ Named(c.folder, c.record)

OpenFits == \A t \in Tabs : ~tab[t].overtaken => SeesOne(t) /\ \A s \in Slots : Fits(t, s)

\* Another tab's steps leave a tab alone.
LEMMA OthersFit ==
  ASSUME OpenFits, NamesStay, NEW u \in Tabs, tab'[u] = tab[u], flow'[u] = flow[u],
         ~tab'[u].overtaken
  PROVE  SeesOne(u)' /\ \A s \in Slots : Fits(u, s)'
<1>1. SeesOne(u) /\ \A s \in Slots : Fits(u, s)
  BY DEF OpenFits
<1>2. SeesOne(u)'
  <2>1. Named(tab[u].folder, tab[u].record) => StillNamed(tab[u].folder, tab[u].record)
    BY NamedStays
  <2> QED BY <1>1, <2>1 DEF SeesOne, Named, StillNamed
<1>3. ASSUME NEW s \in Slots PROVE Fits(u, s)'
  <2>1. Named(flow[u][s].dir, flow[u][s].id) => StillNamed(flow[u][s].dir, flow[u][s].id)
    BY NamedStays
  <2>2. Fits(u, s)
    BY <1>1
  <2>3. Beside(u, s)' = Beside(u, s)
    BY DEF Beside
  <2> QED BY <2>1, <2>2, <2>3 DEF Fits, Named, StillNamed
<1> QED BY <1>2, <1>3

\* A step of a call beside which no other call opens or scans.
LEMMA AloneFits ==
  ASSUME OpenFits, NamesStay, NEW t \in Tabs, NEW s \in Slots, Only(t, s),
         ~tab'[t].overtaken => ~Beside(t, s) /\ SeesOne(t)' /\ (~Beside(t, s)' => Fits(t, s)')
  PROVE  OpenFits'
<1>1. ASSUME NEW u \in Tabs, u # t, ~tab'[u].overtaken
      PROVE  SeesOne(u)' /\ \A q \in Slots : Fits(u, q)'
  BY <1>1, OthersFit DEF Only
<1>2. ASSUME ~tab'[t].overtaken
      PROVE  SeesOne(t)' /\ \A q \in Slots : Fits(t, q)'
  <2>1. \A q \in Slots \ {s} : flow'[t][q].at \notin Opening
    BY <1>2 DEF Only, Beside
  <2>2. \A q \in Slots \ {s} : Fits(t, q)'
    BY <2>1 DEF Fits, Opening, OpenWaits
  <2>3. ~Beside(t, s)'
    BY <2>1 DEF Beside
  <2> QED BY <1>2, <2>2, <2>3
<1> QED BY <1>1, <1>2 DEF OpenFits

\* A step that leaves what the tab shows, and ends no open with success: a call
\* that comes, goes on or ends beside those that open and scan.
LEMMA QuietFits ==
  ASSUME OpenFits, NamesStay, NEW t \in Tabs, NEW s \in Slots, Only(t, s),
         tab'[t].record = tab[t].record, tab'[t].folder = tab[t].folder,
         tab'[t].journal = tab[t].journal, tab'[t].overtaken = tab[t].overtaken,
         \/ tab'[t].index = tab[t].index
         \/ ~tab[t].overtaken => tab'[t].index = tab[t].folder,
         tab'[t].state = "active" => tab[t].state = "active" /\ tab'[t].mode = tab[t].mode,
         flow'[t][s].at \notin Opening
  PROVE  OpenFits'
<1>1. ASSUME NEW u \in Tabs, u # t, ~tab'[u].overtaken
      PROVE  SeesOne(u)' /\ \A q \in Slots : Fits(u, q)'
  BY <1>1, OthersFit DEF Only
<1>2. ASSUME ~tab'[t].overtaken
      PROVE  SeesOne(t)' /\ \A q \in Slots : Fits(t, q)'
  <2>1. SeesOne(t) /\ \A q \in Slots : Fits(t, q)
    BY <1>2 DEF OpenFits
  <2>2. SeesOne(t)'
    <3>1. Named(tab[t].folder, tab[t].record) => StillNamed(tab[t].folder, tab[t].record)
      BY NamedStays
    <3> QED BY <1>2, <2>1, <3>1 DEF SeesOne, Named, StillNamed
  <2>3. Fits(t, s)'
    BY DEF Fits, Opening, OpenWaits
  <2>4. ASSUME NEW q \in Slots, q # s PROVE Fits(t, q)'
    <3>1. Named(flow[t][q].dir, flow[t][q].id) => StillNamed(flow[t][q].dir, flow[t][q].id)
      BY NamedStays
    <3>2. flow'[t][q] = flow[t][q] /\ Fits(t, q)
      BY <2>1, <2>4 DEF Only
    <3>3. Beside(t, q)' => Beside(t, q)
      BY DEF Beside, Only
    <3> QED BY <3>1, <3>2, <3>3 DEF Fits, Named, StillNamed
  <2> QED BY <2>2, <2>3, <2>4
<1> QED BY <1>1, <1>2 DEF OpenFits

\* A call of _openGranted.
LEMMA OpensFits ==
  ASSUME OpenFits, NamesStay, NEW t \in Tabs, NEW s \in Slots, Only(t, s), Opens(t, s)
  PROVE  OpenFits'
<1> SUFFICES ASSUME ~tab'[t].overtaken
             PROVE  ~Beside(t, s) /\ SeesOne(t)' /\ (~Beside(t, s)' => Fits(t, s)')
  BY AloneFits
<1>1. ~Beside(t, s)
  BY DEF Opens
<1>2. tab'[t].state # "active"
  <2>1. At(t, s, "query") /\ ~tab[t].overtaken => tab[t].state # "active"
    BY DEF OpenFits, Fits, At, Opening, OpenWaits
  <2> QED BY <2>1 DEF Opens
<1> QED BY <1>1, <1>2 DEF Opens, SeesOne, Fits, Opening, OpenWaits

\* A rescan that starts.
LEMMA RescanFits ==
  ASSUME TypeOK, OpenFits, NamesStay, NEW t \in Tabs, NEW s \in Slots, Rescan(t, s)
  PROVE  OpenFits'
<1>1. /\ Only(t, s) /\ tab'[t] = tab[t] /\ tab[t].state = "active"
      /\ flow'[t][s].at = "rescan" /\ flow'[t][s].dir = tab[t].folder
  BY RescanShape DEF Rescan
<1>2. ASSUME NEW u \in Tabs, u # t, ~tab'[u].overtaken
      PROVE  SeesOne(u)' /\ \A q \in Slots : Fits(u, q)'
  BY <1>1, <1>2, OthersFit DEF Only
<1>3. ASSUME ~tab'[t].overtaken
      PROVE  SeesOne(t)' /\ \A q \in Slots : Fits(t, q)'
  <2>1. SeesOne(t) /\ \A q \in Slots : Fits(t, q)
    BY <1>1, <1>3 DEF OpenFits
  <2>2. SeesOne(t)'
    <3>1. Named(tab[t].folder, tab[t].record) => StillNamed(tab[t].folder, tab[t].record)
      BY NamedStays
    <3> QED BY <1>1, <2>1, <3>1 DEF SeesOne, Named, StillNamed
  <2>3. Fits(t, s)'
    BY <1>1 DEF Fits, OpenWaits
  <2>4. ASSUME NEW q \in Slots, q # s PROVE Fits(t, q)'
    <3>1. flow'[t][q] = flow[t][q] /\ flow[t][q].at \notin OpenWaits
      BY <1>1, <2>1, <2>4 DEF Only, Fits
    <3> QED BY <1>1, <2>1, <3>1 DEF Fits, Opening, OpenWaits
  <2> QED BY <2>2, <2>3, <2>4
<1> QED BY <1>2, <1>3 DEF OpenFits

\* A step of an open, which goes on or ends with success.
LEMMA GoingFits ==
  ASSUME OpenFits, NamesStay, NEW t \in Tabs, NEW s \in Slots, Only(t, s),
         flow[t][s].at \in OpenWaits, tab'[t].overtaken = tab[t].overtaken,
         ~tab[t].overtaken /\ tab[t].state # "active" /\ Fits(t, s) =>
             SeesOne(t)' /\ (~Beside(t, s)' => Fits(t, s)')
  PROVE  OpenFits'
<1> SUFFICES ASSUME ~tab'[t].overtaken
             PROVE  ~Beside(t, s) /\ SeesOne(t)' /\ (~Beside(t, s)' => Fits(t, s)')
  BY AloneFits
<1>1. Fits(t, s)
  BY DEF OpenFits
<1>2. tab[t].state # "active" /\ ~Beside(t, s)
  BY <1>1 DEF Fits
<1> QED BY <1>1, <1>2

LEMMA CommandsFit ==
  ASSUME TypeOK, OpenFits, NamesStay, NEW t \in Tabs, NEW s \in Slots,
         \/ Connect(t, s) \/ Disconnect(t, s) \/ Reconnect(t, s) \/ ChooseAgain(t, s)
         \/ UseConnected(t, s) \/ Switch(t, s) \/ TreatAsMoved(t, s)
         \/ GiveOwnIdentity(t, s) \/ SetRemember(t, s) \/ Rescan(t, s)
  PROVE  OpenFits'
<1>1. flow[t][s].at = "none"
  BY DEF Command, At, Connect, Disconnect, Reconnect, ChooseAgain, UseConnected, Switch,
         TreatAsMoved, GiveOwnIdentity, SetRemember, Rescan
<1>2. CASE Connect(t, s)
  BY <1>2, ConnectShape, QuietFits DEF Opening
<1>3. CASE Disconnect(t, s)
  BY <1>3, DisconnectShape, QuietFits DEF Opening, Shown
<1>4. CASE Reconnect(t, s)
  BY <1>4, ReconnectShape, QuietFits DEF Opening
<1>5. CASE ChooseAgain(t, s)
  BY <1>5, ChooseAgainShape, QuietFits DEF Opening
<1>6. CASE UseConnected(t, s)
  <2>1. SeesOne(t)' /\ Fits(t, s)'
    BY <1>6, UseConnectedShape DEF SeesOne, Fits, Opening, OpenWaits
  <2> QED BY <1>6, <2>1, UseConnectedShape, AloneFits
<1>7. CASE Switch(t, s)
  BY <1>7, SwitchShape, QuietFits DEF Opening, Same, Shown
<1>8. CASE TreatAsMoved(t, s)
  BY <1>8, TreatAsMovedShape, OpensFits
<1>9. CASE GiveOwnIdentity(t, s)
  BY <1>1, <1>9, GiveOwnIdentityShape, QuietFits DEF Opening, Same, Shown
<1>10. CASE SetRemember(t, s)
  BY <1>10, OthersFit DEF SetRemember, OpenFits
<1>11. CASE Rescan(t, s)
  BY <1>11, RescanFits
<1> QED BY <1>2, <1>3, <1>4, <1>5, <1>6, <1>7, <1>8, <1>9, <1>10, <1>11

\* One field of the controller changes.
LEMMA FieldKept ==
  ASSUME NEW c \in Controller, NEW d
  PROVE  /\ [c EXCEPT !.folder = d].overtaken = c.overtaken
         /\ [c EXCEPT !.journal = d].overtaken = c.overtaken
         /\ [c EXCEPT !.index = d].overtaken = c.overtaken
BY Zenon DEF Controller

LEMMA OpenStepFits ==
  ASSUME Types, TypeOK, OpenFits, NamesStay, NEW t \in Tabs, NEW s \in Slots, OpenStep(t, s)
  PROVE  OpenFits'
<1>1. tab[t] \in Controller /\ flow[t][s] \in Flow
  BY FlowTyped
<1>2. CASE OpenLoads(t, s)
  <2>1. flow[t][s].id \in Ids /\ flow[t][s].at \in OpenWaits
    BY <1>2 DEF OpenLoads, Types, At, Opening, OpenWaits
  <2>2. CASE Shown(tab'[t], tab[t]) /\ tab'[t].state = "needsPick" /\ flow'[t][s].at = "none"
    BY <1>2, <2>1, <2>2, OpenLoadsShape, QuietFits DEF Shown, Opening
  <2>3. CASE /\ Shown(tab'[t], [tab[t] EXCEPT !.folder = handles[flow[t][s].id]])
             /\ tab'[t].state = tab[t].state /\ flow'[t][s].at = "query"
    <3>1. tab'[t].overtaken = tab[t].overtaken
      BY <1>1, <2>3, FieldKept DEF Shown
    <3>2. tab[t].state # "active" /\ Fits(t, s) => SeesOne(t)' /\ (~Beside(t, s)' => Fits(t, s)')
      BY <2>3 DEF SeesOne, Fits, Opening, OpenWaits
    <3>3. Only(t, s)
      BY <1>2, <2>1, OpenLoadsShape
    <3>4. flow[t][s].at \in OpenWaits
      BY <2>1
    <3> QED BY <3>1, <3>2, <3>3, <3>4, GoingFits
  <2> QED BY <1>2, <2>1, <2>2, <2>3, OpenLoadsShape
<1>3. CASE OpenQueries(t, s) \/ RequestGranted(t, s)
  BY <1>3, OpenQueriesShape, RequestGrantedShape, OpensFits, QuietFits DEF Shown, Opening
<1>4. CASE ManifestRead(t, s)
  <2>1. flow[t][s].at = "manifest" /\ flow[t][s].at \in OpenWaits
    BY <1>4 DEF ManifestRead, At, Opening, OpenWaits
  <2>2. CASE Shown(tab'[t], tab[t]) /\ tab'[t].state = "error" /\ flow'[t][s].at = "none"
    BY <1>4, <2>2, ManifestReadShape, QuietFits DEF Shown, Opening
  <2>3. CASE /\ Shown(tab'[t], [tab[t] EXCEPT !.journal = flow[t][s].dir])
             /\ tab'[t].state = tab[t].state /\ GoesOn(flow'[t][s], flow[t][s], "roll")
             /\ flow[t][s].id # NoId /\ manifest[flow[t][s].dir] = flow[t][s].id
    <3>1. tab'[t].overtaken = tab[t].overtaken
      BY <1>1, <2>3, FieldKept DEF Shown
    <3>2. /\ tab'[t].journal = flow[t][s].dir /\ tab'[t].folder = tab[t].folder
          /\ tab'[t].record = tab[t].record
      BY <1>1, <2>3 DEF Shown, Controller
    <3>3. Named(flow[t][s].dir, flow[t][s].id) /\ StillNamed(flow[t][s].dir, flow[t][s].id)
      BY <2>3, NamedStays DEF Named
    <3>4. tab[t].state # "active" /\ Fits(t, s) => SeesOne(t)' /\ (~Beside(t, s)' => Fits(t, s)')
      BY <2>1, <2>3, <3>2, <3>3 DEF SeesOne, Fits, GoesOn, Opening, OpenWaits, Named, StillNamed
    <3> QED BY <1>4, <2>1, <3>1, <3>4, ManifestReadShape, GoingFits
  <2> QED BY <1>4, <2>2, <2>3, ManifestReadShape
<1>5. ASSUME flow[t][s].at \in {"roll", "index", "scan"}, Fits(t, s)
      PROVE  StillNamed(flow[t][s].dir, flow[t][s].id)
  BY <1>5, NamedStays DEF Fits
<1>6. CASE RollForwardEnds(t, s)
  <2>1. flow[t][s].at = "roll" /\ flow[t][s].at \in OpenWaits
    BY <1>6 DEF RollForwardEnds, At, Opening, OpenWaits
  <2>2. tab[t].state # "active" /\ Fits(t, s) => SeesOne(t)' /\ (~Beside(t, s)' => Fits(t, s)')
    BY <1>5, <1>6, <2>1, RollForwardShape
       DEF SeesOne, Fits, GoesOn, Opening, OpenWaits, Named, StillNamed
  <2> QED BY <1>6, <2>1, <2>2, RollForwardShape, GoingFits
<1>7. ASSUME flow[t][s].at \in {"index", "scan"}, Only(t, s), Activates(t, s, flow[t][s].dir)
      PROVE  OpenFits'
  <2>1. /\ tab'[t].journal = tab[t].journal /\ tab'[t].folder = tab[t].folder
        /\ tab'[t].record = tab[t].record /\ tab'[t].index = flow[t][s].dir
    BY <1>1, <1>7 DEF Activates, Shown, Controller
  <2>2. tab'[t].overtaken = tab[t].overtaken
    BY <1>1, <1>7, FieldKept DEF Activates, Shown
  <2>3. Fits(t, s) => SeesOne(t)' /\ Fits(t, s)'
    BY <1>5, <1>7, <2>1 DEF Activates, SeesOne, Fits, Opening, OpenWaits, Named, StillNamed
  <2>4. flow[t][s].at \in OpenWaits
    BY <1>7 DEF Opening, OpenWaits
  <2> QED BY <1>7, <2>2, <2>3, <2>4, GoingFits
<1>8. CASE IndexRead(t, s)
  <2>1. flow[t][s].at = "index" /\ flow[t][s].at \in OpenWaits
    BY <1>8 DEF IndexRead, At, Opening, OpenWaits
  <2>2. CASE Activates(t, s, flow[t][s].dir)
    BY <1>7, <1>8, <2>1, <2>2, IndexReadShape
  <2>3. CASE Shown(tab'[t], tab[t]) /\ tab'[t].state = "error" /\ flow'[t][s].at = "none"
    BY <1>8, <2>3, IndexReadShape, QuietFits DEF Shown, Opening
  <2>4. CASE /\ Shown(tab'[t], tab[t]) /\ tab'[t].state = "scanning"
             /\ flow'[t][s].at = "scan" /\ flow'[t][s].dir = tab[t].folder
             /\ flow'[t][s].id = flow[t][s].id
    <3>1. Fits(t, s) => SeesOne(t)' /\ (~Beside(t, s)' => Fits(t, s)')
      BY <1>5, <2>1, <2>4 DEF Shown, SeesOne, Fits, Opening, OpenWaits, Named, StillNamed
    <3> QED BY <1>8, <2>1, <2>4, <3>1, IndexReadShape, GoingFits DEF Shown
  <2> QED BY <1>8, <2>2, <2>3, <2>4, IndexReadShape
<1>9. CASE ScanEnds(t, s)
  BY <1>7, <1>9, ScanEndsShape DEF At
<1>10. CASE RescanEnds(t, s)
  <2>1. /\ tab'[t].journal = tab[t].journal /\ tab'[t].folder = tab[t].folder
        /\ tab'[t].record = tab[t].record /\ tab'[t].index = flow[t][s].dir
        /\ flow'[t][s].at = "none"
    BY <1>1, <1>10, RescanEndsShape DEF Activates, Shown, Controller
  <2>2. tab'[t].overtaken = tab[t].overtaken
    BY <1>1, <1>10, RescanEndsShape, FieldKept DEF Activates, Shown
  <2>3. ~tab[t].overtaken => flow[t][s].dir = tab[t].folder
    BY <1>10 DEF RescanEnds, At, OpenFits, Fits
  <2> QED BY <1>10, <2>1, <2>2, <2>3, RescanEndsShape, QuietFits DEF Opening
<1>11. CASE StepFails(t, s)
  BY <1>11, StepFailsShape, QuietFits DEF Opening, Same, Shown
<1> QED BY <1>2, <1>3, <1>4, <1>6, <1>8, <1>9, <1>10, <1>11 DEF OpenStep

LEMMA OtherStepFits ==
  ASSUME Types, TypeOK, OpenFits, NamesStay, NEW t \in Tabs, NEW s \in Slots, OtherStep(t, s)
  PROVE  OpenFits'
<1>1. CASE PickCancelled(t, s)
  BY <1>1, PickCancelledShape, QuietFits DEF Opening, Same, Shown
<1>2. CASE PickDiffers(t, s)
  BY <1>2, PickDiffersShape, QuietFits DEF Opening, Same, Shown
<1>3. CASE PickLooksLikeCopy(t, s)
  BY <1>3, PickLooksLikeCopyShape, QuietFits DEF Opening, Same, Shown
<1>4. CASE PickAccepted(t, s)
  BY <1>4, PickAcceptedShape, OpensFits
<1>5. CASE SwitchRecords(t, s)
  BY <1>5, SwitchRecordsShape, QuietFits DEF Opening, GoesOn
<1>6. CASE SwitchOpens(t, s)
  BY <1>6, SwitchOpensShape, OpensFits
<1>7. CASE ConnectInitialises(t, s)
  <2>1. flow[t][s].dir \in Dirs
    BY <1>7 DEF ConnectInitialises, Types
  <2> QED BY <1>7, <2>1, ConnectInitialisesShape, QuietFits DEF Opening
<1>8. CASE ConnectRecords(t, s)
  BY <1>8, ConnectRecordsShape, QuietFits DEF Opening, GoesOn
<1>9. CASE ConnectOpens(t, s)
  BY <1>9, ConnectOpensShape, OpensFits
<1>10. CASE DisconnectDropsKey(t, s)
  BY <1>10, DropsKeyShape, QuietFits DEF Opening
<1>11. CASE DisconnectLeaves(t, s)
  <2>1. SeesOne(t)' /\ Fits(t, s)'
    BY <1>11, LeavesShape DEF SeesOne, Fits, Opening, OpenWaits
  <2> QED BY <1>11, <2>1, LeavesShape, AloneFits
<1> QED BY <1>1, <1>2, <1>3, <1>4, <1>5, <1>6, <1>7, <1>8, <1>9, <1>10, <1>11 DEF OtherStep

\* A message or a write that changes the state leaves the folder alone.
LEMMA StateFits ==
  ASSUME OpenFits, NamesStay, NEW t \in Tabs, UNCHANGED flow,
         \A u \in Tabs \ {t} : tab'[u] = tab[u],
         Shown(tab'[t], tab[t]), tab'[t] = tab[t] \/ tab'[t].state # "active"
  PROVE  OpenFits'
<1>1. ASSUME NEW u \in Tabs, tab'[u] = tab[u], ~tab'[u].overtaken
      PROVE  SeesOne(u)' /\ \A q \in Slots : Fits(u, q)'
  BY <1>1, OthersFit
<1>2. ASSUME tab'[t].state # "active", ~tab'[t].overtaken
      PROVE  SeesOne(t)' /\ \A q \in Slots : Fits(t, q)'
  <2>1. \A q \in Slots : Fits(t, q)
    BY <1>2 DEF OpenFits, Shown
  <2>2. ASSUME NEW q \in Slots PROVE Fits(t, q)'
    <3>1. Named(flow[t][q].dir, flow[t][q].id) => StillNamed(flow[t][q].dir, flow[t][q].id)
      BY NamedStays
    <3>2. Beside(t, q)' = Beside(t, q)
      BY DEF Beside
    <3> QED BY <1>2, <2>1, <3>1, <3>2 DEF Fits, Shown, Named, StillNamed
  <2> QED BY <1>2, <2>2 DEF SeesOne
<1> QED BY <1>1, <1>2 DEF OpenFits

LEMMA ReloadFits ==
  ASSUME Types, TypeOK, OpenFits, NamesStay, NEW t \in Tabs, Reload(t)
  PROVE  OpenFits'
<1>1. PICK wins \in BOOLEAN :
           /\ tab' = [tab EXCEPT ![t] = decideStorageMode(key, wins)]
           /\ flow' = [flow EXCEPT ![t] = Startup(decideStorageMode(key, wins))]
  BY ReloadShape
<1> DEFINE c == decideStorageMode(key, wins)
<1>2. key \in Ids \cup {NoId}
  BY DEF TypeOK
<1>3. /\ c \in Controller /\ c.state # "active"
      /\ \A s \in Slots : Startup(c)[s].at \in {"none", "load"}
      /\ \A s \in Slots : Startup(c)[s].at = "load" =>
           \A q \in Slots : Startup(c)[q].at = "load" => q = s
  BY <1>2, StartupShape
<1>4. tab' = [tab EXCEPT ![t] = c] /\ flow' = [flow EXCEPT ![t] = Startup(c)]
  BY <1>1
<1> HIDE DEF c
<1>5. /\ tab'[t] = c /\ flow'[t] = Startup(c)
      /\ \A u \in Tabs \ {t} : tab'[u] = tab[u] /\ flow'[u] = flow[u]
  BY <1>4 DEF TypeOK
<1>6. SeesOne(t)' /\ \A s \in Slots : Fits(t, s)'
  BY <1>3, <1>5 DEF SeesOne, Fits, Beside, Opening, OpenWaits
<1> QED BY <1>5, <1>6, OthersFit DEF OpenFits

LEMMA InitFits == Init => OpenFits
<1> SUFFICES ASSUME Init, NEW t \in Tabs
             PROVE  SeesOne(t) /\ \A s \in Slots : Fits(t, s)
  BY DEF OpenFits
<1>1. key \in Ids \cup {NoId}
  BY ControllerAssumption DEF Init
<1>2. PICK wins \in BOOLEAN : tab[t] = decideStorageMode(key, wins)
  BY DEF Init
<1> DEFINE c == decideStorageMode(key, wins)
<1>3. /\ c \in Controller /\ c.state # "active"
      /\ \A s \in Slots : Startup(c)[s].at \in {"none", "load"}
      /\ \A s \in Slots : Startup(c)[s].at = "load" =>
           \A q \in Slots : Startup(c)[q].at = "load" => q = s
  BY <1>1, StartupShape
<1>4. tab[t] = c /\ flow[t] = Startup(c)
  BY <1>2 DEF Init
<1> HIDE DEF c
<1> QED BY <1>3, <1>4 DEF SeesOne, Fits, Beside, Opening, OpenWaits

LEMMA NextFits ==
  ASSUME Types, OpenFits, [Next]_vars
  PROVE  OpenFits'
<1>1. TypeOK /\ NamesStay
  BY NextNamesStay DEF Types
<1>2. ASSUME NEW t \in Tabs, UserCommand(t) PROVE OpenFits'
  BY <1>1, <1>2, CommandsFit, ReloadFits DEF UserCommand
<1>3. ASSUME NEW t \in Tabs, FlowStep(t) PROVE OpenFits'
  BY <1>1, <1>3, OpenStepFits, OtherStepFits DEF FlowStep
<1>4. ASSUME NEW t \in Tabs, OnMessage(t) PROVE OpenFits'
  <2>1. UNCHANGED flow
    BY <1>4 DEF OnMessage
  <2> QED BY <1>1, <1>4, <2>1, OnMessageShape, StateFits
<1>5. ASSUME NEW t \in Tabs, WriteStep(t) PROVE OpenFits'
  <2>1. UNCHANGED flow
    BY <1>5 DEF WriteStep, WriteWaits, WriteGranted, WriteStarts, WriteEnds
  <2> QED BY <1>1, <1>5, <2>1, WriteShape, StateFits
<1>6. CASE UNCHANGED vars
  BY <1>1, <1>6, OthersFit DEF vars, OpenFits
<1> QED BY <1>2, <1>3, <1>4, <1>5, <1>6 DEF Next

LEMMA FitsHold == Spec => []OpenFits
<1>1. Types /\ OpenFits /\ [Next]_vars => OpenFits'
  BY NextFits
<1> QED BY <1>1, InitFits, TypesHold, PTL DEF Spec

\* A tab never answers from the journal or the index of another folder than the
\* one it shows, whatever the tabs open, choose, switch to, connect, disconnect
\* and hear of each other, beside whatever calls, unless its last open began
\* beside another call that opened or scanned.
THEOREM OneFolder == Spec => []OneFolderBehindTab
<1>1. OpenFits => OneFolderBehindTab
  BY DEF OpenFits, SeesOne, OneFolderBehindTab
<1> QED BY <1>1, FitsHold, PTL

-----------------------------------------------------------------------------
(* Writers exclude each other *)

\* A request waits for the lock named by the id of the folder that was open when
\* it came, and two tabs do not hold one lock.
Holds(w) == w.at \in {"held", "writing"}

LocksFit ==
    /\ \A t \in Tabs : write[t].at # "none" => Named(write[t].from, write[t].lock)
    /\ \A t \in Tabs : write[t].at = "writing" => write[t].dir \in Dirs
    /\ \A t, u \in Tabs : t # u /\ Holds(write[t]) /\ Holds(write[u]) =>
         write[t].lock # write[u].lock

LEMMA LocksAfter ==
  ASSUME TypeOK, LocksFit, NamesStay, NEW t \in Tabs, NEW w,
         write' = [write EXCEPT ![t] = w],
         w.at # "none" => Named(w.from, w.lock),
         w.at = "writing" => w.dir \in Dirs,
         Holds(w) => \A u \in Tabs \ {t} : Holds(write[u]) => write[u].lock # w.lock
  PROVE  LocksFit'
<1>1. write'[t] = w /\ \A u \in Tabs \ {t} : write'[u] = write[u]
  BY DEF TypeOK
<1>2. ASSUME NEW u \in Tabs, write'[u].at # "none"
      PROVE  StillNamed(write'[u].from, write'[u].lock)
  <2>1. Named(write'[u].from, write'[u].lock)
    <3>1. CASE u = t
      BY <1>1, <1>2, <3>1 DEF Named
    <3>2. CASE u # t
      BY <1>1, <1>2, <3>2 DEF LocksFit, Named
    <3> QED BY <3>1, <3>2
  <2> QED BY <2>1, NamedStays
<1>3. \A u, v \in Tabs : u # v /\ Holds(write'[u]) /\ Holds(write'[v]) =>
         write'[u].lock # write'[v].lock
  BY <1>1 DEF LocksFit
<1>4. \A u \in Tabs : write'[u].at = "writing" => write'[u].dir \in Dirs
  BY <1>1 DEF LocksFit
<1> QED BY <1>2, <1>3, <1>4 DEF LocksFit, Holds, Named, StillNamed

LEMMA WriteLocks ==
  ASSUME TypeOK, OpenFits, LocksFit, NamesStay, NEW t \in Tabs, WriteStep(t)
  PROVE  LocksFit'
<1>1. CASE WriteWaits(t)
  <2> DEFINE from == IF tab[t].overtaken THEN NoDir ELSE tab[t].journal
             w == [at |-> "waiting", lock |-> tab[t].record, from |-> from, dir |-> NoDir]
  <2>1. w.at = "waiting" /\ w.lock = tab[t].record /\ w.from = from
    OBVIOUS
  <2>2. write' = [write EXCEPT ![t] = w]
    BY <1>1 DEF WriteWaits
  <2> HIDE DEF w
  <2>3. Named(from, tab[t].record)
    <3>1. CASE tab[t].overtaken
      BY <3>1, ControllerAssumption DEF Named
    <3>2. CASE ~tab[t].overtaken
      <4>1. SeesOne(t) /\ tab[t].mode = "folder" /\ tab[t].state = "active"
        BY <1>1, <3>2 DEF WriteWaits, OpenFits
      <4> QED BY <3>2, <4>1 DEF SeesOne
    <3> QED BY <3>1, <3>2
  <2> HIDE DEF from
  <2> QED BY <2>1, <2>2, <2>3, LocksAfter DEF Holds
<1>2. ASSUME NEW w, write' = [write EXCEPT ![t] = w], w.lock = write[t].lock,
             w.from = write[t].from, write[t].at # "none",
             Holds(w) /\ ~Holds(write[t]) => Unlocked(w.lock),
             w.at = "writing" => w.dir \in Dirs
      PROVE  LocksFit'
  <2>1. Named(w.from, w.lock)
    BY <1>2 DEF LocksFit
  <2>2. ASSUME Holds(w), NEW u \in Tabs \ {t}, Holds(write[u])
        PROVE  write[u].lock # w.lock
    BY <1>2, <2>2 DEF LocksFit, Unlocked, Holds
  <2> QED BY <1>2, <2>1, <2>2, LocksAfter
<1>3. write[t] \in Write
  BY DEF TypeOK
<1>4. CASE WriteGranted(t)
  <2> DEFINE w == [write[t] EXCEPT !.at = "held"]
  <2>1. w.lock = write[t].lock /\ w.from = write[t].from /\ w.at = "held"
    BY <1>3 DEF Write
  <2>2. write' = [write EXCEPT ![t] = w] /\ write[t].at = "waiting" /\ Unlocked(write[t].lock)
    BY <1>4 DEF WriteGranted
  <2> HIDE DEF w
  <2> QED BY <1>2, <2>1, <2>2
<1>5. CASE WriteStarts(t)
  <2> DEFINE w == [write[t] EXCEPT !.at = "writing", !.dir = tab[t].journal]
  <2>1. w.lock = write[t].lock /\ w.from = write[t].from /\ w.dir = tab[t].journal
    BY <1>3 DEF Write
  <2>2. /\ write' = [write EXCEPT ![t] = w] /\ write[t].at = "held"
        /\ tab[t].journal \in Dirs
    BY <1>5, FlowTyped DEF WriteStarts, TypeOK, Controller
  <2> HIDE DEF w
  <2> QED BY <1>2, <2>1, <2>2 DEF Holds
<1>6. CASE WriteEnds(t)
  <2>1. write' = [write EXCEPT ![t] = NoWrite] /\ NoWrite.at = "none"
    BY <1>6 DEF WriteEnds, NoWrite
  <2> QED BY <2>1, LocksAfter DEF Holds
<1> QED BY <1>1, <1>4, <1>5, <1>6 DEF WriteStep

LEMMA NextLocks ==
  ASSUME Types, OpenFits, LocksFit, [Next]_vars
  PROVE  LocksFit'
<1>1. TypeOK /\ NamesStay
  BY NextNamesStay DEF Types
<1>2. CASE UNCHANGED write
  <2>1. \A t \in Tabs : write[t].at # "none" => StillNamed(write[t].from, write[t].lock)
    BY <1>1, NamedStays DEF LocksFit
  <2> QED BY <1>2, <2>1 DEF LocksFit, Holds, Named, StillNamed
<1>3. ASSUME NEW t \in Tabs, Reload(t) PROVE LocksFit'
  <2>1. write' = [write EXCEPT ![t] = NoWrite] /\ NoWrite.at = "none"
    BY <1>3 DEF Reload, NoWrite
  <2> QED BY <1>1, <2>1, LocksAfter DEF Holds
<1>4. ASSUME NEW t \in Tabs, UserCommand(t) PROVE LocksFit'
  BY <1>2, <1>3, <1>4 DEF UserCommand, Connect, Disconnect, Reconnect, ChooseAgain, UseConnected,
       Switch, TreatAsMoved, GiveOwnIdentity, SetRemember, Rescan
<1>5. ASSUME NEW t \in Tabs, NEW s \in Slots, OpenStep(t, s) PROVE UNCHANGED write
  BY <1>5 DEF OpenStep, OpenLoads, OpenQueries, RequestGranted, ManifestRead, RollForwardEnds,
       IndexRead, ScanEnds, RescanEnds, StepFails
<1>6. ASSUME NEW t \in Tabs, NEW s \in Slots, OtherStep(t, s) PROVE UNCHANGED write
  BY <1>6 DEF OtherStep, PickCancelled, PickDiffers, PickAccepted, PickLooksLikeCopy,
       SwitchRecords, SwitchOpens, ConnectInitialises, ConnectRecords, ConnectOpens,
       DisconnectDropsKey, DisconnectLeaves
<1>7. ASSUME NEW t \in Tabs, OnMessage(t) PROVE UNCHANGED write
  BY <1>7 DEF OnMessage
<1>8. UNCHANGED vars => UNCHANGED write
  BY DEF vars
<1> QED BY <1>1, <1>2, <1>4, <1>5, <1>6, <1>7, <1>8, WriteLocks DEF Next, FlowStep

LEMMA LocksHold == Spec => []LocksFit
<1>1. Init => LocksFit
  BY DEF Init, NoWrite, LocksFit, Holds
<1>2. Types /\ OpenFits /\ LocksFit /\ [Next]_vars => LocksFit'
  BY NextLocks
<1> QED BY <1>1, <1>2, TypesHold, FitsHold, PTL DEF Spec

\* Two tabs write one folder at the same time only when its id was replaced, or
\* one of them was overtaken, connected or switched since its request came;
\* copies, moved folders and folders connected for the first time included.
THEOREM WritersExclude == Spec => []StayingWritersExclude
<1>1. LocksFit => StayingWritersExclude
  <2> SUFFICES ASSUME LocksFit, NEW t \in Tabs, NEW u \in Tabs, t # u,
                      write[t].at = "writing", write[u].at = "writing",
                      write[t].dir = write[t].from, write[u].dir = write[u].from,
                      write[t].dir = write[u].dir, write[t].dir \notin renamed
               PROVE  FALSE
    BY DEF StayingWritersExclude
  <2>1. /\ write[t].dir \in Dirs
        /\ Named(write[t].from, write[t].lock) /\ Named(write[u].from, write[u].lock)
    BY DEF LocksFit
  <2>2. manifest[write[t].dir] = write[t].lock /\ manifest[write[t].dir] = write[u].lock
    BY <2>1 DEF Named
  <2>3. write[t].lock # write[u].lock
    BY DEF LocksFit, Holds
  <2> QED BY <2>2, <2>3
<1> QED BY <1>1, LocksHold, PTL
=============================================================================
