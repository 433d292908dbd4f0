------------------------- MODULE FolderController -------------------------
(***************************************************************************)
(* The folder controllers of several tabs of one browser: how a tab        *)
(* connects, opens, chooses again, switches and disconnects a folder, what *)
(* it tells the other tabs, and which folder and which lock a write        *)
(* request of the tab ends up with.                                        *)
(*                                                                         *)
(* Every method of the controller is asynchronous.  A call in progress is  *)
(* a flow: where it waits, and what it captured before it waited.  Between *)
(* two steps of a flow the tab handles messages, requests and the user's   *)
(* next command, and a flow that resumes reads the controller's fields as  *)
(* they are then.                                                          *)
(***************************************************************************)
EXTENDS Naturals, Sequences, FiniteSets

CONSTANTS
    Tabs,         \* tabs of the browser, each with a controller of its own
    Dirs,         \* directories the user can pick
    Ids,          \* folder ids
    Manifests,    \* what the manifests of the directories may hold at the start
    NoDir, NoId,  \* no directory, no folder id
    Slots,        \* places for the flows of a tab: bounds how many overlap
    MaxCommands   \* bound on the commands the user gives

ASSUME ControllerAssumption ==
    /\ NoDir \notin Dirs /\ NoId \notin Ids
    /\ Manifests \subseteq [Dirs -> Ids \cup {NoId}]
    /\ Slots # {} /\ MaxCommands \in Nat

VARIABLES
    tab,       \* the controller of each tab
    flow,      \* its calls in progress
    write,     \* its write request
    key,       \* the shared storage-mode record: the connected folder's id
    handles,   \* the remembered handle of each id
    manifest,  \* the id in the manifest.json of each directory
    inbox,     \* change-channel messages each tab has yet to receive
    used,      \* the ids made so far: a new id is never one of these
    renamed,   \* directories whose id replaced another (history, not in the code)
    commands   \* how many commands the user has given

vars == <<tab, flow, write, key, handles, manifest, inbox, used, renamed, commands>>

-----------------------------------------------------------------------------
(* The controller and its calls *)

States == {"opening", "needsPick", "needsPermission", "scanning", "active",
           "error", "disconnected"}

\* Where a flow waits.
Waits == {"none",
          "load", "query",                        \* open
          "manifest", "roll", "index", "scan",    \* _openGranted
          "rescan",
          "request",                              \* reconnect, useConnectedFolder
          "picker",                               \* chooseAgain
          "init", "record", "joined",             \* connectPicked
          "switchKey", "switched",                \* switchToPicked
          "dropKey", "leave"}                     \* disconnect

Controller == [mode: {"folder", "browserOrCloud"}, state: States,
               record: Ids \cup {NoId}, folder: Dirs \cup {NoDir},
               journal: Dirs \cup {NoDir}, index: Dirs \cup {NoDir},
               reason: {"none", "thisTab", "otherTab", "switchedElsewhere"},
               enter: BOOLEAN,            \* _enterFolderOnActive
               pending: Dirs \cup {NoDir}, pendingId: Ids \cup {NoId},
               picked: Dirs \cup {NoDir},
               overtaken: BOOLEAN]        \* history, see Beside

\* old: the record switchToPicked replaces.  use: useConnectedFolder called.
Flow == [at: Waits, dir: Dirs \cup {NoDir}, id: Ids \cup {NoId},
         old: Ids \cup {NoId}, use: BOOLEAN]
NoFlow == [at |-> "none", dir |-> NoDir, id |-> NoId, old |-> NoId, use |-> FALSE]

\* from: the journal of when the request came, unless the tab was overtaken
\* then (history, not in the code).
Write == [at: {"none", "waiting", "held", "writing"}, lock: Ids \cup {NoId},
          from: Dirs \cup {NoDir}, dir: Dirs \cup {NoDir}]
NoWrite == [at |-> "none", lock |-> NoId, from |-> NoDir, dir |-> NoDir]

Message == [op: {"connect", "switch", "disconnect"}, id: Ids \cup {NoId}]

\* What a page that loads finds: the shared record decides the mode, except
\* that a saved cloud session (wins) takes precedence.
decideStorageMode(id, wins) ==
    [mode |-> IF id # NoId /\ ~wins THEN "folder" ELSE "browserOrCloud",
     state |-> IF id # NoId /\ ~wins THEN "opening" ELSE "disconnected",
     record |-> id, folder |-> NoDir, journal |-> NoDir, index |-> NoDir,
     reason |-> "none", enter |-> FALSE, pending |-> NoDir, pendingId |-> NoId,
     picked |-> NoDir, overtaken |-> FALSE]

\* The flows of a page that loads: in folder mode startup calls open.
Startup(c) ==
    [s \in Slots |-> IF c.mode = "folder" /\ s = (CHOOSE x \in Slots : TRUE)
                     THEN [NoFlow EXCEPT !.at = "load", !.id = c.record]
                     ELSE NoFlow]

\* The controller once _setState(state) has run.
Enters(c, state) ==
    IF state = "active" /\ c.enter
    THEN [c EXCEPT !.state = state, !.enter = FALSE, !.mode = "folder", !.reason = "none"]
    ELSE [c EXCEPT !.state = state]

\* The states reportFolderError may choose: access revoked, or anything else.
FailedStates == {"needsPermission", "error"}

\* The waits of an open or a rescan.
Opening == {"load", "query", "manifest", "roll", "index", "scan", "rescan"}

\* Another call of tab t is opening or scanning a folder.  overtaken remembers
\* that the last open of the tab began beside such a call, or that the tab
\* left its folder, or was to enter folder mode, beside one.
Beside(t, s) == \E r \in Slots \ {s} : flow[t][r].at \in Opening

At(t, s, wait) == flow[t][s].at = wait
Goes(t, s, f) == flow' = [flow EXCEPT ![t][s] = f]
Becomes(t, c) == tab' = [tab EXCEPT ![t] = c]

\* The call ends; useConnectedFolder then gives up entering folder mode.
Ends(t, s, c) ==
    /\ Becomes(t, IF flow[t][s].use THEN [c EXCEPT !.enter = FALSE] ELSE c)
    /\ Goes(t, s, NoFlow)

\* The call of slot s, so far f, calls _openGranted, which captures the folder
\* and the record the controller c has.
OpenGranted(t, s, f, c) ==
    /\ Becomes(t, [c EXCEPT !.overtaken = Beside(t, s) \/ (@ /\ c.state = "active")])
    /\ Goes(t, s, [f EXCEPT !.at = "manifest", !.dir = c.folder, !.id = c.record])

\* A message reaches every other tab.
Post(t, op, id) ==
    inbox' = [u \in Tabs |-> IF u = t THEN inbox[u]
                             ELSE Append(inbox[u], [op |-> op, id |-> id])]

shared == <<key, handles, manifest, inbox, used, renamed>>

-----------------------------------------------------------------------------
(* Commands of the user *)

\* A command in tab t starts a flow in slot s, if the bounds leave room.  The
\* buttons of a view are off while a call of that view runs, but not those of
\* the view that takes its place, nor of the same view built anew: a command
\* may come beside any call.
Command(t, s) ==
    /\ commands < MaxCommands
    /\ At(t, s, "none")
    /\ commands' = commands + 1

\* The page of a tab is loaded again; wins: the app holds a cloud session.
Reload(t) ==
    /\ commands < MaxCommands
    /\ commands' = commands + 1
    /\ \E wins \in BOOLEAN :
         LET c == decideStorageMode(key, wins)
         IN Becomes(t, c) /\ flow' = [flow EXCEPT ![t] = Startup(c)]
    /\ write' = [write EXCEPT ![t] = NoWrite]
    /\ inbox' = [inbox EXCEPT ![t] = <<>>]
    /\ UNCHANGED <<key, handles, manifest, used, renamed>>

\* The sign-in option connects a folder the user picks and inspects; the
\* manifest is read here, and not again before the folder is initialised.
Connect(t, s) ==
    /\ tab[t].mode = "browserOrCloud"
    /\ tab[t].record = NoId \/ tab[t].reason = "thisTab"
    /\ Command(t, s)
    /\ \E d \in Dirs : Goes(t, s, [NoFlow EXCEPT !.at = "init", !.dir = d, !.id = manifest[d]])
    /\ UNCHANGED <<tab, write, shared>>

\* The status card or the reconnect view disconnects, in any state.
Disconnect(t, s) ==
    /\ tab[t].mode = "folder"
    /\ Command(t, s)
    /\ Becomes(t, [Enters(tab[t], "disconnected") EXCEPT !.reason = "thisTab"])
    /\ Goes(t, s, [NoFlow EXCEPT !.at = "dropKey", !.id = tab[t].record])
    /\ UNCHANGED <<write, shared>>

\* Reconnect asks the browser for permission on the folder in page memory.
Reconnect(t, s) ==
    /\ tab[t].mode = "folder" /\ tab[t].state = "needsPermission" /\ tab[t].folder # NoDir
    /\ Command(t, s)
    /\ Goes(t, s, [NoFlow EXCEPT !.at = "request"])
    /\ UNCHANGED <<tab, write, shared>>

\* Choose again opens the picker and captures the record.
ChooseAgain(t, s) ==
    /\ tab[t].mode = "folder" /\ tab[t].state \in {"needsPick", "error"}
    /\ Command(t, s)
    /\ Goes(t, s, [NoFlow EXCEPT !.at = "picker", !.id = tab[t].record])
    /\ UNCHANGED <<tab, write, shared>>

\* "Use the connected folder": Reconnect with a preloaded handle, else
\* Choose again; the mode becomes folder when the folder becomes active.
UseConnected(t, s) ==
    LET c == tab[t]
        entering == [c EXCEPT !.enter = TRUE, !.overtaken = @ \/ Beside(t, s)]
        preloaded == [entering EXCEPT !.folder = IF @ = NoDir THEN handles[c.record] ELSE @]
    IN /\ c.mode = "browserOrCloud" /\ c.record # NoId /\ c.reason # "thisTab"
       /\ Command(t, s)
       /\ \/ /\ preloaded.folder # NoDir
             /\ Becomes(t, preloaded)
             /\ Goes(t, s, [NoFlow EXCEPT !.at = "request", !.use = TRUE])
          \/ /\ c.folder = NoDir
             /\ Becomes(t, entering)
             /\ Goes(t, s, [NoFlow EXCEPT !.at = "picker", !.id = c.record, !.use = TRUE])
       /\ UNCHANGED <<write, shared>>

\* "Switch to this folder" after a refusal that allows it.
Switch(t, s) ==
    /\ tab[t].pending # NoDir /\ tab[t].record # NoId
    /\ Command(t, s)
    /\ Becomes(t, [tab[t] EXCEPT !.pending = NoDir, !.pendingId = NoId])
    /\ Goes(t, s, [NoFlow EXCEPT !.at = "switchKey", !.dir = tab[t].pending,
                                !.id = tab[t].pendingId, !.old = tab[t].record])
    /\ UNCHANGED <<write, shared>>

\* The controller and the flow once _accept has taken the picked folder.
Accepted(c, d) == [Enters(c, "opening") EXCEPT !.picked = NoDir, !.folder = d]

\* "It is the same folder, moved", or a check that found it moved.
TreatAsMoved(t, s) ==
    LET c == Accepted(tab[t], tab[t].picked)
    IN /\ tab[t].picked # NoDir /\ tab[t].record # NoId
       /\ Command(t, s)
       /\ OpenGranted(t, s, NoFlow, c)
       /\ \/ handles' = [handles EXCEPT ![c.record] = c.folder]
          \/ UNCHANGED handles                          \* not remembered
       /\ UNCHANGED <<write, key, manifest, inbox, used, renamed>>

\* The exclusive lock of id is free.
Unlocked(id) == \A u \in Tabs : write[u].lock = id => write[u].at \notin {"held", "writing"}

\* "Give it its own identity": a new id in the picked copy's manifest, under
\* the lock of the id both share.
GiveOwnIdentity(t, s) ==
    /\ tab[t].picked # NoDir /\ Unlocked(tab[t].record)
    /\ Command(t, s)
    /\ \E id \in Ids \ used :
         /\ manifest' = [manifest EXCEPT ![tab[t].picked] =
                             IF @ = NoId THEN NoId ELSE id]
         /\ used' = used \cup {id}
         /\ Becomes(t, [tab[t] EXCEPT !.pending = tab[t].picked, !.pendingId = id])
    /\ renamed' = renamed \cup {tab[t].picked}
    /\ UNCHANGED <<flow, write, key, handles, inbox>>

\* The "Remember this folder" choice writes this tab's record again.
SetRemember(t, s) ==
    /\ tab[t].record # NoId
    /\ Command(t, s)
    /\ key' = tab[t].record
    /\ \/ handles' = [handles EXCEPT ![key'] = NoDir]
       \/ tab[t].folder # NoDir /\ handles' = [handles EXCEPT ![key'] = tab[t].folder]
    /\ UNCHANGED <<tab, flow, write, manifest, inbox, used, renamed>>

\* Rescan of the open folder, from the card or after startup.
Rescan(t, s) ==
    /\ tab[t].mode = "folder" /\ tab[t].state = "active"
    /\ tab[t].journal # NoDir /\ tab[t].folder # NoDir
    /\ Command(t, s)
    /\ Goes(t, s, [NoFlow EXCEPT !.at = "rescan", !.dir = tab[t].folder])
    /\ UNCHANGED <<tab, write, shared>>

UserCommand(t) ==
    \/ Reload(t)
    \/ \E s \in Slots :
         \/ Connect(t, s) \/ Disconnect(t, s) \/ Reconnect(t, s) \/ ChooseAgain(t, s)
         \/ UseConnected(t, s) \/ Switch(t, s) \/ TreatAsMoved(t, s)
         \/ GiveOwnIdentity(t, s) \/ SetRemember(t, s) \/ Rescan(t, s)

-----------------------------------------------------------------------------
(* open and _openGranted *)

\* A step of flow s of tab t fails: reportFolderError or _fail, and the call
\* ends.  useConnectedFolder leaves the state when permission is refused.
StepFails(t, s) ==
    /\ flow[t][s].at \in (Opening \ {"load"}) \cup {"request"}
    /\ \/ \E state \in FailedStates : Ends(t, s, Enters(tab[t], state))
       \/ At(t, s, "request") /\ flow[t][s].use /\ Ends(t, s, tab[t])
    /\ UNCHANGED <<write, shared, commands>>

\* Mutant of OpenLoads: the call ends without needsPick.
OpenLoadsSilently(t, s) ==
    LET d == handles[flow[t][s].id]
    IN /\ At(t, s, "load")
       /\ \/ Ends(t, s, tab[t])
          \/ /\ d # NoDir
             /\ Becomes(t, [tab[t] EXCEPT !.folder = d])
             /\ Goes(t, s, [flow[t][s] EXCEPT !.at = "query"])
       /\ UNCHANGED <<write, shared, commands>>

\* The remembered handle is loaded, or there is none (any more).
OpenLoads(t, s) ==
    LET d == handles[flow[t][s].id]
    IN /\ At(t, s, "load")
       /\ \/ Ends(t, s, Enters(tab[t], "needsPick"))
          \/ /\ d # NoDir
             /\ Becomes(t, [tab[t] EXCEPT !.folder = d])
             /\ Goes(t, s, [flow[t][s] EXCEPT !.at = "query"])
       /\ UNCHANGED <<write, shared, commands>>

\* _openGranted starts, unless the folder is gone by now.
StartsOpen(t, s, c) ==
    IF c.folder = NoDir
    THEN Ends(t, s, Enters(c, "error"))
    ELSE OpenGranted(t, s, flow[t][s], c)

\* queryPermission answers granted; other answers are a StepFails.
OpenQueries(t, s) ==
    /\ At(t, s, "query")
    /\ StartsOpen(t, s, tab[t])
    /\ UNCHANGED <<write, shared, commands>>

\* requestPermission answers granted.
RequestGranted(t, s) ==
    /\ At(t, s, "request")
    /\ StartsOpen(t, s, Enters(tab[t], "opening"))
    /\ UNCHANGED <<write, shared, commands>>

\* Mutant of ManifestRead: the journal of an earlier folder is kept.
ManifestReadKeepingJournal(t, s) ==
    LET f == flow[t][s]
        c == tab[t]
    IN /\ At(t, s, "manifest")
       /\ IF manifest[f.dir] # NoId /\ manifest[f.dir] = f.id
          THEN /\ Becomes(t, [c EXCEPT !.journal = IF @ = NoDir THEN f.dir ELSE @])
               /\ Goes(t, s, [f EXCEPT !.at = "roll"])
          ELSE Ends(t, s, Enters(c, "error"))
       /\ UNCHANGED <<write, shared, commands>>

\* The manifest is read: a folder without one, or with another id, is an
\* error; else the journal is made, and the roll-forward waits for the lock.
ManifestRead(t, s) ==
    LET f == flow[t][s]
    IN /\ At(t, s, "manifest")
       /\ IF manifest[f.dir] # NoId /\ manifest[f.dir] = f.id
          THEN /\ Becomes(t, [tab[t] EXCEPT !.journal = f.dir])
               /\ Goes(t, s, [f EXCEPT !.at = "roll"])
          ELSE Ends(t, s, Enters(tab[t], "error"))
       /\ UNCHANGED <<write, shared, commands>>

\* Rolled forward, or not (the lock wait timed out): on to index.json.
RollForwardEnds(t, s) ==
    /\ At(t, s, "roll")
    /\ Goes(t, s, [flow[t][s] EXCEPT !.at = "index"])
    /\ UNCHANGED <<tab, write, shared, commands>>

\* A stored index opens the folder; without one the scan starts, on the
\* folder the controller has by now.
IndexRead(t, s) ==
    LET f == flow[t][s]
        c == tab[t]
    IN /\ At(t, s, "index")
       /\ \/ Ends(t, s, Enters([c EXCEPT !.index = f.dir], "active"))
          \/ IF c.folder = NoDir
             THEN Ends(t, s, Enters(c, "error"))
             ELSE /\ Becomes(t, Enters(c, "scanning"))
                  /\ Goes(t, s, [f EXCEPT !.at = "scan", !.dir = c.folder])
       /\ UNCHANGED <<write, shared, commands>>

\* The scan sets the index and the folder becomes active.
ScanEnds(t, s) ==
    /\ At(t, s, "scan")
    /\ Ends(t, s, Enters([tab[t] EXCEPT !.index = flow[t][s].dir], "active"))
    /\ UNCHANGED <<write, shared, commands>>

\* A rescan sets the index and leaves the state.
RescanEnds(t, s) ==
    /\ At(t, s, "rescan")
    /\ Ends(t, s, [tab[t] EXCEPT !.index = flow[t][s].dir])
    /\ UNCHANGED <<write, shared, commands>>

-----------------------------------------------------------------------------
(* chooseAgain, switchToPicked, connectPicked, disconnect *)

\* The picker closed without a folder, or with one that has no manifest.
PickCancelled(t, s) ==
    /\ At(t, s, "picker")
    /\ Ends(t, s, tab[t])
    /\ UNCHANGED <<write, shared, commands>>

\* Another folder was picked: refused, with the offer to switch.
PickDiffers(t, s) ==
    /\ At(t, s, "picker")
    /\ \E d \in Dirs :
         /\ manifest[d] \notin {NoId, flow[t][s].id}
         /\ Becomes(t, [tab[t] EXCEPT !.pending = d, !.pendingId = manifest[d]])
    /\ Goes(t, s, NoFlow)
    /\ UNCHANGED <<write, shared, commands>>

\* The folder this tab or the browser remembers under the captured id.
Other(t, s) ==
    IF tab[t].folder # NoDir THEN tab[t].folder ELSE handles[flow[t][s].id]

\* The right id: the same folder, or one whose remembered place is gone or
\* has another id, is accepted.
PickAccepted(t, s) ==
    /\ At(t, s, "picker")
    /\ \E d \in Dirs :
         LET c == Accepted(tab[t], d)
         IN /\ manifest[d] = flow[t][s].id
            /\ Other(t, s) \notin {d, NoDir} => manifest[Other(t, s)] # flow[t][s].id
            /\ OpenGranted(t, s, flow[t][s], c)
            /\ \/ handles' = [handles EXCEPT ![c.record] = d]
               \/ UNCHANGED handles                     \* not remembered
    /\ UNCHANGED <<write, key, manifest, inbox, used, renamed, commands>>

\* The right id in another place: a copy, or perhaps one, so the user is asked.
PickLooksLikeCopy(t, s) ==
    /\ At(t, s, "picker")
    /\ \E d \in Dirs :
         /\ manifest[d] = flow[t][s].id
         /\ Other(t, s) \notin {d, NoDir}
         /\ Becomes(t, [tab[t] EXCEPT !.picked = d])
    /\ Goes(t, s, NoFlow)
    /\ UNCHANGED <<write, shared, commands>>

\* Mutant of SwitchRecords: the folder's name is stored as its id.
SwitchRecordsName(t, s) ==
    LET f == flow[t][s]
    IN /\ At(t, s, "switchKey")
       /\ key' = f.dir
       /\ Goes(t, s, [f EXCEPT !.at = "switched"])
       /\ UNCHANGED <<tab, write, handles, manifest, inbox, used, renamed, commands>>

\* The shared record of the new folder replaces the old one.
SwitchRecords(t, s) ==
    LET f == flow[t][s]
    IN /\ At(t, s, "switchKey")
       /\ key' = f.id
       /\ Goes(t, s, [f EXCEPT !.at = "switched"])
       /\ UNCHANGED <<tab, write, handles, manifest, inbox, used, renamed, commands>>

\* The handles are exchanged, the other tabs told, and the new folder opens.
SwitchOpens(t, s) ==
    LET f == flow[t][s]
        c == [Enters(tab[t], "opening") EXCEPT
                !.record = f.id, !.folder = f.dir, !.index = NoDir]
    IN /\ At(t, s, "switched")
       /\ \E d \in {f.dir, NoDir} :
            handles' = [handles EXCEPT ![f.old] = NoDir, ![f.id] = d]
       /\ Post(t, "switch", f.id)
       /\ OpenGranted(t, s, flow[t][s], c)
       /\ UNCHANGED <<write, key, manifest, used, renamed, commands>>

\* A folder without a manifest at the pick gets a new id, whatever it holds now.
ConnectInitialises(t, s) ==
    LET f == flow[t][s]
    IN /\ At(t, s, "init")
       /\ IF f.id # NoId
          THEN /\ Goes(t, s, [f EXCEPT !.at = "record"])
               /\ UNCHANGED <<manifest, used, renamed>>
          ELSE \E id \in Ids \ used :
                 /\ manifest' = [manifest EXCEPT ![f.dir] = id]
                 /\ used' = used \cup {id}
                 /\ renamed' = IF manifest[f.dir] = NoId THEN renamed ELSE renamed \cup {f.dir}
                 /\ Goes(t, s, [f EXCEPT !.at = "record", !.id = id])
       /\ UNCHANGED <<tab, write, key, handles, inbox, commands>>

\* The shared record names the connected folder.
ConnectRecords(t, s) ==
    LET f == flow[t][s]
    IN /\ At(t, s, "record")
       /\ key' = f.id
       /\ Goes(t, s, [f EXCEPT !.at = "joined"])
       /\ UNCHANGED <<tab, write, handles, manifest, inbox, used, renamed, commands>>

\* The handle is saved or forgotten, the other tabs told, and the folder opens.
ConnectOpens(t, s) ==
    LET f == flow[t][s]
        c == [Enters(tab[t], "opening") EXCEPT
                !.record = f.id, !.folder = f.dir, !.mode = "folder", !.reason = "none"]
    IN /\ At(t, s, "joined")
       /\ \E d \in {f.dir, NoDir} : handles' = [handles EXCEPT ![f.id] = d]
       /\ Post(t, "connect", f.id)
       /\ OpenGranted(t, s, flow[t][s], c)
       /\ UNCHANGED <<write, key, manifest, used, renamed, commands>>

\* The shared key goes, whatever it says now.
DisconnectDropsKey(t, s) ==
    /\ At(t, s, "dropKey")
    /\ key' = NoId
    /\ Goes(t, s, [flow[t][s] EXCEPT !.at = "leave"])
    /\ UNCHANGED <<tab, write, handles, manifest, inbox, used, renamed, commands>>

\* The handle goes, the other tabs are told, and only now the mode changes.
DisconnectLeaves(t, s) ==
    LET id == flow[t][s].id
    IN /\ At(t, s, "leave")
       /\ handles' = [i \in Ids |-> IF i = id THEN NoDir ELSE handles[i]]
       /\ Post(t, "disconnect", id)
       /\ Ends(t, s, [tab[t] EXCEPT !.mode = "browserOrCloud", !.folder = NoDir,
                                    !.journal = NoDir, !.index = NoDir,
                                    !.overtaken = Beside(t, s)])
       /\ UNCHANGED <<write, key, manifest, used, renamed, commands>>

OpenStep(t, s) ==
    \/ OpenLoads(t, s) \/ OpenQueries(t, s) \/ RequestGranted(t, s) \/ ManifestRead(t, s)
    \/ RollForwardEnds(t, s) \/ IndexRead(t, s) \/ ScanEnds(t, s) \/ RescanEnds(t, s)
    \/ StepFails(t, s)

OtherStep(t, s) ==
    \/ PickCancelled(t, s) \/ PickDiffers(t, s) \/ PickAccepted(t, s) \/ PickLooksLikeCopy(t, s)
    \/ SwitchRecords(t, s) \/ SwitchOpens(t, s)
    \/ ConnectInitialises(t, s) \/ ConnectRecords(t, s) \/ ConnectOpens(t, s)
    \/ DisconnectDropsKey(t, s) \/ DisconnectLeaves(t, s)

-----------------------------------------------------------------------------
(* Messages of other tabs *)

\* The next message: news of this tab's folder makes the tab disconnected.
OnMessage(t) ==
    LET m == Head(inbox[t])
        c == tab[t]
        told(reason) == [Enters(c, "disconnected") EXCEPT !.reason = reason]
    IN /\ inbox[t] # <<>>
       /\ inbox' = [inbox EXCEPT ![t] = Tail(@)]
       /\ \/ /\ c.mode = "folder" /\ m.op = "disconnect" /\ m.id = c.record
             /\ Becomes(t, told("otherTab"))
          \/ /\ c.mode = "folder" /\ m.op = "switch" /\ m.id # c.record
             /\ Becomes(t, told("switchedElsewhere"))
          \/ /\ ~(c.mode = "folder" /\ m.op = "disconnect" /\ m.id = c.record)
             /\ ~(c.mode = "folder" /\ m.op = "switch" /\ m.id # c.record)
             /\ UNCHANGED tab                  \* connect shows a banner at most
       /\ UNCHANGED <<flow, write, key, handles, manifest, used, renamed, commands>>

-----------------------------------------------------------------------------
(* A write request *)

\* The transport admits the request and waits for the lock named by the
\* record of now.
WriteWaits(t) ==
    /\ tab[t].mode = "folder" /\ tab[t].state = "active" /\ write[t].at = "none"
    /\ write' = [write EXCEPT ![t] = [at |-> "waiting", lock |-> tab[t].record,
                                     from |-> IF tab[t].overtaken THEN NoDir ELSE tab[t].journal,
                                     dir |-> NoDir]]
    /\ UNCHANGED <<tab, flow, shared, commands>>

\* Mutant of WriteGranted: the lock is not waited for.
WriteGrantedUnlocked(t) ==
    /\ write[t].at = "waiting"
    /\ tab[t].journal # NoDir
    /\ write' = [write EXCEPT ![t].at = "held"]
    /\ UNCHANGED <<tab, flow, shared, commands>>

\* The exclusive lock is granted, and the journal of now is rolled forward.
WriteGranted(t) ==
    /\ write[t].at = "waiting"
    /\ Unlocked(write[t].lock)
    /\ tab[t].journal # NoDir
    /\ write' = [write EXCEPT ![t].at = "held"]
    /\ UNCHANGED <<tab, flow, shared, commands>>

\* The handler commits to the journal of now.
WriteStarts(t) ==
    /\ write[t].at = "held" /\ tab[t].journal # NoDir
    /\ write' = [write EXCEPT ![t].at = "writing", ![t].dir = tab[t].journal]
    /\ UNCHANGED <<tab, flow, shared, commands>>

\* The request is answered: done, refused by a deadline, or the journal is
\* gone.  A file system error may change the state, whatever it is.
WriteEnds(t) ==
    /\ write[t].at # "none"
    /\ write' = [write EXCEPT ![t] = NoWrite]
    /\ \/ UNCHANGED tab
       \/ /\ write[t].at \in {"held", "writing"}
          /\ \E state \in FailedStates : Becomes(t, Enters(tab[t], state))
    /\ UNCHANGED <<flow, shared, commands>>

-----------------------------------------------------------------------------
Init ==
    /\ manifest \in Manifests
    /\ key \in {manifest[d] : d \in Dirs} \cup {NoId}
    /\ handles \in [Ids -> Dirs \cup {NoDir}]
    /\ \A i \in Ids : handles[i] # NoDir => i = key /\ manifest[handles[i]] = i
    /\ tab \in [Tabs -> {decideStorageMode(key, wins) : wins \in BOOLEAN}]
    /\ flow = [t \in Tabs |-> Startup(tab[t])]
    /\ write = [t \in Tabs |-> NoWrite]
    /\ inbox = [t \in Tabs |-> <<>>]
    /\ used = {manifest[d] : d \in Dirs} \ {NoId}
    /\ renamed = {}
    /\ commands = 0

FlowStep(t) == \E s \in Slots : OpenStep(t, s) \/ OtherStep(t, s)
WriteStep(t) == WriteWaits(t) \/ WriteGranted(t) \/ WriteStarts(t) \/ WriteEnds(t)

Next == \E t \in Tabs : UserCommand(t) \/ FlowStep(t) \/ OnMessage(t) \/ WriteStep(t)

Spec == Init /\ [][Next]_vars

\* An open in progress goes on: file system calls settle and lock waits are
\* bounded.  Nothing is assumed of the user, the picker or the messages.
Fairness == \A t \in Tabs, s \in Slots : WF_vars(OpenStep(t, s))

LiveSpec == Spec /\ Fairness
-----------------------------------------------------------------------------
(* Properties *)

\* Every variable has its type.
TypeOK ==
    /\ tab \in [Tabs -> Controller]
    /\ flow \in [Tabs -> [Slots -> Flow]]
    /\ write \in [Tabs -> Write]
    /\ key \in Ids \cup {NoId}
    /\ handles \in [Ids -> Dirs \cup {NoDir}]
    /\ manifest \in [Dirs -> Ids \cup {NoId}]
    /\ inbox \in [Tabs -> Seq(Message)]
    /\ used \subseteq Ids /\ renamed \subseteq Dirs /\ commands \in 0..MaxCommands

\* A tab whose folder is active answers requests from one folder: its journal
\* and its index are those of the folder it shows, whatever was opened,
\* switched, disconnected and connected before, unless its last open began
\* beside another call that opened or scanned (_openGranted and
\* FolderIndexCache.scan set what they captured when they resume).
OneFolderBehindTab ==
    \A t \in Tabs :
        tab[t].mode = "folder" /\ tab[t].state = "active" /\ ~tab[t].overtaken =>
            tab[t].journal = tab[t].folder /\ tab[t].index = tab[t].folder

\* Two tabs write one folder at the same time only when its id was replaced or
\* one of them was overtaken, connected or switched since its request came: the
\* lock is named by the record (local_folder_controller.dart:178), whatever
\* folder that record was read from, a copy, a moved or a new one.
StayingWritersExclude ==
    \A t, u \in Tabs :
        /\ t # u /\ write[t].at = "writing" /\ write[u].at = "writing"
        /\ write[t].dir = write[t].from /\ write[u].dir = write[u].from
        /\ write[t].dir = write[u].dir
        => write[t].dir \in renamed

\* A tab does not stay in opening, where every request waits: each way an open
\* can go ends in another state, even when calls overlap.
OpeningEnds ==
    \A t \in Tabs : tab[t].state = "opening" ~> tab[t].state # "opening"
=============================================================================
