-------------------------- MODULE JournalSnapshots --------------------------
(***************************************************************************)
(* Edits made outside the app, and how the journal keeps them: one note of *)
(* a local folder, its version history, and the records that write both.   *)
(*                                                                         *)
(*   local_folder/folder_journal.dart    replay, _keepExternalEdit, merges *)
(*   local_folder/folder_snapshots.dart  version ids, plan and write       *)
(*   local_folder/handlers/notes.dart    PATCH, DELETE                     *)
(*   local_folder/handlers/history_sessions.dart  save a version, restore  *)
(*   local_folder/transport.dart         commit and the sidecar stamp      *)
(*                                                                         *)
(* All steps but the edits run inside the exclusive folder lock, so one    *)
(* holder at a time is modelled; FolderJournal has the requests around it. *)
(* A text is a number: 0 at the start, o when record o writes it, -k when  *)
(* the k-th outside edit does.  A stat (size and lastModified) equals      *)
(* another exactly when the text is the same.  The history is within its   *)
(* pool caps, so nothing is pruned.                                        *)
(***************************************************************************)
EXTENDS Integers, FiniteSets

CONSTANTS MaxOps,           \* bound: records
          MaxEdits,         \* bound: edits outside the app
          MaxFaults         \* bound: crashes and failing file system calls

ASSUME BoundsAssumption == MaxOps \in Nat /\ MaxEdits \in Nat /\ MaxFaults \in Nat

VARIABLES body,             \* notes/<stem>.md
          trash,            \* trash/notes/<stem>.md
          stamp,            \* the body the sidecar's md_* fields describe
          hbody,            \* hbody[v]: history/<hex>/<v>.md
          index,            \* the entries of history/<hex>/index.json
          counter,          \* manifest.json: the last version id issued
          journal, record,  \* the records on disk, and what each writes
          work,             \* "idle", "rolling", "handling", "applying", "stamping"
          skip,             \* the holder's skipPaths
          todo,             \* records the holder has still to roll forward
          cur, left,        \* the record being applied and its files left
          snap,             \* the version id of a snapshot under way, or 0
          edits,            \* how many outside edits were made
          owed,             \* history: edits the user has not replaced himself
          late,             \* history: edits made after a record had kept one
          crowded,          \* history: two records were unfinished at once
          faults            \* how many crashes and failures happened

files == <<body, trash, stamp, hbody, index, counter>>
holder == <<work, skip, todo, cur, left, snap>>
history == <<edits, owed, late, crowded>>
vars == <<files, journal, record, holder, history, faults>>

Ops      == 1..MaxOps
Edits    == {-k : k \in 1..MaxEdits}
MaxVer   == MaxOps + MaxEdits + MaxFaults      \* bound: version ids
Versions == 1..MaxVer
None     == MaxOps + 1                         \* no such file
Texts    == (-MaxEdits)..None

MaxOf(a, b) == IF a >= b THEN a ELSE b

(* A record: the text it writes to the body (None if it does not), the body*)
(* it read (expect), whether it moves the note to the trash, and the       *)
(* version it saves with the history index and counter that go with it.    *)
Plain(text, expect) == [text |-> text, expect |-> expect, moves |-> FALSE,
                        ver |-> 0, vtext |-> None, entries |-> {}]

NoRecord == Plain(None, None)

Used == {o \in Ops : record[o] # NoRecord}

(* The files a record names. *)
Touched(o) ==
  (IF record[o].text # None THEN {"body"} ELSE {})
  \cup (IF record[o].moves THEN {"body", "trash"} ELSE {})
  \cup (IF record[o].ver # 0 THEN {"history", "manifest"} ELSE {})

PendingPaths == UNION {Touched(o) : o \in journal}

(* The files record o has to write or remove. *)
FilesOf(o) ==
  (IF record[o].text # None THEN {"body"} ELSE {})
  \cup (IF record[o].moves THEN {"trash", "remove"} ELSE {})
  \cup (IF record[o].ver # 0 THEN {"hbody", "index", "manifest"} ELSE {})

(* Mutant of Rank: the index lists the version before its text exists. *)
RankIndexFirst == [body |-> 0, trash |-> 0, index |-> 2, hbody |-> 3, manifest |-> 4, remove |-> 5]

(* _writeRank and step 4: bodies, then the history text, then the shared   *)
(* index, then the manifest, and the removal last.                         *)
Rank == [body |-> 0, trash |-> 0, hbody |-> 2, index |-> 3, manifest |-> 4, remove |-> 5]

(* f is the next of the files that are left. *)
IsNext(f) == f \in left /\ \A g \in left : Rank[f] <= Rank[g]

Init ==
  /\ body = 0 /\ trash = None /\ stamp = 0
  /\ hbody = [v \in Versions |-> None]
  /\ index = {} /\ counter = 0
  /\ journal = {} /\ record = [o \in Ops |-> NoRecord]
  /\ work = "idle" /\ skip = {} /\ todo = {} /\ cur = 0 /\ left = {} /\ snap = 0
  /\ edits = 0 /\ owed = {} /\ late = {} /\ crowded = FALSE
  /\ faults = 0

(* The hold ends: whoever held the lock keeps nothing. *)
Idle == /\ work' = "idle"
        /\ skip' = {} /\ todo' = {} /\ cur' = 0 /\ left' = {} /\ snap' = 0

-----------------------------------------------------------------------------
(* The user saves the note in another editor while no tab holds the lock.  *)
(* (An edit inside a hold races the file writes themselves; no check of    *)
(* the app's can see it.)                                                  *)
ExternalEdit ==
  /\ work = "idle"
  /\ body # None
  /\ edits < MaxEdits
  /\ edits' = edits + 1
  /\ body' = -edits'
  /\ owed' = (owed \ {body}) \cup {-edits'}
  /\ late' = IF \E e \in index : e.op \in journal THEN late \cup {-edits'} ELSE late
  /\ UNCHANGED <<trash, stamp, hbody, index, counter, journal, record, holder,
                 crowded, faults>>

(* A request takes the lock and rolls forward first (chunk). *)
RequestBegins ==
  /\ work = "idle"
  /\ work' = IF journal = {} THEN "handling" ELSE "rolling"
  /\ todo' = journal
  /\ UNCHANGED <<files, journal, record, skip, cur, left, snap, history, faults>>

(* commit: the record is written; refused when it names a pending file.    *)
Commit(o, r) ==
  /\ work = "handling"
  /\ o = Cardinality(Used) + 1
  /\ record' = [record EXCEPT ![o] = r]
  /\ Touched(o)' \cap skip = {}
  /\ journal' = journal \cup {o}
  /\ crowded' = (crowded \/ journal # {})
  /\ work' = "applying" /\ cur' = o /\ left' = FilesOf(o)'
  /\ UNCHANGED <<files, skip, todo, snap, edits, owed, late, faults>>

(* FolderSnapshotWriter.plan: the next version id of the manifest on disk, *)
(* the text to keep, and the history index with its entry.                 *)
WithVersion(text, expect) ==
  [text |-> text, expect |-> expect, moves |-> FALSE, ver |-> counter + 1, vtext |-> body,
   entries |-> index \cup {[id |-> counter + 1, op |-> 0]}]

(* PATCH: the new body, with a snapshot of the old one when the file is not*)
(* the one the sidecar describes (external_edit) or not the one this tab   *)
(* last served (concurrent_edit); restore always takes one.                *)
Patch(o) ==
  /\ body # None
  /\ \/ body = stamp /\ Commit(o, Plain(o, body))
     \/ counter < MaxVer /\ Commit(o, WithVersion(o, body))

(* POST snapshot: saves a version and leaves the body alone. *)
SaveVersion(o) ==
  /\ body # None
  /\ counter < MaxVer
  /\ Commit(o, WithVersion(None, None))

(* DELETE: the text goes to the trash and the body is removed last. *)
Delete(o) ==
  /\ body # None
  /\ Commit(o, [text |-> None, expect |-> body, moves |-> TRUE,
               ver |-> 0, vtext |-> body, entries |-> {}])

(* The handler writes nothing, or is refused. *)
HandlerEnds ==
  /\ work = "handling"
  /\ Idle
  /\ UNCHANGED <<files, journal, record, history, faults>>

-----------------------------------------------------------------------------
(* What one file of record o becomes.  A replay merges the two files it may*)
(* have changed itself: counters never go below the disk, and the history  *)
(* index keeps the entries this record's own replay saved.                 *)
Replaying == work = "rolling"

IndexText(o) ==
  LET ids == {e.id : e \in record[o].entries}
  IN  IF Replaying
      THEN record[o].entries \cup {e \in index : e.op = o /\ e.id \notin ids}
      ELSE record[o].entries

(* Mutant of CounterText: a replay puts the journaled counter back. *)
CounterTextOfRecord(o) == record[o].ver

CounterText(o) == IF Replaying THEN MaxOf(record[o].ver, counter) ELSE record[o].ver

(* Mutants of MustKeep: only writes are checked, not removals; an edit this*)
(* record has kept already is kept again.                                  *)
MustKeepForWrites(o) ==
  /\ Replaying
  /\ IsNext("body")
  /\ body \notin {None, record[o].expect, record[o].text}
  /\ \A e \in index : e.op # o

MustKeepAgain(o) ==
  /\ Replaying
  /\ \/ IsNext("body") /\ body # record[o].text
     \/ IsNext("remove")
  /\ body \notin {None, record[o].expect}

(* _keepExternalEdit: the body matches neither expect nor the journaled    *)
(* text, and this record has not kept an edit yet.                         *)
MustKeep(o) ==
  /\ Replaying
  /\ \/ IsNext("body") /\ body # record[o].text
     \/ IsNext("remove")
  /\ body \notin {None, record[o].expect}
  /\ \A e \in index : e.op # o

(* The next file is written or removed. *)
ApplyFile ==
  /\ work \in {"rolling", "applying"}
  /\ cur # 0 /\ snap = 0
  /\ ~MustKeep(cur)
  /\ \E f \in left : LET r == record[cur] IN
         /\ IsNext(f)
         /\ left' = left \ {f}
         /\ body' = IF f = "body" THEN r.text ELSE IF f = "remove" THEN None ELSE body
         /\ trash' = IF f = "trash" THEN r.vtext ELSE trash
         /\ hbody' = IF f = "hbody" THEN [hbody EXCEPT ![r.ver] = r.vtext] ELSE hbody
         /\ index' = IF f = "index" THEN IndexText(cur) ELSE index
         /\ counter' = IF f = "manifest" THEN CounterText(cur) ELSE counter
  /\ UNCHANGED <<stamp, journal, record, work, skip, todo, cur, snap, history, faults>>

(* Mutant of Floor: the ids the record itself issued are not looked at. *)
FloorOfDisk(o) == 0

(* _journaledCounters: the version ids the record itself journals. *)
Floor(o) == IF record[o].ver = 0 THEN 0
            ELSE CHOOSE m \in {e.id : e \in record[o].entries} :
                   \A e \in record[o].entries : e.id <= m

(* The external_edit snapshot of a replay (FolderSnapshotWriter.write):    *)
(* the manifest counter first, then the text, then the index entry.        *)
SnapshotCounter ==
  /\ cur # 0 /\ snap = 0
  /\ MustKeep(cur)
  /\ MaxOf(counter, Floor(cur)) < MaxVer
  /\ snap' = MaxOf(counter, Floor(cur)) + 1
  /\ counter' = snap'
  /\ UNCHANGED <<body, trash, stamp, hbody, index, journal, record,
                 work, skip, todo, cur, left, history, faults>>

SnapshotBody ==
  /\ snap # 0
  /\ hbody[snap] # body
  /\ hbody' = [hbody EXCEPT ![snap] = body]
  /\ UNCHANGED <<body, trash, stamp, index, counter, journal, record,
                 holder, history, faults>>

SnapshotEntry ==
  /\ snap # 0
  /\ hbody[snap] = body
  /\ index' = index \cup {[id |-> snap, op |-> cur]}
  /\ snap' = 0
  /\ UNCHANGED <<body, trash, stamp, hbody, counter, journal, record,
                 work, skip, todo, cur, left, history, faults>>

(* Mutant of RecordDone: the record stays in the list to roll forward. *)
RecordDoneStillListed ==
  /\ cur # 0 /\ left = {}
  /\ journal' = journal \ {cur}
  /\ cur' = 0
  /\ work' = IF Replaying THEN "rolling" ELSE "stamping"
  /\ UNCHANGED <<files, record, skip, todo, left, snap, history, faults>>

(* Every file is applied: the record is deleted.  A commit goes on to stamp*)
(* the sidecar of the body it wrote; a replay does not.                    *)
RecordDone ==
  /\ cur # 0 /\ left = {}
  /\ journal' = journal \ {cur}
  /\ todo' = todo \ {cur}
  /\ cur' = 0
  /\ work' = IF Replaying THEN "rolling" ELSE "stamping"
  /\ UNCHANGED <<files, record, skip, left, snap, history, faults>>

(* stampNoteSidecar, after the record is gone, which is the newest: the    *)
(* sidecar describes the body again if the commit wrote one.               *)
StampSidecar ==
  /\ work = "stamping"
  /\ stamp' = IF record[Cardinality(Used)].text = None THEN stamp ELSE body
  /\ Idle
  /\ UNCHANGED <<body, trash, hbody, index, counter, journal, record, history, faults>>

(* rollForward: the next record in op-id order. *)
RollNext ==
  /\ work = "rolling" /\ cur = 0 /\ todo # {}
  /\ cur' = CHOOSE o \in todo : \A q \in todo : o <= q
  /\ left' = FilesOf(cur')
  /\ UNCHANGED <<files, journal, record, work, skip, todo, snap, history, faults>>

RollEnds ==
  /\ work = "rolling" /\ cur = 0 /\ todo = {}
  /\ work' = "handling"
  /\ UNCHANGED <<files, journal, record, skip, todo, cur, left, snap, history, faults>>

-----------------------------------------------------------------------------
(* The holder's tab dies, or its commit throws: the record stays. *)
Interrupt ==
  /\ work # "idle"
  /\ faults < MaxFaults
  /\ faults' = faults + 1
  /\ Idle
  /\ UNCHANGED <<files, journal, record, history>>

(* A file system call throws while rolling forward: the handler runs and   *)
(* skips the paths of the records that are left.                           *)
RollFails ==
  /\ work = "rolling"
  /\ faults < MaxFaults
  /\ faults' = faults + 1
  /\ work' = "handling" /\ skip' = PendingPaths
  /\ todo' = {} /\ cur' = 0 /\ left' = {} /\ snap' = 0
  /\ UNCHANGED <<files, journal, record, history>>

Next ==
  \/ ExternalEdit \/ RequestBegins \/ HandlerEnds
  \/ \E o \in Ops : Patch(o) \/ SaveVersion(o) \/ Delete(o)
  \/ ApplyFile \/ SnapshotCounter \/ SnapshotBody \/ SnapshotEntry
  \/ RecordDone \/ StampSidecar \/ RollNext \/ RollEnds
  \/ Interrupt \/ RollFails

Spec == Init /\ [][Next]_vars

-----------------------------------------------------------------------------
TypeOK ==
  /\ {body, trash, stamp} \subseteq Texts
  /\ hbody \in [Versions -> Texts]
  /\ index \subseteq [id : Versions, op : Ops \cup {0}]
  /\ counter \in 0..MaxVer
  /\ journal \subseteq Used
  /\ work \in {"idle", "rolling", "handling", "applying", "stamping"}
  /\ skip \subseteq {"body", "trash", "history", "manifest"}
  /\ todo \subseteq journal /\ cur \in journal \cup {0}
  /\ snap \in 0..MaxVer
  /\ edits \in 0..MaxEdits /\ faults \in 0..MaxFaults

(* Where the text of an edit can still be found: in the note, in the trash,*)
(* in a version the history lists, or in a record that will save it there. *)
Found(e) ==
  \/ body = e
  \/ trash = e
  \/ \E v \in index : hbody[v.id] = e
  \/ \E o \in journal : record[o].vtext = e

(* folder_journal.dart _keepExternalEdit, storage_rules.md 3.4.1: "never   *)
(* discards an edit made later".  Every edit made outside the app can be   *)
(* found, whatever was interrupted and replayed.                           *)
EditsNeverDiscarded == \A e \in owed : Found(e)

(* Safety: no edit is lost as long as one record at a time is unfinished   *)
(* and the edit is the first one that record's replay has to keep.         *)
FirstEditKept ==
  ~crowded => \A e \in owed : e \in late \/ Found(e)

(* Safety: the history lists no version whose text is missing. *)
ListedVersionsExist == \A e \in index : hbody[e.id] # None

(* Safety: once nothing is unfinished, the counter is at or above every    *)
(* version listed, so no id is issued twice.                               *)
CounterCoversHistory == (journal = {}) => \A e \in index : e.id <= counter

(* Safety: however often a record is replayed and interrupted, its edit is *)
(* kept once; the history does not fill with copies of it.                 *)
OneSnapshotPerEdit ==
  \A d, e \in index : (d.op # 0 /\ d.op = e.op /\ hbody[d.id] = hbody[e.id]) => d = e

(* folder_snapshots.dart write: "an ID may be burned, never reused".  The  *)
(* text of a listed version never changes.                                 *)
VersionsNeverReused ==
  [][\A e \in index : hbody'[e.id] = hbody[e.id]]_vars

(* The same, while one record at a time is unfinished. *)
VersionsKept ==
  [][~crowded' => \A e \in index : hbody'[e.id] = hbody[e.id]]_vars
=============================================================================
