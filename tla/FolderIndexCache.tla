-------------------------- MODULE FolderIndexCache --------------------------
(***************************************************************************)
(* One tab's index of the folder, the scans that rebuild it, and the file  *)
(* that outlives the page.                                                 *)
(*                                                                         *)
(*   local_folder/folder_index_cache.dart   index, unverified, change log, *)
(*                                          coalesced flush                *)
(*   local_folder/folder_scanner.dart       paged scan, re-check           *)
(*   local_folder/handlers/lookup.dart      listings and re-reads          *)
(*                                                                         *)
(* A note's file is in notes/ or in trash/notes/; what an index entry says *)
(* of a file (size, lastModified, summary) is one number that a write of   *)
(* the file never repeats, 0 for "no file" and "no entry".  Each action    *)
(* that touches the disk is one hold of the folder lock: writers are       *)
(* exclusive and a page of a scan or a listing is shared, so nothing comes *)
(* between its steps (FolderLock).  Operations are whole (FolderJournal).  *)
(* Edits that take no lock come between any two holds.                     *)
(***************************************************************************)
EXTENDS Naturals

CONSTANTS Notes,
          Scans,        \* scans of this tab that may run at once
          NoScan,       \* no value of Scans
          NoFile,       \* there is no index.json
          MaxStamp,     \* bound: writes of note files
          MaxFaults,    \* bound: flushes and scans that fail
          MaxLoads,     \* bound: page loads and re-openings
          MaxRescans,   \* bound: scans after the opening one
          MaxEvents     \* bound: writes, failures and loads together

ASSUME CacheAssumption ==
  /\ NoScan \notin Scans
  /\ MaxStamp \in Nat \ {0} /\ MaxFaults \in Nat /\ MaxLoads \in Nat
  /\ MaxRescans \in Nat /\ MaxEvents \in Nat

VARIABLES disk,         \* the notes' files
          file,         \* index.json: one index, or no entry at all
          state,        \* the controller's: "scanning", "active" or "error"
          index,        \* _index
          unverified,   \* _unverified
          dirty,        \* _indexDirty
          timer,        \* _flushTimer is set
          flushes,      \* flushIndex calls that wait for the lock
          log,          \* _scanLog: the scan whose change log is filled
          opened,       \* the folder was active in this page
          scan,         \* the scans
          mine,         \* files whose last write is this tab's, in this page
          seen,         \* what each file has been since this page opened it
          ours,         \* index.json was last written by this tab
          overtaken,    \* running scans after which a scan or an opening began
          astray,       \* what an overtaken scan set last, "index" or "file"
          stamp, faults, loads, rescans

mem  == <<index, unverified, dirty, timer, flushes, log, opened>>
hist == <<mine, seen, ours, overtaken, astray>>
vars == <<disk, file, state, mem, scan, hist, stamp, faults, loads, rescans>>

Places == {"live", "trash"}
Path   == Notes \X Places
Index  == [Path -> 0..MaxStamp]
Empty  == [p \in Path |-> 0]
In(place) == {p \in Path : p[2] = place}

Changes == UNION {[P -> 0..MaxStamp] : P \in SUBSET Path}
NoChange == [p \in {} |-> 0]

(* The phases of FolderScanner.scan, named for the step that comes next. *)
Phases == {"idle", "list live", "visit live", "list trash", "visit trash",
           "recheck", "write", "end"}

Idle == [at |-> "idle", opening |-> FALSE, todo |-> {}, files |-> Empty,
         during |-> NoChange]

(* applyIndexChanges: later changes win; 0 drops the entry. *)
Updated(entries, changes) ==
  [p \in DOMAIN entries \cup DOMAIN changes |->
     IF p \in DOMAIN changes THEN changes[p] ELSE entries[p]]

-----------------------------------------------------------------------------
(* The folder.  One operation on one note: its file is written in notes/   *)
(* (create, edit, restore), moved to the trash, or purged.                 *)

Operations(n) ==
  LET live == <<n, "live">>  trash == <<n, "trash">>
      To(l, t) == [p \in {live, trash} |-> IF p = live THEN l ELSE t]
  IN  {To(stamp + 1, 0)}
        \cup (IF disk[live] # 0 THEN {To(0, stamp + 1)} ELSE {})
        \cup (IF disk[trash] # 0 THEN {To(0, 0)} ELSE {})

Room == stamp + faults + loads <= MaxEvents

Written(changes) ==
  /\ stamp < MaxStamp /\ Room
  /\ stamp' = stamp + 1
  /\ disk' = Updated(disk, changes)
  /\ seen' = [p \in Path |-> seen[p] \cup {disk'[p]}]

(* Mutant of UpdateIndex: a scan is told of own writes only. *)
UpdateIndexUntold(changes, verified, written) ==
  /\ unverified' = unverified \ (DOMAIN changes \cup verified)
  /\ index' = Updated(index, changes)
  /\ scan' = IF log = NoScan \/ ~written THEN scan
             ELSE [scan EXCEPT ![log].during = Updated(@, changes)]
  /\ dirty' = (dirty \/ written)
  /\ timer' = (timer \/ written)
  /\ UNCHANGED <<flushes, log, opened>>

(* FolderIndexCache.updateIndex. *)
UpdateIndex(changes, verified, written) ==
  /\ unverified' = unverified \ (DOMAIN changes \cup verified)
  /\ index' = Updated(index, changes)
  /\ scan' = IF log = NoScan THEN scan
             ELSE [scan EXCEPT ![log].during = Updated(@, changes)]
  /\ dirty' = (dirty \/ written)
  /\ timer' = (timer \/ written)
  /\ UNCHANGED <<flushes, log, opened>>

(* A write of this tab: the operation, then _reindex, in one hold.  Only   *)
(* an active folder admits a request; one that was admitted goes on        *)
(* whatever the state becomes.                                             *)
OwnWrite ==
  /\ opened
  /\ \E n \in Notes : \E changes \in Operations(n) :
       /\ Written(changes)
       /\ UpdateIndex(changes, {}, TRUE)
       /\ mine' = mine \cup DOMAIN changes
  /\ UNCHANGED <<file, state, ours, overtaken, astray, faults, loads, rescans>>

(* A write of another tab or program, or one of this tab that failed after *)
(* its record was written and before _reindex.                             *)
OtherWrite ==
  /\ \E n \in Notes : \E changes \in Operations(n) :
       /\ Written(changes)
       /\ mine' = mine \ DOMAIN changes
  /\ UNCHANGED <<file, state, mem, scan, ours, overtaken, astray, faults, loads, rescans>>

(* Another tab writes its index: current for some files, and for the rest  *)
(* as it loaded it.                                                        *)
OtherFlush ==
  /\ \E known \in SUBSET Path :
       file' = [p \in Path |->
                  IF p \in known THEN disk[p]
                  ELSE IF file = NoFile THEN 0 ELSE file[p]]
  /\ file' # file
  /\ ours' = FALSE
  /\ UNCHANGED <<disk, state, mem, scan, mine, seen, overtaken, astray, stamp, faults, loads, rescans>>

-----------------------------------------------------------------------------
(* Reads that update the index. *)

(* What a listing of a directory changes and verifies. *)
ListingChanges(place) ==
  LET stale == {p \in In(place) : IF disk[p] = 0 THEN index[p] # 0
                                  ELSE index[p] = 0 \/ (p \in unverified /\ index[p] # disk[p])}
  IN  [p \in stale |-> disk[p]]
ListingVerifies(place) == {p \in In(place) \cap unverified : disk[p] = index[p]}

(* refreshNoteListing, which every list route runs first. *)
Listing ==
  /\ opened
  /\ \E place \in Places :
       UpdateIndex(ListingChanges(place), ListingVerifies(place), FALSE)
  /\ UNCHANGED <<disk, file, state, hist, stamp, faults, loads, rescans>>

(* rereadNote, when a request names one note. *)
Reread ==
  /\ opened
  /\ \E p \in Path :
       /\ index[p] # 0
       /\ UpdateIndex(IF disk[p] = index[p] THEN NoChange ELSE [q \in {p} |-> disk[p]],
                      {p}, FALSE)
  /\ UNCHANGED <<disk, file, state, hist, stamp, faults, loads, rescans>>

-----------------------------------------------------------------------------
(* The flush. *)

(* The timer: flushIndex starts, if there is something to write. *)
TimerFires ==
  /\ timer
  /\ timer' = FALSE
  /\ IF dirty /\ state = "active"
     THEN dirty' = FALSE /\ flushes' = flushes + 1
     ELSE UNCHANGED <<dirty, flushes>>
  /\ UNCHANGED <<disk, file, state, index, unverified, log, opened, scan, hist,
                 stamp, faults, loads, rescans>>

(* flushIndex got the lock; it writes the index of now. *)
FlushWrites ==
  /\ flushes > 0
  /\ flushes' = flushes - 1
  /\ file' = index /\ ours' = TRUE
  /\ astray' = IF "index" \in astray THEN astray \cup {"file"} ELSE astray \ {"file"}
  /\ UNCHANGED <<disk, state, index, unverified, dirty, timer, log, opened, scan, mine, seen,
                 overtaken, stamp, faults, loads, rescans>>

(* The wait timed out or the write threw: "retried after the next write". *)
FlushFails ==
  /\ flushes > 0
  /\ faults < MaxFaults /\ Room
  /\ faults' = faults + 1
  /\ flushes' = flushes - 1
  /\ dirty' = TRUE
  /\ UNCHANGED <<disk, file, state, index, unverified, timer, log, opened, scan, hist,
                 stamp, loads, rescans>>

-----------------------------------------------------------------------------
(* Scans.  Nothing keeps two from running at once: rescan() has no guard,  *)
(* and _scanLog is the newest one's.                                       *)

Running == {s \in Scans : scan[s].at # "idle"}

Starting(opening) == [Idle EXCEPT !.at = "list live", !.opening = opening]

(* Rescan, from the button or after startup. *)
ScanStarts(s) ==
  /\ state = "active"
  /\ scan[s].at = "idle"
  /\ scan' = [scan EXCEPT ![s] = Starting(FALSE)]
  /\ rescans < MaxRescans /\ rescans' = rescans + 1
  /\ log' = s
  /\ overtaken' = Running
  /\ UNCHANGED <<disk, file, state, index, unverified, dirty, timer, flushes, opened,
                 mine, seen, ours, astray, stamp, faults, loads>>

ScanStep(s, next) ==
  /\ scan' = [scan EXCEPT ![s] = next]
  /\ UNCHANGED <<disk, file, state, mem, hist, stamp, faults, loads, rescans>>

(* A page holds any number of these: a directory is listed, a file is read.*)
(* The trash is listed after the files of notes/ were read.                *)
ScanLists(s, place) ==
  /\ scan[s].at = IF place = "live" THEN "list live" ELSE "list trash"
  /\ ScanStep(s, [scan[s] EXCEPT
       !.at = IF place = "live" THEN "visit live" ELSE "visit trash",
       !.todo = {p \in In(place) : disk[p] # 0}])

ScanVisits(s) ==
  /\ scan[s].at \in {"visit live", "visit trash"}
  /\ \E p \in scan[s].todo :
       ScanStep(s, [scan[s] EXCEPT !.todo = @ \ {p}, !.files[p] = disk[p]])

ScanVisited(s) ==
  /\ scan[s].at \in {"visit live", "visit trash"}
  /\ scan[s].todo = {}
  /\ ScanStep(s, [scan[s] EXCEPT
       !.at = IF @ = "visit live" THEN "list trash" ELSE "recheck"])

Twice(entries) == {n \in Notes : \A place \in Places : entries[<<n, place>>] # 0}

(* Mutant: the scan trusts its pages. *)
ScanRechecksNothing(s) ==
  /\ scan[s].at = "recheck"
  /\ ScanStep(s, [scan[s] EXCEPT !.at = "write"])

(* _recheck: notes seen at two paths are read again, in one hold. *)
ScanRechecks(s) ==
  /\ scan[s].at = "recheck"
  /\ ScanStep(s, [scan[s] EXCEPT
       !.at = "write",
       !.files = [p \in Path |-> IF p[1] \in Twice(@) THEN disk[p] ELSE @[p]]])

(* The last hold: beforeWrite applies what this tab changed meanwhile, and *)
(* index.json is written.  Later changes are kept for ScanEnds.            *)
ScanWrites(s) ==
  /\ scan[s].at = "write"
  /\ LET files == Updated(scan[s].files, scan[s].during)
     IN  /\ scan' = [scan EXCEPT ![s].at = "end", ![s].files = files,
                                 ![s].during = NoChange]
         /\ file' = files
  /\ ours' = TRUE
  /\ astray' = IF s \in overtaken THEN astray \cup {"file"} ELSE astray \ {"file"}
  /\ UNCHANGED <<disk, state, mem, mine, seen, overtaken, stamp, faults, loads, rescans>>

(* setIndex, which drops a pending flush, a new flush if one is due, and   *)
(* what is left of the scan.                                               *)
Ends(s, entries, due) ==
  /\ scan[s].at = "end"
  /\ index' = entries /\ unverified' = {}
  /\ dirty' = due /\ timer' = due
  /\ state' = IF scan[s].opening THEN "active" ELSE state
  /\ opened' = (opened \/ scan[s].opening)
  /\ scan' = [scan EXCEPT ![s] = Idle]
  /\ overtaken' = overtaken \ {s}
  /\ astray' = IF s \in overtaken THEN {"index", "file"} ELSE astray \ {"index"}
  /\ UNCHANGED <<disk, file, flushes, mine, seen, ours, stamp, faults, loads, rescans>>

Unlogged(s) == IF log = s THEN NoScan ELSE log

(* Mutants of ScanEnds: the flush that later changes need is lost; or the  *)
(* change log is taken away whosever it is.                                *)
ScanEndsUnflushed(s) ==
  Ends(s, Updated(scan[s].files, scan[s].during), FALSE) /\ log' = Unlogged(s)
ScanEndsForAll(s) ==
  /\ Ends(s, Updated(scan[s].files, scan[s].during), DOMAIN scan[s].during # {})
  /\ log' = NoScan

(* The rest of FolderIndexCache.scan: the changes made after the last hold *)
(* are applied, and need a flush.                                          *)
ScanEnds(s) ==
  /\ Ends(s, Updated(scan[s].files, scan[s].during), DOMAIN scan[s].during # {})
  /\ log' = Unlogged(s)

(* Mutant: the failure is not reported. *)
ScanFailsSilently(s) ==
  /\ scan[s].at # "idle"
  /\ faults < MaxFaults /\ Room
  /\ faults' = faults + 1
  /\ log' = Unlogged(s)
  /\ scan' = [scan EXCEPT ![s] = Idle]
  /\ overtaken' = overtaken \ {s}
  /\ UNCHANGED <<disk, file, state, index, unverified, dirty, timer, flushes, opened,
                 mine, seen, ours, astray, stamp, loads, rescans>>

(* A hold of the scan throws; reportFolderError. *)
ScanFails(s) ==
  /\ scan[s].at # "idle"
  /\ faults < MaxFaults /\ Room
  /\ faults' = faults + 1
  /\ log' = Unlogged(s)
  /\ state' = "error"
  /\ scan' = [scan EXCEPT ![s] = Idle]
  /\ overtaken' = overtaken \ {s}
  /\ UNCHANGED <<disk, file, index, unverified, dirty, timer, flushes, opened,
                 mine, seen, ours, astray, stamp, loads, rescans>>

-----------------------------------------------------------------------------
(* Mutant: the stored index is trusted. *)
OpensStoredTrusted ==
  /\ file # NoFile
  /\ state' = "active"
  /\ index' = file /\ unverified' = {}
  /\ dirty' = FALSE /\ timer' = FALSE

(* _openGranted: the stored index, unverified, or else a first scan, which *)
(* leaves what is in memory until it ends.                                 *)
OpensStored ==
  /\ file # NoFile
  /\ state' = "active"
  /\ index' = file /\ unverified' = {p \in Path : file[p] # 0}
  /\ dirty' = FALSE /\ timer' = FALSE

OpensScanning(s, scans) ==
  /\ file = NoFile
  /\ scans[s].at = "idle"
  /\ state' = "scanning" /\ log' = s
  /\ scan' = [scans EXCEPT ![s] = Starting(TRUE)]

Loads ==
  /\ loads < MaxLoads /\ Room
  /\ loads' = loads + 1
  /\ mine' = {} /\ astray' = {}
  /\ UNCHANGED <<disk, file, stamp, faults, rescans>>

(* The page is loaded again: nothing in memory survives. *)
PageLoad ==
  /\ Loads
  /\ flushes' = 0 /\ overtaken' = {}
  /\ seen' = [p \in Path |-> {disk[p]}] /\ ours' = FALSE
  /\ LET none == [s \in Scans |-> Idle]
     IN  \/ OpensStored /\ scan' = none /\ log' = NoScan
         \/ /\ \E s \in Scans : OpensScanning(s, none)
            /\ index' = Empty /\ unverified' = {} /\ dirty' = FALSE /\ timer' = FALSE
  /\ opened' = (state' = "active")

(* Reconnect or choose again after an error, in the same page: another     *)
(* scan that runs goes on, and so do flushes that wait, unless the folder  *)
(* was picked anew (then they write nothing).                              *)
Reopen ==
  /\ Loads
  /\ state = "error"
  /\ \/ OpensStored /\ UNCHANGED <<scan, log>>
     \/ /\ \E s \in Scans : OpensScanning(s, scan)
        /\ UNCHANGED <<index, unverified, dirty, timer>>
  /\ flushes' \in {flushes, 0}
  /\ overtaken' = Running /\ opened' = (opened \/ state' = "active")
  /\ UNCHANGED <<seen, ours>>

Init ==
  /\ disk = [p \in Path |-> IF p[2] = "live" THEN 1 ELSE 0]
  /\ file = NoFile
  /\ state = "scanning"
  /\ index = Empty /\ unverified = {} /\ dirty = FALSE /\ timer = FALSE /\ flushes = 0
  /\ \E s \in Scans :
       /\ log = s
       /\ scan = [r \in Scans |-> IF r = s THEN Starting(TRUE) ELSE Idle]
  /\ opened = FALSE
  /\ mine = {} /\ seen = [p \in Path |-> {disk[p]}] /\ ours = FALSE
  /\ overtaken = {} /\ astray = {}
  /\ stamp = 1 /\ faults = 0 /\ loads = 0 /\ rescans = 0

Next ==
  \/ OwnWrite \/ OtherWrite \/ OtherFlush
  \/ Listing \/ Reread
  \/ TimerFires \/ FlushWrites \/ FlushFails
  \/ \E s \in Scans :
       \/ ScanStarts(s) \/ \E place \in Places : ScanLists(s, place)
       \/ ScanVisits(s) \/ ScanVisited(s) \/ ScanRechecks(s)
       \/ ScanWrites(s) \/ ScanEnds(s) \/ ScanFails(s)
  \/ PageLoad \/ Reopen

Spec == Init /\ [][Next]_vars

-----------------------------------------------------------------------------
(* Types; and a folder that is scanning has a scan that will open it. *)
TypeOK ==
  /\ disk \in Index /\ index \in Index
  /\ file = NoFile \/ file \in Index
  /\ state \in {"scanning", "active", "error"}
  /\ unverified \subseteq Path /\ mine \subseteq Path
  /\ {dirty, timer, ours, opened} \subseteq BOOLEAN
  /\ overtaken \subseteq Scans /\ astray \subseteq {"index", "file"}
  /\ log \in Scans \cup {NoScan}
  /\ scan \in [Scans -> [at : Phases, opening : BOOLEAN, todo : SUBSET Path,
                        files : Index, during : Changes]]
  /\ seen \in [Path -> SUBSET (0..MaxStamp)]
  /\ flushes \in Nat /\ stamp \in 0..MaxStamp
  /\ state = "scanning" => \E s \in Scans : scan[s].opening

(* Safety, folder_index_cache.dart "index changes this tab makes while [a  *)
(* scan] runs are applied to its result": what this tab wrote last, its    *)
(* index has.  Nothing a scan read earlier, and no flush it drops, undoes  *)
(* an own write, while an older scan still runs too; until a scan that was *)
(* overtaken sets the index, which then lacks what only the newer one was  *)
(* told, and from the end of the next that was not.                        *)
OwnWritesIndexed ==
  (state = "active" /\ "index" \notin astray) => \A p \in mine : index[p] = disk[p]

(* Safety, storage_rules.md 3.8 "so a reload starts from them": when no    *)
(* flush is due or on its way, index.json has this tab's writes too,       *)
(* unless another tab wrote it since, or an overtaken scan wrote it or     *)
(* dropped the flush it needs.                                             *)
OwnWritesSaved ==
  (ours /\ ~dirty /\ flushes = 0 /\ "file" \notin astray) => \A p \in mine : file[p] = disk[p]

(* Safety, storage_rules.md 3.8 "no list answers from a stored note entry  *)
(* before comparing it with the disk": an entry lists may answer from is   *)
(* what the file has been at some time since this page opened the folder.  *)
VerifiedEntriesSeen ==
  \A p \in Path \ unverified : index[p] \in seen[p] \cup {0}

(* Safety, folder_scanner.dart _recheck: the scan itself finds no note at  *)
(* two paths, however often it was moved meanwhile.                        *)
ScanFindsOnce == \A s \in Scans : scan[s].at = "write" => Twice(scan[s].files) = {}

(* Action property, folder_index_cache.dart updateIndex, which tells the   *)
(* newest scan of every index change, a listing's and a re-read's of other *)
(* tabs' writes too: once the index is right about a file that is there,   *)
(* only a write of the file, a new opening or an overtaken scan's index    *)
(* makes it wrong.                                                         *)
EntriesStayRight ==
  [][\A p \in Path :
       /\ disk[p] # 0 /\ index[p] = disk[p]
       /\ disk'[p] = disk[p] /\ loads' = loads
       /\ "index" \notin astray \cup astray'
       => index'[p] = index[p]]_vars
=============================================================================
