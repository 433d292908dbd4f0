----------------------- MODULE FolderIndexCacheProofs -----------------------
(***************************************************************************)
(* Theorems about the index of one tab, for any number of notes, writes,   *)
(* failures and page loads.                                                *)
(*                                                                         *)
(* All hold for any number of scans at once.  What carries the argument is *)
(* Logged, the change log is the newest scan's, and Scanned and Told: a    *)
(* file that the newest scan may have missed is in its change log, and one *)
(* it cannot have missed is still ahead of it or already read.             *)
(***************************************************************************)
EXTENDS FolderIndexCache, TLAPS

Scan == [at : Phases, opening : BOOLEAN, todo : SUBSET Path, files : Index, during : Changes]

-----------------------------------------------------------------------------
(* Entries and changes *)

\* Applying changes to entries, or changes to changes, gives what it must.
LEMMA UpdatedTyped ==
  ASSUME NEW c \in Changes
  PROVE  /\ DOMAIN c \subseteq Path /\ \A p \in DOMAIN c : c[p] \in 0..MaxStamp
         /\ \A e \in Index : /\ Updated(e, c) \in Index
                             /\ \A p \in Path : Updated(e, c)[p] = IF p \in DOMAIN c THEN c[p] ELSE e[p]
         /\ \A e \in Changes : /\ Updated(e, c) \in Changes
                               /\ DOMAIN Updated(e, c) = DOMAIN e \cup DOMAIN c
                               /\ \A p \in DOMAIN e \cup DOMAIN c :
                                    Updated(e, c)[p] = IF p \in DOMAIN c THEN c[p] ELSE e[p]
<1>1. /\ DOMAIN c \subseteq Path /\ \A p \in DOMAIN c : c[p] \in 0..MaxStamp
  BY DEF Changes
<1>2. ASSUME NEW e \in Index
      PROVE  /\ Updated(e, c) \in Index
             /\ \A p \in Path : Updated(e, c)[p] = IF p \in DOMAIN c THEN c[p] ELSE e[p]
  BY <1>1 DEF Index, Updated
<1>3. ASSUME NEW e \in Changes
      PROVE  /\ Updated(e, c) \in Changes
             /\ DOMAIN Updated(e, c) = DOMAIN e \cup DOMAIN c
             /\ \A p \in DOMAIN e \cup DOMAIN c :
                  Updated(e, c)[p] = IF p \in DOMAIN c THEN c[p] ELSE e[p]
  <2>1. DOMAIN e \subseteq Path /\ \A p \in DOMAIN e : e[p] \in 0..MaxStamp
    BY DEF Changes
  <2> DEFINE P == DOMAIN e \cup DOMAIN c
  <2>2. P \in SUBSET Path /\ Updated(e, c) \in [P -> 0..MaxStamp]
    BY <1>1, <2>1 DEF Updated
  <2> QED BY <2>2 DEF Changes, Updated
<1> QED BY <1>1, <1>2, <1>3

LEMMA Nothing == NoChange \in Changes /\ DOMAIN NoChange = {}
BY DEF NoChange, Changes

LEMMA IdleScan ==
  /\ Idle \in Scan /\ Idle.at = "idle" /\ ~Idle.opening /\ Idle.files = Empty /\ Idle.during = NoChange
  /\ \A o \in BOOLEAN : /\ Starting(o) \in Scan /\ Starting(o).at = "list live" /\ Starting(o).opening = o
                        /\ Starting(o).files = Empty /\ Starting(o).during = NoChange
                        /\ Starting(o).todo = {}
<1>1. Empty \in Index
  BY CacheAssumption DEF Empty, Index
<1> QED BY <1>1, Nothing DEF Idle, Starting, Scan, Phases

\* An operation writes the two files of a note, one of which is there after it
\* at most.
LEMMA OperationTyped ==
  ASSUME TypeOK, stamp < MaxStamp, NEW n \in Notes, NEW c \in Operations(n)
  PROVE  /\ c \in Changes
         /\ DOMAIN c = {<<n, "live">>, <<n, "trash">>}
         /\ c[<<n, "live">>] = 0 \/ c[<<n, "trash">>] = 0
<1>1. stamp + 1 \in 0..MaxStamp /\ 0 \in 0..MaxStamp
  BY CacheAssumption DEF TypeOK
<1> DEFINE live == <<n, "live">>
           trash == <<n, "trash">>
           To(l, t) == [p \in {live, trash} |-> IF p = live THEN l ELSE t]
<1>2. \A l, t \in 0..MaxStamp : /\ To(l, t) \in [{live, trash} -> 0..MaxStamp]
                                /\ To(l, t)[live] = l /\ To(l, t)[trash] = t
  OBVIOUS
<1>3. {live, trash} \in SUBSET Path
  BY DEF Path, Places
<1>4. c \in {To(stamp + 1, 0), To(0, stamp + 1), To(0, 0)}
  BY DEF Operations
<1> HIDE DEF To, live, trash
<1>5. PICK l \in 0..MaxStamp, t \in 0..MaxStamp : c = To(l, t) /\ (l = 0 \/ t = 0)
  BY <1>1, <1>4
<1>6. c \in [{live, trash} -> 0..MaxStamp] /\ c[live] = l /\ c[trash] = t
  BY <1>2, <1>5
<1>7. c \in Changes
  BY <1>3, <1>6 DEF Changes
<1> QED BY <1>5, <1>6, <1>7 DEF live, trash

LEMMA WrittenTyped ==
  ASSUME TypeOK, NEW c \in Changes, Written(c)
  PROVE  /\ disk' \in Index /\ stamp' \in 0..MaxStamp /\ seen' \in [Path -> SUBSET (0..MaxStamp)]
         /\ \A p \in Path : disk'[p] = IF p \in DOMAIN c THEN c[p] ELSE disk[p]
         /\ \A p \in Path : seen'[p] = seen[p] \cup {disk'[p]}
<1>1. disk' \in Index /\ \A p \in Path : disk'[p] = IF p \in DOMAIN c THEN c[p] ELSE disk[p]
  BY UpdatedTyped DEF Written, TypeOK
<1>2. stamp' \in 0..MaxStamp
  BY CacheAssumption DEF Written, TypeOK
<1>3. \A p \in Path : disk'[p] \in 0..MaxStamp
  BY <1>1 DEF Index
<1> QED BY <1>1, <1>2, <1>3 DEF Written, TypeOK

\* The scans after an index change: one of them has it in its change log.
LEMMA UpdateIndexTyped ==
  ASSUME TypeOK, NEW c \in Changes, NEW verified, NEW written \in BOOLEAN, UpdateIndex(c, verified, written)
  PROVE  /\ index' \in Index /\ unverified' \subseteq Path /\ dirty' \in BOOLEAN /\ timer' \in BOOLEAN
         /\ flushes' = flushes /\ log' = log /\ opened' = opened
         /\ scan' \in [Scans -> Scan]
         /\ \A s \in Scans : /\ scan'[s].at = scan[s].at /\ scan'[s].opening = scan[s].opening
                             /\ scan'[s].todo = scan[s].todo /\ scan'[s].files = scan[s].files
                             /\ scan'[s].during = IF log = s /\ log # NoScan THEN Updated(scan[s].during, c)
                                                                             ELSE scan[s].during
<1>1. index' \in Index
  BY UpdatedTyped DEF UpdateIndex, TypeOK
<1>2. scan \in [Scans -> Scan] /\ log \in Scans \cup {NoScan}
  BY DEF TypeOK, Scan
<1>3. \A s \in Scans : Updated(scan[s].during, c) \in Changes
  BY <1>2, UpdatedTyped DEF Scan
<1>4. CASE log = NoScan
  BY <1>1, <1>2, <1>4 DEF UpdateIndex, TypeOK
<1>5. CASE log # NoScan
  <2>1. scan' = [scan EXCEPT ![log] = [scan[log] EXCEPT !.during = Updated(scan[log].during, c)]]
    BY <1>5 DEF UpdateIndex
  <2>2. [scan[log] EXCEPT !.during = Updated(scan[log].during, c)] \in Scan
    BY <1>2, <1>3, <1>5 DEF Scan
  <2> QED BY <1>1, <1>2, <1>3, <1>5, <2>1, <2>2 DEF UpdateIndex, TypeOK, Scan
<1> QED BY <1>4, <1>5

\* What a listing and a re-read change are the files of now.
LEMMA ReadTyped ==
  ASSUME TypeOK
  PROVE  /\ \A place \in Places : /\ ListingChanges(place) \in Changes
                                  /\ \A p \in DOMAIN ListingChanges(place) : ListingChanges(place)[p] = disk[p]
         /\ \A p \in Path : /\ [q \in {p} |-> disk[p]] \in Changes
                            /\ DOMAIN [q \in {p} |-> disk[p]] = {p}
                            /\ [q \in {p} |-> disk[p]][p] = disk[p]
<1>1. disk \in [Path -> 0..MaxStamp]
  BY DEF TypeOK, Index
<1>2. ASSUME NEW place \in Places
      PROVE  /\ ListingChanges(place) \in Changes
             /\ \A p \in DOMAIN ListingChanges(place) : ListingChanges(place)[p] = disk[p]
  <2> DEFINE stale == {p \in In(place) : IF disk[p] = 0 THEN index[p] # 0
                                  ELSE index[p] = 0 \/ (p \in unverified /\ index[p] # disk[p])}
  <2>1. stale \in SUBSET Path /\ [p \in stale |-> disk[p]] \in [stale -> 0..MaxStamp]
    BY <1>1 DEF In
  <2>2. ListingChanges(place) = [p \in stale |-> disk[p]]
    BY DEF ListingChanges
  <2> HIDE DEF stale
  <2> QED BY <2>1, <2>2 DEF Changes
<1>3. ASSUME NEW p \in Path PROVE [q \in {p} |-> disk[p]] \in Changes
  <2>1. {p} \in SUBSET Path /\ [q \in {p} |-> disk[p]] \in [{p} -> 0..MaxStamp]
    BY <1>1
  <2> QED BY <2>1 DEF Changes
<1> QED BY <1>2, <1>3

\* A scan moves on, and the others stay.
LEMMA ScanMoves ==
  ASSUME TypeOK, NEW s \in Scans, NEW c \in Scan, scan' = [scan EXCEPT ![s] = c]
  PROVE  /\ scan' \in [Scans -> Scan] /\ scan'[s] = c
         /\ \A r \in Scans \ {s} : scan'[r] = scan[r]
BY DEF TypeOK, Scan

\* What the steps of a scan's pages leave of the scan.
LEMMA PageStep ==
  ASSUME TypeOK, NEW s \in Scans,
         \/ \E place \in Places : ScanLists(s, place)
         \/ ScanVisits(s) \/ ScanVisited(s) \/ ScanRechecks(s)
  PROVE  /\ scan[s].at # "idle"
         /\ \E c \in Scan : /\ scan' = [scan EXCEPT ![s] = c]
                            /\ c.opening = scan[s].opening /\ c.during = scan[s].during
                            /\ c.at \notin {"idle", "end"}
                            /\ \A p \in Path : c.files[p] \in {scan[s].files[p], disk[p]}
         /\ UNCHANGED <<disk, file, state, mem, hist, stamp, faults, loads, rescans>>
<1> DEFINE o == scan[s]
<1>0. /\ o \in Scan /\ o.files \in Index /\ o.todo \subseteq Path /\ disk \in Index
  BY DEF TypeOK, Scan
<1> DEFINE Goal ==
  /\ o.at # "idle"
  /\ \E c \in Scan : /\ scan' = [scan EXCEPT ![s] = c]
                     /\ c.opening = o.opening /\ c.during = o.during
                     /\ c.at \notin {"idle", "end"}
                     /\ \A p \in Path : c.files[p] \in {o.files[p], disk[p]}
  /\ UNCHANGED <<disk, file, state, mem, hist, stamp, faults, loads, rescans>>
<1>1. ASSUME NEW place \in Places, ScanLists(s, place) PROVE Goal
  <2> DEFINE c == [o EXCEPT !.at = IF place = "live" THEN "visit live" ELSE "visit trash",
                            !.todo = {p \in In(place) : disk[p] # 0}]
  <2>1. c \in Scan /\ c.opening = o.opening /\ c.during = o.during /\ c.files = o.files
        /\ c.at \notin {"idle", "end"}
    BY <1>0 DEF Scan, Phases, In
  <2> QED BY <1>1, <2>1 DEF ScanLists, ScanStep
<1>2. CASE ScanVisits(s)
  <2>1. PICK p \in o.todo : ScanStep(s, [o EXCEPT !.todo = @ \ {p}, !.files[p] = disk[p]])
    BY <1>2 DEF ScanVisits
  <2> DEFINE c == [o EXCEPT !.todo = @ \ {p}, !.files[p] = disk[p]]
  <2>2. /\ c \in Scan /\ c.opening = o.opening /\ c.during = o.during /\ c.at = o.at
        /\ \A q \in Path : c.files[q] \in {o.files[q], disk[q]}
    BY <1>0 DEF Scan, Index
  <2> QED BY <1>2, <2>1, <2>2 DEF ScanVisits, ScanStep
<1>3. CASE ScanVisited(s)
  <2> DEFINE c == [o EXCEPT !.at = IF @ = "visit live" THEN "list trash" ELSE "recheck"]
  <2>1. c \in Scan /\ c.opening = o.opening /\ c.during = o.during /\ c.files = o.files
        /\ c.at \notin {"idle", "end"}
    BY <1>0 DEF Scan, Phases
  <2> QED BY <1>3, <2>1 DEF ScanVisited, ScanStep
<1>4. CASE ScanRechecks(s)
  <2> DEFINE g == [p \in Path |-> IF p[1] \in Twice(o.files) THEN disk[p] ELSE o.files[p]]
             c == [o EXCEPT !.at = "write", !.files = g]
  <2>1. g \in Index /\ \A p \in Path : g[p] \in {o.files[p], disk[p]}
    BY <1>0 DEF Index
  <2>2. ScanStep(s, c)
    BY <1>4 DEF ScanRechecks
  <2> HIDE DEF g
  <2>3. c \in Scan /\ c.opening = o.opening /\ c.during = o.during /\ c.files = g
        /\ c.at \notin {"idle", "end"}
    BY <1>0, <2>1 DEF Scan, Phases
  <2> QED BY <1>4, <2>1, <2>2, <2>3 DEF ScanRechecks, ScanStep
<1> QED BY <1>1, <1>2, <1>3, <1>4

-----------------------------------------------------------------------------
(* Every action keeps the types. *)

\* Opening a folder sets an index of the folder's notes.
LEMMA OpensTyped ==
  ASSUME TypeOK, OpensStored
  PROVE  state' = "active" /\ index' \in Index /\ unverified' \subseteq Path /\ dirty' = FALSE /\ timer' = FALSE
BY DEF OpensStored, TypeOK

LEMMA LoadTyped ==
  ASSUME TypeOK, PageLoad \/ Reopen
  PROVE  TypeOK'
<1> USE DEF TypeOK
<1>0. scan \in [Scans -> Scan] /\ [s \in Scans |-> Idle] \in [Scans -> Scan] /\ Empty \in Index
  BY IdleScan DEF Scan
<1>1. disk' \in Index /\ (file' = NoFile \/ file' \in Index) /\ mine' \subseteq Path /\ stamp' \in 0..MaxStamp
      /\ flushes' \in Nat /\ ours' \in BOOLEAN
      /\ opened' \in BOOLEAN /\ overtaken' \subseteq Scans /\ astray' \subseteq {"index", "file"}
  <2>1. disk' = disk /\ file' = file /\ mine' = {} /\ stamp' = stamp
    BY DEF PageLoad, Reopen, Loads
  <2>2. flushes' \in Nat
    BY DEF PageLoad, Reopen
  <2>3. ours' \in BOOLEAN /\ opened' \in BOOLEAN
    BY DEF PageLoad, Reopen
  <2>4. overtaken' \subseteq Scans /\ astray' = {}
    BY DEF PageLoad, Reopen, Loads, Running
  <2> QED BY <2>1, <2>2, <2>3, <2>4
<1>2. seen' \in [Path -> SUBSET (0..MaxStamp)]
  <2>1. \A p \in Path : {disk[p]} \in SUBSET (0..MaxStamp)
    BY DEF Index
  <2> QED BY <2>1 DEF PageLoad, Reopen
<1>3. ASSUME NEW scans \in [Scans -> Scan], NEW s \in Scans, OpensScanning(s, scans)
      PROVE  /\ scan' \in [Scans -> Scan] /\ scan'[s].opening /\ state' = "scanning" /\ log' \in Scans
  BY <1>3, IdleScan DEF OpensScanning
<1>4. CASE PageLoad
  <2>1. CASE OpensStored /\ scan' = [s \in Scans |-> Idle] /\ log' = NoScan
    BY <1>0, <1>1, <1>2, <2>1, OpensTyped DEF Scan
  <2>2. CASE /\ \E s \in Scans : OpensScanning(s, [r \in Scans |-> Idle])
             /\ index' = Empty /\ unverified' = {} /\ dirty' = FALSE /\ timer' = FALSE
    BY <1>0, <1>1, <1>2, <1>3, <2>2 DEF Scan
  <2> QED BY <1>4, <2>1, <2>2 DEF PageLoad
<1>5. CASE Reopen
  <2>1. CASE OpensStored /\ UNCHANGED <<scan, log>>
    BY <1>0, <1>1, <1>2, <2>1, OpensTyped DEF Scan
  <2>2. CASE (\E s \in Scans : OpensScanning(s, scan)) /\ UNCHANGED <<index, unverified, dirty, timer>>
    BY <1>0, <1>1, <1>2, <1>3, <2>2 DEF Scan
  <2> QED BY <1>5, <2>1, <2>2 DEF Reopen
<1> QED BY <1>4, <1>5

LEMMA WriteTyped ==
  ASSUME TypeOK, OwnWrite \/ OtherWrite \/ OtherFlush \/ Listing \/ Reread
  PROVE  TypeOK'
<1>0. scan \in [Scans -> Scan]
  BY DEF TypeOK, Scan
<1>1. ASSUME NEW c \in Changes, NEW v, NEW w \in BOOLEAN, UpdateIndex(c, v, w), UNCHANGED state
      PROVE  /\ index' \in Index /\ unverified' \subseteq Path /\ dirty' \in BOOLEAN /\ timer' \in BOOLEAN
             /\ flushes' \in Nat /\ log' \in Scans \cup {NoScan} /\ scan' \in [Scans -> Scan]
             /\ opened' \in BOOLEAN
             /\ state' \in {"scanning", "active", "error"}
             /\ state' = "scanning" => \E s \in Scans : scan'[s].opening
  BY <1>1, UpdateIndexTyped DEF TypeOK
<1>2. CASE OwnWrite
  <2>0. PICK n \in Notes :
          \E c \in Operations(n) :
            Written(c) /\ UpdateIndex(c, {}, TRUE) /\ mine' = mine \cup DOMAIN c
    BY <1>2 DEF OwnWrite
  <2>1. PICK c \in Operations(n) :
          Written(c) /\ UpdateIndex(c, {}, TRUE) /\ mine' = mine \cup DOMAIN c
    BY <2>0
  <2>2. c \in Changes /\ DOMAIN c \subseteq Path
    BY <2>1, OperationTyped, UpdatedTyped DEF Written
  <2> QED BY <1>1, <1>2, <2>1, <2>2, WrittenTyped DEF OwnWrite, TypeOK, Scan
<1>3. CASE OtherWrite
  <2>0. PICK n \in Notes : \E c \in Operations(n) : Written(c) /\ mine' = mine \ DOMAIN c
    BY <1>3 DEF OtherWrite
  <2>1. PICK c \in Operations(n) : Written(c) /\ mine' = mine \ DOMAIN c
    BY <2>0
  <2>2. c \in Changes
    BY <2>1, OperationTyped DEF Written
  <2> QED BY <1>3, <2>1, <2>2, WrittenTyped DEF OtherWrite, TypeOK, mem
<1>4. CASE OtherFlush
  <2>1. file' \in Index
    BY <1>4, CacheAssumption DEF OtherFlush, TypeOK, Index
  <2> QED BY <1>4, <2>1 DEF OtherFlush, TypeOK, mem
<1>5. CASE Listing
  <2>1. PICK place \in Places : UpdateIndex(ListingChanges(place), ListingVerifies(place), FALSE)
    BY <1>5 DEF Listing
  <2>2. ListingChanges(place) \in Changes
    BY ReadTyped
  <2> QED BY <1>1, <1>5, <2>1, <2>2 DEF Listing, TypeOK, Scan, hist
<1>6. CASE Reread
  <2>1. PICK p \in Path :
          UpdateIndex(IF disk[p] = index[p] THEN NoChange ELSE [q \in {p} |-> disk[p]], {p}, FALSE)
    BY <1>6 DEF Reread
  <2>2. (IF disk[p] = index[p] THEN NoChange ELSE [q \in {p} |-> disk[p]]) \in Changes
    BY ReadTyped, Nothing
  <2> QED BY <1>1, <1>6, <2>1, <2>2 DEF Reread, TypeOK, Scan, hist
<1> QED BY <1>2, <1>3, <1>4, <1>5, <1>6

LEMMA FlushTyped ==
  ASSUME TypeOK, TimerFires \/ FlushWrites \/ FlushFails \/ UNCHANGED vars
  PROVE  TypeOK'
<1>1. scan' = scan /\ disk' = disk /\ state' = state /\ index' = index /\ unverified' = unverified
      /\ log' = log /\ mine' = mine /\ seen' = seen /\ stamp' = stamp
  BY DEF TimerFires, FlushWrites, FlushFails, vars, mem, hist
<1>2. flushes' \in Nat
  BY DEF TypeOK, TimerFires, FlushWrites, FlushFails, vars, mem
<1>3. file' = NoFile \/ file' \in Index
  BY DEF TypeOK, TimerFires, FlushWrites, FlushFails, vars
<1>4. {dirty', timer', ours', opened'} \subseteq BOOLEAN
  BY DEF TypeOK, TimerFires, FlushWrites, FlushFails, vars, mem, hist
<1>5. overtaken' = overtaken /\ astray' \subseteq {"index", "file"}
  BY DEF TypeOK, TimerFires, FlushWrites, FlushFails, vars, hist
<1> QED BY <1>1, <1>2, <1>3, <1>4, <1>5 DEF TypeOK

LEMMA ScanTyped ==
  ASSUME TypeOK, NEW s \in Scans,
         \/ ScanStarts(s) \/ (\E place \in Places : ScanLists(s, place))
         \/ ScanVisits(s) \/ ScanVisited(s) \/ ScanRechecks(s)
         \/ ScanWrites(s) \/ ScanEnds(s) \/ ScanFails(s)
  PROVE  TypeOK'
<1> DEFINE o == scan[s]
<1>0. scan \in [Scans -> Scan] /\ o.files \in Index /\ o.during \in Changes /\ Updated(o.files, o.during) \in Index
  BY UpdatedTyped DEF TypeOK, Scan
<1>1. CASE ScanStarts(s)
  <2>1. scan' \in [Scans -> Scan]
    BY <1>1, IdleScan, ScanMoves DEF ScanStarts
  <2> QED BY <1>1, <2>1 DEF ScanStarts, Running, TypeOK, Scan
<1>2. CASE \/ \E place \in Places : ScanLists(s, place)
           \/ ScanVisits(s) \/ ScanVisited(s) \/ ScanRechecks(s)
  <2>1. PICK c \in Scan : scan' = [scan EXCEPT ![s] = c] /\ c.opening = o.opening
    BY <1>2, PageStep
  <2>2. scan' \in [Scans -> Scan] /\ \A r \in Scans : scan'[r].opening = scan[r].opening
    BY <2>1, ScanMoves
  <2> QED BY <1>2, <2>2, PageStep DEF TypeOK, Scan, mem, hist
<1>3. CASE ScanWrites(s)
  <2> DEFINE g == Updated(o.files, o.during)
             c == [o EXCEPT !.at = "end", !.files = g, !.during = NoChange]
  <2>1. scan' = [scan EXCEPT ![s] = c] /\ file' = g
    BY <1>3 DEF ScanWrites
  <2>2. c \in Scan /\ c.opening = o.opening
    BY <1>0, Nothing DEF Scan, Phases
  <2>3. scan' \in [Scans -> Scan] /\ \A r \in Scans : scan'[r].opening = scan[r].opening
    BY <2>1, <2>2, ScanMoves
  <2> QED BY <1>0, <1>3, <2>1, <2>3 DEF ScanWrites, TypeOK, Scan, mem
<1>4. CASE ScanEnds(s)
  <2>1. scan' \in [Scans -> Scan] /\ \A r \in Scans \ {s} : scan'[r] = scan[r]
    BY <1>4, IdleScan, ScanMoves DEF ScanEnds, Ends, Unlogged
  <2>2. state' = "scanning" => \E r \in Scans : scan'[r].opening
    BY <1>4, <2>1 DEF ScanEnds, Ends, Unlogged, TypeOK
  <2>3. dirty' \in BOOLEAN /\ timer' \in BOOLEAN /\ log' \in Scans \cup {NoScan} /\ index' \in Index
        /\ state' \in {"scanning", "active", "error"} /\ unverified' \subseteq Path
        /\ opened' \in BOOLEAN /\ overtaken' \subseteq Scans /\ astray' \subseteq {"index", "file"}
    BY <1>0, <1>4 DEF ScanEnds, Ends, Unlogged, TypeOK
  <2> QED BY <1>4, <2>1, <2>2, <2>3 DEF ScanEnds, Ends, Unlogged, TypeOK, Scan, hist
<1>5. CASE ScanFails(s)
  <2>1. scan' \in [Scans -> Scan]
    BY <1>5, IdleScan, ScanMoves DEF ScanFails, Unlogged
  <2> QED BY <1>5, <2>1 DEF ScanFails, Unlogged, TypeOK, Scan, hist
<1> QED BY <1>1, <1>2, <1>3, <1>4, <1>5

LEMMA StepTyped ==
  ASSUME TypeOK, [Next]_vars
  PROVE  TypeOK'
BY WriteTyped, FlushTyped, ScanTyped, LoadTyped DEF Next

LEMMA InitTyped ==
  ASSUME Init
  PROVE  TypeOK
<1>1. 0 \in 0..MaxStamp /\ 1 \in 0..MaxStamp /\ Empty \in Index /\ disk \in Index
  BY CacheAssumption DEF Init, Empty, Index
<1>2. PICK s \in Scans : log = s /\ scan = [r \in Scans |-> IF r = s THEN Starting(TRUE) ELSE Idle]
  BY DEF Init
<1>3. scan \in [Scans -> Scan] /\ scan[s].opening
  BY <1>2, IdleScan
<1>4. seen \in [Path -> SUBSET (0..MaxStamp)]
  <2>1. \A p \in Path : {disk[p]} \in SUBSET (0..MaxStamp)
    BY <1>1 DEF Index
  <2> QED BY <2>1 DEF Init
<1> QED BY <1>1, <1>2, <1>3, <1>4 DEF Init, TypeOK, Scan

\* Every variable keeps its type, and a folder that is scanning has a scan that
\* will open it, with any number of scans at once.
THEOREM TypeCorrect == Spec => []TypeOK
<1>1. Init => TypeOK
  BY InitTyped
<1>2. TypeOK /\ [Next]_vars => TypeOK'
  BY StepTyped
<1> QED BY <1>1, <1>2, PTL DEF Spec

-----------------------------------------------------------------------------
(* The re-check *)

\* A note has one file at most.
OneFile == Twice(disk) = {}

LEMMA TwiceMeans ==
  ASSUME NEW e
  PROVE  Twice(e) = {} <=> \A n \in Notes : e[<<n, "live">>] = 0 \/ e[<<n, "trash">>] = 0
BY DEF Twice, Places

LEMMA WriteOneFile ==
  ASSUME TypeOK, OneFile, stamp < MaxStamp, NEW n \in Notes, NEW c \in Operations(n), Written(c)
  PROVE  OneFile'
<1>1. /\ c \in Changes /\ DOMAIN c = {<<n, "live">>, <<n, "trash">>}
      /\ c[<<n, "live">>] = 0 \/ c[<<n, "trash">>] = 0
  BY OperationTyped
<1>2. \A p \in Path : disk'[p] = IF p \in DOMAIN c THEN c[p] ELSE disk[p]
  BY <1>1, WrittenTyped
<1>3. \A m \in Notes : <<m, "live">> \in Path /\ <<m, "trash">> \in Path
  BY DEF Path, Places
<1>4. ASSUME NEW m \in Notes PROVE disk'[<<m, "live">>] = 0 \/ disk'[<<m, "trash">>] = 0
  <2>1. CASE m = n
    BY <1>1, <1>2, <1>3, <2>1
  <2>2. CASE m # n
    BY <1>1, <1>2, <1>3, <2>2, TwiceMeans DEF OneFile
  <2> QED BY <2>1, <2>2
<1> QED BY <1>4, TwiceMeans DEF OneFile

LEMMA StepOneFile ==
  ASSUME TypeOK, OneFile, [Next]_vars
  PROVE  OneFile'
<1>1. CASE OwnWrite
  <2>0. PICK n \in Notes : \E c \in Operations(n) : Written(c)
    BY <1>1 DEF OwnWrite
  <2>1. PICK c \in Operations(n) : Written(c)
    BY <2>0
  <2> QED BY <2>1, WriteOneFile DEF Written
<1>2. CASE OtherWrite
  <2>0. PICK n \in Notes : \E c \in Operations(n) : Written(c)
    BY <1>2 DEF OtherWrite
  <2>1. PICK c \in Operations(n) : Written(c)
    BY <2>0
  <2> QED BY <2>1, WriteOneFile DEF Written
<1>3. CASE \E s \in Scans :
             \/ ScanStarts(s) \/ \E place \in Places : ScanLists(s, place)
             \/ ScanVisits(s) \/ ScanVisited(s) \/ ScanRechecks(s)
             \/ ScanWrites(s) \/ ScanEnds(s) \/ ScanFails(s)
  <2>1. disk' = disk
    BY <1>3 DEF ScanStarts, ScanLists, ScanVisits, ScanVisited, ScanRechecks, ScanStep,
                ScanWrites, ScanEnds, Ends, Unlogged, ScanFails
  <2> QED BY <2>1 DEF OneFile, Twice
<1>4. CASE ~OwnWrite /\ ~OtherWrite
           /\ ~\E s \in Scans :
                \/ ScanStarts(s) \/ \E place \in Places : ScanLists(s, place)
                \/ ScanVisits(s) \/ ScanVisited(s) \/ ScanRechecks(s)
                \/ ScanWrites(s) \/ ScanEnds(s) \/ ScanFails(s)
  <2>1. disk' = disk
    BY <1>4 DEF Next, vars, OtherFlush, Listing, Reread, TimerFires, FlushWrites, FlushFails,
                PageLoad, Reopen, Loads
  <2> QED BY <2>1 DEF OneFile, Twice
<1> QED BY <1>1, <1>2, <1>3, <1>4

\* An own write, a listing and a re-read bring the index what the disk holds,
\* and call verified only what equals it.
Brings(c, v, w) ==
  /\ UpdateIndex(c, v, w)
  /\ \A p \in DOMAIN c : c[p] = disk'[p]
  /\ \A p \in v \ DOMAIN c : index[p] = disk'[p]
  /\ \A p \in Path \ DOMAIN c : disk'[p] = disk[p]
  /\ mine' \subseteq mine \cup DOMAIN c
  /\ w \/ (mine' = mine /\ disk' = disk)

LEMMA Indexes ==
  ASSUME TypeOK, OwnWrite \/ Listing \/ Reread
  PROVE  \E c \in Changes : \E v \in SUBSET Path, w \in BOOLEAN : Brings(c, v, w)
<1>1. CASE OwnWrite
  <2>0. PICK n \in Notes :
          \E c \in Operations(n) :
            Written(c) /\ UpdateIndex(c, {}, TRUE) /\ mine' = mine \cup DOMAIN c
    BY <1>1 DEF OwnWrite
  <2>1. PICK c \in Operations(n) :
          Written(c) /\ UpdateIndex(c, {}, TRUE) /\ mine' = mine \cup DOMAIN c
    BY <2>0
  <2>2. c \in Changes /\ DOMAIN c \subseteq Path
    BY <2>1, OperationTyped, UpdatedTyped DEF Written
  <2>3. \A p \in Path : IF p \in DOMAIN c THEN c[p] = disk'[p] ELSE disk'[p] = disk[p]
    BY <2>1, <2>2, WrittenTyped
  <2>4. Brings(c, {}, TRUE)
    BY <2>1, <2>2, <2>3 DEF Brings
  <2>5. {} \in SUBSET Path /\ TRUE \in BOOLEAN
    OBVIOUS
  <2> QED BY ONLY <2>2, <2>4, <2>5
<1>2. CASE Listing
  <2>1. PICK place \in Places : UpdateIndex(ListingChanges(place), ListingVerifies(place), FALSE)
    BY <1>2 DEF Listing
  <2>2. disk' = disk /\ mine' = mine
    BY <1>2 DEF Listing, hist
  <2>3. ListingVerifies(place) \in SUBSET Path /\ \A p \in ListingVerifies(place) : index[p] = disk[p]
    BY DEF ListingVerifies, In
  <2>4. ListingChanges(place) \in Changes /\ FALSE \in BOOLEAN
    BY ReadTyped
  <2>5. Brings(ListingChanges(place), ListingVerifies(place), FALSE)
    BY <2>1, <2>2, <2>3, ReadTyped DEF Brings
  <2>6. ListingVerifies(place) \in SUBSET Path
    BY <2>3
  <2> QED BY ONLY <2>4, <2>5, <2>6
<1>3. CASE Reread
  <2> DEFINE C(p) == IF disk[p] = index[p] THEN NoChange ELSE [q \in {p} |-> disk[p]]
  <2>1. PICK p \in Path : UpdateIndex(C(p), {p}, FALSE)
    BY <1>3 DEF Reread
  <2>2. disk' = disk /\ mine' = mine
    BY <1>3 DEF Reread, hist
  <2>3. C(p) \in Changes
    BY ReadTyped, Nothing
  <2>4. \A q \in DOMAIN C(p) : C(p)[q] = disk[q]
    BY ReadTyped, Nothing
  <2>5. p \in DOMAIN C(p) \/ index[p] = disk[p]
    BY ReadTyped
  <2> HIDE DEF C
  <2>6. Brings(C(p), {p}, FALSE)
    BY <2>1, <2>2, <2>4, <2>5 DEF Brings
  <2>7. {p} \in SUBSET Path /\ FALSE \in BOOLEAN
    OBVIOUS
  <2> QED BY ONLY <2>3, <2>6, <2>7
<1> QED BY <1>1, <1>2, <1>3

ScanActs(s) ==
  \/ ScanStarts(s) \/ \E place \in Places : ScanLists(s, place)
  \/ ScanVisits(s) \/ ScanVisited(s) \/ ScanRechecks(s)
  \/ ScanWrites(s) \/ ScanEnds(s) \/ ScanFails(s)

\* The steps by what they do to the scans.
LEMMA StepCases ==
  ASSUME [Next]_vars
  PROVE  \/ OwnWrite \/ Listing \/ Reread
         \/ \E s \in Scans : ScanActs(s)
         \/ PageLoad \/ Reopen
         \/ (OtherWrite \/ OtherFlush \/ TimerFires \/ FlushWrites \/ FlushFails \/ UNCHANGED vars) /\ scan' = scan
BY DEF Next, ScanActs, vars, OtherWrite, OtherFlush, TimerFires, FlushWrites, FlushFails

\* Where a folder is opened, a scan goes on, is as new, or starts.
LEMMA LoadScans ==
  ASSUME TypeOK, PageLoad \/ Reopen, NEW t \in Scans
  PROVE  scan'[t] = scan[t] \/ scan'[t] = Idle \/ scan'[t] = Starting(TRUE)
<1>1. scan \in [Scans -> Scan]
  BY DEF TypeOK, Scan
<1>2. CASE PageLoad
  <2>1. CASE scan' = [s \in Scans |-> Idle]
    BY <2>1
  <2>2. CASE \E s \in Scans : OpensScanning(s, [r \in Scans |-> Idle])
    BY <2>2 DEF OpensScanning
  <2> QED BY <1>2, <2>1, <2>2 DEF PageLoad
<1>3. CASE Reopen
  <2>1. CASE scan' = scan
    BY <2>1
  <2>2. CASE \E s \in Scans : OpensScanning(s, scan)
    BY <1>1, <2>2 DEF OpensScanning
  <2> QED BY <1>3, <2>1, <2>2 DEF Reopen
<1> QED BY <1>2, <1>3

\* A scan reaches its write by the re-check, and nothing changes its files then.
LEMMA WriteIsRechecked ==
  ASSUME TypeOK, [Next]_vars, NEW t \in Scans, scan'[t].at = "write"
  PROVE  ScanRechecks(t) \/ (scan[t].at = "write" /\ scan'[t].files = scan[t].files)
<1>0. scan \in [Scans -> Scan]
  BY DEF TypeOK, Scan
<1>1. CASE OwnWrite \/ Listing \/ Reread
  <2>1. PICK c \in Changes : \E v \in SUBSET Path, w \in BOOLEAN : Brings(c, v, w)
    BY <1>1, Indexes
  <2> QED BY <2>1, UpdateIndexTyped DEF Brings
<1>2. ASSUME NEW s \in Scans, ScanActs(s)
      PROVE  ScanRechecks(t) \/ (scan[t].at = "write" /\ scan'[t].files = scan[t].files)
  <2>1. CASE s # t
    BY <1>0, <1>2, <2>1 DEF ScanActs, ScanStarts, ScanLists, ScanVisits, ScanVisited, ScanRechecks,
          ScanStep, ScanWrites, ScanEnds, Ends, Unlogged, ScanFails
  <2>2. CASE s = t
    <3>1. CASE ScanStarts(s) \/ ScanEnds(s) \/ ScanFails(s)
      BY <1>0, <2>2, <3>1, IdleScan DEF ScanStarts, ScanEnds, Ends, Unlogged, ScanFails
    <3>2. CASE ScanWrites(s)
      BY <1>0, <2>2, <3>2 DEF ScanWrites, Scan
    <3>3. CASE \E place \in Places : ScanLists(s, place)
      <4>1. PICK place \in Places : ScanLists(s, place)
        BY <3>3
      <4>2. scan'[s].at \in {"visit live", "visit trash"}
        BY <1>0, <4>1 DEF ScanLists, ScanStep, Scan
      <4> QED BY <2>2, <4>2
    <3>5. CASE ScanVisited(s)
      <4>1. scan'[s].at \in {"list trash", "recheck"}
        BY <1>0, <3>5 DEF ScanVisited, ScanStep, Scan
      <4> QED BY <2>2, <4>1
    <3>4. CASE ScanVisits(s)
      <4>1. PICK p \in scan[s].todo : ScanStep(s, [scan[s] EXCEPT !.todo = @ \ {p}, !.files[p] = disk[p]])
        BY <3>4 DEF ScanVisits
      <4>2. scan'[s].at = scan[s].at
        BY <1>0, <4>1 DEF ScanStep, Scan
      <4> QED BY <2>2, <3>4, <4>2 DEF ScanVisits
    <3> QED BY <1>2, <2>2, <3>1, <3>2, <3>3, <3>4, <3>5 DEF ScanActs
  <2> QED BY <2>1, <2>2
<1>3. CASE PageLoad \/ Reopen
  BY <1>3, LoadScans, IdleScan
<1>4. CASE scan' = scan
  BY <1>4
<1> QED BY <1>1, <1>2, <1>3, <1>4, StepCases

LEMMA StepFindsOnce ==
  ASSUME TypeOK, OneFile, ScanFindsOnce, [Next]_vars
  PROVE  ScanFindsOnce'
<1> SUFFICES ASSUME NEW t \in Scans, scan'[t].at = "write" PROVE Twice(scan'[t].files) = {}
  BY DEF ScanFindsOnce, Twice
<1>1. CASE ScanRechecks(t)
  <2> DEFINE f == scan[t].files
             g == [p \in Path |-> IF p[1] \in Twice(f) THEN disk[p] ELSE f[p]]
  <2>1. scan'[t].files = g
    BY <1>1 DEF ScanRechecks, ScanStep, TypeOK
  <2>2. ASSUME NEW n \in Notes PROVE g[<<n, "live">>] = 0 \/ g[<<n, "trash">>] = 0
    <3>1. /\ g[<<n, "live">>] = IF n \in Twice(f) THEN disk[<<n, "live">>] ELSE f[<<n, "live">>]
          /\ g[<<n, "trash">>] = IF n \in Twice(f) THEN disk[<<n, "trash">>] ELSE f[<<n, "trash">>]
      BY DEF Path, Places
    <3>2. CASE n \in Twice(f)
      BY <3>1, <3>2, TwiceMeans DEF OneFile
    <3>3. CASE n \notin Twice(f)
      BY <3>1, <3>3 DEF Twice, Places
    <3> QED BY <3>2, <3>3
  <2> HIDE DEF g
  <2> QED BY <2>1, <2>2, TwiceMeans
<1>2. CASE scan[t].at = "write" /\ scan'[t].files = scan[t].files
  BY <1>2 DEF ScanFindsOnce
<1> QED BY <1>1, <1>2, WriteIsRechecked

\* The scan itself finds no note at two paths, however often the note was moved
\* while its pages were read, and however many scans run.
THEOREM FindsOnce == Spec => []ScanFindsOnce
<1>1. Init => OneFile
  BY TwiceMeans DEF Init, OneFile, Path, Places
<1>2. Init => ScanFindsOnce
  BY IdleScan DEF Init, ScanFindsOnce
<1>3. TypeOK /\ OneFile /\ ScanFindsOnce /\ [Next]_vars => OneFile' /\ ScanFindsOnce'
  BY StepOneFile, StepFindsOnce
<1> QED BY <1>1, <1>2, <1>3, TypeCorrect, PTL DEF Spec

-----------------------------------------------------------------------------
(* Verified entries *)

\* What a scan has read or was told is what the file has been, or nothing.
ScansSeen ==
  \A s \in Scans :
    /\ \A p \in Path : scan[s].files[p] \in seen[p] \cup {0}
    /\ \A p \in DOMAIN scan[s].during : scan[s].during[p] \in seen[p] \cup {0}

DiskSeen == \A p \in Path : disk[p] \in seen[p]

LEMMA WrittenSeen ==
  ASSUME TypeOK, \E n \in Notes : \E c \in Operations(n) : Written(c)
  PROVE  \A p \in Path : seen[p] \subseteq seen'[p] /\ disk'[p] \in seen'[p]
<1>1. PICK n \in Notes : \E c \in Operations(n) : Written(c)
  OBVIOUS
<1>2. PICK c \in Operations(n) : Written(c)
  BY <1>1
<1> QED BY <1>2, OperationTyped, WrittenTyped DEF Written

\* The page remembers what it has seen of the files.
LEMMA SeenGrows ==
  ASSUME TypeOK, DiskSeen, [Next]_vars, ~PageLoad
  PROVE  \A p \in Path : seen[p] \subseteq seen'[p] /\ disk'[p] \in seen'[p]
<1>1. CASE OwnWrite
  BY <1>1, WrittenSeen DEF OwnWrite
<1>2. CASE OtherWrite
  BY <1>2, WrittenSeen DEF OtherWrite
<1>3. CASE \E s \in Scans : ScanActs(s)
  <2>1. disk' = disk /\ seen' = seen
    BY <1>3 DEF ScanActs, ScanStarts, ScanLists, ScanVisits, ScanVisited, ScanRechecks, ScanStep,
                ScanWrites, ScanEnds, Ends, Unlogged, ScanFails, hist
  <2> QED BY <2>1 DEF DiskSeen
<1>4. CASE Listing \/ Reread \/ Reopen \/ OtherFlush \/ TimerFires \/ FlushWrites \/ FlushFails \/ UNCHANGED vars
  <2>1. disk' = disk /\ seen' = seen
    BY <1>4 DEF Listing, Reread, Reopen, Loads, OtherFlush, TimerFires, FlushWrites, FlushFails, vars, hist
  <2> QED BY <2>1 DEF DiskSeen
<1> QED BY <1>1, <1>2, <1>3, <1>4, StepCases

\* What a step reads or applies, the page has seen.
LEMMA StepScansSeen ==
  ASSUME TypeOK, DiskSeen, ScansSeen, [Next]_vars, ~PageLoad
  PROVE  ScansSeen'
<1> USE SeenGrows
<1>0. scan \in [Scans -> Scan]
  BY DEF TypeOK, Scan
<1> DEFINE Of(c) == /\ \A p \in Path : c.files[p] \in seen'[p] \cup {0}
                    /\ \A p \in DOMAIN c.during : c.during[p] \in seen'[p] \cup {0}
<1> SUFFICES ASSUME NEW t \in Scans PROVE Of(scan'[t])
  BY DEF ScansSeen
<1>1. scan[t] \in Scan /\ DOMAIN scan[t].during \subseteq Path
  BY <1>0, UpdatedTyped DEF Scan
<1>2. Of(scan[t])
  BY <1>1 DEF ScansSeen
<1>3. ASSUME NEW c, c.files = Empty, c.during = NoChange PROVE Of(c)
  BY <1>3, Nothing DEF Empty
<1>4. CASE OwnWrite \/ Listing \/ Reread
  <2>1. PICK c \in Changes : \E v \in SUBSET Path, w \in BOOLEAN : Brings(c, v, w)
    BY <1>4, Indexes
  <2>2. /\ scan'[t].files = scan[t].files
        /\ \/ scan'[t].during = scan[t].during
           \/ scan'[t].during = Updated(scan[t].during, c)
    BY <2>1, UpdateIndexTyped DEF Brings
  <2>3. \A p \in DOMAIN c : p \in Path /\ c[p] \in seen'[p] \cup {0}
    BY <2>1, UpdatedTyped DEF Brings
  <2>4. scan[t].during \in Changes
    BY <1>1 DEF Scan
  <2>5. CASE scan'[t].during = Updated(scan[t].during, c)
    <3>1. /\ DOMAIN scan'[t].during = DOMAIN scan[t].during \cup DOMAIN c
          /\ \A p \in DOMAIN scan[t].during \cup DOMAIN c :
               scan'[t].during[p] = IF p \in DOMAIN c THEN c[p] ELSE scan[t].during[p]
      <4> DEFINE e == scan[t].during
      <4>1. e \in Changes /\ scan'[t].during = Updated(e, c)
        BY <2>4, <2>5
      <4> HIDE DEF e
      <4>2. /\ DOMAIN Updated(e, c) = DOMAIN e \cup DOMAIN c
            /\ \A p \in DOMAIN e \cup DOMAIN c :
                 Updated(e, c)[p] = IF p \in DOMAIN c THEN c[p] ELSE e[p]
        BY ONLY <4>1, c \in Changes, UpdatedTyped
      <4> QED BY <4>1, <4>2 DEF e
    <3> QED BY <1>2, <2>2, <2>3, <3>1
  <2>6. CASE scan'[t].during = scan[t].during
    BY <1>2, <2>2, <2>6
  <2> QED BY <2>2, <2>5, <2>6
<1>5. ASSUME NEW s \in Scans, ScanActs(s) PROVE Of(scan'[t])
  <2>1. CASE s # t
    <3>1. scan'[t] = scan[t]
      BY <1>0, <1>5, <2>1 DEF ScanActs, ScanStarts, ScanLists, ScanVisits, ScanVisited, ScanRechecks,
            ScanStep, ScanWrites, ScanEnds, Ends, Unlogged, ScanFails
    <3> QED BY <1>2, <3>1
  <2>2. CASE s = t
    <3>1. CASE ScanStarts(s) \/ ScanEnds(s) \/ ScanFails(s)
      <4>1. scan'[t].files = Empty /\ scan'[t].during = NoChange
        BY <1>0, <2>2, <3>1, IdleScan DEF ScanStarts, ScanEnds, Ends, Unlogged, ScanFails
      <4> QED BY <1>3, <4>1
    <3>2. CASE ScanWrites(s)
      <4>1. scan'[t].files = Updated(scan[t].files, scan[t].during) /\ scan'[t].during = NoChange
        BY <1>0, <2>2, <3>2 DEF ScanWrites, Scan
      <4>2. \A p \in Path : Updated(scan[t].files, scan[t].during)[p] =
              IF p \in DOMAIN scan[t].during THEN scan[t].during[p] ELSE scan[t].files[p]
        BY <1>1, UpdatedTyped DEF Scan
      <4> QED BY <1>2, <4>1, <4>2, Nothing
    <3>3. CASE (\E place \in Places : ScanLists(s, place)) \/ ScanVisits(s) \/ ScanVisited(s) \/ ScanRechecks(s)
      <4>1. PICK c \in Scan : /\ scan' = [scan EXCEPT ![s] = c] /\ c.during = scan[s].during
                              /\ \A p \in Path : c.files[p] \in {scan[s].files[p], disk[p]}
        BY <3>3, PageStep
      <4>2. scan'[t] = c
        BY <1>0, <2>2, <4>1
      <4>3. disk' = disk
        BY <3>3, PageStep
      <4> QED BY <1>2, <2>2, <4>1, <4>2, <4>3
    <3> QED BY <1>5, <3>1, <3>2, <3>3 DEF ScanActs
  <2> QED BY <2>1, <2>2
<1>6. CASE Reopen
  BY <1>2, <1>3, <1>6, LoadScans, IdleScan
<1>7. CASE scan' = scan
  BY <1>2, <1>7
<1> QED BY <1>4, <1>5, <1>6, <1>7, StepCases

LEMMA StepEntriesSeen ==
  ASSUME TypeOK, DiskSeen, ScansSeen, VerifiedEntriesSeen, [Next]_vars, ~PageLoad
  PROVE  VerifiedEntriesSeen'
<1> USE SeenGrows
<1> SUFFICES ASSUME NEW p \in Path, p \notin unverified' PROVE index'[p] \in seen'[p] \cup {0}
  BY DEF VerifiedEntriesSeen, Path
<1>0. p \notin unverified => index[p] \in seen'[p] \cup {0}
  BY DEF VerifiedEntriesSeen
<1>1. CASE OwnWrite \/ Listing \/ Reread
  <2>1. PICK c \in Changes : \E v \in SUBSET Path, w \in BOOLEAN : Brings(c, v, w)
    BY <1>1, Indexes
  <2>2. PICK v \in SUBSET Path, w \in BOOLEAN : Brings(c, v, w)
    BY <2>1
  <2>3. index'[p] = IF p \in DOMAIN c THEN c[p] ELSE index[p]
    BY <2>2, UpdatedTyped DEF Brings, UpdateIndex, TypeOK
  <2>4. p \notin unverified \/ p \in DOMAIN c \/ p \in v
    BY <2>2 DEF Brings, UpdateIndex
  <2> QED BY <1>0, <2>2, <2>3, <2>4 DEF Brings
<1>2. ASSUME NEW s \in Scans, ScanEnds(s) PROVE index'[p] \in seen'[p] \cup {0}
  <2>1. index' = Updated(scan[s].files, scan[s].during)
    BY <1>2 DEF ScanEnds, Ends, Unlogged
  <2>2. scan[s].files \in Index /\ scan[s].during \in Changes
    BY DEF TypeOK
  <2>3. index'[p] = IF p \in DOMAIN scan[s].during THEN scan[s].during[p] ELSE scan[s].files[p]
    BY <2>1, <2>2, UpdatedTyped
  <2> QED BY <2>3 DEF ScansSeen
<1>3. CASE (\E s \in Scans : ScanActs(s) /\ ~ScanEnds(s))
  <2>1. index' = index /\ unverified' = unverified
    BY <1>3 DEF ScanActs, ScanStarts, ScanLists, ScanVisits, ScanVisited, ScanRechecks, ScanStep,
                ScanWrites, ScanFails, mem
  <2> QED BY <1>0, <2>1
<1>4. CASE Reopen
  <2>1. CASE OpensStored
    BY <1>4, <2>1 DEF OpensStored, Reopen, Loads
  <2>2. CASE UNCHANGED <<index, unverified>>
    BY <1>0, <2>2
  <2> QED BY <1>4, <2>1, <2>2 DEF Reopen
<1>5. CASE OtherWrite \/ OtherFlush \/ TimerFires \/ FlushWrites \/ FlushFails \/ UNCHANGED vars
  <2>1. index' = index /\ unverified' = unverified
    BY <1>5 DEF OtherWrite, OtherFlush, TimerFires, FlushWrites, FlushFails, vars, mem
  <2> QED BY <1>0, <2>1
<1> QED BY <1>1, <1>2, <1>3, <1>4, <1>5, StepCases

\* A page that is loaded has seen the files of now, and verified nothing.
LEMMA LoadSeen ==
  ASSUME TypeOK, PageLoad
  PROVE  DiskSeen' /\ ScansSeen' /\ VerifiedEntriesSeen'
<1>1. disk' = disk /\ seen' = [p \in Path |-> {disk[p]}] /\ file' = file
  BY DEF PageLoad, Loads
<1>2. DiskSeen'
  BY <1>1 DEF DiskSeen
<1>3. \A t \in Scans : scan'[t] = Idle \/ scan'[t] = Starting(TRUE)
  <2>1. CASE scan' = [s \in Scans |-> Idle]
    BY <2>1
  <2>2. CASE \E s \in Scans : OpensScanning(s, [r \in Scans |-> Idle])
    BY <2>2 DEF OpensScanning
  <2> QED BY <2>1, <2>2 DEF PageLoad
<1>4. ScansSeen'
  <2>1. ASSUME NEW t \in Scans PROVE scan'[t].files = Empty /\ scan'[t].during = NoChange
    BY <1>3, IdleScan
  <2> QED BY <2>1, Nothing DEF ScansSeen, Empty
<1>5. VerifiedEntriesSeen'
  <2>1. CASE OpensStored
    BY <1>1, <2>1 DEF OpensStored, VerifiedEntriesSeen
  <2>2. CASE index' = Empty
    BY <1>1, <2>2 DEF Empty, VerifiedEntriesSeen
  <2> QED BY <2>1, <2>2 DEF PageLoad
<1> QED BY <1>2, <1>4, <1>5

\* A list answers from an entry only if the file has been what the entry says
\* since this page opened the folder: read by a scan, compared, or written here.
THEOREM EntriesSeen == Spec => []VerifiedEntriesSeen
<1>1. ASSUME Init PROVE DiskSeen /\ ScansSeen /\ VerifiedEntriesSeen
  <2>1. DiskSeen
    BY <1>1 DEF Init, DiskSeen
  <2>2. ScansSeen
    <3>1. ASSUME NEW t \in Scans PROVE scan[t].files = Empty /\ scan[t].during = NoChange
      BY <1>1, IdleScan DEF Init
    <3> QED BY <3>1, Nothing DEF ScansSeen, Empty
  <2>3. VerifiedEntriesSeen
    BY <1>1 DEF Init, VerifiedEntriesSeen, Empty
  <2> QED BY <2>1, <2>2, <2>3
<1>2. ASSUME TypeOK, DiskSeen, ScansSeen, VerifiedEntriesSeen, [Next]_vars
      PROVE  DiskSeen' /\ ScansSeen' /\ VerifiedEntriesSeen'
  <2>1. CASE ~PageLoad
    <3>1. DiskSeen'
      BY <1>2, <2>1, SeenGrows DEF DiskSeen
    <3> QED BY <1>2, <2>1, <3>1, StepScansSeen, StepEntriesSeen
  <2> QED BY <1>2, <2>1, LoadSeen
<1>3. TypeOK /\ DiskSeen /\ ScansSeen /\ VerifiedEntriesSeen /\ [Next]_vars
        => DiskSeen' /\ ScansSeen' /\ VerifiedEntriesSeen'
  BY <1>2
<1> QED BY <1>1, <1>3, TypeCorrect, PTL DEF Spec

-----------------------------------------------------------------------------
(* Own writes *)

\* The newest scan, while it runs.
Newest(s) == scan[s].at # "idle" /\ s \notin overtaken

\* The change log is the newest scan's, and no scan's that is over.
Logged ==
  \A s \in Scans : /\ Newest(s) => log = s
                   /\ log = s => scan[s].at # "idle"
                   /\ scan[s].at = "idle" => scan[s] = Idle

\* The directory of p is still to be listed; its listed files are being read.
Ahead(c, p) ==
  \/ c.at \in {"idle", "list live"}
  \/ c.at \in {"visit live", "list trash"} /\ p[2] = "trash"
AtHand(c, p) == c.at = IF p[2] = "live" THEN "visit live" ELSE "visit trash"

\* An own write is in the scan's change log, or the scan has it, or will.
Has(c, p) ==
  IF p \in DOMAIN c.during THEN c.during[p] = disk[p]
  ELSE \/ c.files[p] = disk[p]
       \/ Ahead(c, p)
       \/ AtHand(c, p) /\ p \in c.todo

\* What a scan has read is in the directories it has listed.
Reads ==
  \A s \in Scans :
    /\ \A p \in Path : Ahead(scan[s], p) => scan[s].files[p] = 0
    /\ scan[s].at = "visit live" => scan[s].todo \subseteq In("live")

Scanned == Reads /\ \A s \in Scans : Newest(s) => \A p \in mine : Has(scan[s], p)

Indexed == "index" \notin astray => \A p \in mine : index[p] = disk[p]

\* index.json has the own writes that no flush and no change log will bring it.
Saved ==
  /\ (ours /\ ~dirty /\ flushes = 0 /\ "file" \notin astray) => \A p \in mine : file[p] = disk[p]
  /\ \A s \in Scans :
       (Newest(s) /\ ours /\ scan[s].at = "end" /\ "file" \notin astray)
         => \A p \in mine \ DOMAIN scan[s].during : file[p] = disk[p]

OwnInv == Logged /\ Scanned /\ Indexed /\ Saved

LEMMA OneNewest ==
  ASSUME Logged, NEW s \in Scans, NEW t \in Scans, Newest(s), Newest(t)
  PROVE  s = t
BY DEF Logged

\* An own write, a listing or a re-read: what it brings the index is in the change
\* log too, and a flush is due for what it wrote.
LEMMA IndexingKeeps ==
  ASSUME TypeOK, OwnInv, OwnWrite \/ Listing \/ Reread
  PROVE  OwnInv'
<1>1. PICK c \in Changes : \E v \in SUBSET Path, w \in BOOLEAN : Brings(c, v, w)
  BY Indexes
<1>2. PICK v \in SUBSET Path, w \in BOOLEAN : Brings(c, v, w)
  BY <1>1
<1>3. /\ \A p \in Path \ DOMAIN c : disk'[p] = disk[p]
      /\ \A p \in DOMAIN c : c[p] = disk'[p]
      /\ mine' \subseteq Path /\ mine' \subseteq mine \cup DOMAIN c
      /\ w \/ (mine' = mine /\ disk' = disk)
  BY <1>2, WriteTyped DEF Brings, TypeOK
<1>4. file' = file /\ ours' = ours /\ overtaken' = overtaken /\ astray' = astray
  BY DEF OwnWrite, Listing, Reread, hist
<1>5. /\ log' = log /\ flushes' = flushes /\ dirty' = (dirty \/ w)
      /\ index' = Updated(index, c)
  BY <1>2 DEF Brings, UpdateIndex
<1>6. \A p \in Path : index'[p] = IF p \in DOMAIN c THEN c[p] ELSE index[p]
  BY <1>5, UpdatedTyped DEF TypeOK
<1>7. ASSUME NEW s \in Scans
      PROVE  /\ scan'[s].at = scan[s].at /\ scan'[s].todo = scan[s].todo /\ scan'[s].files = scan[s].files
             /\ scan[s].at = "idle" => scan'[s] = scan[s]
             /\ Newest(s)' <=> Newest(s)
             /\ Newest(s) =>
                  /\ DOMAIN scan'[s].during = DOMAIN scan[s].during \cup DOMAIN c
                  /\ \A p \in DOMAIN scan[s].during \cup DOMAIN c :
                       scan'[s].during[p] = IF p \in DOMAIN c THEN c[p] ELSE scan[s].during[p]
  <2>1. /\ scan'[s].at = scan[s].at /\ scan'[s].todo = scan[s].todo /\ scan'[s].files = scan[s].files
        /\ scan'[s].during = IF log = s /\ log # NoScan THEN Updated(scan[s].during, c) ELSE scan[s].during
    BY <1>2, UpdateIndexTyped DEF Brings
  <2>2. ASSUME scan[s].at = "idle" PROVE scan'[s] = scan[s]
    <3>1. log # s
      BY <2>2 DEF OwnInv, Logged
    <3> QED BY <1>2, <3>1 DEF Brings, UpdateIndex, TypeOK
  <2>3. ASSUME Newest(s)
        PROVE  /\ DOMAIN scan'[s].during = DOMAIN scan[s].during \cup DOMAIN c
               /\ \A p \in DOMAIN scan[s].during \cup DOMAIN c :
                    scan'[s].during[p] = IF p \in DOMAIN c THEN c[p] ELSE scan[s].during[p]
    <3> DEFINE e == scan[s].during
    <3>1. log = s /\ log # NoScan
      BY <2>3, CacheAssumption DEF OwnInv, Logged
    <3>2. e \in Changes /\ scan'[s].during = Updated(e, c)
      BY <2>1, <3>1 DEF TypeOK
    <3> HIDE DEF e
    <3>3. /\ DOMAIN Updated(e, c) = DOMAIN e \cup DOMAIN c
          /\ \A p \in DOMAIN e \cup DOMAIN c : Updated(e, c)[p] = IF p \in DOMAIN c THEN c[p] ELSE e[p]
      BY ONLY <3>2, c \in Changes, UpdatedTyped
    <3> QED BY <3>2, <3>3 DEF e
  <2>4. Newest(s)' <=> Newest(s)
    BY <1>4, <2>1 DEF Newest
  <2> QED BY <2>1, <2>2, <2>3, <2>4
<1>8. Logged'
  BY <1>5, <1>7 DEF OwnInv, Logged
<1>9. Scanned'
  <2> SUFFICES ASSUME NEW s \in Scans
               PROVE  /\ \A p \in Path : Ahead(scan'[s], p) => scan'[s].files[p] = 0
                      /\ scan'[s].at = "visit live" => scan'[s].todo \subseteq In("live")
                      /\ Newest(s) => \A p \in mine' : Has(scan[s], p)'
    BY <1>7 DEF Scanned, Reads, Path, In
  <2>0. scan'[s].at = scan[s].at /\ scan'[s].todo = scan[s].todo /\ scan'[s].files = scan[s].files
    BY <1>7
  <2>1. /\ \A p \in Path : Ahead(scan'[s], p) => scan'[s].files[p] = 0
        /\ scan'[s].at = "visit live" => scan'[s].todo \subseteq In("live")
    <3>1. /\ \A p \in Path : Ahead(scan[s], p) => scan[s].files[p] = 0
          /\ scan[s].at = "visit live" => scan[s].todo \subseteq In("live")
      BY DEF OwnInv, Scanned, Reads
    <3>2. \A p \in Path : Ahead(scan'[s], p) <=> Ahead(scan[s], p)
      BY <2>0 DEF Ahead
    <3> QED BY <2>0, <3>1, <3>2
  <2>2. ASSUME Newest(s), NEW p \in mine' PROVE Has(scan[s], p)'
    <3>1. CASE p \in DOMAIN c
      BY <1>3, <1>7, <2>2, <3>1 DEF Has
    <3>2. CASE p \notin DOMAIN c
      <4>1. p \in mine /\ disk'[p] = disk[p] /\ Has(scan[s], p)
        BY <1>3, <2>2, <3>2 DEF OwnInv, Scanned, Reads
      <4> QED BY <1>7, <2>2, <3>2, <4>1 DEF Has, Ahead, AtHand
    <3> QED BY <3>1, <3>2
  <2> QED BY <2>1, <2>2
<1>10. Indexed'
  BY <1>3, <1>4, <1>6 DEF OwnInv, Indexed
<1>11. Saved'
  <2>1. ASSUME ours', ~dirty', flushes' = 0, "file" \notin astray', NEW p \in mine'
        PROVE  file'[p] = disk'[p]
    BY <1>3, <1>4, <1>5, <2>1 DEF OwnInv, Saved
  <2>2. ASSUME NEW s \in Scans, Newest(s)', ours', scan'[s].at = "end", "file" \notin astray',
               NEW p \in mine' \ DOMAIN scan'[s].during
        PROVE  file'[p] = disk'[p]
    <3>1. /\ p \notin DOMAIN c /\ p \in mine /\ p \notin DOMAIN scan[s].during
          /\ scan[s].at = "end" /\ Newest(s)
      BY <1>3, <1>7, <2>2
    <3> QED BY <1>3, <1>4, <2>2, <3>1 DEF OwnInv, Saved
  <2> QED BY <2>1, <2>2 DEF Saved
<1> QED BY <1>8, <1>9, <1>10, <1>11 DEF OwnInv

\* A write that takes no index along is no own write any more; and the flushes
\* write what the index has.
LEMMA OutsideKeeps ==
  ASSUME TypeOK, OwnInv, scan' = scan,
         OtherWrite \/ OtherFlush \/ TimerFires \/ FlushWrites \/ FlushFails \/ UNCHANGED vars
  PROVE  OwnInv'
<1>1. log' = log /\ index' = index /\ overtaken' = overtaken
  BY DEF OtherWrite, OtherFlush, TimerFires, FlushWrites, FlushFails, vars, mem, hist
<1>0. (\A s : Newest(s)' <=> Newest(s)) /\ ("index" \in astray' <=> "index" \in astray)
  BY <1>1 DEF OtherWrite, OtherFlush, TimerFires, FlushWrites, FlushFails, vars, hist, Newest
<1>2. mine' \subseteq mine /\ \A p \in mine' : disk'[p] = disk[p]
  <2>1. CASE OtherWrite
    <3>0. PICK n \in Notes : \E c \in Operations(n) : Written(c) /\ mine' = mine \ DOMAIN c
      BY <2>1 DEF OtherWrite
    <3>1. PICK c \in Operations(n) : Written(c) /\ mine' = mine \ DOMAIN c
      BY <3>0
    <3>2. c \in Changes
      BY <3>1, OperationTyped DEF Written
    <3> QED BY <3>1, <3>2, WrittenTyped DEF TypeOK
  <2>2. CASE OtherFlush \/ TimerFires \/ FlushWrites \/ FlushFails \/ UNCHANGED vars
    BY <2>2 DEF OtherFlush, TimerFires, FlushWrites, FlushFails, vars, hist
  <2> QED BY <2>1, <2>2
<1>3. Logged'
  BY <1>0, <1>1 DEF OwnInv, Logged
<1>4. Scanned'
  <2>1. ASSUME NEW s \in Scans, Newest(s), NEW p \in mine' PROVE Has(scan[s], p)'
    BY <1>2, <2>1 DEF OwnInv, Scanned, Reads, Has, Ahead, AtHand
  <2> QED BY <1>0, <2>1 DEF OwnInv, Scanned, Reads, Ahead, Path, In
<1>5. Indexed'
  BY <1>0, <1>1, <1>2 DEF OwnInv, Indexed
<1>6. Saved'
  <2>1. CASE FlushWrites
    <3>1. file' = index /\ ("file" \notin astray' => "index" \notin astray)
      BY <2>1 DEF FlushWrites
    <3> QED BY <1>2, <3>1 DEF OwnInv, Indexed, Saved
  <2>2. CASE OtherFlush
    BY <2>2 DEF OtherFlush, Saved
  <2>3. CASE OtherWrite \/ TimerFires \/ FlushFails \/ UNCHANGED vars
    <3>1. file' = file /\ ours' = ours /\ astray' = astray
      BY <2>3 DEF OtherWrite, TimerFires, FlushFails, vars, hist
    <3>2. (~dirty' /\ flushes' = 0) => (~dirty /\ flushes = 0)
      BY <2>3 DEF OtherWrite, TimerFires, FlushFails, vars, mem, TypeOK
    <3> QED BY <1>0, <1>2, <3>1, <3>2 DEF OwnInv, Saved
  <2> QED BY <2>1, <2>2, <2>3
<1> QED BY <1>3, <1>4, <1>5, <1>6 DEF OwnInv

\* Opening a folder forgets whose writes were whose.
LEMMA LoadKeeps ==
  ASSUME TypeOK, OwnInv, PageLoad \/ Reopen
  PROVE  OwnInv'
<1>1. mine' = {}
  BY DEF PageLoad, Reopen, Loads
<1>2. Logged'
  <2>1. ASSUME NEW scans \in [Scans -> Scan], NEW s \in Scans, OpensScanning(s, scans),
               \A r \in Scans : scans[r].at = "idle" => scans[r] = Idle,
               \A r \in Scans : scans[r].at # "idle" => r \in overtaken'
        PROVE  Logged'
    <3>1. scan'[s] = Starting(TRUE) /\ log' = s /\ \A r \in Scans \ {s} : scan'[r] = scans[r]
      BY <2>1 DEF OpensScanning
    <3>2. scan'[s].at # "idle"
      BY <3>1, IdleScan
    <3> QED BY <2>1, <3>1, <3>2 DEF Logged, Newest
  <2>2. /\ scan \in [Scans -> Scan] /\ [s \in Scans |-> Idle] \in [Scans -> Scan]
        /\ \A r \in Scans : scan[r].at = "idle" => scan[r] = Idle
    BY IdleScan DEF TypeOK, Scan, OwnInv, Logged
  <2>3. CASE PageLoad
    <3>1. CASE scan' = [s \in Scans |-> Idle] /\ log' = NoScan
      BY <3>1, IdleScan, CacheAssumption DEF Logged, Newest
    <3>2. \A r \in Scans : [s \in Scans |-> Idle][r] = Idle /\ Idle.at = "idle"
      BY IdleScan
    <3> QED BY <2>1, <2>2, <2>3, <3>1, <3>2 DEF PageLoad
  <2>4. CASE Reopen
    <3>1. \A r \in Scans : scan[r].at # "idle" => r \in overtaken'
      BY <2>4 DEF Reopen, Running
    <3>2. CASE UNCHANGED <<scan, log>>
      BY <3>1, <3>2 DEF OwnInv, Logged, Newest
    <3> QED BY <2>1, <2>2, <2>4, <3>1, <3>2 DEF Reopen
  <2> QED BY <2>3, <2>4
<1>3. Scanned'
  <2> SUFFICES ASSUME NEW s \in Scans
               PROVE  /\ \A p \in Path : Ahead(scan'[s], p) => scan'[s].files[p] = 0
                      /\ scan'[s].at = "visit live" => scan'[s].todo \subseteq In("live")
    BY <1>1 DEF Scanned, Reads, Path, In
  <2>1. CASE scan'[s] = scan[s]
    <3>1. /\ \A p \in Path : Ahead(scan[s], p) => scan[s].files[p] = 0
          /\ scan[s].at = "visit live" => scan[s].todo \subseteq In("live")
      BY DEF OwnInv, Scanned, Reads
    <3> QED BY <2>1, <3>1
  <2>2. CASE scan'[s] = Idle \/ scan'[s] = Starting(TRUE)
    <3>1. scan'[s].files = Empty /\ scan'[s].at # "visit live"
      BY <2>2, IdleScan
    <3> QED BY <3>1 DEF Empty
  <2> QED BY <2>1, <2>2, LoadScans
<1>4. Indexed' /\ Saved'
  BY <1>1 DEF Indexed, Saved
<1> QED BY <1>2, <1>3, <1>4 DEF OwnInv

\* A page of a scan: what it lists and reads is the disk of now.  Files of which
\* the scan has the last word, or will, stay such.
LEMMA PageHas ==
  ASSUME TypeOK, Reads, NEW s \in Scans,
         NEW K \in SUBSET Path, \A p \in K : Has(scan[s], p),
         \/ \E place \in Places : ScanLists(s, place)
         \/ ScanVisits(s) \/ ScanVisited(s) \/ ScanRechecks(s)
  PROVE  Reads' /\ \A p \in K : Has(scan[s], p)'
<1> DEFINE o == scan[s]
           n == scan'[s]
<1>1. disk' = disk
  BY PageStep
<1>2. /\ o \in Scan /\ n \in Scan /\ o.at # "idle" /\ n.at \notin {"idle", "end"} /\ n.during = o.during
      /\ \A p \in Path : n.files[p] \in {o.files[p], disk[p]}
  <2>1. PICK c \in Scan : /\ scan' = [scan EXCEPT ![s] = c]
                          /\ c.opening = o.opening /\ c.during = o.during
                          /\ c.at \notin {"idle", "end"}
                          /\ \A p \in Path : c.files[p] \in {o.files[p], disk[p]}
    BY PageStep
  <2>2. n = c /\ o \in Scan
    BY <2>1, ScanMoves DEF TypeOK, Scan
  <2> QED BY <2>1, <2>2, PageStep
<1>3. \A t \in Scans \ {s} : scan'[t] = scan[t]
  BY PageStep, ScanMoves
<1>4. /\ \A p \in Path : Ahead(o, p) => o.files[p] = 0
      /\ o.at = "visit live" => o.todo \subseteq In("live")
  BY DEF Reads
<1>5. scan \in [Scans -> Scan] /\ \A p \in Path : p[2] \in {"live", "trash"}
  BY DEF TypeOK, Scan, Path, Places
<1> DEFINE Goal == /\ \A p \in Path : Ahead(n, p) => n.files[p] = 0
                   /\ n.at = "visit live" => n.todo \subseteq In("live")
                   /\ \A p \in K \ DOMAIN o.during :
                        n.files[p] = disk[p] \/ Ahead(n, p) \/ (AtHand(n, p) /\ p \in n.todo)
<1>6. ASSUME ScanLists(s, "live") PROVE Goal
  <2>1. n = [o EXCEPT !.at = "visit live", !.todo = {p \in In("live") : disk[p] # 0}] /\ o.at = "list live"
    BY <1>5, <1>6 DEF ScanLists, ScanStep
  <2>2. n.at = "visit live" /\ n.todo = {p \in In("live") : disk[p] # 0} /\ n.files = o.files
    BY <1>2, <2>1 DEF Scan
  <2>3. \A p \in Path : o.files[p] = 0
    BY <1>4, <2>1 DEF Ahead
  <2> QED BY <1>5, <2>2, <2>3 DEF Ahead, AtHand, In
<1>7. ASSUME ScanLists(s, "trash") PROVE Goal
  <2>1. n = [o EXCEPT !.at = "visit trash", !.todo = {p \in In("trash") : disk[p] # 0}] /\ o.at = "list trash"
    BY <1>5, <1>7 DEF ScanLists, ScanStep
  <2>2. n.at = "visit trash" /\ n.todo = {p \in In("trash") : disk[p] # 0} /\ n.files = o.files
    BY <1>2, <2>1 DEF Scan
  <2>3. \A p \in Path : p[2] = "trash" => o.files[p] = 0
    BY <1>4, <2>1 DEF Ahead
  <2>4. \A p \in K \ DOMAIN o.during : p[2] = "live" => o.files[p] = disk[p]
    BY <1>4, <2>1 DEF Ahead, AtHand, Has
  <2>5. \A p \in Path : Ahead(n, p) => n.files[p] = 0
    BY <2>2 DEF Ahead
  <2>6. ASSUME NEW p \in K \ DOMAIN o.during
        PROVE  n.files[p] = disk[p] \/ (AtHand(n, p) /\ p \in n.todo)
    <3>1. CASE p[2] = "live"
      BY <2>2, <2>4, <3>1
    <3>2. CASE p[2] = "trash"
      <4>1. p \in Path /\ n.files[p] = 0 /\ AtHand(n, p)
        BY <1>5, <2>2, <2>3, <3>2 DEF AtHand
      <4> QED BY <2>2, <3>2, <4>1 DEF In
    <3> QED BY <1>5, <3>1, <3>2
  <2> QED BY <2>2, <2>5, <2>6
<1>8. ASSUME ScanVisits(s) PROVE Goal
  <2>1. PICK q \in o.todo : ScanStep(s, [o EXCEPT !.todo = @ \ {q}, !.files[q] = disk[q]])
    BY <1>8 DEF ScanVisits
  <2>2. n = [o EXCEPT !.todo = @ \ {q}, !.files[q] = disk[q]]
    BY <1>5, <2>1 DEF ScanStep
  <2>3. n.at = o.at /\ n.todo = o.todo \ {q} /\ q \in Path
        /\ \A p \in Path : n.files[p] = IF p = q THEN disk[p] ELSE o.files[p]
    BY <1>2, <2>2 DEF Scan, Index
  <2>4. o.at \in {"visit live", "visit trash"}
    BY <1>8 DEF ScanVisits
  <2>5. \A p \in Path : Ahead(n, p) => p # q
    BY <1>4, <2>3, <2>4 DEF Ahead, In
  <2>6. \A p \in Path : (Ahead(n, p) <=> Ahead(o, p)) /\ (AtHand(n, p) <=> AtHand(o, p))
    BY <2>3 DEF Ahead, AtHand
  <2>7. \A p \in K \ DOMAIN o.during : o.files[p] = disk[p] \/ Ahead(o, p) \/ (AtHand(o, p) /\ p \in o.todo)
    BY <1>4 DEF Has
  <2> QED BY <1>4, <1>5, <2>3, <2>5, <2>6, <2>7
<1>9. ASSUME ScanVisited(s) PROVE Goal
  <2>1. n = [o EXCEPT !.at = IF @ = "visit live" THEN "list trash" ELSE "recheck"]
        /\ o.at \in {"visit live", "visit trash"} /\ o.todo = {}
    BY <1>5, <1>9 DEF ScanVisited, ScanStep
  <2>2. n.files = o.files /\ n.at = IF o.at = "visit live" THEN "list trash" ELSE "recheck"
    BY <1>2, <2>1 DEF Scan
  <2>3. \A p \in Path : Ahead(n, p) => Ahead(o, p)
    BY <2>1, <2>2 DEF Ahead
  <2>4. \A p \in K \ DOMAIN o.during : o.files[p] = disk[p] \/ Ahead(o, p)
    BY <1>4, <2>1 DEF Has
  <2>5. \A p \in K \ DOMAIN o.during : Ahead(o, p) => Ahead(n, p)
    BY <1>5, <2>1, <2>2 DEF Ahead
  <2> QED BY <1>4, <1>5, <2>2, <2>3, <2>4, <2>5
<1>10. ASSUME ScanRechecks(s) PROVE Goal
  <2>1. o.at = "recheck" /\ n.at = "write"
    BY <1>2, <1>5, <1>10 DEF ScanRechecks, ScanStep, Scan
  <2>2. \A p \in K \ DOMAIN o.during : o.files[p] = disk[p]
    BY <1>4, <1>5, <2>1 DEF Has, Ahead, AtHand
  <2> QED BY <1>2, <1>5, <2>1, <2>2 DEF Ahead
<1>11. Goal
  BY <1>6, <1>7, <1>8, <1>9, <1>10 DEF Places
<1>12. Reads'
  <2> SUFFICES ASSUME NEW t \in Scans
               PROVE  /\ \A p \in Path : Ahead(scan'[t], p) => scan'[t].files[p] = 0
                      /\ scan'[t].at = "visit live" => scan'[t].todo \subseteq In("live")
    BY DEF Reads, Path, In
  <2>1. CASE t = s
    BY <1>11, <2>1
  <2>2. CASE t # s
    BY <1>3, <2>2 DEF Reads
  <2> QED BY <2>1, <2>2
<1>13. ASSUME NEW p \in K PROVE Has(scan[s], p)'
  <2>1. CASE p \in DOMAIN o.during
    BY <1>1, <1>2, <2>1 DEF Has
  <2>2. CASE p \notin DOMAIN o.during
    BY <1>1, <1>2, <1>11, <2>2 DEF Has, Ahead, AtHand
  <2> QED BY <2>1, <2>2
<1> QED BY <1>12, <1>13

\* So own writes stay such.
LEMMA PageKeeps ==
  ASSUME TypeOK, OwnInv, NEW s \in Scans,
         \/ \E place \in Places : ScanLists(s, place)
         \/ ScanVisits(s) \/ ScanVisited(s) \/ ScanRechecks(s)
  PROVE  OwnInv'
<1>1. /\ disk' = disk /\ file' = file /\ mine' = mine /\ ours' = ours /\ log' = log /\ index' = index
      /\ dirty' = dirty /\ flushes' = flushes /\ overtaken' = overtaken /\ astray' = astray
  BY PageStep DEF mem, hist
<1>2. /\ scan[s].at # "idle" /\ scan'[s].at \notin {"idle", "end"} /\ scan'[s].during = scan[s].during
      /\ \A t \in Scans \ {s} : scan'[t] = scan[t]
  BY PageStep, ScanMoves
<1>3. \A t \in Scans : Newest(t)' <=> Newest(t)
  BY <1>1, <1>2 DEF Newest
<1> DEFINE K == IF Newest(s) THEN mine ELSE {}
<1>4. K \in SUBSET Path /\ \A p \in K : Has(scan[s], p)
  BY DEF TypeOK, OwnInv, Scanned, Reads
<1>5. Reads' /\ \A p \in K : Has(scan[s], p)'
  <2> HIDE DEF K
  <2> QED BY <1>4, PageHas DEF OwnInv, Scanned, Reads
<1>6. Scanned'
  <2>1. ASSUME NEW t \in Scans, Newest(t), NEW p \in mine PROVE Has(scan[t], p)'
    <3>1. CASE t = s
      BY <1>5, <2>1, <3>1
    <3>2. CASE t # s
      BY <1>1, <1>2, <2>1, <3>2 DEF OwnInv, Scanned, Has, Ahead, AtHand
    <3> QED BY <3>1, <3>2
  <2> QED BY <1>1, <1>3, <1>5, <2>1 DEF Scanned, Reads
<1>7. Logged' /\ Indexed' /\ Saved'
  BY <1>1, <1>2, <1>3 DEF OwnInv, Logged, Indexed, Saved
<1> QED BY <1>6, <1>7 DEF OwnInv

\* The other steps of a scan.  The last hold writes the own writes it has and
\* those in the change log; what is logged after it is what the end adds, and
\* flushes.
LEMMA ScanKeeps ==
  ASSUME TypeOK, OwnInv, NEW s \in Scans,
         ScanStarts(s) \/ ScanWrites(s) \/ ScanEnds(s) \/ ScanFails(s)
  PROVE  OwnInv'
<1> DEFINE o == scan[s]
           u == Updated(o.files, o.during)
<1>1. disk' = disk /\ mine' = mine /\ flushes' = flushes
  BY DEF ScanStarts, ScanWrites, ScanEnds, Ends, Unlogged, ScanFails, hist, mem
<1>2. /\ scan \in [Scans -> Scan] /\ mine \subseteq Path
      /\ \A p \in Path : p[2] \in {"live", "trash"}
  BY DEF TypeOK, Scan, Path, Places
<1>3. o \in Scan /\ o.files \in Index /\ o.during \in Changes
  BY <1>2 DEF Scan
<1>4. u \in Index /\ \A p \in Path : u[p] = IF p \in DOMAIN o.during THEN o.during[p] ELSE o.files[p]
  BY <1>3, UpdatedTyped
<1>5. ASSUME Newest(s), o.at \in {"write", "end"} PROVE \A p \in mine : u[p] = disk[p]
  <2>1. ASSUME NEW p \in mine PROVE u[p] = disk[p]
    <3>1. Has(o, p)
      BY <1>5 DEF OwnInv, Scanned, Reads
    <3>2. ~Ahead(o, p) /\ ~AtHand(o, p)
      BY <1>2, <1>5 DEF Ahead, AtHand
    <3> QED BY <1>2, <1>4, <3>1, <3>2 DEF Has
  <2> QED BY <2>1
<1> HIDE DEF u
<1>6. \A t \in Scans \ {s} : scan'[t] = scan[t]
  BY <1>2 DEF ScanStarts, ScanWrites, ScanEnds, Ends, Unlogged, ScanFails
<1> DEFINE Other == \A t \in Scans \ {s} : Newest(t)' => Newest(t)
<1>7. Other
  BY <1>6 DEF ScanStarts, Running, ScanWrites, ScanEnds, Ends, Unlogged, ScanFails, Newest
<1>8. ASSUME /\ \A p \in Path : Ahead(scan'[s], p) => scan'[s].files[p] = 0
             /\ scan'[s].at = "visit live" => scan'[s].todo \subseteq In("live")
             /\ Newest(s)' => \A p \in mine : Has(scan[s], p)'
      PROVE  Scanned'
  <2>1. ASSUME NEW t \in Scans, t # s, Newest(t)', NEW p \in mine PROVE Has(scan[t], p)'
    <3>1. Has(scan[t], p) /\ scan'[t] = scan[t]
      BY <1>6, <1>7, <2>1 DEF OwnInv, Scanned
    <3> QED BY <1>1, <3>1 DEF Has, Ahead, AtHand
  <2>2. ASSUME NEW t \in Scans
        PROVE  /\ \A p \in Path : Ahead(scan'[t], p) => scan'[t].files[p] = 0
               /\ scan'[t].at = "visit live" => scan'[t].todo \subseteq In("live")
    BY <1>6, <1>8 DEF OwnInv, Scanned, Reads
  <2>3. Reads'
    BY <2>2 DEF Reads, Path, In
  <2> QED BY <1>1, <1>8, <2>1, <2>3 DEF Scanned
<1>9. ASSUME NEW c \in {Idle, Starting(FALSE)}, scan' = [scan EXCEPT ![s] = c] PROVE Scanned'
  <2>1. scan'[s] = c /\ c.files = Empty /\ DOMAIN c.during = {} /\ c.at \in {"idle", "list live"}
    BY <1>2, <1>9, IdleScan, Nothing
  <2>2. \A p \in Path : scan'[s].files[p] = 0
    BY <2>1 DEF Empty
  <2>3. \A p \in mine : Has(scan[s], p)'
    BY <2>1 DEF Has, Ahead
  <2> QED BY <1>8, <2>1, <2>2, <2>3
<1>10. CASE ScanStarts(s)
  <2>1. /\ scan'[s] = Starting(FALSE) /\ log' = s /\ index' = index /\ file' = file
        /\ ours' = ours /\ dirty' = dirty /\ astray' = astray /\ o.at = "idle"
    BY <1>2, <1>10 DEF ScanStarts
  <2>2. scan'[s].at = "list live"
    BY <2>1, IdleScan
  <2>3. \A t \in Scans \ {s} : ~Newest(t)'
    BY <1>6, <1>10 DEF ScanStarts, Running, Newest
  <2>4. Logged'
    BY <1>6, <2>1, <2>2, <2>3 DEF OwnInv, Logged
  <2>5. Scanned'
    BY <1>9, <1>10 DEF ScanStarts
  <2>6. Indexed' /\ Saved'
    BY <1>1, <2>1, <2>2, <2>3 DEF OwnInv, Indexed, Saved
  <2> QED BY <2>4, <2>5, <2>6 DEF OwnInv
<1>11. CASE ScanWrites(s)
  <2> DEFINE c == [o EXCEPT !.at = "end", !.files = u, !.during = NoChange]
  <2>1. /\ scan' = [scan EXCEPT ![s] = c] /\ file' = u /\ o.at = "write" /\ index' = index
        /\ log' = log /\ overtaken' = overtaken
        /\ "index" \notin astray' <=> "index" \notin astray
        /\ "file" \notin astray' => s \notin overtaken
    BY <1>11 DEF ScanWrites, mem, u
  <2>2. scan'[s].at = "end" /\ scan'[s].files = u /\ scan'[s].during = NoChange
    BY <1>2, <1>3, <2>1 DEF Scan
  <2>3. (Newest(s)' <=> Newest(s)) /\ (s \notin overtaken => Newest(s))
    BY <2>1, <2>2 DEF Newest
  <2>4. Newest(s) => \A p \in mine : u[p] = disk[p]
    BY <1>5, <2>1
  <2>5. Logged'
    BY <1>6, <1>7, <2>1, <2>2, <2>3 DEF OwnInv, Logged
  <2>6. Scanned'
    <3>1. \A p \in Path : ~Ahead(scan'[s], p)
      BY <2>2 DEF Ahead
    <3>2. Newest(s)' => \A p \in mine : Has(scan[s], p)'
      BY <1>1, <2>2, <2>3, <2>4, Nothing DEF Has
    <3> QED BY <1>8, <2>2, <3>1, <3>2
  <2>7. Indexed'
    BY <1>1, <2>1 DEF OwnInv, Indexed
  <2>8. "file" \notin astray' => \A p \in mine' : file'[p] = disk'[p]
    BY <1>1, <2>1, <2>3, <2>4
  <2>9. Saved'
    BY <2>8 DEF Saved
  <2> QED BY <2>5, <2>6, <2>7, <2>9 DEF OwnInv
<1>12. CASE ScanEnds(s)
  <2>1. /\ scan'[s] = Idle /\ index' = u /\ o.at = "end" /\ file' = file /\ ours' = ours
        /\ dirty' = (DOMAIN o.during # {})
        /\ log' = (IF log = s THEN NoScan ELSE log)
        /\ astray' = IF s \in overtaken THEN {"index", "file"} ELSE astray \ {"index"}
    BY <1>2, <1>12 DEF ScanEnds, Ends, Unlogged, u
  <2>2. scan'[s].at = "idle" /\ ~Newest(s)'
    BY <2>1, IdleScan DEF Newest
  <2>3. Logged'
    BY <1>6, <1>7, <2>1, <2>2, CacheAssumption DEF OwnInv, Logged
  <2>4. Scanned'
    BY <1>9, <1>12 DEF ScanEnds, Ends
  <2>5. CASE s \in overtaken
    <3>1. "index" \in astray' /\ "file" \in astray'
      BY <2>1, <2>5
    <3>2. Indexed' /\ Saved'
      BY <3>1 DEF Indexed, Saved
    <3> QED BY <2>3, <2>4, <3>2 DEF OwnInv
  <2>6. CASE s \notin overtaken
    <3>1. Newest(s)
      BY <2>1, <2>6 DEF Newest
    <3>2. Indexed'
      BY <1>1, <1>5, <2>1, <3>1 DEF Indexed
    <3>3. \A t \in Scans : ~Newest(t)'
      BY <1>7, <2>2, <3>1, OneNewest DEF OwnInv
    <3>4. ASSUME ours', ~dirty', "file" \notin astray', NEW p \in mine' PROVE file'[p] = disk'[p]
      BY <1>1, <2>1, <2>6, <3>1, <3>4 DEF OwnInv, Saved
    <3>5. Saved'
      BY <3>3, <3>4 DEF Saved
    <3> QED BY <2>3, <2>4, <3>2, <3>5 DEF OwnInv
  <2> QED BY <2>5, <2>6
<1>13. CASE ScanFails(s)
  <2>1. /\ scan'[s] = Idle /\ index' = index /\ file' = file /\ ours' = ours /\ dirty' = dirty
        /\ astray' = astray /\ log' = (IF log = s THEN NoScan ELSE log)
    BY <1>2, <1>13 DEF ScanFails, Unlogged
  <2>2. scan'[s].at = "idle" /\ ~Newest(s)'
    BY <2>1, IdleScan DEF Newest
  <2>3. Logged'
    BY <1>6, <1>7, <2>1, <2>2, CacheAssumption DEF OwnInv, Logged
  <2>4. Scanned'
    BY <1>9, <1>13 DEF ScanFails
  <2>5. Indexed' /\ Saved'
    BY <1>1, <1>6, <1>7, <2>1, <2>2 DEF OwnInv, Indexed, Saved
  <2> QED BY <2>3, <2>4, <2>5 DEF OwnInv
<1> QED BY <1>10, <1>11, <1>12, <1>13

LEMMA OwnInvariant == Spec => []OwnInv
<1>1. ASSUME Init PROVE OwnInv
  <2>1. PICK s \in Scans : log = s /\ scan = [r \in Scans |-> IF r = s THEN Starting(TRUE) ELSE Idle]
    BY <1>1 DEF Init
  <2>2. \A t \in Scans : scan[t].files = Empty /\ scan[t].at \in {"idle", "list live"}
    BY <2>1, IdleScan
  <2>3. mine = {}
    BY <1>1 DEF Init
  <2>4. Logged
    BY <2>1, IdleScan DEF Logged, Newest
  <2>5. Scanned
    BY <2>2, <2>3 DEF Scanned, Reads, Empty
  <2>6. Indexed /\ Saved
    BY <2>3 DEF Indexed, Saved
  <2> QED BY <2>4, <2>5, <2>6 DEF OwnInv
<1>2. ASSUME TypeOK, OwnInv, [Next]_vars PROVE OwnInv'
  <2>1. ASSUME NEW s \in Scans, ScanActs(s) PROVE OwnInv'
    BY <1>2, <2>1, ScanKeeps, PageKeeps DEF ScanActs
  <2> QED BY <1>2, <2>1, StepCases, IndexingKeeps, OutsideKeeps, LoadKeeps
<1>3. TypeOK /\ OwnInv /\ [Next]_vars => OwnInv'
  BY <1>2
<1>4. Init => OwnInv
  BY <1>1
<1> QED BY <1>3, <1>4, TypeCorrect, PTL DEF Spec

\* Nothing a scan read earlier undoes an own write, however many scans run: while
\* the folder is active the index has what this tab wrote last, unless a scan that
\* was overtaken by another set it since the last that was not.
THEOREM OwnIndexed == Spec => []OwnWritesIndexed
<1>1. OwnInv => OwnWritesIndexed
  BY DEF OwnInv, Indexed, OwnWritesIndexed
<1> QED BY <1>1, OwnInvariant, PTL

\* No flush that a scan drops loses an own write: index.json has it as soon as no
\* flush is due or on its way, unless another tab wrote the file since, or an
\* overtaken scan wrote it or dropped the flush it needs.
THEOREM OwnSaved == Spec => []OwnWritesSaved
<1>1. OwnInv => OwnWritesSaved
  BY DEF OwnInv, Saved, OwnWritesSaved
<1> QED BY <1>1, OwnInvariant, PTL

-----------------------------------------------------------------------------
(* Right entries stay right *)

\* Nothing the program knows of a file is newer than the last write: a write
\* leaves no entry right that it does not bring.
Stamped ==
  /\ loads \in Nat
  /\ \A p \in Path : disk[p] <= stamp /\ index[p] <= stamp
  /\ file # NoFile => \A p \in Path : file[p] <= stamp
  /\ \A s \in Scans : /\ \A p \in Path : scan[s].files[p] <= stamp
                      /\ \A p \in DOMAIN scan[s].during : scan[s].during[p] <= stamp

\* The files that are there and of which the index is right.
Right == {p \in Path : disk[p] # 0 /\ index[p] = disk[p]}

\* The newest scan has the last word on right entries, or will.
Told ==
  "index" \notin astray => \A s \in Scans : Newest(s) => \A p \in Right : Has(scan[s], p)

\* What an operation writes is 0 or the new stamp.
LEMMA OperationStamp ==
  ASSUME TypeOK, stamp < MaxStamp, NEW n \in Notes, NEW c \in Operations(n), NEW p \in DOMAIN c
  PROVE  c[p] \in {0, stamp + 1}
<1> DEFINE live == <<n, "live">>
           trash == <<n, "trash">>
           To(l, t) == [q \in {live, trash} |-> IF q = live THEN l ELSE t]
<1>1. \A l, t : /\ DOMAIN To(l, t) = {live, trash}
                /\ \A q \in {live, trash} : To(l, t)[q] \in {l, t}
  OBVIOUS
<1>2. c \in {To(stamp + 1, 0), To(0, stamp + 1), To(0, 0)}
  BY DEF Operations
<1> HIDE DEF To
<1> QED BY <1>1, <1>2

LEMMA WrittenStamp ==
  ASSUME TypeOK, NEW n \in Notes, NEW c \in Operations(n), Written(c)
  PROVE  /\ stamp' = stamp + 1
         /\ c \in Changes
         /\ \A p \in Path : disk'[p] = (IF p \in DOMAIN c THEN c[p] ELSE disk[p])
         /\ \A p \in DOMAIN c : p \in Path /\ c[p] \in {0, stamp'}
<1>1. c \in Changes /\ stamp' = stamp + 1 /\ stamp < MaxStamp
  BY OperationTyped DEF Written
<1> QED BY <1>1, WrittenTyped, UpdatedTyped, OperationStamp

\* Numbers of files, as they are compared.
LEMMA Numbers ==
  ASSUME TypeOK
  PROVE  /\ stamp \in Nat /\ stamp <= stamp
         /\ \A p \in Path : disk[p] \in Nat /\ index[p] \in Nat /\ (file # NoFile => file[p] \in Nat)
         /\ \A s \in Scans : /\ scan[s].files \in Index /\ scan[s].during \in Changes
                             /\ DOMAIN scan[s].during \subseteq Path
                             /\ \A p \in Path : scan[s].files[p] \in Nat
                             /\ \A p \in DOMAIN scan[s].during : scan[s].during[p] \in Nat
<1>1. stamp \in Nat /\ \A x \in 0..MaxStamp : x \in Nat
  BY CacheAssumption DEF TypeOK
<1>2. ASSUME NEW s \in Scans
      PROVE  scan[s].files \in Index /\ scan[s].during \in Changes
  BY DEF TypeOK
<1> QED BY <1>1, <1>2, UpdatedTyped DEF TypeOK, Index

\* An index change brings the scans nothing newer than itself.
LEMMA IndexingStamped ==
  ASSUME TypeOK, Stamped, OwnWrite \/ Listing \/ Reread
  PROVE  Stamped'
<1>1. PICK c \in Changes : \E v \in SUBSET Path, w \in BOOLEAN : Brings(c, v, w)
  BY Indexes
<1>2. PICK v \in SUBSET Path, w \in BOOLEAN : Brings(c, v, w)
  BY <1>1
<1>3. file' = file /\ loads' = loads
  BY DEF OwnWrite, Listing, Reread
<1>4. stamp' >= stamp /\ stamp' \in Nat /\ \A p \in Path : disk'[p] <= stamp' /\ disk'[p] \in Nat
  <2>1. CASE OwnWrite
    <3>1. PICK n \in Notes : \E d \in Operations(n) : Written(d)
      BY <2>1 DEF OwnWrite
    <3>2. PICK d \in Operations(n) : Written(d)
      BY <3>1
    <3>3. /\ stamp' = stamp + 1 /\ \A p \in Path : disk'[p] = (IF p \in DOMAIN d THEN d[p] ELSE disk[p])
          /\ \A p \in DOMAIN d : d[p] \in {0, stamp'}
      BY <3>2, WrittenStamp
    <3> QED BY <3>3, Numbers DEF Stamped
  <2>2. CASE Listing \/ Reread
    <3>1. disk' = disk /\ stamp' = stamp
      BY <2>2 DEF Listing, Reread
    <3> QED BY <3>1, Numbers DEF Stamped
  <2> QED BY <2>1, <2>2
<1>5. \A p \in DOMAIN c : p \in Path /\ c[p] <= stamp'
  BY <1>2, <1>4, UpdatedTyped DEF Brings
<1>6. \A p \in Path : index'[p] <= stamp'
  <2>1. \A p \in Path : index'[p] = IF p \in DOMAIN c THEN c[p] ELSE index[p]
    BY <1>2, UpdatedTyped DEF Brings, UpdateIndex, TypeOK
  <2> QED BY <1>4, <1>5, <2>1, Numbers DEF Stamped
<1>7. ASSUME NEW s \in Scans
      PROVE  /\ \A p \in Path : scan'[s].files[p] <= stamp'
             /\ \A p \in DOMAIN scan'[s].during : scan'[s].during[p] <= stamp'
  <2> DEFINE e == scan[s].during
  <2>1. /\ scan'[s].files = scan[s].files
        /\ scan'[s].during = Updated(e, c) \/ scan'[s].during = e
    BY <1>2, UpdateIndexTyped DEF Brings
  <2>2. e \in Changes /\ \A p \in DOMAIN e : e[p] <= stamp'
    BY <1>4, Numbers DEF Stamped
  <2> HIDE DEF e
  <2>3. /\ DOMAIN Updated(e, c) = DOMAIN e \cup DOMAIN c
        /\ \A p \in DOMAIN e \cup DOMAIN c : Updated(e, c)[p] = IF p \in DOMAIN c THEN c[p] ELSE e[p]
    BY ONLY <2>2, c \in Changes, UpdatedTyped
  <2>4. \A p \in Path : scan'[s].files[p] <= stamp'
    BY <1>4, <2>1, Numbers DEF Stamped
  <2> QED BY <1>5, <2>1, <2>2, <2>3, <2>4
<1>8. file' # NoFile => \A p \in Path : file'[p] <= stamp'
  BY <1>3, <1>4, Numbers DEF Stamped
<1> QED BY <1>3, <1>4, <1>6, <1>7, <1>8 DEF Stamped

LEMMA OutsideStamped ==
  ASSUME TypeOK, Stamped, scan' = scan,
         OtherWrite \/ OtherFlush \/ TimerFires \/ FlushWrites \/ FlushFails \/ UNCHANGED vars
  PROVE  Stamped'
<1>1. index' = index /\ loads' = loads
  BY DEF OtherWrite, OtherFlush, TimerFires, FlushWrites, FlushFails, vars, mem
<1>2. CASE OtherWrite
  <2>1. PICK n \in Notes : \E d \in Operations(n) : Written(d)
    BY <1>2 DEF OtherWrite
  <2>2. PICK d \in Operations(n) : Written(d)
    BY <2>1
  <2>3. /\ stamp' = stamp + 1 /\ \A p \in Path : disk'[p] = (IF p \in DOMAIN d THEN d[p] ELSE disk[p])
        /\ \A p \in DOMAIN d : d[p] \in {0, stamp'}
    BY <2>2, WrittenStamp
  <2>4. file' = file
    BY <1>2 DEF OtherWrite
  <2> QED BY <1>1, <2>3, <2>4, Numbers DEF Stamped
<1>3. CASE OtherFlush
  <2>1. disk' = disk /\ stamp' = stamp
    BY <1>3 DEF OtherFlush
  <2>2. ASSUME NEW p \in Path PROVE file'[p] <= stamp
    BY <1>3, Numbers DEF OtherFlush, Stamped
  <2> QED BY <1>1, <2>1, <2>2 DEF Stamped
<1>4. CASE TimerFires \/ FlushWrites \/ FlushFails \/ UNCHANGED vars
  <2>1. disk' = disk /\ stamp' = stamp /\ file' \in {file, index}
    BY <1>4 DEF TimerFires, FlushWrites, FlushFails, vars
  <2> QED BY <1>1, <2>1 DEF Stamped
<1> QED BY <1>2, <1>3, <1>4

\* A scan reads, applies and writes what was there.
LEMMA ScanStamped ==
  ASSUME TypeOK, Stamped, NEW s \in Scans, ScanActs(s)
  PROVE  Stamped'
<1> DEFINE o == scan[s]
           u == Updated(o.files, o.during)
<1>1. scan \in [Scans -> Scan] /\ stamp \in Nat /\ 0 <= stamp /\ o.files \in Index /\ o.during \in Changes
  BY Numbers DEF TypeOK, Scan
<1>2. disk' = disk /\ stamp' = stamp /\ loads' = loads
  BY DEF ScanActs, ScanStarts, ScanLists, ScanVisits, ScanVisited, ScanRechecks, ScanStep,
         ScanWrites, ScanEnds, Ends, Unlogged, ScanFails
<1>3. u \in Index /\ \A p \in Path : u[p] <= stamp
  <2>1. u \in Index /\ \A p \in Path : u[p] = IF p \in DOMAIN o.during THEN o.during[p] ELSE o.files[p]
    BY <1>1, UpdatedTyped
  <2> QED BY <2>1 DEF Stamped
<1> HIDE DEF u
<1>4. \A r \in Scans \ {s} : scan'[r] = scan[r]
  BY <1>1 DEF ScanActs, ScanStarts, ScanLists, ScanVisits, ScanVisited, ScanRechecks, ScanStep,
              ScanWrites, ScanEnds, Ends, Unlogged, ScanFails
<1>5. /\ \A p \in Path : scan'[s].files[p] <= stamp
      /\ \A p \in DOMAIN scan'[s].during : scan'[s].during[p] <= stamp
  <2>1. CASE ScanStarts(s) \/ ScanEnds(s) \/ ScanFails(s)
    <3>1. scan'[s].files = Empty /\ scan'[s].during = NoChange
      BY <1>1, <2>1, IdleScan DEF ScanStarts, ScanEnds, Ends, Unlogged, ScanFails
    <3> QED BY <1>1, <3>1, Nothing DEF Empty
  <2>2. CASE ScanWrites(s)
    <3>1. scan'[s].files = u /\ scan'[s].during = NoChange
      BY <1>1, <2>2 DEF ScanWrites, Scan, u
    <3> QED BY <1>3, <3>1, Nothing
  <2>3. CASE (\E place \in Places : ScanLists(s, place)) \/ ScanVisits(s) \/ ScanVisited(s) \/ ScanRechecks(s)
    <3>1. PICK c \in Scan : /\ scan' = [scan EXCEPT ![s] = c] /\ c.during = o.during
                            /\ \A p \in Path : c.files[p] \in {o.files[p], disk[p]}
      BY <2>3, PageStep
    <3>2. scan'[s] = c
      BY <1>1, <3>1
    <3> QED BY <3>1, <3>2 DEF Stamped
  <2> QED BY <2>1, <2>2, <2>3 DEF ScanActs
<1>6. index' \in {index, u} /\ file' \in {file, u}
  BY DEF ScanActs, ScanStarts, ScanLists, ScanVisits, ScanVisited, ScanRechecks, ScanStep,
         ScanWrites, ScanEnds, Ends, Unlogged, ScanFails, mem, u
<1> QED BY <1>2, <1>3, <1>4, <1>5, <1>6 DEF Stamped

LEMMA LoadStamped ==
  ASSUME TypeOK, Stamped, PageLoad \/ Reopen
  PROVE  Stamped'
<1>1. disk' = disk /\ stamp' = stamp /\ file' = file /\ loads' = loads + 1 /\ stamp \in Nat
  BY Numbers DEF PageLoad, Reopen, Loads
<1>2. index' = index \/ index' = Empty \/ (file # NoFile /\ index' = file)
  BY DEF PageLoad, Reopen, OpensStored
<1>3. \A p \in Path : index'[p] <= stamp
  BY <1>1, <1>2 DEF Stamped, Empty
<1>4. ASSUME NEW t \in Scans
      PROVE  /\ \A p \in Path : scan'[t].files[p] <= stamp
             /\ \A p \in DOMAIN scan'[t].during : scan'[t].during[p] <= stamp
  <2>1. CASE scan'[t] = scan[t]
    BY <2>1 DEF Stamped
  <2>2. CASE scan'[t] = Idle \/ scan'[t] = Starting(TRUE)
    <3>1. scan'[t].files = Empty /\ scan'[t].during = NoChange
      BY <2>2, IdleScan
    <3> QED BY <1>1, <3>1, Nothing DEF Empty
  <2> QED BY <2>1, <2>2, LoadScans
<1> QED BY <1>1, <1>3, <1>4 DEF Stamped

LEMMA StepStamped ==
  ASSUME TypeOK, Stamped, [Next]_vars
  PROVE  Stamped'
BY StepCases, IndexingStamped, OutsideStamped, ScanStamped, LoadStamped

\* The steps of a scan keep what it was told, and the newest one's end brings it
\* the index.
LEMMA ScanTold ==
  ASSUME TypeOK, Logged, Reads, Told, NEW s \in Scans, ScanActs(s)
  PROVE  /\ Told'
         /\ "index" \notin astray \cup astray' => \A p \in Right : index'[p] = index[p]
<1> DEFINE o == scan[s]
           K == IF Newest(s) /\ "index" \notin astray THEN Right ELSE {}
<1>1. /\ scan \in [Scans -> Scan] /\ disk' = disk /\ Right \in SUBSET Path
      /\ K \in SUBSET Path /\ \A p \in K : Has(o, p)
  BY DEF TypeOK, Scan, ScanActs, ScanStarts, ScanLists, ScanVisits, ScanVisited, ScanRechecks, ScanStep,
         ScanWrites, ScanEnds, Ends, Unlogged, ScanFails, Told, Right
<1>2. \A t \in Scans \ {s} : scan'[t] = scan[t]
  BY <1>1 DEF ScanActs, ScanStarts, ScanLists, ScanVisits, ScanVisited, ScanRechecks, ScanStep,
         ScanWrites, ScanEnds, Ends, Unlogged, ScanFails
<1>3. \A t \in Scans \ {s} : Newest(t)' => Newest(t)
  BY <1>2 DEF ScanActs, ScanStarts, Running, ScanLists, ScanVisits, ScanVisited, ScanRechecks, ScanStep,
         ScanWrites, ScanEnds, Ends, Unlogged, ScanFails, hist, Newest
\* Where the index stays, the other scans have what they had.
<1>4. ASSUME index' = index, "index" \notin astray' => "index" \notin astray,
             "index" \notin astray' /\ Newest(s)' => \A p \in Right : Has(scan[s], p)'
      PROVE  Told' /\ \A p \in Right : index'[p] = index[p]
  <2>1. Right' = Right
    BY <1>1, <1>4 DEF Right
  <2>2. ASSUME "index" \notin astray', NEW t \in Scans, t # s, Newest(t)', NEW p \in Right
        PROVE  Has(scan[t], p)'
    <3>1. Has(scan[t], p) /\ scan'[t] = scan[t]
      BY <1>2, <1>3, <1>4, <2>2 DEF Told
    <3> QED BY <1>1, <3>1 DEF Has, Ahead, AtHand
  <2> QED BY <1>4, <2>1, <2>2 DEF Told
<1>5. ASSUME o.at \in {"write", "end"}, NEW p \in K
      PROVE  Updated(o.files, o.during)[p] = disk[p]
  <2>1. o.files \in Index /\ o.during \in Changes /\ p \in Path /\ p[2] \in {"live", "trash"}
    BY <1>1 DEF Scan, Path, Places
  <2>2. Has(o, p) /\ ~Ahead(o, p) /\ ~AtHand(o, p)
    BY <1>1, <1>5, <2>1 DEF Ahead, AtHand
  <2> QED BY <2>1, <2>2, UpdatedTyped DEF Has
<1>6. CASE (\E place \in Places : ScanLists(s, place)) \/ ScanVisits(s) \/ ScanVisited(s) \/ ScanRechecks(s)
  <2>1. index' = index /\ overtaken' = overtaken /\ astray' = astray /\ o.at # "idle"
    BY <1>6, PageStep DEF mem, hist
  <2>2. \A p \in K : Has(scan[s], p)'
    <3> HIDE DEF K
    <3> QED BY <1>1, <1>6, PageHas
  <2>3. Newest(s)' => Newest(s)
    BY <2>1 DEF Newest
  <2> QED BY <1>4, <2>1, <2>2, <2>3
<1>7. CASE ScanStarts(s)
  <2>1. index' = index /\ astray' = astray /\ scan'[s] = Starting(FALSE)
    BY <1>1, <1>7 DEF ScanStarts
  <2>2. \A p \in Path : Has(scan[s], p)'
    BY <2>1, IdleScan, Nothing DEF Has, Ahead
  <2> QED BY <1>1, <1>4, <2>1, <2>2
<1>8. CASE ScanWrites(s)
  <2>1. /\ index' = index /\ o.at = "write" /\ overtaken' = overtaken
        /\ "index" \notin astray' <=> "index" \notin astray
    BY <1>8 DEF ScanWrites, mem
  <2>2. /\ scan'[s].files = Updated(o.files, o.during) /\ scan'[s].during = NoChange
        /\ scan'[s].at = "end"
    BY <1>1, <1>8 DEF ScanWrites, Scan
  <2>3. \A p \in K : Has(scan[s], p)'
    BY <1>1, <1>5, <2>1, <2>2, Nothing DEF Has
  <2>4. Newest(s)' => Newest(s)
    BY <2>1 DEF Newest
  <2> QED BY <1>4, <2>1, <2>3, <2>4
<1>9. CASE ScanEnds(s)
  <2>1. /\ index' = Updated(o.files, o.during) /\ o.at = "end" /\ scan'[s] = Idle
        /\ astray' = IF s \in overtaken THEN {"index", "file"} ELSE astray \ {"index"}
    BY <1>1, <1>9 DEF ScanEnds, Ends
  <2>2. CASE s \in overtaken
    BY <2>1, <2>2 DEF Told
  <2>3. CASE s \notin overtaken
    <3>1. Newest(s) /\ ~Newest(s)'
      BY <2>1, <2>3, IdleScan DEF Newest
    <3>2. \A t \in Scans : ~Newest(t)'
      BY <1>3, <3>1, OneNewest
    <3>3. "index" \notin astray => \A p \in Right : index'[p] = index[p]
      BY <1>5, <2>1, <3>1 DEF Right
    <3> QED BY <3>2, <3>3 DEF Told
  <2> QED BY <2>2, <2>3
<1>10. CASE ScanFails(s)
  <2>1. index' = index /\ astray' = astray /\ scan'[s] = Idle
    BY <1>1, <1>10 DEF ScanFails
  <2>2. ~Newest(s)'
    BY <2>1, IdleScan DEF Newest
  <2> QED BY <1>4, <2>1, <2>2
<1> QED BY <1>6, <1>7, <1>8, <1>9, <1>10 DEF ScanActs

\* What an own write, a listing or a re-read makes right is in the change log.
LEMMA IndexingTold ==
  ASSUME TypeOK, Logged, Told, OwnWrite \/ Listing \/ Reread
  PROVE  /\ Told'
         /\ \A p \in Right : disk'[p] = disk[p] => index'[p] = index[p]
<1>1. PICK c \in Changes : \E v \in SUBSET Path, w \in BOOLEAN : Brings(c, v, w)
  BY Indexes
<1>2. PICK v \in SUBSET Path, w \in BOOLEAN : Brings(c, v, w)
  BY <1>1
<1>3. /\ \A p \in Path \ DOMAIN c : disk'[p] = disk[p]
      /\ \A p \in DOMAIN c : c[p] = disk'[p]
      /\ \A p \in Path : index'[p] = IF p \in DOMAIN c THEN c[p] ELSE index[p]
  BY <1>2, UpdatedTyped DEF Brings, UpdateIndex, TypeOK
<1>4. overtaken' = overtaken /\ astray' = astray
  BY DEF OwnWrite, Listing, Reread, hist
<1>5. ASSUME "index" \notin astray, NEW s \in Scans, Newest(s)', NEW p \in Right'
      PROVE  Has(scan[s], p)'
  <2> DEFINE e == scan[s].during
  <2>1. /\ scan'[s].at = scan[s].at /\ scan'[s].todo = scan[s].todo /\ scan'[s].files = scan[s].files
        /\ scan'[s].during = IF log = s /\ log # NoScan THEN Updated(e, c) ELSE e
    BY <1>2, UpdateIndexTyped DEF Brings
  <2>2. Newest(s)
    BY <1>4, <1>5, <2>1 DEF Newest
  <2>3. e \in Changes /\ scan'[s].during = Updated(e, c)
    BY <2>1, <2>2, CacheAssumption DEF Logged, TypeOK
  <2> HIDE DEF e
  <2>4. /\ DOMAIN Updated(e, c) = DOMAIN e \cup DOMAIN c
        /\ \A q \in DOMAIN e \cup DOMAIN c : Updated(e, c)[q] = IF q \in DOMAIN c THEN c[q] ELSE e[q]
    BY ONLY <2>3, c \in Changes, UpdatedTyped
  <2>5. CASE p \in DOMAIN c
    BY <1>3, <2>3, <2>4, <2>5 DEF Has
  <2>6. CASE p \notin DOMAIN c
    <3>1. p \in Right /\ disk'[p] = disk[p]
      BY <1>3, <1>5, <2>6 DEF Right
    <3>2. Has(scan[s], p)
      BY <1>5, <2>2, <3>1 DEF Told
    <3>3. p \in DOMAIN scan'[s].during <=> p \in DOMAIN scan[s].during
      BY <2>3, <2>4, <2>6 DEF e
    <3>4. p \in DOMAIN scan[s].during => scan'[s].during[p] = scan[s].during[p]
      BY <2>3, <2>4, <2>6 DEF e
    <3> QED BY <2>1, <3>1, <3>2, <3>3, <3>4 DEF Has, Ahead, AtHand
  <2> QED BY <2>5, <2>6
<1> QED BY <1>3, <1>4, <1>5 DEF Told, Right

LEMMA OutsideTold ==
  ASSUME TypeOK, Stamped, Told, scan' = scan,
         OtherWrite \/ OtherFlush \/ TimerFires \/ FlushWrites \/ FlushFails \/ UNCHANGED vars
  PROVE  Told' /\ index' = index
<1>1. index' = index
  BY DEF OtherWrite, OtherFlush, TimerFires, FlushWrites, FlushFails, vars, mem
<1>0. (\A s : Newest(s)' <=> Newest(s)) /\ ("index" \in astray' <=> "index" \in astray)
  BY DEF OtherWrite, OtherFlush, TimerFires, FlushWrites, FlushFails, vars, hist, Newest
<1>2. ASSUME NEW p \in Right' PROVE p \in Right /\ disk'[p] = disk[p]
  <2>1. CASE OtherWrite
    <3>1. PICK n \in Notes : \E d \in Operations(n) : Written(d)
      BY <2>1 DEF OtherWrite
    <3>2. PICK d \in Operations(n) : Written(d)
      BY <3>1
    <3>3. /\ stamp' = stamp + 1 /\ \A q \in Path : disk'[q] = (IF q \in DOMAIN d THEN d[q] ELSE disk[q])
          /\ \A q \in DOMAIN d : d[q] \in {0, stamp'}
      BY <3>2, WrittenStamp
    <3>4. disk'[p] # stamp + 1
      BY <1>1, Numbers DEF Right, Stamped
    <3> QED BY <1>1, <3>3, <3>4 DEF Right
  <2>2. CASE OtherFlush \/ TimerFires \/ FlushWrites \/ FlushFails \/ UNCHANGED vars
    <3>1. disk' = disk
      BY <2>2 DEF OtherFlush, TimerFires, FlushWrites, FlushFails, vars
    <3> QED BY <1>1, <3>1 DEF Right
  <2> QED BY <2>1, <2>2
<1>3. "index" \notin astray => \A s \in Scans : Newest(s) => \A p \in Right' : Has(scan[s], p)'
  BY <1>2 DEF Told, Has, Ahead, AtHand
<1> QED BY <1>0, <1>1, <1>3 DEF Told

\* Where a folder is opened, the newest scan has read nothing yet.
LEMMA LoadTold ==
  ASSUME TypeOK, PageLoad \/ Reopen
  PROVE  Told'
<1>1. ASSUME NEW t \in Scans, Newest(t)' PROVE scan'[t] = Starting(TRUE)
  <2>1. CASE PageLoad
    <3>1. scan'[t] = Idle \/ scan'[t] = Starting(TRUE)
      <4>1. CASE scan' = [s \in Scans |-> Idle]
        BY <4>1
      <4>2. CASE \E s \in Scans : OpensScanning(s, [r \in Scans |-> Idle])
        BY <4>2 DEF OpensScanning
      <4> QED BY <2>1, <4>1, <4>2 DEF PageLoad
    <3> QED BY <1>1, <3>1, IdleScan DEF Newest
  <2>2. CASE Reopen
    <3>1. scan[t].at # "idle" => t \in overtaken'
      BY <2>2 DEF Reopen, Running
    <3> QED BY <1>1, <2>2, <3>1, LoadScans, IdleScan DEF Newest
  <2> QED BY <2>1, <2>2
<1>2. ASSUME NEW t \in Scans, Newest(t)', NEW p PROVE Has(scan[t], p)'
  BY <1>1, <1>2, IdleScan, Nothing DEF Has, Ahead
<1> QED BY <1>2 DEF Told

\* An entry that is right stays right until its file is written or the folder is
\* opened anew: what a listing or a re-read found of other tabs' writes, no scan
\* undoes that no other one overtook, however many run.
THEOREM RightStays == Spec => EntriesStayRight
<1>1. ASSUME Init PROVE Stamped /\ Told
  <2>1. \A s \in Scans : scan[s] = Idle \/ scan[s] = Starting(TRUE)
    BY <1>1 DEF Init
  <2>2. \A s \in Scans : scan[s].files = Empty /\ scan[s].during = NoChange
    BY <2>1, IdleScan
  <2>3. Stamped
    <3>1. /\ stamp = 1 /\ loads = 0 /\ file = NoFile
          /\ \A p \in Path : index[p] = 0 /\ (disk[p] = 0 \/ disk[p] = 1)
      BY <1>1 DEF Init, Empty
    <3>2. ASSUME NEW s \in Scans
          PROVE  /\ \A p \in Path : scan[s].files[p] = 0
                 /\ DOMAIN scan[s].during = {}
      BY <2>2, Nothing DEF Empty
    <3>3. /\ \A p \in Path : disk[p] <= stamp /\ index[p] <= stamp
          /\ loads \in Nat
      BY <3>1
    <3>4. \A s \in Scans : \A p \in Path : scan[s].files[p] <= stamp
      BY <3>1, <3>2
    <3>5. \A s \in Scans : \A p \in DOMAIN scan[s].during : scan[s].during[p] <= stamp
      BY <3>2
    <3> QED BY <3>1, <3>3, <3>4, <3>5 DEF Stamped
  <2>4. Told
    BY <1>1 DEF Init, Told, Right, Empty
  <2> QED BY <2>3, <2>4
<1> DEFINE Stays == \A p \in Path : /\ disk[p] # 0 /\ index[p] = disk[p]
                                    /\ disk'[p] = disk[p] /\ loads' = loads
                                    /\ "index" \notin astray \cup astray'
                                    => index'[p] = index[p]
<1>2. ASSUME TypeOK, OwnInv, Stamped, Told, [Next]_vars
      PROVE  Stamped' /\ Told' /\ Stays
  <2>1. Logged /\ Reads
    BY <1>2 DEF OwnInv, Scanned
  <2>2. CASE PageLoad \/ Reopen
    <3>1. loads' # loads
      BY <1>2, <2>2 DEF PageLoad, Reopen, Loads, Stamped
    <3> QED BY <1>2, <2>2, <3>1, StepStamped, LoadTold
  <2>3. ASSUME NEW s \in Scans, ScanActs(s)
        PROVE  Told' /\ ("index" \notin astray \cup astray' => \A p \in Right : index'[p] = index[p])
    BY <1>2, <2>1, <2>3, ScanTold
  <2>4. Stamped'
    BY <1>2, StepStamped
  <2> QED BY <1>2, <2>1, <2>2, <2>3, <2>4, StepCases, IndexingTold, OutsideTold DEF Right
<1>3. TypeOK /\ OwnInv /\ Stamped /\ Told /\ [Next]_vars => Stamped' /\ Told' /\ [Stays]_vars
  BY <1>2
<1>4. Init => Stamped /\ Told
  BY <1>1
<1>5. Spec => [][Stays]_vars
  <2> HIDE DEF Stays
  <2> QED BY <1>3, <1>4, OwnInvariant, TypeCorrect, PTL DEF Spec
<1> QED BY <1>5 DEF EntriesStayRight
=============================================================================
