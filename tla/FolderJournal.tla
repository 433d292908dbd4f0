---------------------------- MODULE FolderJournal ---------------------------
(***************************************************************************)
(* The write-ahead journal of a local folder and the requests of several   *)
(* browser tabs that read and write through it:                            *)
(*                                                                         *)
(*   local_folder/folder_journal.dart   commit, replay, the read path      *)
(*   local_folder/transport.dart        one request: chunk, skip set, 503  *)
(*   local_folder/folder_journal_record.dart   the record                  *)
(*                                                                         *)
(* Every file write and removal is a step of its own, because a crash or a *)
(* failing file system call can come between any two of them.  The folder  *)
(* lock is SharedMutex, which FolderLock implements.  The text of a file   *)
(* is the id of the operation that wrote it.  Edits made outside the app   *)
(* and the version history that keeps them are in JournalSnapshots.        *)
(***************************************************************************)
EXTENDS Integers

CONSTANTS Tabs,             \* browser tabs, each sending one request at a time
          OldTabs,          \* tabs whose build is older than the others'
          Paths,            \* the files operations touch
          Rank,             \* Rank[p]: the place of p in the order of step 3
          Ops,              \* operation ids, in the order of their text
          Shapes,           \* the [writes, removals] a handler may journal
          MaxFails,         \* bound: file system calls that throw
          MaxCrashes        \* bound: tabs that close or crash in a hold

ASSUME OpsAssumption == Ops \subseteq Nat \ {0}
ASSUME RankAssumption == Rank \in [Paths -> Nat]
ASSUME ShapesAssumption ==
  /\ Shapes \subseteq [writes : SUBSET Paths, removals : SUBSET Paths]
  /\ \A s \in Shapes : /\ s.writes \cap s.removals = {}
                      /\ s.writes \cup s.removals # {}

ASSUME BoundsAssumption == MaxFails \in Nat /\ MaxCrashes \in Nat

VARIABLES disk,             \* disk[p]: the content of file p
          journal,          \* the records in .notechondria/journal
          record,           \* record[o]: what o writes and removes, and by whom
          hold,             \* the folder lock, see SharedMutex
          pc,               \* where the request of each tab is
          skip,             \* skip[t]: the request's skipPaths
          met,              \* met[t]: the records a reader's roll-forward listed
          todo,             \* exclusive holder: records still to roll forward
          cur,              \* exclusive holder: the record being applied, or 0
          applied,          \* exclusive holder: the paths of cur already applied
          fails, crashes    \* how many failures and crashes happened

tabVars  == <<hold, pc, skip, met>>
workVars == <<todo, cur, applied>>
vars == <<disk, journal, record, tabVars, workVars, fails, crashes>>

-----------------------------------------------------------------------------
(* Records. *)
Absent == -1
NoRecord == [writes |-> {}, removals |-> {}, tooNew |-> FALSE]

Used == {o \in Ops : record[o] # NoRecord}
Touched(o) == record[o].writes \cup record[o].removals
Text(o, p) == IF p \in record[o].writes THEN o ELSE Absent

(* pendingPaths: every path a record in the journal names. *)
PendingPaths == UNION {Touched(o) : o \in journal}

(* A build reads records of its own schema version or an older one. *)
Readable(t, o) == record[o].tooNew => t \notin OldTabs

(* The record's next file: writes in the order of their rank, and only     *)
(* after the last of them the removals.                                    *)
NextPaths(o) ==
  LET left == record[o].writes \ applied
  IN  IF left # {}
      THEN {p \in left : \A q \in left : Rank[p] <= Rank[q]}
      ELSE record[o].removals \ applied

-----------------------------------------------------------------------------
(* The folder lock. *)
Lock == INSTANCE SharedMutex WITH Procs <- Tabs, hold <- hold

Acquire(t, m) == Lock!Handover({}, {t}, [p \in {t} |-> m])
Drop(t)       == Lock!Handover({t}, {}, [p \in {} |-> "none"])

Init ==
  /\ disk = [p \in Paths |-> 0]
  /\ journal = {}
  /\ record = [o \in Ops |-> NoRecord]
  /\ Lock!Init
  /\ pc = [t \in Tabs |-> "idle"]
  /\ skip = [t \in Tabs |-> {}]
  /\ met = [t \in Tabs |-> {}]
  /\ todo = {} /\ cur = 0 /\ applied = {}
  /\ fails = 0 /\ crashes = 0

(* The request of t ends, answered or not: its context is dropped. *)
EndRequest(t) ==
  /\ pc' = [pc EXCEPT ![t] = "idle"]
  /\ skip' = [skip EXCEPT ![t] = {}]
  /\ met' = [met EXCEPT ![t] = {}]

Goto(t, place) == pc' = [pc EXCEPT ![t] = place]

IdleWork == todo' = {} /\ cur' = 0 /\ applied' = {}

-----------------------------------------------------------------------------
(* Requests that read: readWithJournalCheck. *)

(* Mutant of ReadFirst: the reader does not look at the journal. *)
ReadFirstUnchecked(t) ==
  /\ pc[t] = "idle"
  /\ Acquire(t, "shared")
  /\ Goto(t, "reading")
  /\ UNCHANGED <<disk, journal, record, skip, met, workVars, fails, crashes>>

(* The first shared hold finds the journal empty and serves. *)
ReadFirst(t) ==
  /\ pc[t] = "idle"
  /\ journal = {}
  /\ Acquire(t, "shared")
  /\ Goto(t, "reading")
  /\ UNCHANGED <<disk, journal, record, skip, met, workVars, fails, crashes>>

(* The first shared hold finds records: it lets go, to roll forward.  A    *)
(* shared hold changes nothing, so taking and releasing it is one step.    *)
ReadFindsJournal(t) ==
  /\ pc[t] = "idle"
  /\ journal # {}
  /\ \A u \in Tabs : hold[u] # "exclusive"
  /\ Goto(t, "toRoll")
  /\ UNCHANGED <<disk, journal, record, hold, skip, met, workVars, fails, crashes>>

(* rollForwardUnderLock: the reader lists the journal again. *)
ReadRolls(t) ==
  /\ pc[t] = "toRoll"
  /\ Acquire(t, "exclusive")
  /\ Goto(t, "rollRead")
  /\ met' = [met EXCEPT ![t] = journal]
  /\ todo' = journal
  /\ UNCHANGED <<disk, journal, record, skip, cur, applied, fails, crashes>>

(* Mutants of ReadAgain: nothing is skipped; what is skipped was listed    *)
(* before the lock was let go.                                             *)
ReadAgainSkippingNothing(t) ==
  /\ pc[t] \in {"reReadAll", "reReadSkipping"}
  /\ Acquire(t, "shared")
  /\ Goto(t, IF pc[t] = "reReadSkipping" THEN "readingSkipping" ELSE "rereading")
  /\ UNCHANGED <<disk, journal, record, skip, met, workVars, fails, crashes>>

ReadAgainStaleSkip(t) ==
  /\ pc[t] \in {"reReadAll", "reReadSkipping"}
  /\ Acquire(t, "shared")
  /\ skip' = [skip EXCEPT ![t] = UNION {Touched(o) : o \in met[t]}]
  /\ Goto(t, IF pc[t] = "reReadSkipping" THEN "readingSkipping" ELSE "rereading")
  /\ UNCHANGED <<disk, journal, record, met, workVars, fails, crashes>>

(* The second shared hold.  Only a failed roll-forward leaves a skip set;  *)
(* the journal is not looked at again after a successful one.              *)
ReadAgain(t) ==
  /\ pc[t] \in {"reReadAll", "reReadSkipping"}
  /\ Acquire(t, "shared")
  /\ skip' = [skip EXCEPT ![t] = IF pc[t] = "reReadSkipping" THEN PendingPaths ELSE {}]
  /\ Goto(t, IF pc[t] = "reReadSkipping" THEN "readingSkipping" ELSE "rereading")
  /\ UNCHANGED <<disk, journal, record, met, workVars, fails, crashes>>

Reading(t) == pc[t] \in {"reading", "rereading", "readingSkipping"}

ReadEnds(t) ==
  /\ Reading(t)
  /\ Drop(t)
  /\ EndRequest(t)
  /\ UNCHANGED <<disk, journal, record, workVars, fails, crashes>>

(* A lock wait inside a request runs out (FolderLockTimeout, deadline): it *)
(* answers 503.                                                            *)
GivesUp(t) ==
  /\ pc[t] \in {"toRoll", "reReadAll", "reReadSkipping", "between"}
  /\ EndRequest(t)
  /\ UNCHANGED <<disk, journal, record, hold, workVars, fails, crashes>>

-----------------------------------------------------------------------------
(* Requests that write: _Context.chunk, then the handler.  A chunked route *)
(* takes the lock anew for each of its steps, with one context for all.    *)

(* Mutant of WriteBegins: a write does not roll forward first. *)
WriteBeginsWithoutRolling(t) ==
  /\ pc[t] \in {"idle", "between"}
  /\ Acquire(t, "exclusive")
  /\ Goto(t, "rollWrite")
  /\ UNCHANGED <<disk, journal, record, skip, met, workVars, fails, crashes>>

WriteBegins(t) ==
  /\ pc[t] \in {"idle", "between"}
  /\ Acquire(t, "exclusive")
  /\ Goto(t, "rollWrite")
  /\ todo' = journal
  /\ UNCHANGED <<disk, journal, record, skip, met, cur, applied, fails, crashes>>

(* Mutant of Commit: _beforeWrite does not look at the skip set. *)
CommitUnchecked(t, o, s) ==
  /\ pc[t] = "handling"
  /\ o \notin Used
  /\ record' = [record EXCEPT ![o] = [writes |-> s.writes, removals |-> s.removals,
                                      tooNew |-> t \notin OldTabs /\ OldTabs # {}]]
  /\ journal' = journal \cup {o}
  /\ cur' = o /\ applied' = {}
  /\ Goto(t, "applying")
  /\ UNCHANGED <<disk, hold, skip, met, todo, fails, crashes>>

(* _beforeWrite lets the record of o through and commit writes it: from    *)
(* here on the operation is going to happen.                               *)
Commit(t, o, s) ==
  /\ pc[t] = "handling"
  /\ o \notin Used
  /\ (s.writes \cup s.removals) \cap skip[t] = {}
  /\ record' = [record EXCEPT ![o] = [writes |-> s.writes, removals |-> s.removals,
                                      tooNew |-> t \notin OldTabs /\ OldTabs # {}]]
  /\ journal' = journal \cup {o}
  /\ cur' = o /\ applied' = {}
  /\ Goto(t, "applying")
  /\ UNCHANGED <<disk, hold, skip, met, todo, fails, crashes>>

(* ctx.writeText: one file, replaced in one step and not journaled. *)
WriteOneFile(t, o, p) ==
  /\ pc[t] = "handling"
  /\ o \notin Used
  /\ p \notin skip[t]
  /\ disk' = [disk EXCEPT ![p] = o]
  /\ record' = [record EXCEPT ![o] = [NoRecord EXCEPT !.writes = {p}]]
  /\ UNCHANGED <<journal, tabVars, workVars, fails, crashes>>

(* One chunk of several is done: other requests run before the next one.   *)
ChunkEnds(t) ==
  /\ pc[t] = "handling"
  /\ Drop(t)
  /\ Goto(t, "between")
  /\ IdleWork
  /\ UNCHANGED <<disk, journal, record, skip, met, fails, crashes>>

(* The handler has nothing (more) to write, or answers an error before it  *)
(* writes: a validation error, a 404, or 503 writeBlockedByJournal.        *)
HandlerEnds(t) ==
  /\ pc[t] = "handling"
  /\ Drop(t)
  /\ EndRequest(t)
  /\ IdleWork
  /\ UNCHANGED <<disk, journal, record, fails, crashes>>

-----------------------------------------------------------------------------
(* FolderJournal.rollForward and _apply, inside the exclusive hold. *)
Rolling(t) == pc[t] \in {"rollRead", "rollWrite"}

(* The next record in op-id order. *)
RollNext(t) ==
  /\ Rolling(t)
  /\ cur = 0
  /\ \E o \in todo :
       /\ \A q \in todo : o <= q
       /\ Readable(t, o)
       /\ cur' = o
  /\ applied' = {}
  /\ UNCHANGED <<disk, journal, record, tabVars, todo, fails, crashes>>

(* One file of the record is written or removed. *)
ApplyPath(t) ==
  /\ Rolling(t) \/ pc[t] = "applying"
  /\ cur # 0
  /\ \E p \in NextPaths(cur) :
       /\ disk' = [disk EXCEPT ![p] = Text(cur, p)]
       /\ applied' = applied \cup {p}
  /\ UNCHANGED <<journal, record, tabVars, todo, cur, fails, crashes>>

(* Mutant of RecordDone: the record stays in the list to roll forward. *)
RecordDoneStillListed(t) ==
  /\ Rolling(t) \/ pc[t] = "applying"
  /\ cur # 0
  /\ NextPaths(cur) = {}
  /\ journal' = journal \ {cur}
  /\ cur' = 0 /\ applied' = {}
  /\ Goto(t, IF Rolling(t) THEN pc[t] ELSE "handling")
  /\ UNCHANGED <<disk, record, hold, skip, met, todo, fails, crashes>>

(* Every file is done: the record is deleted. *)
RecordDone(t) ==
  /\ Rolling(t) \/ pc[t] = "applying"
  /\ cur # 0
  /\ NextPaths(cur) = {}
  /\ journal' = journal \ {cur}
  /\ todo' = todo \ {cur}
  /\ cur' = 0 /\ applied' = {}
  /\ Goto(t, IF Rolling(t) THEN pc[t] ELSE "handling")
  /\ UNCHANGED <<disk, record, hold, skip, met, fails, crashes>>

(* What follows the roll-forward: a reader lets go and asks for its second *)
(* shared hold; a writer runs its handler, with the pending paths to skip  *)
(* when the roll-forward failed, and the ones of an earlier chunk when not.*)
AfterRoll(t, failed) ==
  /\ IdleWork
  /\ \/ /\ pc[t] = "rollRead"
        /\ Drop(t)
        /\ Goto(t, IF failed THEN "reReadSkipping" ELSE "reReadAll")
        /\ UNCHANGED skip
     \/ /\ pc[t] = "rollWrite"
        /\ Goto(t, "handling")
        /\ skip' = [skip EXCEPT ![t] = IF failed THEN PendingPaths ELSE skip[t]]
        /\ UNCHANGED hold

RollEnds(t) ==
  /\ Rolling(t)
  /\ cur = 0 /\ todo = {}
  /\ AfterRoll(t, FALSE)
  /\ UNCHANGED <<disk, journal, record, met, fails, crashes>>

(* The next record was written by a newer build: FolderJournalTooNew. *)
RollTooNew(t) ==
  /\ Rolling(t)
  /\ cur = 0
  /\ \E o \in todo : (\A q \in todo : o <= q) /\ ~Readable(t, o)
  /\ AfterRoll(t, TRUE)
  /\ UNCHANGED <<disk, journal, record, met, fails, crashes>>

(* A file system call throws while records are listed, read or rolled      *)
(* forward: the records that are left stay.                                *)
RollFails(t) ==
  /\ Rolling(t)
  /\ fails < MaxFails
  /\ fails' = fails + 1
  /\ AfterRoll(t, TRUE)
  /\ UNCHANGED <<disk, journal, record, met, crashes>>

(* Mutant of CommitFails: the error path cleans the record up. *)
CommitFailsCleaningUp(t) ==
  /\ pc[t] = "applying"
  /\ fails < MaxFails
  /\ fails' = fails + 1
  /\ journal' = journal \ {cur}
  /\ Drop(t)
  /\ EndRequest(t)
  /\ IdleWork
  /\ UNCHANGED <<disk, record, crashes>>

(* A file system call throws inside commit: the request answers an error   *)
(* and its record stays in the journal.                                    *)
CommitFails(t) ==
  /\ pc[t] = "applying"
  /\ fails < MaxFails
  /\ fails' = fails + 1
  /\ Drop(t)
  /\ EndRequest(t)
  /\ IdleWork
  /\ UNCHANGED <<disk, journal, record, crashes>>

-----------------------------------------------------------------------------
(* The tab of a request that writes or rolls forward closes or crashes:    *)
(* the browser releases its hold, and only the files remain.               *)
Crash(t) ==
  /\ hold[t] = "exclusive"
  /\ crashes < MaxCrashes
  /\ crashes' = crashes + 1
  /\ Drop(t)
  /\ EndRequest(t)
  /\ IdleWork
  /\ UNCHANGED <<disk, journal, record, fails>>

ReadStep(t) ==
  \/ ReadFirst(t) \/ ReadFindsJournal(t) \/ ReadRolls(t)
  \/ ReadAgain(t) \/ ReadEnds(t) \/ GivesUp(t)

WriteStep(t) ==
  \/ WriteBegins(t) \/ ChunkEnds(t) \/ HandlerEnds(t)
  \/ \E o \in Ops, s \in Shapes : Commit(t, o, s)
  \/ \E o \in Ops, p \in Paths : WriteOneFile(t, o, p)

RollStep(t) ==
  \/ RollNext(t) \/ ApplyPath(t) \/ RecordDone(t)
  \/ RollEnds(t) \/ RollTooNew(t)

FailStep(t) == RollFails(t) \/ CommitFails(t) \/ Crash(t)

Next == \E t \in Tabs : ReadStep(t) \/ WriteStep(t) \/ RollStep(t) \/ FailStep(t)

Spec == Init /\ [][Next]_vars

(* A request inside a hold runs on, and a wait ends at its timeout at the  *)
(* latest (R5).  Nothing is assumed about who gets the lock, or of failures*)
(* and crashes.                                                            *)
Fairness ==
  \A t \in Tabs : /\ WF_vars(RollStep(t))
                  /\ WF_vars(ReadEnds(t))
                  /\ WF_vars(GivesUp(t))
                  /\ WF_vars(HandlerEnds(t))

FairSpec == Spec /\ Fairness

-----------------------------------------------------------------------------
TypeOK ==
  /\ disk \in [Paths -> Ops \cup {0, Absent}]
  /\ record \in [Ops -> [writes : SUBSET Paths, removals : SUBSET Paths, tooNew : BOOLEAN]]
  /\ journal \subseteq Used
  /\ hold \in [Tabs -> Lock!Modes \cup {"none"}]
  /\ pc \in [Tabs -> {"idle", "toRoll", "rollRead", "reReadAll", "reReadSkipping",
                      "reading", "rereading", "readingSkipping",
                      "rollWrite", "handling", "applying", "between"}]
  /\ skip \in [Tabs -> SUBSET Paths]
  /\ met \in [Tabs -> SUBSET Ops]
  /\ todo \subseteq journal
  /\ cur \in journal \cup {0}
  /\ applied \subseteq (IF cur = 0 THEN {} ELSE Touched(cur))
  /\ fails \in 0..MaxFails /\ crashes \in 0..MaxCrashes

(* The folder as it will be once every record in the journal is rolled     *)
(* forward, in op-id order.                                                *)
LastOf(S) == CHOOSE o \in S : \A q \in S : q <= o

Logical ==
  [p \in Paths |->
     LET naming == {o \in journal : p \in Touched(o)}
     IN  IF naming = {} THEN disk[p] ELSE Text(LastOf(naming), p)]

(* Safety: unfinished records never name the same file.  A later request   *)
(* that writes such a file is refused, so replaying an old record, however *)
(* late and in whatever order, never overwrites newer data.                *)
PendingDisjoint ==
  \A a, b \in journal : (a # b) => (Touched(a) \cap Touched(b) = {})

(* Safety: a read that starts on an empty journal serves whole operations  *)
(* only: no file it may look at is behind or ahead of the others.          *)
FirstReadWhole ==
  \A t \in Tabs : (pc[t] = "reading") => (disk = Logical)

(* Safety: a read that found records serves none of them half-applied:     *)
(* each one is finished, or every file it names is skipped.                *)
MetRecordsWhole ==
  \A t \in Tabs : Reading(t) =>
    \A o \in met[t] \cap journal : Touched(o) \subseteq skip[t]

(* Safety: the reader whose roll-forward failed skips all pending files,   *)
(* the records written since then included.                                *)
SkippingReadWhole ==
  \A t \in Tabs : (pc[t] = "readingSkipping") =>
    \A p \in Paths \ skip[t] : disk[p] = Logical[p]

(* security_and_tabs.md R1: "Readers therefore never see a half-applied    *)
(* operation."  Said of every read, the one that serves after a successful *)
(* roll-forward included: no record is in the files it may look at in one  *)
(* place and not yet in another.                                           *)
ReadersNeverSeeHalfApplied ==
  \A t \in Tabs : Reading(t) =>
    ~ \E o \in journal : \E p, q \in Touched(o) \ skip[t] :
        disk[p] = Text(o, p) /\ disk[q] # Text(o, q)

(* Refinement: a journaled operation happens whole and once, at the moment *)
(* its record is written, whatever crashes and failures follow; replaying, *)
(* applying and deleting records changes nothing.                          *)
SingleWrites == {[writes |-> {p}, removals |-> {}] : p \in Paths}

Folder == INSTANCE AtomicFolder WITH
            Operations <- Shapes \cup SingleWrites, folder <- Logical, done <- Used
ImplementsAtomicFolder == Folder!Spec

(* Liveness: as long as requests of tabs with a current build keep getting *)
(* the lock to write, every unfinished record is finished, by whichever tab*)
(* comes to it, although failures, crashes and older builds that cannot    *)
(* read the record leave it behind again and again.                        *)
CurrentTabsWrite == []<><<\E t \in Tabs \ OldTabs : WriteBegins(t)>>_vars

RecordsFinish ==
  CurrentTabsWrite => \A o \in Ops : (o \in journal) ~> (o \notin journal)
=============================================================================
