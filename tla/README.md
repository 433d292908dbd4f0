# Notechondria: TLA+ models and proofs

Notechondria is a set of three note, planner and portal apps (Flutter/Dart, in
`src/frontend`), a Django backend (`src/backend`) and a command line client. The part of it
with a protocol of its own is the *local folder mode*: the apps answer their own REST API
from a folder on the user's disk, which several browser tabs, and other editors, read and
write at the same time, with no server to serialise them. A reader-writer lock, a write-ahead
journal, version snapshots, a derived index and a few broadcast messages have to keep that
folder whole. That is what this directory models first, and then how the drafts of the browser
move into the folder or the cloud while sessions start and end.

All Dart paths below are relative to
`src/frontend/notechondria_shared/lib/src/local_folder/` unless they start with `src/`; the
design documents are in `src/docs/development/local_folder_mode/`.

## 1. Inventory

| Part | State it keeps | Operations | What makes it correct |
|---|---|---|---|
| **Folder lock** `folder_lock.dart`, `folder_lock_web.dart` | per lock name: a queue of requests and the held ones | `run` (request, wait, hold, release), the wait's timer; a closing tab loses its holds and requests | one writer or any number of readers; first come, first served, so nobody starves; no request that could be granted is left waiting |
| **Write-ahead journal** `folder_journal.dart`, `folder_journal_record.dart` | the records under `.notechondria/journal/`, the files they name | `newRecord`, `commit`, `rollForward`, `_apply`, `pendingPaths`, `readWithJournalCheck` | an operation on several files happens whole and once, whatever is interrupted; unfinished records name different files; readers do not look at files of unfinished records; every record is finished in the end |
| **Request transport** `transport.dart`, `router.dart` | one `_Context` per request: `skipPaths`, deadline | `send`, `_read`, `_write`, `chunk`, `commit`, `writeText` | one hold per chunk, roll-forward before every write, 503 for files that cannot be written |
| **Version history** `folder_snapshots.dart` | `history/<hex>/index.json`, `<id>.md`, the manifest's version counter | `plan`, `write`, `pruneHistory` | an id is used once, a listed version has its text, no text written outside the app is lost |
| **Note handlers** `handlers/notes.dart`, `handlers/history_sessions.dart` | none of their own | PATCH, DELETE, save a version, restore | each is one journal record built from the files on disk |
| **Folder controller** `local_folder_controller.dart`, `storage_mode_client.dart`, `local_folder_boot.dart` | mode, state, record, folder, journal; the origin-wide storage key | `open`, `reconnect`, `chooseAgain`, `switchToPicked`, `connectPicked`, `disconnect`, `_onMessage` | an active tab answers from one folder; tabs that write one folder use one lock; no tab stays in `opening` |
| **Index cache and scan** `folder_index_cache.dart`, `folder_index.dart`, `folder_scanner.dart` | the in-memory index, the unverified set, the change log of a scan, the flush timer, `index.json` | `scan`, `updateIndex`, `flushIndex` | the index follows this tab's writes; a note is listed once |
| **Identity fixes** `folder_identity.dart`, called by `folder_scanner.dart` | none of their own: the UUIDs and ids in bodies and sidecars, the manifest's counters | `planIdentityFixes`, `applyIdentityFix`, `_raiseCounters` | two notes never keep one identity; a note loses its identity only to another note that has it; no scan breaks a folder that is in order |
| **Other handlers** `handlers/trash.dart`, `courses.dart`, `planner*.dart`, `calendar.dart`, `attachments.dart`, ... | none of their own | single records, or a sequence of chunks | every state between chunks is valid |
| **Draft sync** `src/frontend/*/lib/core/draft_sync.dart`, `local_trash.dart` | browser-local drafts, the recycle bin | push of all drafts, edit, restore | a draft sent twice makes one note; a draft leaves the browser only once it arrived |
| **App shell, session, HTTP** `src/frontend/notechondria_shared/lib/src/app_shell`, `storage_mode_client.dart`, `src/frontend/editor_app/lib/core/local_folder_connect.dart` | token, profile, saved session, owner of the local data | start of the folder session, sign in, restore, sign out | the token of a folder session never reaches the network; a token without a profile only while a folder session starts |
| **Backend** `src/backend` | a database | REST handlers, versions, GitHub export, MCP | version caps, autosave tiers, idempotent sync |

How they interact: a request enters the transport, which asks the lock for a shared or an
exclusive hold, rolls the journal forward (`rollForwardHeld`, `readWithJournalCheck`) and runs
one handler; the handler re-reads the files it changes, writes one journal record (`commit`)
and so updates the folder and the in-memory index. A replay of a record may itself write a
version snapshot. Tabs share the folder, the lock, one preference key and a broadcast channel,
and nothing else. Every one of them can be closed at any time.

The hard behaviours, each listed with its line under `hazards` in `PROJECT.json`: a tab that
dies between two of the file writes of one operation; a file system call that throws there; a
second tab that replays the record much later, or an older build that cannot; what a reader
may look at meanwhile; edits another editor makes between two replays; identifiers that are on
disk in one file and not yet in the other; waits that time out in the middle of the queue;
state read before a lock was let go and used after; repairs planned from what was read at
many moments, in two tabs at once.

## 2. Modules

```
SharedMutex      readers and one writer: the promise          (abstract)
   ^ refined by
FolderLock       the queue, timeouts, closing tabs            FolderLockProofs
   . the promise is used by
FolderJournal    requests, journal, replay, crashes           FolderJournalProofs
   | refines
AtomicFolder     one operation, one step                      (abstract)

JournalSnapshots one note, its history, outside edits,         JournalSnapshotsProofs
                 replays

FolderIndexCache one tab's index, its scans and its flushes    FolderIndexCacheProofs
                 over a folder whose operations are whole (AtomicFolder) and
                 whose holds exclude each other (SharedMutex)

FolderIdentity   the notes of one folder, their identities,    FolderIdentityProofs
                 and the scans of several tabs that repair them
                 (holds and operations whole, as above)

FolderController several tabs: connect, open, choose     FolderControllerProofs
                 again, switch, disconnect, the change channel, and the
                 folder and lock a write ends with

FolderSession    one tab: folder and cloud sessions, and the  FolderSessionProofs
                 drafts pushed through them
```

| Module | What it is |
|---|---|
| `SharedMutex` | An operation-level promise: a set of holders changes only to a compatible set of holders. `Handover(gone, new, mode)` is the one step; the journal uses it as its lock. |
| `FolderLock` | `MemoryFolderLocks` / Web Locks: `Request`, `TimeOut`, `Release`, `TabGone`; each of them ends with `Process`, the loop of `_MemoryQueue.process`, in the same step because the code runs it synchronously. The queue's list is the relation `ahead` between requests. |
| `AtomicFolder` | A folder in which an operation is one assignment to all its files. |
| `FolderJournal` | The requests of several tabs. `pc[t]` says where the one request of tab `t` is (see below). Each write or removal of one file is a step (`ApplyPath`), so a crash (`Crash`), a failing call (`RollFails`, `CommitFails`) or an older build (`RollTooNew`) comes between any two of them. |
| `JournalSnapshots` | The content side: one note, the files of its history, the records that write them and the replays' `external_edit` snapshots, with edits made by other programs. |
| `FolderIndexCache` | The index of one tab: what its writes, its listings and re-reads, its scans, the coalesced flush and the next page load do to it, beside other tabs and programs that write the same files. |
| `FolderIdentity` | Bodies and sidecars with their UUIDs and ids, the note counter, the scans that read them page by page, re-check, raise the counter, plan fixes and apply them one hold each, beside the operations that create, move and purge notes and programs that write single files. |
| `FolderController` | The controllers of several tabs, the shared preference key, the remembered handles, the manifests and the change channel. A method in progress is a flow with what it captured before it awaited; a write request is the lock name it took and the journal it writes. |
| `FolderSession` | One tab of the editor: token, profile, saved session and mode, the drafts in memory and as persisted, and the notes of every backend. A chain of awaits (start of the folder session, sign-in, push) is a call with what it captured. |

Each `MC...` module instantiates its module for TLC; each `...Proofs` module holds its theorems.

`FolderJournal` in more detail. A tab's request starts at `"idle"`.

* A read (`readWithJournalCheck`): `ReadFirst` finds the journal empty and reads
  (`"reading"`); or `ReadFindsJournal` lets the shared hold go (`"toRoll"`), `ReadRolls` takes
  the exclusive one and rolls forward what is listed *then* (`"rollRead"`), and `ReadAgain`
  takes the second shared hold, with an empty skip set after a success (`"rereading"`) and the
  pending paths after a failure (`"readingSkipping"`). `GivesUp` is the 503 of a wait that ran
  out.
* A write (`_write`, `chunk`): `WriteBegins` takes the exclusive lock and lists the journal
  (`"rollWrite"`); after the roll-forward the handler runs (`"handling"`): `Commit` writes a
  record and goes on to apply it (`"applying"`), `WriteOneFile` writes without a record,
  `HandlerEnds` answers, `ChunkEnds` lets the lock go with the request's context kept
  (`"between"`), and the next `WriteBegins` continues it.
* The roll-forward (`rollForward`, `_apply`): `RollNext` takes the next record in the order of
  op ids, `ApplyPath` writes its files by rank and removes last, `RecordDone` deletes it.

The text of a file is the id of the operation that wrote it; paths, shapes of records and
ranks are constants. Reads inside a hold change nothing and are not steps.

`JournalSnapshots` in more detail. `work` is the phase of the one lock holder. `Patch`,
`SaveVersion` and `Delete` are the handlers, each building a record from what is on disk
(`WithVersion` is `FolderSnapshotWriter.plan`). `ApplyFile` writes the record's files in the
order of step 3; on a replay it merges the manifest's counters and the history index
(`_replayText`), and before the note's body is overwritten or removed `MustKeep` decides
(`_keepExternalEdit`) whether `SnapshotCounter`, `SnapshotBody`, `SnapshotEntry` save it first.
`ExternalEdit` happens while no tab holds the lock.

`FolderIndexCache` in more detail. A note's file is in `notes/` or in `trash/notes/`; `disk`
has a number for each that no later write repeats, and an index entry is the number the entry
was made from. `index`, `unverified`, `dirty` (`_indexDirty`), `timer` and `log` (`_scanLog`)
are the cache's fields, `flushes` counts the `flushIndex` calls that wait for the lock, and
`file` is `index.json`. Every action that touches the disk is one hold: `OwnWrite` (operation
and `_reindex`), `OtherWrite`, `OtherFlush`, `Listing` (`refreshNoteListing`), `Reread`
(`rereadNote`), `FlushWrites` and `FlushFails`. A scan `s` is `scan[s]`, a program counter with
the queue and the entries it has so far: `ScanLists`, `ScanVisits` and `ScanVisited` are what a
page does (pages may end anywhere, so the model puts a boundary after every entry),
`ScanRechecks` is `_recheck`, `ScanWrites` the last hold with `beforeWrite`, and `ScanEnds` what
`FolderIndexCache.scan` does after that hold is gone, which is why it is a step of its own.
`scan[s].during` is the change log; `UpdateIndex` fills the log of the scan that `log` names.
`PageLoad` and `Reopen` run `_openGranted`: `OpensStored` with the stored index, all of it
unverified, and `OpensScanning` without one. Two history fields say where overlapping scans
matter: `overtaken` has the running scans after which another scan or an opening began, and
`astray` whether the index, or `index.json`, is what such a scan set.

`FolderIdentity` in more detail. `disk[p]` is the note at path `p`: whether there is a body, the
UUID its frontmatter has, and the UUID and id of its sidecar (0 for none; UUIDs are numbers, and
`issued` is at least every one in use). `Claim` is the UUID a note goes by. `Plan` is the part of
`planIdentityFixes` about notes, a set of fixes of three kinds which `Due` gives out in the order
of the list. A scan `s` goes through `scan[s].at`: `ScanLists` and `ScanVisits` read one file at a
time (a body and its sidecar may be read in different holds), `ScanRechecks` reads what was seen
twice, `RaisesCounter` raises and plans, and `ReassignsUuid`, `ReassignsId` and `Adopts` each apply
a fix whose `Conflict` is still on disk; `DropsFix` finds that it is gone. `SkipsVisit`,
`SkipsRecheck`, `SkipsCounter` and `SkipsFix` are what a pending record that cannot be rolled
forward does to each. `Create`, `Delete`, `Restore`, `CreateAgain` and `Purge` are the handlers of
any tab, reduced to the identities they give and move; `Edit` is another program that copies,
overwrites or removes one or both files of a note. `clean`, `quiet`, `outside` and `moved` are
history fields: what the properties need to know about who wrote meanwhile.

`FolderController` in more detail. `tab[t]` is the controller: `mode`, `state` (`_setState` is
`Enters`, which also enters folder mode when `_enterFolderOnActive` says so), `record`,
`folder`, `journal`, `index` (the folder the index was made from), and what it remembers of a
pick. `flow[t][s]` is a call in progress; `at` names the await it waits in. `open` is
`OpenLoads`, `OpenQueries` and then `_openGranted`: `ManifestRead`, `RollForwardEnds`,
`IndexRead`, `ScanEnds`, any of which may be `StepFails` (`reportFolderError`). `_openGranted`
captures `folder` and `record` (`OpenGranted`) and reads the other fields when it resumes: that
is what the interleavings are about. `Connect`, `Reconnect`, `ChooseAgain`, `UseConnected`,
`Switch`, `TreatAsMoved`, `GiveOwnIdentity`, `SetRemember`, `Rescan`, `Disconnect` and `Reload`
are what the user can do where a view offers it, and their guards are the conditions under
which the view does. `OnMessage` is `_onMessage`. `WriteWaits` takes the lock name from the
record of that moment, `WriteGranted` waits for the lock, and `WriteStarts` uses the journal of
*its* moment, as `transport.dart` does. A command may come beside any call in progress, and
two calls of a tab may be anywhere (`Slots`).

Three history fields say what the properties leave out, and nothing else reads them.
`tab[t].overtaken`: the tab's last `_openGranted` began beside another call that opened or scanned,
or the tab left its folder, or was told to enter folder mode, beside one. `renamed`: the directories whose id
replaced another one. `write[t].from`: the journal of the moment the request came, unless the tab
was overtaken then, so that `StayingWritersExclude` can say which writes were not moved to another
folder on the way.

`FolderSession` in more detail. `Route` is `StorageModeClient`: where a request with a given
token goes in the mode of now, or that it is refused. `StartSession`, `CheckAnswers` /
`CheckFails`, `SettingsAnswer` and `LoadEnds` are `_startFolderSession` up to its push, and
`SignIn`, `SignInAnswers`, `SettingsAnswer`, `LoadEnds` the login and the restored session. The
push takes the captured drafts one by one: `PushNext` sends one with the token of now,
`Serve` is the backend (which looks the `client_draft_id` up and then writes, in two steps for
the database and in one hold for the folder), `PushAnswered` drops the draft and fills the
recycle bin, `DraftsSaved` persists, and `PushFails` is an error or a lost answer, after which
the backend may still carry the request out (`late`). `Edit`, `Restore`, `Disconnect`, `Leaves`,
`SignOut`, `SyncAll` and `Reload` come between any two of these.

## 3. Runs

| Run | Bounds | Shows |
|---|---|---|
| `folder_lock` | 4 requests in 2 tabs | exclusion, no lost wake-up, queue order, refinement of `SharedMutex`, no starvation |
| `journal` | 2 tabs, 4 files, 3 shapes, 3 operations, 1 failure, 1 crash | disjoint unfinished records, reads on an empty and on a rolled-forward journal, refinement of `AtomicFolder` |
| `journal_live` | the same with 2 operations and one outdated tab, with fairness | a reader that cannot roll forward skips every pending file; every record is finished |
| `journal_r1` | as `journal` | **violated**: "Readers therefore never see a half-applied operation" |
| `snapshots` | 3 records, 2 outside edits, 3 faults | the first edit under each interrupted record survives, once; counters and history stay usable |
| `snapshots_edits` | 1 record, 2 edits, 3 faults | **violated**: "never discards an edit made later" |
| `index` | 1 note (2 paths), 2 scans that may overlap, 2 rescans, 3 events of: a write (3), a failure (1), a page load or re-opening (1) | the tab's index and `index.json` keep its own writes, and no scan undoes what a listing or a re-read found, unless an overtaken scan set them last; lists answer only from entries compared with the disk; the re-check finds no note twice |
| `identity` | 2 scans; any folder with notes of 8 shapes at 3 paths and one skip, or a folder in order with 2 operations, or one to repair with an operation, an edit or two skips | an undisturbed scan settles whatever it finds; a folder only the apps write stays in order and is never "fixed"; no fix takes a note's last identity or gives out another note's |
| `controller` | 2 tabs, 2 calls each at once, 2 directories that are apart, copies or new, 3 ids, 2 commands beside any call | an active tab's journal and index are those of the folder it shows, unless its last open began beside another; writes that no switch met exclude each other in a folder whose id was not replaced |
| `controller_live` | the same with 1 command, with fairness | no tab stays in `opening` |
| `session` | 2 accounts and a folder, 2 drafts of which one was pulled, 1 restored draft, 1 edit, 2 commands | no folder token on the network; one note per document; no draft leaves before it arrived; token and profile agree |
| `session_lost_edit` | as `session` | **violated**: a finished push moves the draft to the bin "instead of discarding it" |

Why the bounds are enough. Two tabs are all that a property about one reader or writer and
"the others" needs: the others share no state but the disk, the journal and the lock. Three
operations give an unfinished record, a second one beside it (of another tab) and a write
that meets both. Four files give a record with ranked writes and a removal, one that shares a
file with it, and one beside it. One failure and one crash leave two records unfinished, which
is where disjointness matters; each of them is placed between any two file writes. In
`snapshots`, three faults interrupt one record three times, in each phase of its replay. In
`index`, notes do not interact except through the scan's queue, so one note with both of its
paths is where moves race a scan. The note's first file is the first of the three stamps, so two
writes meet the scans, of this tab or of another, between any two of their pages, before and after
a last hold; a failure is a flush or a scan that is retried, and two rescans are a scan that
overtakes another and the one that repairs the index after it. `MaxEvents` counts stamps, failures
and loads together: a run has two of the other events, or three without a failure or a load at the
end. With two events and as many rescans as one likes, TLC was run once as well (7.9 million
states). Four lock requests are a holder, a waiting writer, a reader behind it, and one in the
tab that closes.

In `identity`, three paths are a note, its copy in the trash and a copy that came from somewhere
else, which is what keeper order tells apart (own sidecar, stem, path); the eight shapes are no
file, a new body, two notes in order, and a copy without its sidecar, without part of it, with the
other's id, and a sidecar alone. All 512 folders of these start a run. Two scans have plans of
different moments; two operations move a note to the trash and back under one scan. Longer
mixtures are what the proofs are for.

In `controller`, two directories are two folders, one and its copy, or not connected yet, and a
third id is what a new identity takes. A tab starts with an open in progress, so two commands with
it are two calls at once and one more after them, in one tab or in both. That is enough for each of
the cases the properties leave out to be reached: without `overtaken`, TLC violates
`OneFolderBehindTab` with two calls of Connect in one tab; without `renamed`, it violates
`StayingWritersExclude` with two tabs that connect one new folder; and without `overtaken` in
`write[t].from`, with a Disconnect and a Connect beside the open that startup began. What holds
beyond two commands is what is proved.

In `session`, one draft written here and one pulled from account `a` are the two ways a push
writes (create, update); two accounts make the other one's drafts foreign; two commands are two
overlapping chains, or one and a reload. Disconnect and sign-out are not counted: each
changes something only after a chain has run. One account with three commands was run once
too. What holds beyond these bounds is what is proved (section 5).

## 4. Fairness

`FolderLock!FairSpec`: a holder ends (R4, bounded holds). Nothing is assumed of a waiting
request; that it is granted is what `EveryWaitEnds` says, from the order of the queue.
`FolderJournal!FairSpec`: a roll-forward in progress goes on, a read ends, a handler ends, and
a lock wait inside a request ends at its timeout (R5). Nothing is assumed about who gets the
lock; `RecordsFinish` has as its premise that tabs of the current build begin a write again
and again. Failures and crashes are bounded by constants in the guards: a disk that fails for
ever finishes nothing.
`FolderController!LiveSpec`: an open in progress goes on, because file system calls settle and
its lock wait is bounded. Nothing is assumed of the user, of the picker, of the steps after a
pick or of the change channel.
The other specifications state no fairness and no liveness.

## 5. Proofs

All for every number of tabs, requests, paths, notes, drafts, accounts, failures and crashes.

`FolderLockProofs`: `Invariance` is the inductive invariant: types, the compatible set of
holders, `ahead` a total order of the pending requests that starts with nobody outside them,
and no pending request at its head that could be granted. `Process` is a definition with a
CHOOSE-free description of who is granted, so each action's proof asks what `Granted` leaves
behind. From it follow `TypeCorrect`, `Mutex`, `Wakeup`, `Fifo` and `Refinement`
(`Spec => ImplementsPromise`).

`FolderJournalProofs`: the checked invariants are not inductive; the strengthening says

* `Locking`: `pc` and `hold` agree, and an exclusive holder is alone;
* `HolderKnows`: the holder's `todo`, `cur`, `applied` describe records of the journal, and
  a writer that is handling has in its skip set every path that is pending;
* `AppliedOnDisk`: what the holder has applied of its record is on disk;
* `NoWork`: without a holder there is no work in progress;
* `ReaderKnows`: during a shared hold the journal is what the reader thinks it is;
* `PendingDisjoint` itself.

`PendingDisjoint` needs `HolderKnows` (the check of `_beforeWrite` is against the skip set, not
the journal), that needs `Locking` (nobody adds records meanwhile), and the reads need
`AppliedOnDisk`. `Atomicity` (`Spec => ImplementsAtomicFolder`) maps the folder to `Logical`,
the folder as it will be once the journal is rolled forward. Because the unfinished records
name different files, `Commit` changes `Logical` by exactly one operation and `ApplyPath`,
`RecordDone`, `Crash` and all the rest not at all. That a record with files left has a next
file (`NextPaths`) uses the well-foundedness of the ranks.

`FolderIndexCacheProofs` proves all six properties of `index`.

All six hold for any number of scans at once.

* `FindsOnce` needs `OneFile` (an operation leaves a note one file) and that a scan reaches its write only
  through the re-check. `EntriesSeen` needs `ScansSeen`: what a scan has read, and what it was
  told, is what the file has been.
* `OwnIndexed`, `OwnSaved` and `RightStays` are about an index that no overtaken scan set last, which
  they need (7 of section 6). At most one running scan is not overtaken, and `Logged` says the
  change log is that scan's; `Reads`
  what it has left to read; `Has`, which `Scanned` says of every own write, that it is in the
  change log with the disk's value, or the scan has it, or its directory is still to be listed,
  or it is in the queue of the directory being read; `Saved` adds to `OwnWritesSaved` the
  window between a scan's last hold and its end, where `index.json` has every own write that
  is not in the new change log, which is what the end flushes.
* `RightStays` says `Has` of every file whose entry is right (`Told`), whoever wrote it: a change of
  the index is told to the running scan, and a scan that starts has everything to read. That a
  write leaves no other entry right by accident takes `Stamped`: nothing the program
  knows of a file is newer than the last write, and a write gives the file a number above it.

`FolderSessionProofs` proves the five invariants of `session`, for any drafts, accounts, texts and
commands.

* `TypeInv` adds `Aimed` to the types: a call that waits for a request has sent the captured
  draft it is at.
* `TokenStays` is inductive by itself: every request, of whatever chain, passes `Route` when it is
  sent. `TokenAndProfile` is too, since each step that sets the one sets the other.
* `OneNote` needs `LooksOnce`: only a create to an account has a lookup that found nothing
  (`Fresh`), and such a create is carried out only while there is still no note (the unique
  constraint).
* `DraftsArrive` needs `Captured` (local ids are given out in order, and a captured draft has the
  document of the draft with its id, so an answer removes no other document's draft), `Answered`
  (an answer comes from a backend that has the note), and `Kept` for the drafts in memory and for
  those persisted. `Binned` says of the recycle bin that a text in it is of a document with a note.

`JournalSnapshotsProofs` proves the six properties of `snapshots`, for any number of records, edits
and faults.

* `Base` holds whatever happens, also with several unfinished records. `Numbered` makes each record
  a new one; `Fits` says that a record which saves a version lists it last in the index it carries;
  `Holds` that a handler's skip set has every pending path, so a second record that saves a
  version is never added (`CommitShape`). `TextsThere` gives `ListedExist`, from the rank of
  the text below that of the index; `Covered` gives `CounterCovers` (a listed id is at most the
  counter, or the version of an unfinished record that will raise it); `IndexOnce` gives
  `OneSnapshot`.
* `Alone` needs one unfinished record at a time. `IndexKeeps`: the record's index has every entry
  listed, or its own replay added it above the record's version. With `SnapshotAbove` (a snapshot's
  id is above every listed one) no step changes or removes a listed version (`ListKept`), which
  is `ListedVersionsKept`.
* `Kept` says for each place a text of the note can be replaced from why that text is not lost:
  the one a record expects (`ExpectSafe`), the one the sidecar describes, which a PATCH may replace
  without a snapshot (`StampSafe`; it needs that a commit's own snapshot is listed before the sidecar
  is stamped, `StampingSafe`), the one a replay meets after it kept another (`ReplaySafe`), and the one on its
  way to the trash (`MoveFits`). `Past` tells new edits from every text read before. `FirstKept`
  follows.

`FolderIdentityProofs` proves the six properties of `identity`, for any number of notes, scans,
operations, edits and skips. First the keeper: `Outranks` is a strict total order of the notes
(`IdentityAssumption` says that no two paths compare equal), so every finite or infinite group has
one, by the least rank. Then four invariants.

* `Typed` adds to the types that every UUID a scan has read or plans with was issued, so a new UUID
  is nobody's.
* `Ordered` makes `AppsKeepOrder` inductive: a conflict is between two notes (`PlansApart`) and
  about an identity both have, and a folder in order has no such two, so every fix of whatever
  plan drops (`NothingNeedless`), and a creation takes a UUID and an id above all there are.
* `Followed` is what `IdentitiesKept` and `IdentitiesApart` need. `ReadStill`: a note that lacks part
  of its identity, where no operation and no other program wrote, still has what the scan saw
  (other scans' fixes only complete it). `OrphansRead`: a sidecar without a body is nobody's note
  unless another program left it. `PlanStill` is what these make of the plan: the UUID to adopt is
  the note's own, and the keeper of a conflict still has its body.
* `Quiet` is about a scan beside which nobody wrote and that skipped nothing. `ReadInto`: what
  it has read is the disk. `PlanCovers`: whatever is wrong has a fix among those left;
  `PlanApplies`: each fix left is about something wrong which no other fix left changes first. Each
  applied fix keeps both, so when none is left nothing is wrong (`QuietSettles`).

`FolderControllerProofs` proves the three invariants of `controller`, for any tabs, directories, ids,
calls in progress and commands. A lemma per action (`...Shape`) first says what the action does
to the controller and to its call, field by field; the three results rest on those lemmas.

* `TypeCorrect` needs that a call of `open` has an id to load a handle for (`Types`).
* `OneFolder` has no premise on the constants; the formula leaves out tabs that are overtaken (9 of
  section 6). `OpenFits`: a tab that is not has at most one call that opens or scans, the folder
  that call captured is the one the controller shows, its journal is of that folder once the manifest
  is read, and the tab is not active while the call opens. A step that starts a second such
  call, or changes the folder beside one, sets `overtaken`.
* `WritersExclude` has none either, whether directories start apart, as copies or new. `NamesStay`:
  the manifest of a directory changes only when the directory joins `renamed`, and the folder that an
  open has checked against its manifest has the id it is called by (`Named`) until then. `LocksFit`:
  a write waits for the lock named by the id of the folder it was sent to, if that folder is not
  renamed, and no two tabs hold one lock.

Only model-checked: liveness (`EveryWaitEnds`, `RecordsFinish`, `OpeningEnds`), which is out of
the prover's reach.

## 6. What the runs found

1. `journal_r1`. `security_and_tabs.md` R1 promises that readers never see a half-applied
   operation. After a *successful* roll-forward `readWithJournalCheck` takes its second shared
   hold without listing the journal again (`folder_journal.dart:416`). Another tab that gets
   the lock in between, commits, and is interrupted leaves files of its record in both states
   for this reader. What does hold, and is proved, is weaker: a read that starts on an empty
   journal is whole (`FirstReadWhole`), a record met is never served half
   (`MetRecordsWhole`), and a reader that skips skips enough (`SkippingReadWhole`).
2. `snapshots_edits`. A replay saves one external edit per record, because
   `_keepExternalEdit` asks only whether the history has an entry of that op id. A replay that
   was interrupted after it saved one, followed by another edit, overwrites the second.
   `FirstEditKept` is what holds.
3. `session_lost_edit`. `_syncLocalDraft` (`src/frontend/editor_app/lib/core/draft_sync.dart`)
   removes whatever draft has the local id when the answer comes, and moves the draft it
   captured before the request to the recycle bin. An edit saved while the request was in flight
   is in neither. `GoneDraftsArrived` is what holds: the document arrives, with the older text.

The models show more that no run of the list claims; a configuration that changes a constant or
names another property reproduces each.

4. *Version ids.* "an ID may be burned, never reused" (`folder_snapshots.dart:252`), but a replay's
   snapshot raises its id above those *its own* record issued (`folder_journal.dart:251`). With a
   second unfinished record beside it, it takes the id that record issued, and one text overwrites
   the other (`VersionsNeverReused` fails with two records, one edit and three faults).
   `VersionsKept` is what holds: one unfinished record at a time.
5. *Skip sets across chunks.* A request of several chunks keeps the `skipPaths` of a chunk whose
   roll-forward failed after a later chunk's succeeded, and refuses with 503 files that are
   no longer pending. The refusal is safe, and the operation can be repeated.
6. *Moves after the re-check.* The change log of a scan is applied after the re-check, so a note
   this tab moved, and another tab moved back, is in the result and in `index.json` at both paths
   until the next listing. What holds is `ScanFindsOnce`.
7. *Two scans at once.* `_scanLog` is one field. The verification rescan after startup and the
   Rescan button may overlap; the second scan's log then takes what the first one should have
   been told, and the first sets an index, and writes an `index.json`, that lack this tab's later
   writes. The run has two scans; without `astray` TLC violates `OwnWritesIndexed`,
   `OwnWritesSaved` and `EntriesStayRight`. What holds is that nothing else goes wrong: the newer scan loses
   nothing, the older one's end does not take the newer one's log away, and the index is right
   again from the end of the next scan that was not overtaken.
8. *Locks of one folder.* The lock's name is the folder id, and ids change under open folders.
   Two tabs that connect one empty folder both initialise it (`connectPicked` takes no lock) and each
   keeps the id it wrote; a copy that gets its own identity (`local_folder_controller.dart:543`)
   may be open in another tab under the old one. Two tabs then write one folder under two lock names
   although each writes the folder it had open when its request came: `renamed` names these folders.
   A write that comes before its tab switches and gets its lock after it writes the new folder under
   the lock of the old one (`transport.dart:278` reads the controller's journal late). Such
   writes, with `dir` other than `from`, are left out too.
9. *Opens that resume late.* `_openGranted` sets the journal, the index and `active` without asking
   whether the folder it opened is still the one the controller shows, and nothing keeps a second call
   from starting beside it: an open that startup began, or that the reconnect view began, is not
   the status card's or the sign-in option's call. `overtaken` names the tabs to which this may have
   happened. Without it TLC violates `OneFolderBehindTab` and, since such a tab's folder and record
   may differ, `StayingWritersExclude`.
10. *A tab that was told.* By `modes_and_migration.md:368` a tab that hears of a disconnect stops;
    the open it has in progress makes it active again (`local_folder_controller.dart:376`).
11. *Sessions that overlap.* The login dialog can be dismissed while its request runs; when a
    folder is connected meanwhile, the account's session is established in folder mode. The
    token still does not leave for the wrong place, since `StorageModeClient` decides by token
    and mode (`FolderTokenStaysHere`).
12. *Foreign drafts.* A push started for one account goes on with the token of the next one after a
    sign-out and a sign-in, and the button of the learner page does not ask whose the drafts are.
13. *Fixes and other programs.* Every fix re-reads the files (`folder_identity.dart:10`), but not all it
    relies on. `ReassignNoteUuid` asks for the keeper's claim and not for its body
    (`folder_identity.dart:209-214`): when another program has removed the keeper's body and left
    its sidecar, the last note with the UUID is given a new one. `AdoptNote` reads the sidecar again
    and not the body, and falls back to the plan's UUID and id (`folder_identity.dart:239`, `:247`):
    a body replaced since the scan read it gets the UUID of the old one, which another note may
    have. The premise `Undisturbed` of `IdentitiesKept` and `IdentitiesApart` says when this is ruled
    out; without it TLC violates both. The next scan repairs the second, not the first.
14. *Fixes of courses.* `FixCourseIdentity` takes `newId` from the plan and looks at no keeper when it
    is applied (`folder_identity.dart:281-292`), so two tabs that plan it from one folder each give
    the course a new id. It is read from the code, not modelled.

## 7. Abstractions, and what is not modelled

* Paths do not nest: removal of whole directories (purging a note's history and assets) is
  outside `FolderJournal`.
* Records that something else damages or deletes on disk; the byte-length check of step 4; the
  read deadline that answers while its read goes on (the read then ends with its hold).
* An outside edit *inside* an app's hold: no check of the app's can see it between its stat and
  its write.
* A size and modification time are taken to tell two texts apart.
* `JournalSnapshots`: the sidecar always describes some body. A note whose sidecar has no
  `md_size`/`md_last_modified` gets no `external_edit` snapshot from a PATCH
  (`folder_snapshots.dart:151-154`): an edit made outside the app to such a note, which this tab did
  not serve before the edit, is replaced without a version. The properties do not cover it.
* Version histories are within their caps, so `pruneHistory` removes nothing.
* `FolderIndexCache`: what an entry says of a file is one number, so a write that keeps size and
  modification time is not seen, as in the code; a page skips no pending record's paths
  (operations are whole there, `FolderJournal` covers the rest); the counters a scan raises and
  its identity fixes are `FolderIdentity`'s, and `changedPaths`, which no caller passes, is left out.
  `PageLoad` and `Reopen` are one step each, though the code reads `index.json` without a lock and sets
  it after an await (`local_folder_controller.dart:374-378`): a flush or a write in between is
  taken to come before or after both. Two scans of one page work on one folder; a scan of a folder
  that was left is `FolderController`'s `RescanEnds`.
* `FolderIdentity`: a scan starts without an index of before (an entry whose size and time are
  unchanged stands for the same content); the manifest is there; a sidecar with neither UUID nor id
  is no sidecar; a page or a fix skips a file at any moment, up to a number of times, instead of
  when a record of `FolderJournal` names it; operations that keep every identity where it is are not
  steps; a program outside may copy what is in the folder or write a body without frontmatter,
  and does not make up UUIDs. The fixes of courses and of planner records and the counters of other
  kinds are left out.
* `FolderController`: whether a handle is remembered is a choice of the step that would save it
  (the checkbox, or a handle store that fails); awaits on one store are one step, since
  nothing else of the origin reads between them; the lock that the roll-forward of an open takes
  is not counted (it is a wait that ends either way); banners and messages are left out. A write
  request is admitted only in an active folder. A view disables its buttons, the status card's
  Disconnect too, while a call of its own runs (`_busy`), but not while a call of another view, of
  startup or of the verification rescan does, and `_busy` is gone when the view is built anew. The
  model does not know who began a call: a command may come beside any, more often than the views allow.
* `FolderSession`: one tab, one folder, the editor's drafts (the planner's and the portal's sync is
  the same code); a document's order in the list is the order of local ids; the push of
  courses, the contents of the settings, the logout request, the push of a single draft and the
  pruning of the recycle bin are left out, and so is the pull with its conflict dialog. The user deleting a draft, and
  clearing the local data, are left out: `GoneDraftsArrived` speaks of drafts that leave by
  themselves. So is the draft that a failed `_createNote` keeps
  (`src/frontend/editor_app/lib/core/note_crud.dart:63-68`) for a note the backend may have made after all:
  `OneNotePerDocument` is about documents with a draft id of their own from the start.
  `PushAnswered` changes the drafts and the recycle bin in memory and the persisted bin in one
  step; the code persists the bin after an await of its own, and a page closed there loses
  the bin's entry, not the note. An update
  sent in folder mode is refused by the folder, which
  has no such remote note, so it is never carried out there.
* Not modelled: emptying the trash, and the course, planner, attachment and activity handlers, which
  are single records or sequences of chunks (instances of
  `FolderJournal`'s requests, except for the removal of directories); startup budgets and HTTP
  retries; the backend beyond the creation of a note with a `client_draft_id`; the MCP server, the
  command line client, presentation, deployment.
* The programs modelled are Dart, and for the backend Python. The JavaScript files under
  `src/backend/static` are bundled libraries (Monaco, jQuery, Bootstrap, Sortable, Cropper, htmx); the
  project's own one, `notechondria/js/toggle-noteblock-widgets.js`, shows and hides form widgets. No
  definition maps to them.

## 8. What is left

1. **Chunked operations**: emptying the trash, deleting a course, importing, as sequences of holds
   on `FolderJournal`'s operations, with directories removed.
2. **`pruneHistory`** as a function against a reference definition over all small histories.
3. **Backend**: the version tiers of `notes/services.py` and the GitHub export of
   `creators/services/github_sync.py`.
