--------------------------- MODULE FolderIdentity ---------------------------
(***************************************************************************)
(* Which note has which identity, and the scans that repair it.            *)
(*                                                                         *)
(*   local_folder/folder_identity.dart   planning and applying the fixes   *)
(*   local_folder/folder_scanner.dart    pages, re-check, counters, fixes  *)
(*   local_folder/handlers/notes.dart    create, delete                    *)
(*   local_folder/handlers/trash.dart    restore, empty the trash          *)
(*                                                                         *)
(* A note is a body (.md), whose frontmatter may carry a UUID, and a       *)
(* sidecar (.meta.json), which may carry a UUID and an id.  Several tabs   *)
(* scan one folder; each page of a scan, each fix and each operation is    *)
(* one hold of the folder lock (FolderLock) and happens as a whole         *)
(* (FolderJournal).  Programs that take no lock copy, overwrite and remove *)
(* single files between any two holds.  UUIDs and ids are numbers, 0 for   *)
(* none; a new UUID is one that was never used.                            *)
(***************************************************************************)
EXTENDS Naturals

CONSTANTS Stems,        \* file names without extension; a number is the stem
                        \* that spells that UUID
          Order,        \* the lexicographic order of paths
          Scans,        \* the tabs' scans
          Starts        \* what the folder may start with, and the bounds: how
                        \* many scans, operations of the apps, edits of other
                        \* programs and skips of pending records may come

Places == {"live", "trash"}
Path   == Stems \X Places
Live(stem)    == <<stem, "live">>
Trashed(stem) == <<stem, "trash">>

Note == [body : BOOLEAN, fm : Nat, uuid : Nat, id : Nat]
Nothing == [body |-> FALSE, fm |-> 0, uuid |-> 0, id |-> 0]
Handwritten == [Nothing EXCEPT !.body = TRUE]
Folder == {notes \in [Path -> Note] : \A p \in Path : notes[p].body \/ notes[p].fm = 0}

Parts == {"body", "sidecar"}

(* The note old with its files in parts as they are in new. *)
Overlay(old, new, parts) ==
  [body |-> IF "body" \in parts THEN new.body ELSE old.body,
   fm   |-> IF "body" \in parts THEN new.fm ELSE old.fm,
   uuid |-> IF "sidecar" \in parts THEN new.uuid ELSE old.uuid,
   id   |-> IF "sidecar" \in parts THEN new.id ELSE old.id]

(* _Claim.uuid, _claimOf: "The sidecar's UUID wins over the frontmatter's" *)
Claim(n) == IF n.uuid # 0 THEN n.uuid ELSE n.fm
Complete(n) == n.uuid # 0 /\ n.id # 0
Notes(notes) == {p \in Path : notes[p].body}

ASSUME IdentityAssumption ==
  /\ Order \in [Path -> Nat]
  /\ \A p, q \in Path : Order[p] = Order[q] => p = q
  /\ \A f \in Starts :
       /\ f.notes \in Folder
       /\ {f.counter, f.issued, f.scans, f.ops, f.edits, f.skips} \subseteq Nat
       /\ \A p \in Path : f.notes[p].fm <= f.issued /\ f.notes[p].uuid <= f.issued

VARIABLES disk,         \* the note files
          counter,      \* manifest.json: id_counters.note
          issued,       \* every UUID in use so far is at most this
          scan,         \* the scans
          clean,        \* the folder began in order, and only the apps wrote it
          scans, ops, edits, skips    \* how many may still come

vars == <<disk, counter, issued, scan, clean, scans, ops, edits, skips>>

-----------------------------------------------------------------------------
(* planIdentityFixes, from the index a scan has read. *)

Weight(notes, p) == (IF notes[p].uuid # 0 THEN 0 ELSE 2)
                      + (IF p[1] = Claim(notes[p]) THEN 0 ELSE 1)

(* _byKeeperOrder *)
Outranks(notes, p, q) ==
  \/ Weight(notes, p) < Weight(notes, q)
  \/ Weight(notes, p) = Weight(notes, q) /\ Order[p] < Order[q]

Keeper(notes, group) ==
  CHOOSE k \in group : \A q \in group \ {k} : Outranks(notes, k, q)

SameUuid(notes, p) == {q \in Notes(notes) : Claim(notes[q]) = Claim(notes[p])}
Losers(notes) ==
  {p \in Notes(notes) : Claim(notes[p]) # 0 /\ p # Keeper(notes, SameUuid(notes, p))}
Remaining(notes) == Notes(notes) \ Losers(notes)

SameId(notes, p) == {q \in Remaining(notes) : notes[q].id = notes[p].id}
IdLosers(notes) ==
  {p \in Remaining(notes) : notes[p].id # 0 /\ p # Keeper(notes, SameId(notes, p))}

Fix == [kind : {"uuid", "id", "adopt"}, path : Path, keeper : Path, uuid : Nat, id : Nat]

(* Mutant of AdoptFixes: the sidecar's id is kept, repeated or not. *)
AdoptFixesKeepingIds(notes) ==
  {[kind |-> "adopt", path |-> p, keeper |-> p, uuid |-> Claim(notes[p]), id |-> notes[p].id] :
     p \in {q \in Remaining(notes) : ~Complete(notes[q])}}

(* ReassignNoteUuid, ReassignNoteId, AdoptNote *)
UuidFixes(notes) ==
  {[kind |-> "uuid", path |-> p, keeper |-> Keeper(notes, SameUuid(notes, p)),
    uuid |-> Claim(notes[p]), id |-> 0] : p \in Losers(notes)}
IdFixes(notes) ==
  {[kind |-> "id", path |-> p, keeper |-> Keeper(notes, SameId(notes, p)),
    uuid |-> 0, id |-> notes[p].id] : p \in IdLosers(notes)}
AdoptFixes(notes) ==
  {[kind |-> "adopt", path |-> p, keeper |-> p, uuid |-> Claim(notes[p]),
    id |-> IF p \in IdLosers(notes) THEN 0 ELSE notes[p].id] :
     p \in {q \in Remaining(notes) : ~Complete(notes[q])}}

Plan(notes) == UuidFixes(notes) \cup IdFixes(notes) \cup AdoptFixes(notes)

(* The list of fixes has the three kinds one after the other. *)
Due(fixes, kind) ==
  {f \in fixes : /\ f.kind = kind
                 /\ kind # "uuid" => \A g \in fixes : g.kind # "uuid"
                 /\ kind = "adopt" => \A g \in fixes : g.kind = "adopt"}

-----------------------------------------------------------------------------
(* Scans. *)

Phases == {"idle", "list live", "visit live", "list trash", "visit trash",
           "recheck", "raise", "fix"}

(* outside, moved: the paths that other programs and operations of the     *)
(* apps wrote since the scan started; quiet: nobody else wrote anything.   *)
Idle == [at |-> "idle", todo |-> {}, notes |-> [p \in Path |-> Nothing],
         fixes |-> {}, quiet |-> FALSE, outside |-> {}, moved |-> {}]

Scan == [at : Phases, todo : SUBSET (Path \X Parts), notes : [Path -> Note],
         fixes : SUBSET Fix, quiet : BOOLEAN, outside : SUBSET Path, moved : SUBSET Path]

(* A scan in progress, after somebody else wrote. *)
Disturbed(sc, outside, moved) ==
  IF sc.at = "idle" THEN sc
  ELSE [sc EXCEPT !.quiet = FALSE, !.outside = @ \cup outside, !.moved = @ \cup moved]

ScanStarts(s) ==
  /\ scan[s].at = "idle"
  /\ scans > 0
  /\ scans' = scans - 1
  /\ scan' = [scan EXCEPT ![s] = [Idle EXCEPT !.at = "list live", !.quiet = TRUE]]
  /\ UNCHANGED <<disk, counter, issued, clean, ops, edits, skips>>

ScanStep(s, next) ==
  /\ scan' = [scan EXCEPT ![s] = next]
  /\ UNCHANGED <<disk, counter, issued, clean, scans, ops, edits, skips>>

(* A page holds any number of these.  trash/notes/ is listed after the     *)
(* files of notes/ were read.                                              *)
FilesIn(place) ==
  {f \in Path \X Parts :
     /\ f[1][2] = place
     /\ f[2] = "body" => disk[f[1]].body
     /\ f[2] = "sidecar" => (disk[f[1]].uuid # 0 \/ disk[f[1]].id # 0)}

ScanLists(s, place) ==
  /\ scan[s].at = IF place = "live" THEN "list live" ELSE "list trash"
  /\ ScanStep(s, [scan[s] EXCEPT
       !.at = IF place = "live" THEN "visit live" ELSE "visit trash",
       !.todo = FilesIn(place)])

ScanVisits(s) ==
  /\ scan[s].at \in {"visit live", "visit trash"}
  /\ \E f \in scan[s].todo :
       ScanStep(s, [scan[s] EXCEPT
         !.todo = @ \ {f},
         !.notes[f[1]] = Overlay(@, disk[f[1]], {f[2]})])

(* A pending record that cannot be rolled forward names this file.         *)
SkipsVisit(s) ==
  /\ scan[s].at \in {"visit live", "visit trash"}
  /\ skips > 0
  /\ skips' = skips - 1
  /\ \E f \in scan[s].todo :
       scan' = [scan EXCEPT ![s] = [scan[s] EXCEPT !.todo = @ \ {f}, !.quiet = FALSE]]
  /\ UNCHANGED <<disk, counter, issued, clean, scans, ops, edits>>

ScanVisited(s) ==
  /\ scan[s].at \in {"visit live", "visit trash"}
  /\ scan[s].todo = {}
  /\ ScanStep(s, [scan[s] EXCEPT
       !.at = IF @ = "visit live" THEN "list trash" ELSE "recheck"])

(* _recheck: notes whose UUID was seen twice are read again, in one hold. *)
Twice(notes) ==
  {p \in Notes(notes) : Claim(notes[p]) # 0 /\ SameUuid(notes, p) # {p}}

(* The notes as the re-check leaves them, with skipped files dropped.      *)
Rechecked(notes, dropped) ==
  [p \in Path |-> IF p \in Twice(notes)
                  THEN Overlay(disk[p], Nothing, {part \in Parts : <<p, part>> \in dropped})
                  ELSE notes[p]]

ScanRechecks(s) ==
  /\ scan[s].at = "recheck"
  /\ ScanStep(s, [scan[s] EXCEPT !.at = "raise", !.notes = Rechecked(@, {})])

SkipsRecheck(s) ==
  /\ scan[s].at = "recheck"
  /\ skips > 0
  /\ skips' = skips - 1
  /\ \E dropped \in SUBSET (Twice(scan[s].notes) \X Parts) \ {{}} :
       scan' = [scan EXCEPT ![s] = [scan[s] EXCEPT
                              !.at = "raise", !.quiet = FALSE,
                              !.notes = Rechecked(@, dropped)]]
  /\ UNCHANGED <<disk, counter, issued, clean, scans, ops, edits>>

(* _raiseCounters, then planIdentityFixes.  What becomes of the index      *)
(* afterwards is FolderIndexCache.                                         *)
Planned(s) == [scan[s] EXCEPT !.at = "fix", !.fixes = Plan(scan[s].notes),
                              !.notes = Idle.notes]

RaisesCounter(s) ==
  /\ scan[s].at = "raise"
  /\ \E new \in {counter} \cup {scan[s].notes[p].id : p \in Path} :
       /\ new >= counter /\ \A p \in Path : scan[s].notes[p].id <= new
       /\ counter' = new
  /\ scan' = [scan EXCEPT ![s] = Planned(s)]
  /\ UNCHANGED <<disk, issued, clean, scans, ops, edits, skips>>

(* A pending record that cannot be rolled forward has the manifest. *)
SkipsCounter(s) ==
  /\ scan[s].at = "raise"
  /\ skips > 0
  /\ skips' = skips - 1
  /\ scan' = [scan EXCEPT ![s] = [Planned(s) EXCEPT !.quiet = FALSE]]
  /\ UNCHANGED <<disk, counter, issued, clean, scans, ops, edits>>

-----------------------------------------------------------------------------
(* applyIdentityFix: one hold for each fix, which reads the files again.   *)

(* Mutants of Conflict: the keeper is not read again; the note to adopt is *)
(* not.                                                                    *)
ConflictKeeperUnread(f) ==
  LET n == disk[f.path]  k == disk[f.keeper]
  IN  \/ f.kind = "uuid" /\ n.body /\ Claim(n) = f.uuid
      \/ f.kind = "id" /\ n.id = f.id /\ k.id = f.id
      \/ f.kind = "adopt" /\ n.body /\ ~Complete(n)

ConflictBodyUnread(f) ==
  LET n == disk[f.path]  k == disk[f.keeper]
  IN  \/ f.kind = "uuid" /\ n.body /\ Claim(n) = f.uuid /\ Claim(k) = f.uuid
      \/ f.kind = "id" /\ n.id = f.id /\ k.id = f.id
      \/ f.kind = "adopt" /\ ~Complete(n)

(* What has to be on disk for a fix to be applied. *)
Conflict(f) ==
  LET n == disk[f.path]  k == disk[f.keeper]
  IN  \/ f.kind = "uuid" /\ n.body /\ Claim(n) = f.uuid /\ Claim(k) = f.uuid
      \/ f.kind = "id" /\ n.id = f.id /\ k.id = f.id
      \/ f.kind = "adopt" /\ n.body /\ ~Complete(n)

Without(s, f) == [scan[s] EXCEPT !.fixes = @ \ {f}]

(* Scan s writes note n at the path of f, with UUIDs and ids up to these. *)
Applies(s, f, n, newIssued, newCounter) ==
  /\ disk' = [disk EXCEPT ![f.path] = n]
  /\ issued' = newIssued /\ counter' = newCounter
  /\ scan' = [r \in Scans |-> IF r = s THEN Without(s, f)
                              ELSE Disturbed(scan[r], {}, {})]
  /\ UNCHANGED <<clean, scans, ops, edits, skips>>

ReassignsUuid(s) ==
  /\ scan[s].at = "fix"
  /\ \E f \in Due(scan[s].fixes, "uuid") :
       /\ Conflict(f)
       /\ Applies(s, f,
            [body |-> TRUE, fm |-> IF disk[f.path].fm = 0 THEN 0 ELSE issued + 1,
             uuid |-> issued + 1, id |-> counter + 1],
            issued + 1, counter + 1)

ReassignsId(s) ==
  /\ scan[s].at = "fix"
  /\ \E f \in Due(scan[s].fixes, "id") :
       /\ Conflict(f)
       /\ Applies(s, f, [disk[f.path] EXCEPT !.id = counter + 1], issued, counter + 1)

(* Mutant of Adopts: the UUID of the plan comes first. *)
AdoptsAsPlanned(s) ==
  /\ scan[s].at = "fix"
  /\ \E f \in Due(scan[s].fixes, "adopt") :
       /\ Conflict(f)
       /\ LET n == disk[f.path]
              newUuid == n.uuid = 0 /\ f.uuid = 0
              newId == f.id = 0 /\ n.id = 0
          IN  Applies(s, f,
                [n EXCEPT !.uuid = IF newUuid THEN issued + 1
                                   ELSE IF f.uuid # 0 THEN f.uuid ELSE n.uuid,
                          !.id = IF newId THEN counter + 1
                                 ELSE IF f.id # 0 THEN f.id ELSE n.id],
                IF newUuid THEN issued + 1 ELSE issued,
                IF newId THEN counter + 1 ELSE counter)

Adopts(s) ==
  /\ scan[s].at = "fix"
  /\ \E f \in Due(scan[s].fixes, "adopt") :
       /\ Conflict(f)
       /\ LET n == disk[f.path]
              newUuid == n.uuid = 0 /\ f.uuid = 0
              newId == f.id = 0 /\ n.id = 0
          IN  Applies(s, f,
                [n EXCEPT !.uuid = IF newUuid THEN issued + 1
                                   ELSE IF n.uuid # 0 THEN n.uuid ELSE f.uuid,
                          !.id = IF newId THEN counter + 1
                                 ELSE IF f.id # 0 THEN f.id ELSE n.id],
                IF newUuid THEN issued + 1 ELSE issued,
                IF newId THEN counter + 1 ELSE counter)

(* "skipping a fix whose conflict is gone" *)
DropsFix(s) ==
  /\ scan[s].at = "fix"
  /\ \E kind \in {"uuid", "id", "adopt"} : \E f \in Due(scan[s].fixes, kind) :
       /\ ~Conflict(f)
       /\ ScanStep(s, Without(s, f))

(* identityFixPaths: a pending record names a path of the fix. *)
SkipsFix(s) ==
  /\ scan[s].at = "fix"
  /\ skips > 0
  /\ skips' = skips - 1
  /\ \E kind \in {"uuid", "id", "adopt"} : \E f \in Due(scan[s].fixes, kind) :
       scan' = [scan EXCEPT ![s] = [Without(s, f) EXCEPT !.quiet = FALSE]]
  /\ UNCHANGED <<disk, counter, issued, clean, scans, ops, edits>>

ScanEnds(s) ==
  /\ scan[s].at = "fix" /\ scan[s].fixes = {}
  /\ ScanStep(s, Idle)

(* A hold of the scan throws, or its tab is closed. *)
ScanStops(s) ==
  /\ scan[s].at # "idle"
  /\ ScanStep(s, Idle)

-----------------------------------------------------------------------------
(* Operations of the apps, in any tab.  Others keep every identity where   *)
(* it is.                                                                  *)

Operation(paths, notes) ==
  /\ ops > 0
  /\ ops' = ops - 1
  /\ disk' = notes
  /\ scan' = [s \in Scans |-> Disturbed(scan[s], {}, paths)]
  /\ UNCHANGED <<clean, scans, edits, skips>>

(* readNoteAt: the notes that requests find. *)
Served(n) == n.body /\ n.id # 0 /\ Claim(n) # 0

(* Mutants of Create: the manifest is not written; the UUID is not new.    *)
CreateUncounted ==
  /\ issued + 1 \in Stems /\ disk[Live(issued + 1)] = Nothing
  /\ issued' = issued + 1 /\ counter' = counter
  /\ LET p == Live(issued + 1)
     IN  Operation({p}, [disk EXCEPT ![p] =
           [body |-> TRUE, fm |-> issued + 1, uuid |-> issued + 1, id |-> counter + 1]])

CreateUnissued ==
  /\ issued + 1 \in Stems /\ disk[Live(issued + 1)] = Nothing
  /\ issued' = issued /\ counter' = counter + 1
  /\ LET p == Live(issued + 1)
     IN  Operation({p}, [disk EXCEPT ![p] =
           [body |-> TRUE, fm |-> issued + 1, uuid |-> issued + 1, id |-> counter + 1]])

Create ==
  /\ issued + 1 \in Stems /\ disk[Live(issued + 1)] = Nothing
  /\ issued' = issued + 1 /\ counter' = counter + 1
  /\ LET p == Live(issued + 1)
     IN  Operation({p}, [disk EXCEPT ![p] =
           [body |-> TRUE, fm |-> issued + 1, uuid |-> issued + 1, id |-> counter + 1]])

Moves(from, to) ==
  /\ Served(disk[from])
  /\ Operation({from, to}, [disk EXCEPT ![to] = disk[from], ![from] = Nothing])
  /\ UNCHANGED <<counter, issued>>

(* _delete: a note that was in the trash under this stem is overwritten. *)
Delete(stem) == Moves(Live(stem), Trashed(stem))

(* _restore: 409 when the path is taken. *)
Restore(stem) == ~disk[Live(stem)].body /\ Moves(Trashed(stem), Live(stem))

(* _create with the client_draft_id of a trashed note: it is not asked.    *)
CreateAgain(stem) == Moves(Trashed(stem), Live(stem))

Purge(stem) ==
  /\ Served(disk[Trashed(stem)])
  /\ Operation({Trashed(stem)}, [disk EXCEPT ![Trashed(stem)] = Nothing])
  /\ UNCHANGED <<counter, issued>>

(* Another program writes or removes the files of a note: copies of files  *)
(* there are, or a new body without frontmatter.                           *)
Edit(p) ==
  /\ edits > 0
  /\ edits' = edits - 1
  /\ \E source \in {disk[q] : q \in Path} \cup {Nothing, Handwritten} :
       \E parts \in (SUBSET Parts) \ {{}} :
         disk' = [disk EXCEPT ![p] = Overlay(@, source, parts)]
  /\ disk' # disk
  /\ clean' = FALSE
  /\ scan' = [s \in Scans |-> Disturbed(scan[s], {p}, {})]
  /\ UNCHANGED <<counter, issued, scans, ops, skips>>

-----------------------------------------------------------------------------
(* No two notes have one identity, and every note has one. *)
Settled(notes) ==
  /\ \A p \in Notes(notes) : Complete(notes[p])
  /\ \A p, q \in Notes(notes) :
       p # q => Claim(notes[p]) # Claim(notes[q]) /\ notes[p].id # notes[q].id

IdsCovered(notes, top) == \A p \in Path : notes[p].id <= top

(* No sidecar without a note, as other programs leave them. *)
Paired(notes) == \A p \in Path : notes[p].body \/ notes[p] = Nothing

Init ==
  /\ \E f \in Starts :
       /\ disk = f.notes /\ counter = f.counter /\ issued = f.issued
       /\ scans = f.scans /\ ops = f.ops /\ edits = f.edits /\ skips = f.skips
       /\ clean = (Settled(f.notes) /\ Paired(f.notes) /\ IdsCovered(f.notes, f.counter))
  /\ scan = [s \in Scans |-> Idle]

Next ==
  \/ \E s \in Scans :
       \/ ScanStarts(s) \/ \E place \in Places : ScanLists(s, place)
       \/ ScanVisits(s) \/ SkipsVisit(s) \/ ScanVisited(s)
       \/ ScanRechecks(s) \/ SkipsRecheck(s)
       \/ RaisesCounter(s) \/ SkipsCounter(s)
       \/ ReassignsUuid(s) \/ ReassignsId(s) \/ Adopts(s)
       \/ DropsFix(s) \/ SkipsFix(s) \/ ScanEnds(s) \/ ScanStops(s)
  \/ Create
  \/ \E stem \in Stems : Delete(stem) \/ Restore(stem) \/ CreateAgain(stem) \/ Purge(stem)
  \/ \E p \in Path : Edit(p)

Spec == Init /\ [][Next]_vars

-----------------------------------------------------------------------------
(* Types; a frontmatter is in a body; UUIDs in use were issued. *)
TypeOK ==
  /\ disk \in Folder
  /\ counter \in Nat /\ issued \in Nat
  /\ \A p \in Path : disk[p].fm <= issued /\ disk[p].uuid <= issued
  /\ scan \in [Scans -> Scan]
  /\ clean \in BOOLEAN
  /\ {scans, ops, edits, skips} \subseteq Nat

(* Safety, storage_rules.md 3.7 "The scanner keeps the identity on one     *)
(* file": a scan beside which nobody else wrote, and which skipped         *)
(* nothing, leaves a folder in which every note has a UUID and an id of    *)
(* its own, and the counter above the ids, whatever it found.              *)
QuietScanSettles ==
  \A s \in Scans :
    (scan[s].at = "fix" /\ scan[s].fixes = {} /\ scan[s].quiet) =>
      Settled(disk) /\ IdsCovered(disk, counter)

(* Safety: in a folder that began in order and that only the apps write,   *)
(* no order of scans, fixes, creations, deletions and restores gives two   *)
(* notes one identity, or an id that the counter will issue again.         *)
AppsKeepOrder ==
  clean => Settled(disk) /\ IdsCovered(disk, counter)

(* s takes f off its list. *)
Finishes(s, f) ==
  scan[s].at = "fix" /\ f \in scan[s].fixes /\ f \notin scan'[s].fixes

(* Action property, folder_scanner.dart "so a scan during a trash move     *)
(* never reports a note twice", and what follows from it: in such a folder *)
(* no scan changes an identity, whatever it read at different moments.     *)
NoNeedlessFix ==
  [][\A s \in Scans : \A f \in scan[s].fixes :
       clean /\ Finishes(s, f) => UNCHANGED disk]_vars

(* The fix is about what the scan saw there, or it looks again: no other   *)
(* program wrote the keeper's files; nobody but scans wrote an adopted one.*)
Undisturbed(s, f) ==
  IF f.kind = "adopt" THEN f.path \notin scan[s].outside \cup scan[s].moved
  ELSE f.keeper \notin scan[s].outside

Claimed(notes) == {Claim(notes[p]) : p \in Notes(notes)}

(* Action property, folder_identity.dart "skipping a fix whose conflict is *)
(* gone": a fix takes an identity from a note only while another note has  *)
(* it, however many scans fix one folder with plans of different moments.  *)
IdentitiesKept ==
  [][\A s \in Scans : \A f \in scan[s].fixes :
       Finishes(s, f) /\ Undisturbed(s, f)
         => Claimed(disk) \ {0} \subseteq Claimed(disk')]_vars

(* Action property, the same passage: no fix gives a note a UUID that      *)
(* another note has, unless they shared it before.                         *)
IdentitiesApart ==
  [][\A s \in Scans : \A f \in scan[s].fixes :
       Finishes(s, f) /\ Undisturbed(s, f)
         => \A p, q \in Notes(disk') :
              (p # q /\ Claim(disk'[p]) # 0 /\ Claim(disk'[p]) = Claim(disk'[q]))
                => Claim(disk[p]) = Claim(disk[q])]_vars
=============================================================================
