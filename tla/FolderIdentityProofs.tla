----------------------- MODULE FolderIdentityProofs -----------------------
(***************************************************************************)
(* Theorems about the identities of notes, for any number of notes, scans, *)
(* operations, edits and skips.                                            *)
(*                                                                         *)
(* Four invariants, each on top of the first: types; a folder that only    *)
(* the apps write stays in order (Ordered); what a scan has read and       *)
(* planned is still so where nobody interfered (Followed); and a scan      *)
(* nobody disturbed has a plan that settles the folder (Quiet).            *)
(***************************************************************************)
EXTENDS FolderIdentity, TLAPS, NaturalsInduction, WellFoundedInduction

-----------------------------------------------------------------------------
(* The invariants. *)

\* What scans have read, and the UUIDs they plan with, were issued.
ReadIssued ==
  \A s \in Scans :
    /\ \A p \in Path : scan[s].notes[p].fm <= issued /\ scan[s].notes[p].uuid <= issued
    /\ \A f \in scan[s].fixes : f.uuid <= issued

Typed == TypeOK /\ ReadIssued

\* A conflict is between two notes, about an identity they have.
PlansApart ==
  \A s \in Scans : \A f \in scan[s].fixes :
    /\ f.kind # "adopt" => f.keeper # f.path
    /\ f.kind = "uuid" => f.uuid # 0
    /\ f.kind = "id" => f.id # 0

Ordered ==
  /\ PlansApart
  /\ clean => Settled(disk) /\ Paired(disk) /\ IdsCovered(disk, counter)

Orphan(p) == ~disk[p].body /\ disk[p].uuid # 0

\* A note that lacks a part of its identity, and whose files only other fixes
\* wrote since the scan started, has the UUID that the scan saw.
ReadStill(s) ==
  \A p \in Path \ (scan[s].outside \cup scan[s].moved) :
    disk[p].body /\ ~Complete(disk[p]) =>
      /\ scan[s].notes[p].body => (scan[s].notes[p].fm = disk[p].fm)
      /\ scan[s].notes[p].uuid \in {0, disk[p].uuid}

\* A sidecar without a note, where no other program wrote, was never a note.
OrphansRead(s) ==
  \A p \in Path \ scan[s].outside : Orphan(p) => ~scan[s].notes[p].body

PlanStill(s) ==
  \A f \in scan[s].fixes :
    IF f.kind = "adopt"
    THEN f.path \notin scan[s].outside \cup scan[s].moved =>
           (disk[f.path].body /\ disk[f.path].uuid = 0 => f.uuid = disk[f.path].fm)
    ELSE f.keeper \notin scan[s].outside => ~Orphan(f.keeper)

Followed ==
  \A s \in Scans : scan[s].at # "idle" => ReadStill(s) /\ OrphansRead(s) /\ PlanStill(s)

\* The notes in places, as far as they are read, are as on disk.
ReadInto(s, places) ==
  /\ scan[s].todo \subseteq {f \in Path \X Parts : f[1][2] \in places}
  /\ \A p \in Path :
       /\ p[2] \notin places => scan[s].notes[p] = Nothing
       /\ p[2] \in places /\ <<p, "body">> \notin scan[s].todo =>
            scan[s].notes[p].body = disk[p].body /\ scan[s].notes[p].fm = disk[p].fm
       /\ p[2] \in places /\ <<p, "sidecar">> \notin scan[s].todo =>
            scan[s].notes[p].uuid = disk[p].uuid /\ scan[s].notes[p].id = disk[p].id

QuietReads(s) ==
  /\ scan[s].at = "list live" => ReadInto(s, {}) /\ scan[s].todo = {}
  /\ scan[s].at = "visit live" => ReadInto(s, {"live"})
  /\ scan[s].at = "list trash" => ReadInto(s, {"live"}) /\ scan[s].todo = {}
  /\ scan[s].at = "visit trash" => ReadInto(s, Places)
  /\ scan[s].at \in {"recheck", "raise"} => scan[s].notes = disk

Paths(fixes, kinds) == {f.path : f \in {g \in fixes : g.kind \in kinds}}

\* Whatever is wrong in the folder has a fix in the plan ...
PlanCovers(notes, fixes) ==
  /\ \A p, q \in Notes(notes) :
       p # q =>
         /\ (Claim(notes[p]) # 0 /\ Claim(notes[p]) = Claim(notes[q])) =>
              p \in Paths(fixes, {"uuid"}) \/ q \in Paths(fixes, {"uuid"})
         /\ (notes[p].id # 0 /\ notes[p].id = notes[q].id) =>
              p \in Paths(fixes, {"uuid", "id"}) \/ q \in Paths(fixes, {"uuid", "id"})
  /\ \A p \in Notes(notes) : Complete(notes[p]) \/ p \in Paths(fixes, {"uuid", "adopt"})

\* ... and each fix is about something that is wrong, which no other fix of
\* the plan changes first.
PlanApplies(notes, fixes) ==
  /\ \A f, g \in fixes : f.kind = g.kind /\ f.path = g.path => f = g
  /\ \A f \in fixes :
       /\ notes[f.path].body
       /\ f.kind = "uuid" =>
            /\ f.uuid # 0 /\ Claim(notes[f.path]) = f.uuid /\ Claim(notes[f.keeper]) = f.uuid
            /\ f.keeper \notin Paths(fixes, {"uuid"})
       /\ f.kind # "uuid" => f.path \notin Paths(fixes, {"uuid"})
       /\ f.kind = "id" =>
            /\ f.id # 0 /\ notes[f.path].id = f.id /\ notes[f.keeper].id = f.id
            /\ f.keeper \notin Paths(fixes, {"uuid", "id"})
       /\ f.kind = "adopt" =>
            /\ notes[f.path].uuid = 0 => f.uuid = notes[f.path].fm
            /\ f.id # 0 => f.id = notes[f.path].id /\ f.path \notin Paths(fixes, {"id"})

QuietPlan(s) ==
  scan[s].at = "fix" =>
    PlanCovers(disk, scan[s].fixes) /\ PlanApplies(disk, scan[s].fixes)
      /\ IdsCovered(disk, counter)

Quiet == \A s \in Scans : scan[s].quiet => QuietReads(s) /\ QuietPlan(s)

-----------------------------------------------------------------------------
(* Notes, keepers and plans. *)

\* Facts of the parameters, and the fields of notes.
LEMMA Parameters ==
  /\ \A p \in Path : Order[p] \in Nat
  /\ \A p, q \in Path : Order[p] = Order[q] => p = q
  /\ \A f \in Starts :
       /\ f.notes \in Folder
       /\ f.counter \in Nat /\ f.issued \in Nat
       /\ f.scans \in Nat /\ f.ops \in Nat /\ f.edits \in Nat /\ f.skips \in Nat
       /\ \A p \in Path : f.notes[p].fm <= f.issued /\ f.notes[p].uuid <= f.issued
BY IdentityAssumption

LEMMA NothingTyped ==
  /\ Nothing \in Note /\ ~Nothing.body /\ Nothing.fm = 0 /\ Nothing.uuid = 0 /\ Nothing.id = 0
  /\ Handwritten \in Note /\ Handwritten.body
  /\ Handwritten.fm = 0 /\ Handwritten.uuid = 0 /\ Handwritten.id = 0
BY DEF Nothing, Handwritten, Note

LEMMA NoteTyped ==
  ASSUME NEW n \in Note
  PROVE  /\ n.body \in BOOLEAN /\ n.fm \in Nat /\ n.uuid \in Nat /\ n.id \in Nat
         /\ n = [body |-> n.body, fm |-> n.fm, uuid |-> n.uuid, id |-> n.id]
         /\ Claim(n) \in Nat /\ Claim(n) \in {n.uuid, n.fm}
         /\ Complete(n) => Claim(n) # 0
         /\ Complete(n) \in BOOLEAN
BY DEF Note, Claim, Complete

LEMMA NotesEqual ==
  ASSUME NEW m \in Note, NEW n \in Note,
         m.body = n.body, m.fm = n.fm, m.uuid = n.uuid, m.id = n.id
  PROVE  m = n
BY NoteTyped

LEMMA FolderTyped ==
  ASSUME NEW notes \in Folder
  PROVE  /\ notes \in [Path -> Note]
         /\ \A p \in Path : notes[p] \in Note /\ (notes[p].body \/ notes[p].fm = 0)
BY DEF Folder

LEMMA OverlayTyped ==
  ASSUME NEW old \in Note, NEW new \in Note, NEW parts
  PROVE  Overlay(old, new, parts) \in Note
BY DEF Overlay, Note

\* Some number of a set is the least.
LEMMA LeastNat ==
  ASSUME NEW S \in SUBSET Nat, S # {}
  PROVE  \E m \in S : \A n \in S : m <= n
<1> DEFINE less == {ss \in Nat \X Nat : ss[1] < ss[2]}
<1>1. IsWellFoundedOn(less, Nat)
  BY NatLessThanWellFounded DEF OpToRel
<1>2. PICK m \in S : \A n \in S : <<n, m>> \notin less
  BY <1>1, WFMin, Zenon
<1>3. ASSUME NEW n \in S PROVE m <= n
  <2>1. n \in Nat /\ m \in Nat
    OBVIOUS
  <2>2. n < m => <<n, m>> \in less
    BY <2>1
  <2> QED BY <1>2, <2>1, <2>2
<1> QED BY <1>3

\* Every group of notes has one that outranks the others.
LEMMA KeeperExists ==
  ASSUME NEW notes \in [Path -> Note], NEW group \in SUBSET Path, group # {}
  PROVE  Keeper(notes, group) \in group
<1> DEFINE weights == {Weight(notes, p) : p \in group}
<1>1. \A p \in group : Weight(notes, p) \in Nat
  BY DEF Weight
<1>2. weights \in SUBSET Nat /\ weights # {}
  BY <1>1
<1>3. PICK w \in weights : \A v \in weights : w <= v
  BY <1>2, LeastNat
<1> DEFINE light == {p \in group : Weight(notes, p) = w}
           orders == {Order[p] : p \in light}
<1>4. orders \in SUBSET Nat /\ orders # {}
  BY <1>3, Parameters
<1>5. PICK o \in orders : \A v \in orders : o <= v
  BY <1>4, LeastNat
<1>6. PICK k \in light : Order[k] = o
  BY <1>5
<1>7. ASSUME NEW q \in group \ {k} PROVE Outranks(notes, k, q)
  <2>1. w <= Weight(notes, q) /\ w \in Nat /\ Weight(notes, q) \in Nat /\ Weight(notes, k) = w
    BY <1>1, <1>2, <1>3, <1>6
  <2>2. CASE w < Weight(notes, q)
    BY <2>1, <2>2 DEF Outranks
  <2>3. CASE w = Weight(notes, q)
    <3>1. q \in light
      BY <2>3
    <3>2. Order[k] <= Order[q]
      BY <1>5, <1>6, <3>1
    <3>3. Order[k] # Order[q] /\ Order[k] \in Nat /\ Order[q] \in Nat
      BY Parameters, <1>6
    <3> QED BY <2>1, <2>3, <3>2, <3>3 DEF Outranks
  <2> QED BY <2>1, <2>2, <2>3
<1> HIDE DEF light
<1>8. k \in group
  BY <1>6 DEF light
<1> QED BY <1>7, <1>8, Zenon DEF Keeper

\* The keepers of two groups that are one group are one note.
LEMMA Groups ==
  ASSUME NEW notes \in [Path -> Note]
  PROVE  /\ \A p \in Notes(notes) :
              LET k == Keeper(notes, SameUuid(notes, p))
              IN  /\ k \in Notes(notes) /\ Claim(notes[k]) = Claim(notes[p])
                  /\ \A q \in Notes(notes) : Claim(notes[q]) = Claim(notes[p]) =>
                       Keeper(notes, SameUuid(notes, q)) = k
         /\ \A p \in Remaining(notes) :
              LET k == Keeper(notes, SameId(notes, p))
              IN  /\ k \in Remaining(notes) /\ notes[k].id = notes[p].id
                  /\ \A q \in Remaining(notes) : notes[q].id = notes[p].id =>
                       Keeper(notes, SameId(notes, q)) = k
         /\ Losers(notes) \subseteq Notes(notes) /\ IdLosers(notes) \subseteq Remaining(notes)
         /\ Remaining(notes) \subseteq Notes(notes) /\ Notes(notes) \subseteq Path
<1>1. Notes(notes) \subseteq Path /\ Remaining(notes) \subseteq Notes(notes)
      /\ Losers(notes) \subseteq Notes(notes) /\ IdLosers(notes) \subseteq Remaining(notes)
  BY DEF Notes, Remaining, Losers, IdLosers
<1>2. ASSUME NEW p \in Notes(notes)
      PROVE  LET k == Keeper(notes, SameUuid(notes, p))
             IN  /\ k \in Notes(notes) /\ Claim(notes[k]) = Claim(notes[p])
                 /\ \A q \in Notes(notes) : Claim(notes[q]) = Claim(notes[p]) =>
                      Keeper(notes, SameUuid(notes, q)) = k
  <2>1. SameUuid(notes, p) \in SUBSET Path /\ SameUuid(notes, p) # {}
    BY <1>1 DEF SameUuid
  <2>2. Keeper(notes, SameUuid(notes, p)) \in SameUuid(notes, p)
    BY <2>1, KeeperExists
  <2>3. ASSUME NEW q \in Notes(notes), Claim(notes[q]) = Claim(notes[p])
        PROVE  SameUuid(notes, q) = SameUuid(notes, p)
    BY <2>3 DEF SameUuid
  <2> QED BY <2>2, <2>3 DEF SameUuid
<1>3. ASSUME NEW p \in Remaining(notes)
      PROVE  LET k == Keeper(notes, SameId(notes, p))
             IN  /\ k \in Remaining(notes) /\ notes[k].id = notes[p].id
                 /\ \A q \in Remaining(notes) : notes[q].id = notes[p].id =>
                      Keeper(notes, SameId(notes, q)) = k
  <2>1. SameId(notes, p) \in SUBSET Path /\ SameId(notes, p) # {}
    BY <1>1 DEF SameId
  <2>2. Keeper(notes, SameId(notes, p)) \in SameId(notes, p)
    BY <2>1, KeeperExists
  <2>3. ASSUME NEW q \in Remaining(notes), notes[q].id = notes[p].id
        PROVE  SameId(notes, q) = SameId(notes, p)
    BY <2>3 DEF SameId
  <2> QED BY <2>2, <2>3 DEF SameId
<1> QED BY <1>1, <1>2, <1>3

\* What is in a plan.
LEMMA PlanMade ==
  ASSUME NEW notes \in [Path -> Note], NEW f \in Plan(notes)
  PROVE  /\ f \in Fix
         /\ f.path \in Notes(notes) /\ f.keeper \in Notes(notes)
         /\ f.kind # "adopt" => f.keeper # f.path
         /\ f.kind \in {"uuid", "adopt"} => f.uuid = Claim(notes[f.path])
         /\ f.kind = "uuid" => f.uuid # 0 /\ f.id = 0 /\ f.path \in Losers(notes)
                               /\ f.keeper = Keeper(notes, SameUuid(notes, f.path))
         /\ f.kind = "id" => f.uuid = 0 /\ f.id # 0 /\ f.id = notes[f.path].id
                             /\ f.path \in IdLosers(notes)
                             /\ f.keeper = Keeper(notes, SameId(notes, f.path))
         /\ f.kind = "adopt" => f.path \in Remaining(notes) /\ f.keeper = f.path
                                /\ f.id = IF f.path \in IdLosers(notes) THEN 0 ELSE notes[f.path].id
<1>1. \A p \in Path : notes[p] \in Note /\ Claim(notes[p]) \in Nat /\ notes[p].id \in Nat
  BY NoteTyped
<1>2. Notes(notes) \subseteq Path /\ Remaining(notes) \subseteq Notes(notes)
      /\ Losers(notes) \subseteq Notes(notes) /\ IdLosers(notes) \subseteq Remaining(notes)
  BY Groups
<1>3. CASE f \in UuidFixes(notes)
  <2>1. PICK p \in Losers(notes) :
          f = [kind |-> "uuid", path |-> p, keeper |-> Keeper(notes, SameUuid(notes, p)),
               uuid |-> Claim(notes[p]), id |-> 0]
    BY <1>3 DEF UuidFixes
  <2>2. Claim(notes[p]) # 0 /\ p # Keeper(notes, SameUuid(notes, p))
    BY DEF Losers
  <2>3. Keeper(notes, SameUuid(notes, p)) \in Notes(notes)
    BY <1>2, Groups
  <2> QED BY <1>1, <1>2, <2>1, <2>2, <2>3 DEF Fix
<1>4. CASE f \in IdFixes(notes)
  <2>1. PICK p \in IdLosers(notes) :
          f = [kind |-> "id", path |-> p, keeper |-> Keeper(notes, SameId(notes, p)),
               uuid |-> 0, id |-> notes[p].id]
    BY <1>4 DEF IdFixes
  <2>2. notes[p].id # 0 /\ p # Keeper(notes, SameId(notes, p))
    BY DEF IdLosers
  <2>3. Keeper(notes, SameId(notes, p)) \in Notes(notes)
    BY <1>2, Groups
  <2> QED BY <1>1, <1>2, <2>1, <2>2, <2>3 DEF Fix
<1>5. CASE f \in AdoptFixes(notes)
  <2>1. PICK p \in {q \in Remaining(notes) : ~Complete(notes[q])} :
          f = [kind |-> "adopt", path |-> p, keeper |-> p, uuid |-> Claim(notes[p]),
               id |-> IF p \in IdLosers(notes) THEN 0 ELSE notes[p].id]
    BY <1>5 DEF AdoptFixes
  <2>2. (IF p \in IdLosers(notes) THEN 0 ELSE notes[p].id) \in Nat
    BY <1>1, <1>2
  <2> QED BY <1>1, <1>2, <2>1, <2>2 DEF Fix
<1> QED BY <1>3, <1>4, <1>5 DEF Plan

\* The paths of a plan, kind by kind.
LEMMA PlanPaths ==
  ASSUME NEW notes \in [Path -> Note]
  PROVE  /\ Paths(Plan(notes), {"uuid"}) = Losers(notes)
         /\ Paths(Plan(notes), {"id"}) = IdLosers(notes)
         /\ Paths(Plan(notes), {"uuid", "id"}) = Losers(notes) \cup IdLosers(notes)
         /\ \A p \in Remaining(notes) :
              Complete(notes[p]) \/ p \in Paths(Plan(notes), {"uuid", "adopt"})
<1>1. ASSUME NEW p \in Losers(notes)
      PROVE  \E f \in Plan(notes) : f.kind = "uuid" /\ f.path = p
  <2> DEFINE f == [kind |-> "uuid", path |-> p, keeper |-> Keeper(notes, SameUuid(notes, p)),
                   uuid |-> Claim(notes[p]), id |-> 0]
  <2>1. f \in Plan(notes)
    BY DEF Plan, UuidFixes
  <2>2. f.kind = "uuid" /\ f.path = p
    OBVIOUS
  <2> QED BY <2>1, <2>2
<1>2. ASSUME NEW p \in IdLosers(notes)
      PROVE  \E f \in Plan(notes) : f.kind = "id" /\ f.path = p
  <2> DEFINE f == [kind |-> "id", path |-> p, keeper |-> Keeper(notes, SameId(notes, p)),
                   uuid |-> 0, id |-> notes[p].id]
  <2>1. f \in Plan(notes)
    BY DEF Plan, IdFixes
  <2>2. f.kind = "id" /\ f.path = p
    OBVIOUS
  <2> QED BY <2>1, <2>2
<1>3. ASSUME NEW p \in Remaining(notes), ~Complete(notes[p])
      PROVE  \E f \in Plan(notes) : f.kind = "adopt" /\ f.path = p
  <2> DEFINE f == [kind |-> "adopt", path |-> p, keeper |-> p, uuid |-> Claim(notes[p]),
                   id |-> IF p \in IdLosers(notes) THEN 0 ELSE notes[p].id]
  <2>1. f \in Plan(notes)
    BY <1>3 DEF Plan, AdoptFixes
  <2>2. f.kind = "adopt" /\ f.path = p
    OBVIOUS
  <2> QED BY <2>1, <2>2
<1>4. \A f \in Plan(notes) : /\ f.kind = "uuid" => f.path \in Losers(notes)
                             /\ f.kind = "id" => f.path \in IdLosers(notes)
  BY PlanMade
<1> QED BY <1>1, <1>2, <1>3, <1>4 DEF Paths

\* A plan made from the notes as they are covers and applies.
LEMMA PlanSettles ==
  ASSUME NEW notes \in [Path -> Note]
  PROVE  PlanCovers(notes, Plan(notes)) /\ PlanApplies(notes, Plan(notes))
<1>1. Notes(notes) \subseteq Path /\ Remaining(notes) \subseteq Notes(notes)
      /\ Losers(notes) \subseteq Notes(notes) /\ IdLosers(notes) \subseteq Remaining(notes)
      /\ \A p \in Notes(notes) : p \in Remaining(notes) <=> p \notin Losers(notes)
  BY Groups DEF Remaining
<1>2. PlanCovers(notes, Plan(notes))
  <2>1. ASSUME NEW p \in Notes(notes), NEW q \in Notes(notes), p # q,
               Claim(notes[p]) # 0, Claim(notes[p]) = Claim(notes[q])
        PROVE  p \in Losers(notes) \/ q \in Losers(notes)
    <3>1. Keeper(notes, SameUuid(notes, q)) = Keeper(notes, SameUuid(notes, p))
      BY <2>1, Groups
    <3> QED BY <2>1, <3>1 DEF Losers
  <2>2. ASSUME NEW p \in Notes(notes), NEW q \in Notes(notes), p # q,
               notes[p].id # 0, notes[p].id = notes[q].id
        PROVE  p \in Losers(notes) \cup IdLosers(notes) \/ q \in Losers(notes) \cup IdLosers(notes)
    <3>1. CASE p \in Losers(notes) \/ q \in Losers(notes)
      BY <3>1
    <3>2. CASE p \in Remaining(notes) /\ q \in Remaining(notes)
      <4>1. Keeper(notes, SameId(notes, q)) = Keeper(notes, SameId(notes, p))
        BY <2>2, <3>2, Groups
      <4> QED BY <2>2, <3>2, <4>1 DEF IdLosers
    <3> QED BY <1>1, <3>1, <3>2
  <2>3. ASSUME NEW p \in Notes(notes)
        PROVE  Complete(notes[p]) \/ p \in Paths(Plan(notes), {"uuid", "adopt"})
    <3>1. Paths(Plan(notes), {"uuid"}) \subseteq Paths(Plan(notes), {"uuid", "adopt"})
      BY DEF Paths
    <3> QED BY <1>1, <3>1, PlanPaths
  <2> QED BY <2>1, <2>2, <2>3, PlanPaths DEF PlanCovers
<1>3. PlanApplies(notes, Plan(notes))
  <2>1. ASSUME NEW f \in Plan(notes), NEW g \in Plan(notes), f.kind = g.kind, f.path = g.path
        PROVE  f = g
    <3>1. f \in Fix /\ g \in Fix
      BY PlanMade
    <3>2. f.kind \in {"uuid", "id", "adopt"}
      BY <3>1 DEF Fix
    <3>3. f.keeper = g.keeper /\ f.uuid = g.uuid /\ f.id = g.id
      <4>1. CASE f.kind = "uuid"
        BY <2>1, <4>1, PlanMade
      <4>2. CASE f.kind = "id"
        BY <2>1, <4>2, PlanMade
      <4>3. CASE f.kind = "adopt"
        BY <2>1, <4>3, PlanMade
      <4> QED BY <3>2, <4>1, <4>2, <4>3
    <3> QED BY <2>1, <3>1, <3>3 DEF Fix
  <2>2. ASSUME NEW f \in Plan(notes)
        PROVE  /\ notes[f.path].body
               /\ f.kind = "uuid" =>
                    /\ f.uuid # 0 /\ Claim(notes[f.path]) = f.uuid /\ Claim(notes[f.keeper]) = f.uuid
                    /\ f.keeper \notin Losers(notes)
    <3>1. f.path \in Notes(notes)
      BY PlanMade
    <3>2. CASE f.kind = "uuid"
      <4>1. f.uuid # 0 /\ Claim(notes[f.path]) = f.uuid
            /\ f.keeper = Keeper(notes, SameUuid(notes, f.path))
        BY <3>2, PlanMade
      <4>2. f.keeper \in Notes(notes) /\ Claim(notes[f.keeper]) = Claim(notes[f.path])
            /\ Keeper(notes, SameUuid(notes, f.keeper)) = f.keeper
        BY <3>1, <4>1, Groups
      <4> QED BY <3>1, <4>1, <4>2 DEF Losers, Notes
    <3> QED BY <3>1, <3>2 DEF Notes
  <2>3. ASSUME NEW f \in Plan(notes)
        PROVE  /\ f.kind # "uuid" => f.path \notin Losers(notes)
               /\ f.kind = "id" =>
                    /\ f.id # 0 /\ notes[f.path].id = f.id /\ notes[f.keeper].id = f.id
                    /\ f.keeper \notin Losers(notes) \cup IdLosers(notes)
    <3>1. f.kind \in {"uuid", "id", "adopt"}
      BY PlanMade DEF Fix
    <3>2. CASE f.kind = "id"
      <4>1. f.path \in IdLosers(notes) /\ f.path \in Remaining(notes)
        BY <1>1, <3>2, PlanMade
      <4>2. f.id # 0 /\ notes[f.path].id = f.id /\ f.keeper = Keeper(notes, SameId(notes, f.path))
        BY <3>2, PlanMade
      <4>3. f.keeper \in Remaining(notes) /\ notes[f.keeper].id = notes[f.path].id
            /\ Keeper(notes, SameId(notes, f.keeper)) = f.keeper
        BY <4>1, <4>2, Groups
      <4> QED BY <1>1, <4>1, <4>2, <4>3 DEF IdLosers
    <3>3. CASE f.kind = "adopt"
      BY <1>1, <3>3, PlanMade
    <3> QED BY <3>1, <3>2, <3>3
  <2>4. ASSUME NEW f \in Plan(notes), f.kind = "adopt"
        PROVE  /\ notes[f.path].uuid = 0 => f.uuid = notes[f.path].fm
               /\ f.id # 0 => f.id = notes[f.path].id /\ f.path \notin IdLosers(notes)
    BY <2>4, PlanMade DEF Claim
  <2> HIDE DEF Plan
  <2> QED BY <2>1, <2>2, <2>3, <2>4, PlanPaths DEF PlanApplies
<1> QED BY <1>2, <1>3

-----------------------------------------------------------------------------
(* What each step changes. *)

Budgets == {scans, ops, edits, skips} \subseteq Nat

\* A step of scan s that changes no note and no other scan.
Alone(s) ==
  /\ scan' \in [Scans -> Scan] /\ \A r \in Scans \ {s} : scan'[r] = scan[r]
  /\ disk' = disk /\ issued' = issued /\ clean' = clean /\ Budgets'

\* Where s is afterwards, with what it has read.
Reads(s, at, todo, notes) ==
  /\ scan'[s].at = at /\ scan'[s].todo = todo /\ scan'[s].notes = notes
  /\ scan'[s].fixes = scan[s].fixes
  /\ scan'[s].outside = scan[s].outside /\ scan'[s].moved = scan[s].moved

LEMMA ScanTyped ==
  ASSUME Typed, NEW s \in Scans
  PROVE  /\ scan[s] \in Scan
         /\ scan[s].at \in Phases /\ scan[s].todo \in SUBSET (Path \X Parts)
         /\ scan[s].notes \in [Path -> Note] /\ scan[s].fixes \in SUBSET Fix
         /\ scan[s].quiet \in BOOLEAN
         /\ scan[s].outside \in SUBSET Path /\ scan[s].moved \in SUBSET Path
         /\ \A p \in Path : scan[s].notes[p] \in Note
         /\ \A f \in scan[s].fixes :
              /\ f.kind \in {"uuid", "id", "adopt"} /\ f.path \in Path /\ f.keeper \in Path
              /\ f.uuid \in Nat /\ f.id \in Nat
BY DEF Typed, TypeOK, Scan, Fix

LEMMA DiskTyped ==
  ASSUME Typed
  PROVE  /\ disk \in [Path -> Note] /\ counter \in Nat /\ issued \in Nat
         /\ \A p \in Path : /\ disk[p] \in Note /\ (disk[p].body \/ disk[p].fm = 0)
                            /\ disk[p].fm <= issued /\ disk[p].uuid <= issued
                            /\ Claim(disk[p]) \in Nat /\ Claim(disk[p]) <= issued
         /\ Budgets
BY FolderTyped, NoteTyped DEF Typed, TypeOK, Claim, Budgets

LEMMA IdleTyped ==
  /\ Idle \in Scan /\ Idle.at = "idle" /\ Idle.todo = {} /\ Idle.fixes = {}
  /\ ~Idle.quiet /\ Idle.outside = {} /\ Idle.moved = {}
  /\ Idle.notes \in [Path -> Note] /\ \A p \in Path : Idle.notes[p] = Nothing
BY NothingTyped DEF Idle, Scan, Phases

LEMMA ScanAlone ==
  ASSUME Typed, NEW s \in Scans, NEW next \in Scan,
         scan' = [scan EXCEPT ![s] = next], UNCHANGED <<disk, issued, clean>>, Budgets'
  PROVE  Alone(s) /\ scan'[s] = next
BY DEF Alone, Typed, TypeOK

LEMMA StepAlone ==
  ASSUME Typed, NEW s \in Scans, NEW next \in Scan, ScanStep(s, next)
  PROVE  Alone(s) /\ scan'[s] = next /\ counter' = counter
BY ScanAlone, DiskTyped DEF ScanStep, Budgets

LEMMA ScanStartsDoes ==
  ASSUME Typed, NEW s \in Scans, ScanStarts(s)
  PROVE  /\ Alone(s) /\ counter' = counter
         /\ scan'[s].at = "list live" /\ scan'[s].todo = {} /\ scan'[s].notes = Idle.notes
         /\ scan'[s].fixes = {} /\ scan'[s].outside = {} /\ scan'[s].moved = {}
<1> DEFINE next == [Idle EXCEPT !.at = "list live", !.quiet = TRUE]
<1>1. next \in Scan /\ next.at = "list live" /\ next.todo = {} /\ next.notes = Idle.notes
      /\ next.fixes = {} /\ next.outside = {} /\ next.moved = {}
  BY IdleTyped DEF Scan, Phases
<1>2. Budgets'
  BY DiskTyped DEF ScanStarts, Budgets
<1> QED BY <1>1, <1>2, ScanAlone DEF ScanStarts

LEMMA ScanListsDoes ==
  ASSUME Typed, NEW s \in Scans, NEW place \in Places, ScanLists(s, place)
  PROVE  /\ Alone(s) /\ counter' = counter /\ scan'[s].quiet = scan[s].quiet
         /\ scan[s].at = IF place = "live" THEN "list live" ELSE "list trash"
         /\ Reads(s, IF place = "live" THEN "visit live" ELSE "visit trash",
                  FilesIn(place), scan[s].notes)
<1> DEFINE next == [scan[s] EXCEPT !.at = IF place = "live" THEN "visit live" ELSE "visit trash",
                                   !.todo = FilesIn(place)]
<1>1. FilesIn(place) \in SUBSET (Path \X Parts)
  BY DEF FilesIn
<1>2. next \in Scan
  BY <1>1, ScanTyped DEF Scan, Phases
<1>3. ScanStep(s, next)
  BY DEF ScanLists
<1>4. Alone(s) /\ scan'[s] = next /\ counter' = counter
  BY <1>2, <1>3, StepAlone
<1> QED BY <1>4, ScanTyped DEF Reads, Scan, ScanLists

LEMMA ScanVisitsDoes ==
  ASSUME Typed, NEW s \in Scans, ScanVisits(s)
  PROVE  /\ Alone(s) /\ counter' = counter /\ scan'[s].quiet = scan[s].quiet
         /\ scan[s].at \in {"visit live", "visit trash"}
         /\ \E p \in Path, part \in Parts :
              /\ <<p, part>> \in scan[s].todo
              /\ Reads(s, scan[s].at, scan[s].todo \ {<<p, part>>},
                       [scan[s].notes EXCEPT ![p] = Overlay(scan[s].notes[p], disk[p], {part})])
<1>1. PICK f \in scan[s].todo :
        ScanStep(s, [scan[s] EXCEPT !.todo = scan[s].todo \ {f},
                                    !.notes[f[1]] = Overlay(scan[s].notes[f[1]], disk[f[1]], {f[2]})])
  BY DEF ScanVisits
<1>2. PICK p \in Path, part \in Parts : f = <<p, part>>
  BY ScanTyped
<1> DEFINE notes == [scan[s].notes EXCEPT ![p] = Overlay(scan[s].notes[p], disk[p], {part})]
           next == [scan[s] EXCEPT !.todo = scan[s].todo \ {<<p, part>>}, !.notes = notes]
<1>3. Overlay(scan[s].notes[p], disk[p], {part}) \in Note
  BY ScanTyped, DiskTyped, OverlayTyped
<1>4. notes \in [Path -> Note]
  BY <1>3, ScanTyped
<1> HIDE DEF notes
<1>5. next \in Scan
  BY <1>4, ScanTyped DEF Scan
<1>6. ScanStep(s, next)
  BY <1>1, <1>2, ScanTyped DEF notes, Scan
<1>7. Alone(s) /\ scan'[s] = next /\ counter' = counter
  BY <1>5, <1>6, StepAlone
<1>8. Reads(s, scan[s].at, scan[s].todo \ {<<p, part>>}, notes) /\ scan'[s].quiet = scan[s].quiet
  BY <1>7, ScanTyped DEF Reads, Scan
<1> QED BY <1>2, <1>7, <1>8 DEF ScanVisits, notes

LEMMA SkipsVisitDoes ==
  ASSUME Typed, NEW s \in Scans, SkipsVisit(s)
  PROVE  /\ Alone(s) /\ counter' = counter /\ ~scan'[s].quiet
         /\ scan[s].at \in {"visit live", "visit trash"}
         /\ \E todo : Reads(s, scan[s].at, todo, scan[s].notes)
<1>1. PICK f \in scan[s].todo :
        scan' = [scan EXCEPT ![s] = [scan[s] EXCEPT !.todo = scan[s].todo \ {f}, !.quiet = FALSE]]
  BY ScanTyped DEF SkipsVisit, Typed, TypeOK
<1> DEFINE next == [scan[s] EXCEPT !.todo = scan[s].todo \ {f}, !.quiet = FALSE]
<1>2. next \in Scan
  BY ScanTyped DEF Scan
<1>3. Budgets'
  <2>1. /\ skips > 0 /\ skips' = skips - 1
        /\ scans' = scans /\ ops' = ops /\ edits' = edits
    BY DEF SkipsVisit
  <2> QED BY <2>1, DiskTyped DEF Budgets
<1>4. Alone(s) /\ scan'[s] = next
  BY <1>1, <1>2, <1>3, ScanAlone DEF SkipsVisit
<1> QED BY <1>4, ScanTyped DEF Reads, Scan, SkipsVisit

LEMMA ScanVisitedDoes ==
  ASSUME Typed, NEW s \in Scans, ScanVisited(s)
  PROVE  /\ Alone(s) /\ counter' = counter /\ scan'[s].quiet = scan[s].quiet
         /\ scan[s].at \in {"visit live", "visit trash"} /\ scan[s].todo = {}
         /\ Reads(s, IF scan[s].at = "visit live" THEN "list trash" ELSE "recheck",
                  {}, scan[s].notes)
<1> DEFINE next == [scan[s] EXCEPT !.at = IF scan[s].at = "visit live" THEN "list trash" ELSE "recheck"]
<1>1. next \in Scan
  BY ScanTyped DEF Scan, Phases
<1>2. ScanStep(s, next)
  BY DEF ScanVisited
<1>3. Alone(s) /\ scan'[s] = next /\ counter' = counter
  BY <1>1, <1>2, StepAlone
<1> QED BY <1>3, ScanTyped DEF Reads, Scan, ScanVisited

LEMMA RecheckedTyped ==
  ASSUME Typed, NEW s \in Scans, NEW dropped
  PROVE  LET notes == Rechecked(scan[s].notes, dropped)
         IN  /\ notes \in [Path -> Note]
             /\ \A p \in Path :
                  \/ notes[p] = scan[s].notes[p]
                  \/ \E parts : notes[p] = Overlay(disk[p], Nothing, parts)
BY ScanTyped, DiskTyped, NothingTyped, OverlayTyped DEF Rechecked

LEMMA ScanRechecksDoes ==
  ASSUME Typed, NEW s \in Scans, ScanRechecks(s)
  PROVE  /\ Alone(s) /\ counter' = counter /\ scan'[s].quiet = scan[s].quiet
         /\ scan[s].at = "recheck"
         /\ Reads(s, "raise", scan[s].todo, Rechecked(scan[s].notes, {}))
<1> DEFINE notes == Rechecked(scan[s].notes, {})
           next == [scan[s] EXCEPT !.at = "raise", !.notes = notes]
<1>1. notes \in [Path -> Note]
  BY RecheckedTyped
<1> HIDE DEF notes
<1>2. next \in Scan
  BY <1>1, ScanTyped DEF Scan, Phases
<1>3. ScanStep(s, next)
  BY DEF ScanRechecks, notes
<1>4. Alone(s) /\ scan'[s] = next /\ counter' = counter
  BY <1>2, <1>3, StepAlone
<1>5. Reads(s, "raise", scan[s].todo, notes) /\ scan'[s].quiet = scan[s].quiet
  BY <1>4, ScanTyped DEF Reads, Scan
<1> QED BY <1>4, <1>5 DEF ScanRechecks, notes

LEMMA SkipsRecheckDoes ==
  ASSUME Typed, NEW s \in Scans, SkipsRecheck(s)
  PROVE  /\ Alone(s) /\ counter' = counter /\ ~scan'[s].quiet
         /\ scan[s].at = "recheck"
         /\ \E dropped : Reads(s, "raise", scan[s].todo, Rechecked(scan[s].notes, dropped))
<1>1. PICK dropped \in SUBSET (Twice(scan[s].notes) \X Parts) :
        scan' = [scan EXCEPT ![s] = [scan[s] EXCEPT !.at = "raise", !.quiet = FALSE,
                                       !.notes = Rechecked(scan[s].notes, dropped)]]
  BY ScanTyped DEF SkipsRecheck, Typed, TypeOK
<1> DEFINE notes == Rechecked(scan[s].notes, dropped)
           next == [scan[s] EXCEPT !.at = "raise", !.quiet = FALSE, !.notes = notes]
<1>2. notes \in [Path -> Note]
  BY RecheckedTyped
<1>3. scan' = [scan EXCEPT ![s] = next]
  BY <1>1
<1> HIDE DEF notes
<1>4. next \in Scan
  BY <1>2, ScanTyped DEF Scan, Phases
<1>5. Budgets'
  <2>1. /\ skips > 0 /\ skips' = skips - 1
        /\ scans' = scans /\ ops' = ops /\ edits' = edits
    BY DEF SkipsRecheck
  <2> QED BY <2>1, DiskTyped DEF Budgets
<1>6. Alone(s) /\ scan'[s] = next
  BY <1>3, <1>4, <1>5, ScanAlone DEF SkipsRecheck
<1>7. Reads(s, "raise", scan[s].todo, notes) /\ ~scan'[s].quiet
  BY <1>6, ScanTyped DEF Reads, Scan
<1> QED BY <1>6, <1>7 DEF SkipsRecheck, notes

LEMMA PlannedTyped ==
  ASSUME Typed, NEW s \in Scans
  PROVE  /\ Planned(s) \in Scan /\ Planned(s).at = "fix" /\ Planned(s).notes = Idle.notes
         /\ Planned(s).fixes = Plan(scan[s].notes) /\ Planned(s).quiet = scan[s].quiet
         /\ Planned(s).outside = scan[s].outside /\ Planned(s).moved = scan[s].moved
         /\ [Planned(s) EXCEPT !.quiet = FALSE] \in Scan
<1>1. Plan(scan[s].notes) \in SUBSET Fix
  BY PlanMade, ScanTyped
<1> QED BY <1>1, ScanTyped, IdleTyped DEF Planned, Scan, Phases

LEMMA RaisesCounterDoes ==
  ASSUME Typed, NEW s \in Scans, RaisesCounter(s)
  PROVE  /\ Alone(s) /\ scan'[s] = Planned(s) /\ scan[s].at = "raise"
         /\ counter' \in Nat /\ counter' >= counter
         /\ \A p \in Path : scan[s].notes[p].id <= counter'
<1>1. counter' \in {counter} \cup {scan[s].notes[p].id : p \in Path}
      /\ counter' >= counter /\ \A p \in Path : scan[s].notes[p].id <= counter'
  BY DEF RaisesCounter
<1>2. counter' \in Nat
  BY <1>1, DiskTyped, ScanTyped, NoteTyped
<1>3. Budgets'
  BY DiskTyped DEF RaisesCounter, Budgets
<1> QED BY <1>1, <1>2, <1>3, PlannedTyped, ScanAlone DEF RaisesCounter

LEMMA SkipsCounterDoes ==
  ASSUME Typed, NEW s \in Scans, SkipsCounter(s)
  PROVE  /\ Alone(s) /\ counter' = counter /\ scan[s].at = "raise"
         /\ scan'[s] = [Planned(s) EXCEPT !.quiet = FALSE]
<1>1. Budgets'
  BY DiskTyped DEF SkipsCounter, Budgets
<1> QED BY <1>1, PlannedTyped, ScanAlone DEF SkipsCounter

\* A fix is taken off the list, and nothing else happens to the scan.
Takes(s, f) ==
  /\ scan'[s].at = "fix" /\ scan'[s].todo = scan[s].todo /\ scan'[s].notes = scan[s].notes
  /\ scan'[s].fixes = scan[s].fixes \ {f}
  /\ scan'[s].outside = scan[s].outside /\ scan'[s].moved = scan[s].moved

LEMMA WithoutTyped ==
  ASSUME Typed, NEW s \in Scans, NEW f
  PROVE  /\ Without(s, f) \in Scan /\ Without(s, f).at = scan[s].at
         /\ Without(s, f).todo = scan[s].todo /\ Without(s, f).notes = scan[s].notes
         /\ Without(s, f).fixes = scan[s].fixes \ {f} /\ Without(s, f).quiet = scan[s].quiet
         /\ Without(s, f).outside = scan[s].outside /\ Without(s, f).moved = scan[s].moved
         /\ [Without(s, f) EXCEPT !.quiet = FALSE] \in Scan
BY ScanTyped DEF Without, Scan

LEMMA DropsFixDoes ==
  ASSUME Typed, NEW s \in Scans, DropsFix(s)
  PROVE  /\ Alone(s) /\ counter' = counter /\ scan[s].at = "fix"
         /\ scan'[s].quiet = scan[s].quiet
         /\ \E f \in scan[s].fixes : ~Conflict(f) /\ Takes(s, f)
<1>1. PICK f \in scan[s].fixes : ~Conflict(f) /\ ScanStep(s, Without(s, f))
  BY DEF DropsFix, Due
<1>2. Alone(s) /\ scan'[s] = Without(s, f) /\ counter' = counter
  BY <1>1, WithoutTyped, StepAlone
<1>3. scan[s].at = "fix"
  BY DEF DropsFix
<1>4. Takes(s, f) /\ scan'[s].quiet = scan[s].quiet
  <2>1. Without(s, f).at = "fix"
        /\ Without(s, f).todo = scan[s].todo /\ Without(s, f).notes = scan[s].notes
        /\ Without(s, f).fixes = scan[s].fixes \ {f} /\ Without(s, f).quiet = scan[s].quiet
        /\ Without(s, f).outside = scan[s].outside /\ Without(s, f).moved = scan[s].moved
    BY <1>3, WithoutTyped
  <2> QED BY <1>2, <2>1 DEF Takes
<1> QED BY <1>1, <1>2, <1>3, <1>4

LEMMA SkipsFixDoes ==
  ASSUME Typed, NEW s \in Scans, SkipsFix(s)
  PROVE  /\ Alone(s) /\ counter' = counter /\ scan[s].at = "fix" /\ ~scan'[s].quiet
         /\ \E f \in scan[s].fixes : Takes(s, f)
<1>1. PICK f \in scan[s].fixes :
        scan' = [scan EXCEPT ![s] = [Without(s, f) EXCEPT !.quiet = FALSE]]
  BY DEF SkipsFix, Due
<1>2. Budgets'
  <2>1. /\ skips > 0 /\ skips' = skips - 1
        /\ scans' = scans /\ ops' = ops /\ edits' = edits
    BY DEF SkipsFix
  <2> QED BY <2>1, DiskTyped DEF Budgets
<1>3. Alone(s) /\ scan'[s] = [Without(s, f) EXCEPT !.quiet = FALSE]
  BY <1>1, <1>2, WithoutTyped, ScanAlone DEF SkipsFix
<1>4. scan[s].at = "fix" /\ counter' = counter
  BY DEF SkipsFix
<1> QED BY <1>3, <1>4, WithoutTyped DEF Takes, Scan

LEMMA ScanGoesIdle ==
  ASSUME Typed, NEW s \in Scans, ScanEnds(s) \/ ScanStops(s)
  PROVE  Alone(s) /\ counter' = counter /\ scan'[s] = Idle
BY IdleTyped, StepAlone DEF ScanEnds, ScanStops

\* Somebody else wrote while r was at work.
Beside(r, outside, moved) ==
  /\ scan'[r].at = scan[r].at /\ scan'[r].todo = scan[r].todo
  /\ scan'[r].notes = scan[r].notes /\ scan'[r].fixes = scan[r].fixes
  /\ scan[r].at # "idle" =>
       /\ ~scan'[r].quiet
       /\ scan'[r].outside = scan[r].outside \cup outside
       /\ scan'[r].moved = scan[r].moved \cup moved

LEMMA DisturbedTyped ==
  ASSUME Typed, NEW r \in Scans, NEW outside \in SUBSET Path, NEW moved \in SUBSET Path,
         scan'[r] = Disturbed(scan[r], outside, moved)
  PROVE  scan'[r] \in Scan /\ Beside(r, outside, moved)
<1>1. CASE scan[r].at = "idle"
  BY <1>1, ScanTyped DEF Disturbed, Beside
<1>2. CASE scan[r].at # "idle"
  <2>1. scan'[r] = [scan[r] EXCEPT !.quiet = FALSE, !.outside = scan[r].outside \cup outside,
                                   !.moved = scan[r].moved \cup moved]
    BY <1>2 DEF Disturbed
  <2>2. scan'[r] \in Scan
    <3>1. scan[r].outside \cup outside \in SUBSET Path /\ scan[r].moved \cup moved \in SUBSET Path
      BY ScanTyped
    <3> QED BY <2>1, <3>1, ScanTyped DEF Scan
  <2>3. Beside(r, outside, moved)
    BY <2>1, ScanTyped DEF Beside, Scan
  <2> QED BY <2>2, <2>3
<1> QED BY <1>1, <1>2

\* Fix f of scan s makes the note at its path n.
Fixes(s, f, n) ==
  /\ scan[s].at = "fix" /\ f \in scan[s].fixes
  /\ f.kind = "adopt" => \A g \in scan[s].fixes : g.kind = "adopt"
  /\ n \in Note /\ disk' = [disk EXCEPT ![f.path] = n] /\ disk' \in [Path -> Note]
  /\ \A p \in Path : disk'[p] = IF p = f.path THEN n ELSE disk[p]
  /\ scan' \in [Scans -> Scan] /\ Takes(s, f) /\ scan'[s].quiet = scan[s].quiet
  /\ \A r \in Scans \ {s} : Beside(r, {}, {})
  /\ issued' \in Nat /\ counter' \in Nat /\ issued' >= issued /\ counter' >= counter
  /\ clean' = clean /\ Budgets'

LEMMA AppliesDoes ==
  ASSUME Typed, NEW s \in Scans, NEW kind \in {"uuid", "id", "adopt"},
         NEW f \in Due(scan[s].fixes, kind), NEW n \in Note,
         NEW newIssued \in Nat, NEW newCounter \in Nat,
         newIssued >= issued, newCounter >= counter,
         scan[s].at = "fix", Applies(s, f, n, newIssued, newCounter)
  PROVE  Fixes(s, f, n) /\ f.kind = kind /\ issued' = newIssued /\ counter' = newCounter
<1>1. /\ f \in scan[s].fixes /\ f.kind = kind
      /\ f.kind = "adopt" => \A g \in scan[s].fixes : g.kind = "adopt"
  BY DEF Due
<1>2. f.path \in Path
  BY <1>1, ScanTyped
<1>3. /\ disk' = [disk EXCEPT ![f.path] = n] /\ disk' \in [Path -> Note]
      /\ \A p \in Path : disk'[p] = IF p = f.path THEN n ELSE disk[p]
  BY <1>2, DiskTyped DEF Applies
<1>4. scan' = [r \in Scans |-> IF r = s THEN Without(s, f) ELSE Disturbed(scan[r], {}, {})]
  BY DEF Applies
<1>5. scan'[s] = Without(s, f) /\ scan'[s] \in Scan
  BY <1>4, WithoutTyped
<1>6. Takes(s, f) /\ scan'[s].quiet = scan[s].quiet
  <2>1. Without(s, f).at = "fix"
        /\ Without(s, f).todo = scan[s].todo /\ Without(s, f).notes = scan[s].notes
        /\ Without(s, f).fixes = scan[s].fixes \ {f} /\ Without(s, f).quiet = scan[s].quiet
        /\ Without(s, f).outside = scan[s].outside /\ Without(s, f).moved = scan[s].moved
    BY WithoutTyped
  <2> QED BY <1>5, <2>1 DEF Takes
<1>7. \A r \in Scans \ {s} : scan'[r] \in Scan /\ Beside(r, {}, {})
  BY <1>4, DisturbedTyped
<1>8. scan' \in [Scans -> Scan]
  BY <1>4, <1>5, <1>7
<1>9. Budgets' /\ clean' = clean /\ issued' = newIssued /\ counter' = newCounter
  BY DiskTyped DEF Applies, Budgets
<1> QED BY <1>1, <1>3, <1>6, <1>7, <1>8, <1>9 DEF Fixes

LEMMA ReassignsUuidDoes ==
  ASSUME Typed, NEW s \in Scans, ReassignsUuid(s)
  PROVE  \E f, n :
           /\ Fixes(s, f, n) /\ f.kind = "uuid" /\ Conflict(f)
           /\ n.body /\ n.fm \in {0, issued + 1} /\ n.uuid = issued + 1 /\ n.id = counter + 1
           /\ issued' = issued + 1 /\ counter' = counter + 1
<1>1. PICK f \in Due(scan[s].fixes, "uuid") :
        /\ Conflict(f)
        /\ Applies(s, f,
             [body |-> TRUE, fm |-> IF disk[f.path].fm = 0 THEN 0 ELSE issued + 1,
              uuid |-> issued + 1, id |-> counter + 1],
             issued + 1, counter + 1)
  BY DEF ReassignsUuid
<1> DEFINE n == [body |-> TRUE, fm |-> IF disk[f.path].fm = 0 THEN 0 ELSE issued + 1,
                 uuid |-> issued + 1, id |-> counter + 1]
<1>2. n \in Note /\ n.body /\ n.fm \in {0, issued + 1} /\ n.uuid = issued + 1 /\ n.id = counter + 1
  BY DiskTyped DEF Note
<1> HIDE DEF n
<1>3. scan[s].at = "fix" /\ Applies(s, f, n, issued + 1, counter + 1)
  BY <1>1 DEF ReassignsUuid, n
<1>4. Fixes(s, f, n) /\ f.kind = "uuid" /\ issued' = issued + 1 /\ counter' = counter + 1
  BY <1>2, <1>3, DiskTyped, AppliesDoes
<1> QED BY <1>1, <1>2, <1>4

LEMMA ReassignsIdDoes ==
  ASSUME Typed, NEW s \in Scans, ReassignsId(s)
  PROVE  \E f, n :
           /\ Fixes(s, f, n) /\ f.kind = "id" /\ Conflict(f)
           /\ n.body = disk[f.path].body /\ n.fm = disk[f.path].fm
           /\ n.uuid = disk[f.path].uuid /\ n.id = counter + 1
           /\ issued' = issued /\ counter' = counter + 1
<1>1. PICK f \in Due(scan[s].fixes, "id") :
        /\ Conflict(f)
        /\ Applies(s, f, [disk[f.path] EXCEPT !.id = counter + 1], issued, counter + 1)
  BY DEF ReassignsId
<1> DEFINE n == [disk[f.path] EXCEPT !.id = counter + 1]
<1>2. f.path \in Path
  BY ScanTyped DEF Due
<1>3. /\ n \in Note /\ n.body = disk[f.path].body /\ n.fm = disk[f.path].fm
      /\ n.uuid = disk[f.path].uuid /\ n.id = counter + 1
  BY <1>2, DiskTyped DEF Note
<1> HIDE DEF n
<1>4. scan[s].at = "fix" /\ Applies(s, f, n, issued, counter + 1)
  BY <1>1 DEF ReassignsId, n
<1>5. Fixes(s, f, n) /\ f.kind = "id" /\ issued' = issued /\ counter' = counter + 1
  BY <1>3, <1>4, DiskTyped, AppliesDoes
<1> QED BY <1>1, <1>3, <1>5

LEMMA AdoptsDoes ==
  ASSUME Typed, NEW s \in Scans, Adopts(s)
  PROVE  \E f, n :
           /\ Fixes(s, f, n) /\ f.kind = "adopt" /\ Conflict(f)
           /\ n.body = disk[f.path].body /\ n.fm = disk[f.path].fm
           /\ disk[f.path].uuid # 0 => n.uuid = disk[f.path].uuid
           /\ disk[f.path].uuid = 0 =>
                n.uuid = IF f.uuid # 0 THEN f.uuid ELSE issued + 1
           /\ n.uuid # 0 /\ n.uuid <= issued'
           /\ n.id # 0 /\ n.id \in {f.id, disk[f.path].id, counter + 1}
           /\ f.id # 0 => n.id = f.id
           /\ f.id = 0 /\ disk[f.path].id # 0 => n.id = disk[f.path].id
           /\ n.id = counter + 1 /\ f.id = 0 /\ disk[f.path].id = 0 => counter' = counter + 1
           /\ issued' >= issued
<1> DEFINE Uuid(f) == IF disk[f.path].uuid = 0 /\ f.uuid = 0 THEN issued + 1
                      ELSE IF disk[f.path].uuid # 0 THEN disk[f.path].uuid ELSE f.uuid
           Id(f) == IF f.id = 0 /\ disk[f.path].id = 0 THEN counter + 1
                    ELSE IF f.id # 0 THEN f.id ELSE disk[f.path].id
           Issued(f) == IF disk[f.path].uuid = 0 /\ f.uuid = 0 THEN issued + 1 ELSE issued
           Counter(f) == IF f.id = 0 /\ disk[f.path].id = 0 THEN counter + 1 ELSE counter
<1>1. PICK f \in Due(scan[s].fixes, "adopt") :
        /\ Conflict(f)
        /\ Applies(s, f, [disk[f.path] EXCEPT !.uuid = Uuid(f), !.id = Id(f)], Issued(f), Counter(f))
  BY DEF Adopts
<1>2. f \in scan[s].fixes /\ f.path \in Path /\ f.uuid \in Nat /\ f.id \in Nat
  BY ScanTyped DEF Due
<1>3. disk[f.path] \in Note /\ disk[f.path].uuid \in Nat /\ disk[f.path].id \in Nat
      /\ disk[f.path].uuid <= issued /\ f.uuid <= issued /\ issued \in Nat /\ counter \in Nat
  BY <1>2, DiskTyped, NoteTyped DEF Typed, ReadIssued
<1>4. /\ Uuid(f) \in Nat /\ Id(f) \in Nat /\ Issued(f) \in Nat /\ Counter(f) \in Nat
      /\ Issued(f) >= issued /\ Counter(f) >= counter
      /\ Uuid(f) # 0 /\ Uuid(f) <= Issued(f) /\ Id(f) # 0
  BY <1>2, <1>3
<1> DEFINE n == [disk[f.path] EXCEPT !.uuid = Uuid(f), !.id = Id(f)]
<1>5. n \in Note /\ n.body = disk[f.path].body /\ n.fm = disk[f.path].fm
      /\ n.uuid = Uuid(f) /\ n.id = Id(f)
  <2> HIDE DEF Uuid, Id
  <2> QED BY <1>3, <1>4 DEF Note
<1>6. Applies(s, f, n, Issued(f), Counter(f)) /\ scan[s].at = "fix"
  BY <1>1 DEF Adopts
<1>7. Fixes(s, f, n) /\ f.kind = "adopt" /\ issued' = Issued(f) /\ counter' = Counter(f)
  <2> HIDE DEF n, Issued, Counter, Uuid, Id
  <2> QED BY <1>4, <1>5, <1>6, AppliesDoes
<1> HIDE DEF n
<1> QED BY <1>1, <1>2, <1>3, <1>4, <1>5, <1>7

\* The apps write the notes at paths.
Operates(paths) ==
  /\ paths \in SUBSET Path /\ disk' \in [Path -> Note]
  /\ \A p \in Path \ paths : disk'[p] = disk[p]
  /\ scan' \in [Scans -> Scan] /\ \A r \in Scans : Beside(r, {}, paths)
  /\ clean' = clean /\ Budgets'

LEMMA OperationDoes ==
  ASSUME Typed, NEW paths \in SUBSET Path, NEW notes \in [Path -> Note],
         \A p \in Path \ paths : notes[p] = disk[p], Operation(paths, notes)
  PROVE  Operates(paths) /\ disk' = notes
<1>1. scan' = [r \in Scans |-> Disturbed(scan[r], {}, paths)]
  BY DEF Operation
<1>2. \A r \in Scans : scan'[r] \in Scan /\ Beside(r, {}, paths)
  BY <1>1, DisturbedTyped
<1>3. scan' \in [Scans -> Scan]
  BY <1>1, <1>2
<1>4. Budgets' /\ clean' = clean /\ disk' = notes
  BY DiskTyped DEF Operation, Budgets
<1> QED BY <1>2, <1>3, <1>4 DEF Operates

LEMMA CreateDoes ==
  ASSUME Typed, Create
  PROVE  /\ \E p \in Path :
              /\ Operates({p}) /\ disk[p] = Nothing
              /\ disk'[p].body /\ disk'[p].fm = issued + 1
              /\ disk'[p].uuid = issued + 1 /\ disk'[p].id = counter + 1
         /\ issued' = issued + 1 /\ counter' = counter + 1
<1> DEFINE p == Live(issued + 1)
           n == [body |-> TRUE, fm |-> issued + 1, uuid |-> issued + 1, id |-> counter + 1]
<1>1. p \in Path /\ disk[p] = Nothing /\ issued' = issued + 1 /\ counter' = counter + 1
      /\ Operation({p}, [disk EXCEPT ![p] = n])
  BY DEF Create, Live, Path, Places
<1>2. n \in Note /\ n.body /\ n.fm = issued + 1 /\ n.uuid = issued + 1 /\ n.id = counter + 1
  BY DiskTyped DEF Note
<1> HIDE DEF p, n
<1>3. /\ [disk EXCEPT ![p] = n] \in [Path -> Note]
      /\ \A q \in Path \ {p} : [disk EXCEPT ![p] = n][q] = disk[q]
      /\ [disk EXCEPT ![p] = n][p] = n
  BY <1>1, <1>2, DiskTyped
<1>4. Operates({p}) /\ disk' = [disk EXCEPT ![p] = n]
  BY <1>1, <1>3, OperationDoes
<1>5. disk'[p] = n
  BY <1>3, <1>4
<1>6. /\ Operates({p}) /\ disk[p] = Nothing /\ disk'[p].body /\ disk'[p].fm = issued + 1
      /\ disk'[p].uuid = issued + 1 /\ disk'[p].id = counter + 1
  BY <1>1, <1>2, <1>4, <1>5
<1> QED BY <1>1, <1>6, Zenon

\* A note is moved; what was at its new path is lost.
Moved(from, to) ==
  /\ from \in Path /\ to \in Path /\ from # to
  /\ Served(disk[from]) /\ disk'[to] = disk[from] /\ disk'[from] = Nothing
  /\ Operates({from, to}) /\ counter' = counter /\ issued' = issued

LEMMA MovesDoes ==
  ASSUME Typed, NEW stem \in Stems,
         Delete(stem) \/ Restore(stem) \/ CreateAgain(stem)
  PROVE  \E from, to : Moved(from, to)
<1>1. Live(stem) \in Path /\ Trashed(stem) \in Path /\ Live(stem) # Trashed(stem)
  BY DEF Live, Trashed, Path, Places
<1>2. PICK from \in Path, to \in Path : from # to /\ Moves(from, to)
  BY <1>1 DEF Delete, Restore, CreateAgain
<1> DEFINE notes == [disk EXCEPT ![to] = disk[from], ![from] = Nothing]
<1>3. Served(disk[from]) /\ Operation({from, to}, notes) /\ counter' = counter /\ issued' = issued
  BY <1>2 DEF Moves
<1>4. /\ notes \in [Path -> Note]
      /\ \A q \in Path \ {from, to} : notes[q] = disk[q]
      /\ notes[to] = disk[from] /\ notes[from] = Nothing
  BY <1>2, DiskTyped, NothingTyped
<1> HIDE DEF notes
<1>5. Operates({from, to}) /\ disk' = notes
  BY <1>3, <1>4, OperationDoes
<1>6. disk'[to] = disk[from] /\ disk'[from] = Nothing
  BY <1>4, <1>5, Zenon
<1>7. Moved(from, to)
  BY <1>2, <1>3, <1>5, <1>6 DEF Moved
<1> QED BY <1>7, Zenon

LEMMA PurgeDoes ==
  ASSUME Typed, NEW stem \in Stems, Purge(stem)
  PROVE  /\ \E p \in Path : Operates({p}) /\ disk'[p] = Nothing
         /\ issued' = issued /\ counter' = counter
<1> DEFINE p == Trashed(stem)
<1>1. p \in Path /\ Operation({p}, [disk EXCEPT ![p] = Nothing])
      /\ issued' = issued /\ counter' = counter
  BY DEF Purge, Trashed, Path, Places
<1> HIDE DEF p
<1>2. /\ [disk EXCEPT ![p] = Nothing] \in [Path -> Note]
      /\ \A q \in Path \ {p} : [disk EXCEPT ![p] = Nothing][q] = disk[q]
      /\ [disk EXCEPT ![p] = Nothing][p] = Nothing
  BY <1>1, DiskTyped, NothingTyped
<1>3. Operates({p}) /\ disk' = [disk EXCEPT ![p] = Nothing]
  BY <1>1, <1>2, OperationDoes
<1> QED BY <1>1, <1>2, <1>3

LEMMA EditDoes ==
  ASSUME Typed, NEW p \in Path, Edit(p)
  PROVE  /\ disk' \in [Path -> Note] /\ \A q \in Path \ {p} : disk'[q] = disk[q]
         /\ disk'[p].body \/ disk'[p].fm = 0
         /\ disk'[p].fm <= issued /\ disk'[p].uuid <= issued
         /\ scan' \in [Scans -> Scan] /\ \A r \in Scans : Beside(r, {p}, {})
         /\ ~clean' /\ clean' \in BOOLEAN /\ Budgets' /\ issued' = issued /\ counter' = counter
<1>1. PICK source \in {disk[q] : q \in Path} \cup {Nothing, Handwritten},
           parts \in (SUBSET Parts) \ {{}} :
        disk' = [disk EXCEPT ![p] = Overlay(disk[p], source, parts)]
  BY DEF Edit
<1>2. source \in Note /\ (source.body \/ source.fm = 0) /\ source.fm <= issued /\ source.uuid <= issued
  BY DiskTyped, NothingTyped
<1>3. disk[p] \in Note /\ (disk[p].body \/ disk[p].fm = 0) /\ disk[p].fm <= issued /\ disk[p].uuid <= issued
  BY DiskTyped
<1> DEFINE n == Overlay(disk[p], source, parts)
<1>4. n \in Note /\ (n.body \/ n.fm = 0) /\ n.fm <= issued /\ n.uuid <= issued
  <2>1. n \in Note
    BY <1>2, <1>3, OverlayTyped
  <2> QED BY <1>2, <1>3, <2>1 DEF Overlay
<1> HIDE DEF n
<1>5. disk' \in [Path -> Note] /\ disk'[p] = n /\ \A q \in Path \ {p} : disk'[q] = disk[q]
  BY <1>1, <1>4, DiskTyped DEF n
<1>6. scan' = [r \in Scans |-> Disturbed(scan[r], {p}, {})]
  BY DEF Edit
<1>7. \A r \in Scans : scan'[r] \in Scan /\ Beside(r, {p}, {})
  BY <1>6, DisturbedTyped
<1>8. Budgets' /\ ~clean' /\ clean' \in BOOLEAN /\ issued' = issued /\ counter' = counter
  <2>1. /\ edits > 0 /\ edits' = edits - 1 /\ clean' = FALSE
        /\ scans' = scans /\ ops' = ops /\ skips' = skips
        /\ issued' = issued /\ counter' = counter
    BY DEF Edit
  <2>2. Budgets'
    BY <2>1, DiskTyped DEF Budgets
  <2> QED BY <2>1, <2>2
<1> QED BY <1>4, <1>5, <1>6, <1>7, <1>8

-----------------------------------------------------------------------------
(* Types. *)

LEMMA InitTyped == Init => Typed
<1> SUFFICES ASSUME Init PROVE Typed
  OBVIOUS
<1>1. PICK f \in Starts :
        /\ disk = f.notes /\ counter = f.counter /\ issued = f.issued
        /\ scans = f.scans /\ ops = f.ops /\ edits = f.edits /\ skips = f.skips
        /\ clean = (Settled(f.notes) /\ Paired(f.notes) /\ IdsCovered(f.notes, f.counter))
  BY DEF Init
<1>2. clean \in BOOLEAN
  BY <1>1
<1>3. scan \in [Scans -> Scan]
  BY IdleTyped DEF Init
<1>4. disk \in Folder /\ counter \in Nat /\ issued \in Nat /\ {scans, ops, edits, skips} \subseteq Nat
      /\ \A p \in Path : disk[p].fm <= issued /\ disk[p].uuid <= issued
  BY <1>1, Parameters
<1>5. ReadIssued
  <2>1. \A s \in Scans : scan[s] = Idle
    BY DEF Init
  <2> QED BY <1>4, <2>1, IdleTyped, NothingTyped DEF ReadIssued
<1> QED BY <1>2, <1>3, <1>4, <1>5 DEF Typed, TypeOK

\* Nothing but what s has read and planned changes.
LEMMA AloneTyped ==
  ASSUME Typed, NEW s \in Scans, Alone(s), counter' \in Nat,
         \A p \in Path : scan'[s].notes[p].fm <= issued /\ scan'[s].notes[p].uuid <= issued,
         \A f \in scan'[s].fixes : f.uuid <= issued
  PROVE  Typed'
<1>1. ReadIssued'
  BY DEF ReadIssued, Alone, Typed
<1>2. TypeOK'
  BY DEF TypeOK, Alone, Typed, Budgets
<1> QED BY <1>1, <1>2 DEF Typed

LEMMA BesideTyped ==
  ASSUME Typed, disk' \in [Path -> Note], counter' \in Nat, issued' \in Nat, issued' >= issued,
         \A p \in Path : (disk'[p].body \/ disk'[p].fm = 0)
                           /\ disk'[p].fm <= issued' /\ disk'[p].uuid <= issued',
         scan' \in [Scans -> Scan], clean' \in BOOLEAN, Budgets',
         \A r \in Scans : scan'[r].notes = scan[r].notes /\ scan'[r].fixes \subseteq scan[r].fixes
  PROVE  Typed'
<1>1. ReadIssued'
  <2>1. ASSUME NEW r \in Scans, NEW p \in Path
        PROVE  scan'[r].notes[p].fm <= issued' /\ scan'[r].notes[p].uuid <= issued'
    <3>1. scan[r].notes[p].fm <= issued /\ scan[r].notes[p].uuid <= issued
          /\ scan[r].notes[p].fm \in Nat /\ scan[r].notes[p].uuid \in Nat
      BY ScanTyped, NoteTyped DEF Typed, ReadIssued
    <3> QED BY <3>1, DiskTyped
  <2>2. ASSUME NEW r \in Scans, NEW f \in scan'[r].fixes
        PROVE  f.uuid <= issued'
    <3>1. f.uuid <= issued /\ f.uuid \in Nat
      BY ScanTyped DEF Typed, ReadIssued
    <3> QED BY <3>1, DiskTyped
  <2> QED BY <2>1, <2>2 DEF ReadIssued
<1>2. disk' \in Folder
  BY DEF Folder
<1> QED BY <1>1, <1>2 DEF Typed, TypeOK, Budgets

LEMMA ReadingTyped ==
  ASSUME Typed, NEW s \in Scans,
         \/ ScanStarts(s) \/ \E place \in Places : ScanLists(s, place)
         \/ ScanVisits(s) \/ SkipsVisit(s) \/ ScanVisited(s)
         \/ ScanRechecks(s) \/ SkipsRecheck(s)
  PROVE  Typed'
<1>1. /\ \A p \in Path : scan[s].notes[p].fm <= issued /\ scan[s].notes[p].uuid <= issued
      /\ \A f \in scan[s].fixes : f.uuid <= issued
      /\ 0 <= issued /\ \A p \in Path : disk[p].fm <= issued /\ disk[p].uuid <= issued
      /\ counter \in Nat
  BY DiskTyped DEF Typed, ReadIssued
<1>2. CASE ScanStarts(s)
  <2>1. Alone(s) /\ counter' = counter /\ scan'[s].notes = Idle.notes /\ scan'[s].fixes = {}
    BY <1>2, ScanStartsDoes
  <2>2. \A p \in Path : scan'[s].notes[p].fm <= issued /\ scan'[s].notes[p].uuid <= issued
    BY <1>1, <2>1, IdleTyped, NothingTyped
  <2> QED BY <1>1, <2>1, <2>2, AloneTyped
<1>3. CASE \E place \in Places : ScanLists(s, place)
  BY <1>1, <1>3, ScanListsDoes, AloneTyped DEF Reads
<1>4. CASE ScanVisits(s)
  <2>1. PICK p \in Path, part \in Parts :
          Reads(s, scan[s].at, scan[s].todo \ {<<p, part>>},
                [scan[s].notes EXCEPT ![p] = Overlay(scan[s].notes[p], disk[p], {part})])
    BY <1>4, ScanVisitsDoes
  <2> DEFINE n == Overlay(scan[s].notes[p], disk[p], {part})
  <2>2. n.fm \in {scan[s].notes[p].fm, disk[p].fm} /\ n.uuid \in {scan[s].notes[p].uuid, disk[p].uuid}
    <3>1. scan[s].notes[p] \in Note /\ disk[p] \in Note
      BY ScanTyped, DiskTyped
    <3> QED BY <3>1 DEF Overlay
  <2> HIDE DEF n
  <2>3. scan'[s].notes = [scan[s].notes EXCEPT ![p] = n] /\ scan'[s].fixes = scan[s].fixes
    BY <2>1 DEF Reads, n
  <2>4. \A q \in Path : scan'[s].notes[q].fm <= issued /\ scan'[s].notes[q].uuid <= issued
    BY <1>1, <2>2, <2>3, ScanTyped
  <2> QED BY <1>1, <1>4, <2>3, <2>4, ScanVisitsDoes, AloneTyped
<1>5. CASE SkipsVisit(s)
  BY <1>1, <1>5, SkipsVisitDoes, AloneTyped DEF Reads
<1>6. CASE ScanVisited(s)
  BY <1>1, <1>6, ScanVisitedDoes, AloneTyped DEF Reads
<1>7. CASE ScanRechecks(s) \/ SkipsRecheck(s)
  <2>1. PICK dropped : Reads(s, "raise", scan[s].todo, Rechecked(scan[s].notes, dropped))
    BY <1>7, ScanRechecksDoes, SkipsRecheckDoes
  <2>2. ASSUME NEW p \in Path
        PROVE  scan'[s].notes[p].fm <= issued /\ scan'[s].notes[p].uuid <= issued
    <3>1. scan'[s].notes = Rechecked(scan[s].notes, dropped)
      BY <2>1 DEF Reads
    <3>2. CASE scan'[s].notes[p] = scan[s].notes[p]
      BY <1>1, <3>2
    <3>3. ASSUME NEW parts, scan'[s].notes[p] = Overlay(disk[p], Nothing, parts)
          PROVE  scan'[s].notes[p].fm <= issued /\ scan'[s].notes[p].uuid <= issued
      <4>1. /\ Overlay(disk[p], Nothing, parts).fm = IF "body" \in parts THEN 0 ELSE disk[p].fm
            /\ Overlay(disk[p], Nothing, parts).uuid = IF "sidecar" \in parts THEN 0 ELSE disk[p].uuid
        BY NothingTyped DEF Overlay
      <4> QED BY <1>1, <3>3, <4>1
    <3> QED BY <3>1, <3>2, <3>3, RecheckedTyped
  <2>3. scan'[s].fixes = scan[s].fixes /\ counter' = counter /\ Alone(s)
    BY <1>7, <2>1, ScanRechecksDoes, SkipsRecheckDoes DEF Reads
  <2> QED BY <1>1, <2>2, <2>3, AloneTyped
<1> QED BY <1>2, <1>3, <1>4, <1>5, <1>6, <1>7

LEMMA PlanningTyped ==
  ASSUME Typed, NEW s \in Scans, RaisesCounter(s) \/ SkipsCounter(s)
  PROVE  Typed'
<1>1. Alone(s) /\ counter' \in Nat /\ scan'[s].notes = Idle.notes
      /\ scan'[s].fixes = Plan(scan[s].notes)
  BY RaisesCounterDoes, SkipsCounterDoes, PlannedTyped, DiskTyped DEF Scan
<1>2. ASSUME NEW f \in Plan(scan[s].notes) PROVE f.uuid <= issued
  <2>1. f.path \in Path
    BY ScanTyped, PlanMade DEF Notes
  <2>2. f.uuid \in {0, scan[s].notes[f.path].uuid, scan[s].notes[f.path].fm}
    <3>1. f \in Fix
      BY ScanTyped, PlanMade
    <3>2. f.uuid = 0 \/ f.uuid = Claim(scan[s].notes[f.path])
      BY <3>1, ScanTyped, PlanMade DEF Fix
    <3> QED BY <2>1, <3>2 DEF Claim
  <2>3. scan[s].notes[f.path].uuid <= issued /\ scan[s].notes[f.path].fm <= issued /\ 0 <= issued
    BY <2>1, DiskTyped DEF Typed, ReadIssued
  <2> QED BY <2>2, <2>3
<1>3. \A p \in Path : scan'[s].notes[p].fm <= issued /\ scan'[s].notes[p].uuid <= issued
  BY <1>1, IdleTyped, NothingTyped, DiskTyped
<1> QED BY <1>1, <1>2, <1>3, AloneTyped

LEMMA FixingTyped ==
  ASSUME Typed, NEW s \in Scans,
         ReassignsUuid(s) \/ ReassignsId(s) \/ Adopts(s)
  PROVE  Typed'
<1>1. PICK f, n : /\ Fixes(s, f, n) /\ n.fm <= issued' /\ n.uuid <= issued' /\ (n.body \/ n.fm = 0)
  <2>1. CASE ReassignsUuid(s)
    BY <2>1, ReassignsUuidDoes, DiskTyped
  <2>2. CASE ReassignsId(s)
    <3>1. PICK f, n : Fixes(s, f, n) /\ n.body = disk[f.path].body /\ n.fm = disk[f.path].fm
                      /\ n.uuid = disk[f.path].uuid /\ issued' = issued
      BY <2>2, ReassignsIdDoes
    <3>2. f.path \in Path
      BY <3>1, ScanTyped DEF Fixes
    <3> QED BY <3>1, <3>2, DiskTyped
  <2>3. CASE Adopts(s)
    <3>1. PICK f, n : Fixes(s, f, n) /\ n.body = disk[f.path].body /\ n.fm = disk[f.path].fm
                      /\ n.uuid <= issued' /\ issued' >= issued
      BY <2>3, AdoptsDoes
    <3>2. f.path \in Path /\ issued' \in Nat
      BY <3>1, ScanTyped DEF Fixes
    <3>3. disk[f.path].fm \in Nat
      BY <3>2, DiskTyped, NoteTyped
    <3> QED BY <3>1, <3>2, <3>3, DiskTyped
  <2> QED BY <2>1, <2>2, <2>3
<1>2. ASSUME NEW p \in Path
      PROVE  /\ disk'[p].body \/ disk'[p].fm = 0
             /\ disk'[p].fm <= issued' /\ disk'[p].uuid <= issued'
  <2>1. CASE p = f.path
    BY <1>1, <2>1 DEF Fixes
  <2>2. CASE p # f.path
    <3>1. disk'[p] = disk[p] /\ issued' >= issued /\ issued' \in Nat
      BY <1>1, <2>2 DEF Fixes
    <3>2. disk[p].fm \in Nat /\ disk[p].uuid \in Nat
      BY DiskTyped, NoteTyped
    <3> QED BY <3>1, <3>2, DiskTyped
  <2> QED BY <2>1, <2>2
<1>3. \A r \in Scans : scan'[r].notes = scan[r].notes /\ scan'[r].fixes \subseteq scan[r].fixes
  BY <1>1 DEF Fixes, Takes, Beside
<1>4. clean' \in BOOLEAN
  BY <1>1 DEF Fixes, Typed, TypeOK
<1> QED BY <1>1, <1>2, <1>3, <1>4, BesideTyped DEF Fixes

LEMMA EndingTyped ==
  ASSUME Typed, NEW s \in Scans,
         DropsFix(s) \/ SkipsFix(s) \/ ScanEnds(s) \/ ScanStops(s)
  PROVE  Typed'
<1>1. CASE DropsFix(s) \/ SkipsFix(s)
  <2>1. PICK f : Takes(s, f) /\ Alone(s) /\ counter' = counter
    BY <1>1, DropsFixDoes, SkipsFixDoes
  <2> QED BY <2>1, AloneTyped, DiskTyped DEF Takes, Typed, ReadIssued
<1>2. CASE ScanEnds(s) \/ ScanStops(s)
  BY <1>2, ScanGoesIdle, AloneTyped, DiskTyped, IdleTyped, NothingTyped
<1> QED BY <1>1, <1>2

\* Operations write notes whose UUIDs were issued.
LEMMA OperatesTyped ==
  ASSUME Typed, NEW paths, Operates(paths), counter' \in Nat, issued' \in Nat, issued' >= issued,
         \A p \in paths : /\ disk'[p].body \/ disk'[p].fm = 0
                          /\ disk'[p].fm <= issued' /\ disk'[p].uuid <= issued'
  PROVE  Typed'
<1>1. ASSUME NEW p \in Path
      PROVE  /\ disk'[p].body \/ disk'[p].fm = 0
             /\ disk'[p].fm <= issued' /\ disk'[p].uuid <= issued'
  <2>1. CASE p \in paths
    BY <2>1
  <2>2. CASE p \notin paths
    <3>1. disk'[p] = disk[p] /\ disk[p].fm \in Nat /\ disk[p].uuid \in Nat
      BY <2>2, DiskTyped, NoteTyped DEF Operates
    <3> QED BY <3>1, DiskTyped
  <2> QED BY <2>1, <2>2
<1>2. \A r \in Scans : scan'[r].notes = scan[r].notes /\ scan'[r].fixes \subseteq scan[r].fixes
  BY DEF Operates, Beside
<1>3. clean' \in BOOLEAN
  BY DEF Operates, Typed, TypeOK
<1> QED BY <1>1, <1>2, <1>3, BesideTyped DEF Operates

LEMMA AppsTyped ==
  ASSUME Typed,
         \/ Create
         \/ \E stem \in Stems : Delete(stem) \/ Restore(stem) \/ CreateAgain(stem) \/ Purge(stem)
  PROVE  Typed'
<1>1. CASE Create
  <2>1. PICK p \in Path : /\ Operates({p}) /\ disk'[p].body
                          /\ disk'[p].fm = issued + 1 /\ disk'[p].uuid = issued + 1
    BY <1>1, CreateDoes
  <2>2. issued' = issued + 1 /\ counter' = counter + 1
    BY <1>1, CreateDoes
  <2> QED BY <2>1, <2>2, DiskTyped, OperatesTyped
<1>2. ASSUME NEW stem \in Stems, Delete(stem) \/ Restore(stem) \/ CreateAgain(stem)
      PROVE  Typed'
  <2>1. PICK from, to : Moved(from, to)
    BY <1>2, MovesDoes
  <2> QED BY <2>1, DiskTyped, NothingTyped, OperatesTyped DEF Moved
<1>3. ASSUME NEW stem \in Stems, Purge(stem)
      PROVE  Typed'
  <2>1. PICK p \in Path : Operates({p}) /\ disk'[p] = Nothing
    BY <1>3, PurgeDoes
  <2>2. issued' = issued /\ counter' = counter
    BY <1>3, PurgeDoes
  <2> QED BY <2>1, <2>2, DiskTyped, NothingTyped, OperatesTyped
<1> QED BY <1>1, <1>2, <1>3

LEMMA EditTyped ==
  ASSUME Typed, NEW p \in Path, Edit(p)
  PROVE  Typed'
<1>1. \A q \in Path : /\ disk'[q].body \/ disk'[q].fm = 0
                      /\ disk'[q].fm <= issued' /\ disk'[q].uuid <= issued'
  BY EditDoes, DiskTyped
<1>2. \A r \in Scans : scan'[r].notes = scan[r].notes /\ scan'[r].fixes \subseteq scan[r].fixes
  BY EditDoes DEF Beside
<1>3. /\ disk' \in [Path -> Note] /\ scan' \in [Scans -> Scan] /\ clean' \in BOOLEAN /\ Budgets'
      /\ issued' = issued /\ counter' = counter /\ issued \in Nat /\ counter \in Nat
  BY EditDoes, DiskTyped
<1> QED BY <1>1, <1>2, <1>3, BesideTyped

LEMMA StepTyped == Typed /\ [Next]_vars => Typed'
<1> SUFFICES ASSUME Typed, [Next]_vars PROVE Typed'
  OBVIOUS
<1>1. CASE UNCHANGED vars
  BY <1>1 DEF vars, Typed, TypeOK, ReadIssued
<1>2. CASE Next
  BY <1>2, ReadingTyped, PlanningTyped, FixingTyped, EndingTyped, AppsTyped, EditTyped DEF Next
<1> QED BY <1>1, <1>2

LEMMA AlwaysTyped == Spec => []Typed
BY InitTyped, StepTyped, PTL DEF Spec

(* Types hold in every reachable state, for every start: in particular a   *)
(* fix is planned for a note of the plan and its keeper is a note, and no  *)
(* file names a UUID that was not issued.                                  *)
THEOREM TypeCorrect == Spec => []TypeOK
<1>1. Typed => TypeOK
  BY DEF Typed
<1> QED BY <1>1, AlwaysTyped, PTL

-----------------------------------------------------------------------------
(* A folder that only the apps write. *)

\* What s does to itself, to the notes as a fix, or what others do beside it.
LEMMA Steps ==
  ASSUME Typed, Next
  PROVE  \/ \E s \in Scans : Alone(s) /\ counter' \in Nat /\ counter' >= counter
         \/ \E s \in Scans : ReassignsUuid(s) \/ ReassignsId(s) \/ Adopts(s)
         \/ Create
         \/ \E from, to : Moved(from, to)
         \/ \E stem \in Stems : Purge(stem)
         \/ \E p \in Path : Edit(p)
<1>1. counter \in Nat
  BY DiskTyped
<1>2. ASSUME NEW s \in Scans,
             \/ ScanStarts(s) \/ \E place \in Places : ScanLists(s, place)
             \/ ScanVisits(s) \/ SkipsVisit(s) \/ ScanVisited(s)
             \/ ScanRechecks(s) \/ SkipsRecheck(s)
      PROVE  Alone(s) /\ counter' = counter
  BY <1>2, ScanStartsDoes, ScanListsDoes, ScanVisitsDoes, SkipsVisitDoes, ScanVisitedDoes,
     ScanRechecksDoes, SkipsRecheckDoes
<1>3. ASSUME NEW s \in Scans,
             SkipsCounter(s) \/ DropsFix(s) \/ SkipsFix(s) \/ ScanEnds(s) \/ ScanStops(s)
      PROVE  Alone(s) /\ counter' = counter
  BY <1>3, SkipsCounterDoes, DropsFixDoes, SkipsFixDoes, ScanGoesIdle
<1>4. ASSUME NEW s \in Scans, RaisesCounter(s)
      PROVE  Alone(s) /\ counter' \in Nat /\ counter' >= counter
  BY <1>4, RaisesCounterDoes
<1> QED BY <1>1, <1>2, <1>3, <1>4, MovesDoes DEF Next

\* Plans are made once, and then only get shorter.
LEMMA PlansShrink ==
  ASSUME Typed, [Next]_vars, NEW r \in Scans
  PROVE  \/ scan'[r].fixes \subseteq scan[r].fixes
         \/ scan'[r].fixes = Plan(scan[r].notes)
<1>1. CASE UNCHANGED vars
  BY <1>1 DEF vars
<1>2. CASE Next
  <2>1. ASSUME NEW s \in Scans,
               \/ ScanStarts(s) \/ \E place \in Places : ScanLists(s, place)
               \/ ScanVisits(s) \/ SkipsVisit(s) \/ ScanVisited(s)
               \/ ScanRechecks(s) \/ SkipsRecheck(s)
        PROVE  scan'[r].fixes \subseteq scan[r].fixes
    <3>1. Alone(s) /\ (scan'[s].fixes = scan[s].fixes \/ scan'[s].fixes = {})
      BY <2>1, ScanStartsDoes, ScanListsDoes, ScanVisitsDoes, SkipsVisitDoes, ScanVisitedDoes,
         ScanRechecksDoes, SkipsRecheckDoes DEF Reads
    <3> QED BY <3>1 DEF Alone
  <2>2. ASSUME NEW s \in Scans, RaisesCounter(s) \/ SkipsCounter(s)
        PROVE  scan'[r].fixes \subseteq scan[r].fixes \/ scan'[r].fixes = Plan(scan[r].notes)
    <3>1. Alone(s) /\ scan'[s].fixes = Plan(scan[s].notes)
      BY <2>2, RaisesCounterDoes, SkipsCounterDoes, PlannedTyped DEF Scan
    <3> QED BY <3>1 DEF Alone
  <2>3. ASSUME NEW s \in Scans, DropsFix(s) \/ SkipsFix(s)
        PROVE  scan'[r].fixes \subseteq scan[r].fixes
    <3>1. Alone(s) /\ scan'[s].fixes \subseteq scan[s].fixes
      BY <2>3, DropsFixDoes, SkipsFixDoes DEF Takes
    <3> QED BY <3>1 DEF Alone
  <2>4. ASSUME NEW s \in Scans, ScanEnds(s) \/ ScanStops(s)
        PROVE  scan'[r].fixes \subseteq scan[r].fixes
    <3>1. Alone(s) /\ scan'[s].fixes \subseteq scan[s].fixes
      BY <2>4, ScanGoesIdle, IdleTyped
    <3> QED BY <3>1 DEF Alone
  <2>5. ASSUME NEW s \in Scans, ReassignsUuid(s) \/ ReassignsId(s) \/ Adopts(s)
        PROVE  scan'[r].fixes \subseteq scan[r].fixes
    <3>1. PICK f, n : Fixes(s, f, n)
      BY <2>5, ReassignsUuidDoes, ReassignsIdDoes, AdoptsDoes
    <3> QED BY <3>1 DEF Fixes, Takes, Beside
  <2>6. CASE Create
    BY <2>6, CreateDoes DEF Operates, Beside
  <2>7. ASSUME NEW stem \in Stems, Delete(stem) \/ Restore(stem) \/ CreateAgain(stem)
        PROVE  scan'[r].fixes \subseteq scan[r].fixes
    BY <2>7, MovesDoes DEF Moved, Operates, Beside
  <2>8. ASSUME NEW stem \in Stems, Purge(stem)
        PROVE  scan'[r].fixes \subseteq scan[r].fixes
    BY <2>8, PurgeDoes DEF Operates, Beside
  <2>9. ASSUME NEW p \in Path, Edit(p)
        PROVE  scan'[r].fixes \subseteq scan[r].fixes
    BY <2>9, EditDoes DEF Beside
  <2> QED BY <1>2, <2>1, <2>2, <2>3, <2>4, <2>5, <2>6, <2>7, <2>8, <2>9 DEF Next
<1> QED BY <1>1, <1>2

LEMMA PlansStayApart ==
  ASSUME Typed, PlansApart, [Next]_vars
  PROVE  PlansApart'
<1>1. ASSUME NEW s \in Scans, NEW f \in scan'[s].fixes
      PROVE  /\ f.kind # "adopt" => f.keeper # f.path
             /\ f.kind = "uuid" => f.uuid # 0
             /\ f.kind = "id" => f.id # 0
  <2>1. CASE f \in scan[s].fixes
    BY <2>1 DEF PlansApart
  <2>2. CASE f \in Plan(scan[s].notes)
    BY <2>2, PlanMade, ScanTyped
  <2> QED BY <1>1, <2>1, <2>2, PlansShrink
<1> QED BY <1>1 DEF PlansApart

\* Nothing in such a folder is in conflict, whatever a scan planned.
LEMMA NoConflict ==
  ASSUME Typed, Ordered, clean, NEW s \in Scans, NEW f \in scan[s].fixes, Conflict(f)
  PROVE  FALSE
<1> DEFINE n == disk[f.path]
           k == disk[f.keeper]
<1>1. f.path \in Path /\ f.keeper \in Path /\ f.kind \in {"uuid", "id", "adopt"}
  BY ScanTyped
<1>2. Settled(disk) /\ Paired(disk)
  BY DEF Ordered
<1>3. n \in Note /\ k \in Note
  BY <1>1, DiskTyped
<1>4. CASE f.kind = "adopt"
  <2>1. n.body /\ ~Complete(n)
    BY <1>4 DEF Conflict
  <2> QED BY <1>1, <1>2, <2>1 DEF Settled, Notes
<1>5. CASE f.kind = "uuid"
  <2>1. n.body /\ Claim(n) = f.uuid /\ Claim(k) = f.uuid /\ f.uuid # 0 /\ f.keeper # f.path
    BY <1>5 DEF Conflict, Ordered, PlansApart
  <2>2. k # Nothing
    BY <2>1, NothingTyped DEF Claim
  <2>3. k.body
    BY <1>1, <1>2, <2>2 DEF Paired
  <2> QED BY <1>1, <1>2, <2>1, <2>3 DEF Settled, Notes
<1>6. CASE f.kind = "id"
  <2>1. n.id = f.id /\ k.id = f.id /\ f.id # 0 /\ f.keeper # f.path
    BY <1>6 DEF Conflict, Ordered, PlansApart
  <2>2. n # Nothing /\ k # Nothing
    BY <2>1, NothingTyped
  <2>3. n.body /\ k.body
    BY <1>1, <1>2, <2>2 DEF Paired
  <2> QED BY <1>1, <1>2, <2>1, <2>3 DEF Settled, Notes
<1> QED BY <1>1, <1>4, <1>5, <1>6

LEMMA OrderCreated ==
  ASSUME Typed, Settled(disk), Paired(disk), IdsCovered(disk, counter), Create
  PROVE  Settled(disk)' /\ Paired(disk)' /\ IdsCovered(disk, counter)'
<1>1. PICK p \in Path : /\ Operates({p}) /\ disk'[p].body /\ disk'[p].fm = issued + 1
                        /\ disk'[p].uuid = issued + 1 /\ disk'[p].id = counter + 1
  BY CreateDoes
<1>2. /\ counter' = counter + 1 /\ counter \in Nat /\ issued \in Nat
      /\ \A q \in Path \ {p} : disk'[q] = disk[q]
      /\ \A q \in Path : /\ disk[q].id \in Nat /\ disk[q].id <= counter
                         /\ Claim(disk[q]) \in Nat /\ Claim(disk[q]) <= issued
  BY <1>1, CreateDoes, DiskTyped, NoteTyped DEF Operates, IdsCovered
<1>3. Complete(disk'[p]) /\ Claim(disk'[p]) = issued + 1
  BY <1>1, <1>2 DEF Complete, Claim
<1>4. ASSUME NEW q \in Path, disk'[q].body PROVE Complete(disk'[q])
  BY <1>2, <1>3, <1>4 DEF Settled, Notes
<1>5. ASSUME NEW q \in Path, NEW r \in Path, disk'[q].body, disk'[r].body, q # r
      PROVE  Claim(disk'[q]) # Claim(disk'[r]) /\ disk'[q].id # disk'[r].id
  <2>1. CASE q # p /\ r # p
    BY <1>2, <1>5, <2>1 DEF Settled, Notes
  <2>2. CASE q = p
    <3>1. disk'[r] = disk[r] /\ Claim(disk[r]) # issued + 1 /\ disk[r].id # counter + 1
      BY <1>2, <1>5, <2>2
    <3> QED BY <1>1, <1>3, <2>2, <3>1
  <2>3. CASE r = p
    <3>1. disk'[q] = disk[q] /\ Claim(disk[q]) # issued + 1 /\ disk[q].id # counter + 1
      BY <1>2, <1>5, <2>3
    <3> QED BY <1>1, <1>3, <2>3, <3>1
  <2> QED BY <2>1, <2>2, <2>3
<1>6. Settled(disk)'
  BY <1>4, <1>5 DEF Settled, Notes
<1>7. Paired(disk)'
  BY <1>1, <1>2 DEF Paired
<1>8. ASSUME NEW q \in Path PROVE disk'[q].id <= counter'
  BY <1>1, <1>2
<1> QED BY <1>6, <1>7, <1>8 DEF IdsCovered

LEMMA OrderMoved ==
  ASSUME Typed, Settled(disk), Paired(disk), IdsCovered(disk, counter), NEW from, NEW to, Moved(from, to)
  PROVE  Settled(disk)' /\ Paired(disk)' /\ IdsCovered(disk, counter)'
<1>1. /\ from \in Path /\ to \in Path /\ from # to
      /\ disk'[to] = disk[from] /\ disk'[from] = Nothing /\ disk[from].body
      /\ \A q \in Path \ {from, to} : disk'[q] = disk[q]
      /\ counter' = counter /\ counter \in Nat
  BY DiskTyped DEF Moved, Operates, Served
<1> DEFINE was(q) == IF q = to THEN from ELSE q
<1>2. ASSUME NEW q \in Path, disk'[q].body
      PROVE  was(q) \in Notes(disk) /\ disk'[q] = disk[was(q)]
  BY <1>1, <1>2, NothingTyped DEF Notes
<1>3. ASSUME NEW q \in Path, NEW r \in Path, disk'[q].body, disk'[r].body, q # r
      PROVE  was(q) # was(r)
  BY <1>1, <1>3, NothingTyped
<1>4. Settled(disk)'
  <2> HIDE DEF was
  <2>1. ASSUME NEW q \in Path, disk'[q].body PROVE Complete(disk'[q])
    BY <1>2, <2>1 DEF Settled
  <2>2. ASSUME NEW q \in Path, NEW r \in Path, disk'[q].body, disk'[r].body, q # r
        PROVE  Claim(disk'[q]) # Claim(disk'[r]) /\ disk'[q].id # disk'[r].id
    BY <1>2, <1>3, <2>2 DEF Settled
  <2> QED BY <2>1, <2>2 DEF Settled, Notes
<1>5. Paired(disk)'
  BY <1>1 DEF Paired
<1>6. ASSUME NEW q \in Path PROVE disk'[q].id <= counter'
  BY <1>1, NothingTyped DEF IdsCovered
<1> QED BY <1>4, <1>5, <1>6 DEF IdsCovered

LEMMA OrderPurged ==
  ASSUME Typed, Settled(disk), Paired(disk), IdsCovered(disk, counter), NEW stem \in Stems, Purge(stem)
  PROVE  Settled(disk)' /\ Paired(disk)' /\ IdsCovered(disk, counter)'
<1>1. PICK p \in Path : Operates({p}) /\ disk'[p] = Nothing
  BY PurgeDoes
<1>2. /\ \A q \in Path \ {p} : disk'[q] = disk[q]
      /\ counter' = counter /\ counter \in Nat
  BY <1>1, PurgeDoes, DiskTyped DEF Operates
<1>3. \A q \in Path : disk'[q].body => disk'[q] = disk[q] /\ q \in Notes(disk)
  BY <1>1, <1>2, NothingTyped DEF Notes
<1>4. Settled(disk)'
  BY <1>3 DEF Settled, Notes
<1>5. Paired(disk)'
  BY <1>1, <1>2 DEF Paired
<1>6. ASSUME NEW q \in Path PROVE disk'[q].id <= counter'
  BY <1>1, <1>2, NothingTyped DEF IdsCovered
<1> QED BY <1>4, <1>5, <1>6 DEF IdsCovered

LEMMA StepOrdered ==
  ASSUME Typed, Ordered, [Next]_vars
  PROVE  Ordered'
<1>1. PlansApart'
  BY PlansStayApart DEF Ordered
<1>2. ASSUME clean'
      PROVE  Settled(disk)' /\ Paired(disk)' /\ IdsCovered(disk, counter)'
  <2>1. CASE UNCHANGED vars
    BY <1>2, <2>1 DEF vars, Ordered, Settled, Notes, Paired, IdsCovered
  <2>2. ASSUME NEW s \in Scans, Alone(s), counter' \in Nat, counter' >= counter
        PROVE  Settled(disk)' /\ Paired(disk)' /\ IdsCovered(disk, counter)'
    <3>1. disk' = disk /\ Settled(disk) /\ Paired(disk) /\ IdsCovered(disk, counter)
      BY <1>2, <2>2 DEF Alone, Ordered
    <3>2. \A p \in Path : disk[p].id \in Nat /\ counter \in Nat
      BY DiskTyped, NoteTyped
    <3>3. IdsCovered(disk, counter)'
      BY <2>2, <3>1, <3>2 DEF IdsCovered
    <3> QED BY <3>1, <3>3 DEF Settled, Notes, Paired
  <2>3. ASSUME NEW s \in Scans, ReassignsUuid(s) \/ ReassignsId(s) \/ Adopts(s)
        PROVE  FALSE
    <3>1. PICK f, n : Fixes(s, f, n) /\ Conflict(f)
      BY <2>3, ReassignsUuidDoes, ReassignsIdDoes, AdoptsDoes
    <3>2. clean /\ f \in scan[s].fixes
      BY <1>2, <3>1 DEF Fixes
    <3> QED BY <3>1, <3>2, NoConflict
  <2>4. CASE Create
    <3>1. clean
      BY <1>2, <2>4, CreateDoes DEF Operates
    <3> QED BY <2>4, <3>1, OrderCreated DEF Ordered
  <2>5. ASSUME NEW from, NEW to, Moved(from, to)
        PROVE  Settled(disk)' /\ Paired(disk)' /\ IdsCovered(disk, counter)'
    <3>1. clean
      BY <1>2, <2>5 DEF Moved, Operates
    <3> QED BY <2>5, <3>1, OrderMoved DEF Ordered
  <2>6. ASSUME NEW stem \in Stems, Purge(stem)
        PROVE  Settled(disk)' /\ Paired(disk)' /\ IdsCovered(disk, counter)'
    <3>1. clean
      BY <1>2, <2>6, PurgeDoes DEF Operates
    <3> QED BY <2>6, <3>1, OrderPurged DEF Ordered
  <2>7. ASSUME NEW p \in Path, Edit(p)
        PROVE  FALSE
    BY <1>2, <2>7, EditDoes
  <2> QED BY <2>1, <2>2, <2>3, <2>4, <2>5, <2>6, <2>7, Steps
<1> QED BY <1>1, <1>2 DEF Ordered

LEMMA InitOrdered == Init => Ordered
<1> SUFFICES ASSUME Init PROVE Ordered
  OBVIOUS
<1>1. PlansApart
  BY IdleTyped DEF Init, PlansApart
<1>2. clean => Settled(disk) /\ Paired(disk) /\ IdsCovered(disk, counter)
  BY DEF Init
<1> QED BY <1>1, <1>2 DEF Ordered

LEMMA AlwaysOrdered == Spec => [](Typed /\ Ordered)
<1>1. Init => Typed /\ Ordered
  BY InitTyped, InitOrdered
<1>2. Typed /\ Ordered /\ [Next]_vars => (Typed /\ Ordered)'
  BY StepTyped, StepOrdered
<1> QED BY <1>1, <1>2, PTL DEF Spec

(* In a folder that began in order and that only the apps write, no order  *)
(* of scans, fixes and operations repeats an identity.                     *)
THEOREM OrderKept == Spec => []AppsKeepOrder
<1>1. Ordered => AppsKeepOrder
  BY DEF Ordered, AppsKeepOrder
<1> QED BY <1>1, AlwaysOrdered, PTL

\* Only fixes change notes and are taken off a list at once.
LEMMA OthersFinishNothing ==
  ASSUME Typed, [Next]_vars, NEW s \in Scans, NEW f \in scan[s].fixes, Finishes(s, f)
  PROVE  \/ UNCHANGED disk
         \/ ReassignsUuid(s) \/ ReassignsId(s) \/ Adopts(s)
<1>1. CASE UNCHANGED vars
  BY <1>1 DEF vars
<1>2. CASE Next
  <2>1. ASSUME NEW r \in Scans, Alone(r) PROVE UNCHANGED disk
    BY <2>1 DEF Alone
  <2>2. ASSUME NEW r \in Scans, ReassignsUuid(r) \/ ReassignsId(r) \/ Adopts(r), r # s
        PROVE  FALSE
    <3>1. PICK g, n : Fixes(r, g, n)
      BY <2>2, ReassignsUuidDoes, ReassignsIdDoes, AdoptsDoes
    <3> QED BY <2>2, <3>1 DEF Fixes, Beside, Finishes
  <2>3. CASE Create
    BY <2>3, CreateDoes DEF Operates, Beside, Finishes
  <2>4. ASSUME NEW from, NEW to, Moved(from, to) PROVE FALSE
    BY <2>4 DEF Moved, Operates, Beside, Finishes
  <2>5. ASSUME NEW stem \in Stems, Purge(stem) PROVE FALSE
    BY <2>5, PurgeDoes DEF Operates, Beside, Finishes
  <2>6. ASSUME NEW p \in Path, Edit(p) PROVE FALSE
    BY <2>6, EditDoes DEF Beside, Finishes
  <2> QED BY <1>2, <2>1, <2>2, <2>3, <2>4, <2>5, <2>6, Steps
<1> QED BY <1>1, <1>2

(* Nor does a scan of such a folder change an identity, although it read   *)
(* the files of a note at different moments.                               *)
THEOREM NothingNeedless == Spec => NoNeedlessFix
<1>1. ASSUME Typed, Ordered, [Next]_vars
      PROVE  \A s \in Scans : \A f \in scan[s].fixes :
               clean /\ Finishes(s, f) => UNCHANGED disk
  <2> SUFFICES ASSUME NEW s \in Scans, NEW f \in scan[s].fixes, clean, Finishes(s, f)
               PROVE  UNCHANGED disk
    OBVIOUS
  <2>1. ASSUME ReassignsUuid(s) \/ ReassignsId(s) \/ Adopts(s) PROVE FALSE
    <3>1. PICK g, n : Fixes(s, g, n) /\ Conflict(g)
      BY <1>1, <2>1, ReassignsUuidDoes, ReassignsIdDoes, AdoptsDoes
    <3>2. g \in scan[s].fixes
      BY <3>1 DEF Fixes
    <3> QED BY <1>1, <3>1, <3>2, NoConflict
  <2> QED BY <1>1, <2>1, OthersFinishNothing
<1>2. Typed /\ Ordered /\ [Next]_vars =>
        [\A s \in Scans : \A f \in scan[s].fixes :
           clean /\ Finishes(s, f) => UNCHANGED disk]_vars
  BY <1>1
<1> QED BY <1>2, AlwaysOrdered, PTL DEF Spec, NoNeedlessFix

-----------------------------------------------------------------------------
(* Fixes of several scans. *)

\* Nobody but programs without the lock, and the apps where they note it, makes
\* a note incomplete, changes the UUID of an incomplete one or leaves an orphan.
LEMMA StillFollowed ==
  ASSUME Typed, NEW r \in Scans, ReadStill(r), OrphansRead(r), PlanStill(r),
         scan'[r].notes = scan[r].notes, scan'[r].fixes \subseteq scan[r].fixes,
         scan[r].outside \subseteq scan'[r].outside, scan[r].moved \subseteq scan'[r].moved,
         \A p \in Path \ (scan'[r].outside \cup scan'[r].moved) :
           disk'[p].body /\ ~Complete(disk'[p]) =>
             disk[p].body /\ ~Complete(disk[p]) /\ disk'[p].fm = disk[p].fm /\ disk'[p].uuid = disk[p].uuid,
         \A p \in Path \ scan'[r].outside :
           ~disk'[p].body /\ disk'[p].uuid # 0 => ~disk[p].body /\ disk[p].uuid # 0
  PROVE  ReadStill(r)' /\ OrphansRead(r)' /\ PlanStill(r)'
<1>1. ReadStill(r)'
  BY DEF ReadStill
<1>2. OrphansRead(r)'
  BY DEF OrphansRead, Orphan
<1>3. ASSUME NEW f \in scan'[r].fixes
      PROVE  IF f.kind = "adopt"
             THEN f.path \notin scan'[r].outside \cup scan'[r].moved =>
                    (disk'[f.path].body /\ disk'[f.path].uuid = 0 => f.uuid = disk'[f.path].fm)
             ELSE f.keeper \notin scan'[r].outside => ~(~disk'[f.keeper].body /\ disk'[f.keeper].uuid # 0)
  <2>1. f \in scan[r].fixes /\ f.path \in Path /\ f.keeper \in Path
    BY ScanTyped
  <2>2. CASE f.kind = "adopt"
    <3> SUFFICES ASSUME f.path \notin scan'[r].outside \cup scan'[r].moved,
                        disk'[f.path].body, disk'[f.path].uuid = 0
                 PROVE  f.uuid = disk'[f.path].fm
      BY <2>2
    <3>1. ~Complete(disk'[f.path])
      BY DEF Complete
    <3>2. disk[f.path].body /\ disk'[f.path].fm = disk[f.path].fm /\ disk[f.path].uuid = 0
      BY <2>1, <3>1
    <3> QED BY <2>1, <2>2, <3>2 DEF PlanStill
  <2>3. CASE f.kind # "adopt"
    BY <2>1, <2>3 DEF PlanStill, Orphan
  <2> QED BY <2>2, <2>3
<1>4. PlanStill(r)'
  BY <1>3 DEF PlanStill, Orphan
<1> QED BY <1>1, <1>2, <1>4

\* A scan reads what is there, or less.
LEMMA ReadFollowed ==
  ASSUME Typed, NEW s \in Scans, ReadStill(s), OrphansRead(s), PlanStill(s), Alone(s),
         NEW at, NEW todo, NEW notes \in [Path -> Note], Reads(s, at, todo, notes),
         \A p \in Path :
           /\ notes[p].body => \/ disk[p].body /\ notes[p].fm = disk[p].fm
                               \/ scan[s].notes[p].body /\ notes[p].fm = scan[s].notes[p].fm
           /\ notes[p].uuid \in {0, disk[p].uuid, scan[s].notes[p].uuid}
  PROVE  ReadStill(s)' /\ OrphansRead(s)' /\ PlanStill(s)'
<1>1. /\ disk' = disk /\ scan'[s].notes = notes /\ scan'[s].fixes = scan[s].fixes
      /\ scan'[s].outside = scan[s].outside /\ scan'[s].moved = scan[s].moved
  BY DEF Alone, Reads
<1>2. ReadStill(s)'
  BY <1>1 DEF ReadStill
<1>3. OrphansRead(s)'
  BY <1>1 DEF OrphansRead, Orphan
<1>4. PlanStill(s)'
  BY <1>1 DEF PlanStill, Orphan
<1> QED BY <1>2, <1>3, <1>4

LEMMA ReadingFollowed ==
  ASSUME Typed, Followed, NEW s \in Scans,
         \/ ScanStarts(s) \/ \E place \in Places : ScanLists(s, place)
         \/ ScanVisits(s) \/ SkipsVisit(s) \/ ScanVisited(s)
         \/ ScanRechecks(s) \/ SkipsRecheck(s)
  PROVE  Alone(s) /\ ReadStill(s)' /\ OrphansRead(s)' /\ PlanStill(s)'
<1>1. CASE ScanStarts(s)
  <2>1. /\ Alone(s) /\ scan'[s].notes = Idle.notes /\ scan'[s].fixes = {}
        /\ disk' = disk
    BY <1>1, ScanStartsDoes DEF Alone
  <2>2. \A p \in Path : ~scan'[s].notes[p].body /\ scan'[s].notes[p].uuid = 0
    BY <2>1, IdleTyped, NothingTyped
  <2> QED BY <2>1, <2>2 DEF ReadStill, OrphansRead, PlanStill
<1>2. CASE ~ScanStarts(s)
  <2>1. ReadStill(s) /\ OrphansRead(s) /\ PlanStill(s)
    <3>1. scan[s].at # "idle"
      BY <1>2, ScanListsDoes, ScanVisitsDoes, SkipsVisitDoes, ScanVisitedDoes,
         ScanRechecksDoes, SkipsRecheckDoes
    <3> QED BY <3>1 DEF Followed
  <2>2. scan[s].notes \in [Path -> Note]
    BY ScanTyped
  <2>3. ASSUME \/ \E place \in Places : ScanLists(s, place)
               \/ SkipsVisit(s) \/ ScanVisited(s)
        PROVE  Alone(s) /\ ReadStill(s)' /\ OrphansRead(s)' /\ PlanStill(s)'
    <3>1. PICK at, todo : Alone(s) /\ Reads(s, at, todo, scan[s].notes)
      BY <2>3, ScanListsDoes, SkipsVisitDoes, ScanVisitedDoes
    <3> QED BY <2>1, <2>2, <3>1, ReadFollowed
  <2>4. CASE ScanVisits(s)
    <3>1. PICK p \in Path, part \in Parts :
            Reads(s, scan[s].at, scan[s].todo \ {<<p, part>>},
                  [scan[s].notes EXCEPT ![p] = Overlay(scan[s].notes[p], disk[p], {part})])
      BY <2>4, ScanVisitsDoes
    <3> DEFINE n == Overlay(scan[s].notes[p], disk[p], {part})
               notes == [scan[s].notes EXCEPT ![p] = n]
    <3>2. n \in Note
      BY ScanTyped, DiskTyped, OverlayTyped
    <3>3. /\ n.body => \/ disk[p].body /\ n.fm = disk[p].fm
                       \/ scan[s].notes[p].body /\ n.fm = scan[s].notes[p].fm
          /\ n.uuid \in {disk[p].uuid, scan[s].notes[p].uuid}
      BY DEF Overlay
    <3> HIDE DEF n
    <3>4. notes \in [Path -> Note]
          /\ \A q \in Path : notes[q] = IF q = p THEN n ELSE scan[s].notes[q]
      BY <2>2, <3>2
    <3>5. \A q \in Path :
            /\ notes[q].body => \/ disk[q].body /\ notes[q].fm = disk[q].fm
                                \/ scan[s].notes[q].body /\ notes[q].fm = scan[s].notes[q].fm
            /\ notes[q].uuid \in {0, disk[q].uuid, scan[s].notes[q].uuid}
      BY <3>3, <3>4
    <3>6. Reads(s, scan[s].at, scan[s].todo \ {<<p, part>>}, notes) /\ Alone(s)
      BY <2>4, <3>1, ScanVisitsDoes DEF n
    <3> HIDE DEF notes
    <3> QED BY <2>1, <3>4, <3>5, <3>6, ReadFollowed
  <2>5. CASE ScanRechecks(s) \/ SkipsRecheck(s)
    <3>1. PICK dropped : Reads(s, "raise", scan[s].todo, Rechecked(scan[s].notes, dropped))
      BY <2>5, ScanRechecksDoes, SkipsRecheckDoes
    <3>2. Alone(s)
      BY <2>5, ScanRechecksDoes, SkipsRecheckDoes
    <3> DEFINE notes == Rechecked(scan[s].notes, dropped)
    <3>3. notes \in [Path -> Note]
      BY RecheckedTyped
    <3>4. ASSUME NEW q \in Path
          PROVE  /\ notes[q].body => \/ disk[q].body /\ notes[q].fm = disk[q].fm
                                     \/ scan[s].notes[q].body /\ notes[q].fm = scan[s].notes[q].fm
                 /\ notes[q].uuid \in {0, disk[q].uuid, scan[s].notes[q].uuid}
      <4>1. CASE notes[q] = scan[s].notes[q]
        BY <4>1
      <4>2. ASSUME NEW parts, notes[q] = Overlay(disk[q], Nothing, parts)
            PROVE  /\ notes[q].body => disk[q].body /\ notes[q].fm = disk[q].fm
                   /\ notes[q].uuid \in {0, disk[q].uuid}
        <5> HIDE DEF notes
        <5> QED BY <4>2, NothingTyped DEF Overlay
      <4> QED BY <4>1, <4>2, RecheckedTyped
    <3> HIDE DEF notes
    <3>5. Reads(s, "raise", scan[s].todo, notes)
      BY <3>1 DEF notes
    <3> QED BY <2>1, <3>2, <3>3, <3>4, <3>5, ReadFollowed
  <2> QED BY <1>2, <2>3, <2>4, <2>5
<1> QED BY <1>1, <1>2

\* A plan follows what was read.
LEMMA PlanningFollowed ==
  ASSUME Typed, Followed, NEW s \in Scans, RaisesCounter(s) \/ SkipsCounter(s)
  PROVE  Alone(s) /\ ReadStill(s)' /\ OrphansRead(s)' /\ PlanStill(s)'
<1>1. /\ Alone(s) /\ scan[s].at = "raise" /\ disk' = disk
      /\ scan'[s].notes = Idle.notes /\ scan'[s].fixes = Plan(scan[s].notes)
      /\ scan'[s].outside = scan[s].outside /\ scan'[s].moved = scan[s].moved
  <2>1. CASE RaisesCounter(s)
    <3>1. Alone(s) /\ scan'[s] = Planned(s) /\ scan[s].at = "raise"
      BY <2>1, RaisesCounterDoes
    <3> QED BY <3>1, PlannedTyped DEF Alone
  <2>2. CASE SkipsCounter(s)
    <3>1. Alone(s) /\ scan'[s] = [Planned(s) EXCEPT !.quiet = FALSE] /\ scan[s].at = "raise"
      BY <2>2, SkipsCounterDoes
    <3> QED BY <3>1, PlannedTyped DEF Scan, Alone
  <2> QED BY <2>1, <2>2
<1>2. ReadStill(s) /\ OrphansRead(s)
  BY <1>1 DEF Followed
<1>3. \A p \in Path : ~scan'[s].notes[p].body /\ scan'[s].notes[p].uuid = 0
  BY <1>1, IdleTyped, NothingTyped
<1>4. ASSUME NEW f \in Plan(scan[s].notes)
      PROVE  IF f.kind = "adopt"
             THEN f.path \notin scan[s].outside \cup scan[s].moved =>
                    (disk[f.path].body /\ disk[f.path].uuid = 0 => f.uuid = disk[f.path].fm)
             ELSE f.keeper \notin scan[s].outside => ~Orphan(f.keeper)
  <2>1. /\ f.path \in Path /\ scan[s].notes[f.path].body
        /\ f.keeper \in Path /\ scan[s].notes[f.keeper].body
    BY ScanTyped, PlanMade DEF Notes
  <2>2. CASE f.kind = "adopt"
    <3> SUFFICES ASSUME f.path \notin scan[s].outside \cup scan[s].moved,
                        disk[f.path].body, disk[f.path].uuid = 0
                 PROVE  f.uuid = disk[f.path].fm
      BY <2>2
    <3>1. ~Complete(disk[f.path])
      BY DEF Complete
    <3>2. scan[s].notes[f.path].fm = disk[f.path].fm /\ scan[s].notes[f.path].uuid = 0
      BY <1>2, <2>1, <3>1 DEF ReadStill
    <3>3. f.uuid = Claim(scan[s].notes[f.path])
      BY <2>2, ScanTyped, PlanMade
    <3> QED BY <3>2, <3>3 DEF Claim
  <2>3. CASE f.kind # "adopt"
    BY <1>2, <2>1, <2>3 DEF OrphansRead
  <2> QED BY <2>2, <2>3
<1>5. PlanStill(s)'
  BY <1>1, <1>4 DEF PlanStill, Orphan
<1>6. ReadStill(s)' /\ OrphansRead(s)'
  BY <1>1, <1>3 DEF ReadStill, OrphansRead
<1> QED BY <1>1, <1>5, <1>6

\* Fixes complete notes, or leave their UUIDs alone.
LEMMA FixingKeeps ==
  ASSUME Typed, NEW s \in Scans, ReassignsUuid(s) \/ ReassignsId(s) \/ Adopts(s), NEW p \in Path
  PROVE  /\ disk'[p].body /\ ~Complete(disk'[p]) =>
              disk[p].body /\ ~Complete(disk[p]) /\ disk'[p].fm = disk[p].fm /\ disk'[p].uuid = disk[p].uuid
         /\ ~disk'[p].body /\ disk'[p].uuid # 0 => ~disk[p].body /\ disk[p].uuid # 0
<1>1. CASE ReassignsUuid(s)
  <2>1. PICK f, n : Fixes(s, f, n) /\ n.body /\ n.uuid = issued + 1 /\ n.id = counter + 1
    BY <1>1, ReassignsUuidDoes
  <2>2. Complete(n)
    BY <2>1, DiskTyped DEF Complete
  <2> QED BY <2>1, <2>2 DEF Fixes
<1>2. CASE ReassignsId(s)
  <2>1. PICK f, n : /\ Fixes(s, f, n) /\ f.kind = "id" /\ Conflict(f)
                    /\ n.body = disk[f.path].body /\ n.fm = disk[f.path].fm
                    /\ n.uuid = disk[f.path].uuid /\ n.id = counter + 1
    BY <1>2, ReassignsIdDoes
  <2>2. n.id # 0
    BY <2>1, DiskTyped
  <2>3. Complete(disk[f.path]) => Complete(n)
    BY <2>1, <2>2 DEF Complete
  <2> QED BY <2>1, <2>3 DEF Fixes
<1>3. CASE Adopts(s)
  <2>1. PICK f, n : /\ Fixes(s, f, n) /\ f.kind = "adopt" /\ Conflict(f)
                    /\ n.body = disk[f.path].body /\ n.uuid # 0 /\ n.id # 0
    BY <1>3, AdoptsDoes
  <2>2. Complete(n) /\ n.body
    BY <2>1 DEF Complete, Conflict
  <2> QED BY <2>1, <2>2 DEF Fixes
<1> QED BY <1>1, <1>2, <1>3

LEMMA StepFollowed ==
  ASSUME Typed, Followed, [Next]_vars
  PROVE  Followed'
<1> SUFFICES ASSUME NEW r \in Scans, scan'[r].at # "idle"
             PROVE  ReadStill(r)' /\ OrphansRead(r)' /\ PlanStill(r)'
  BY DEF Followed
<1>1. scan[r].at # "idle" => ReadStill(r) /\ OrphansRead(r) /\ PlanStill(r)
  BY DEF Followed
<1>2. CASE UNCHANGED vars
  BY <1>1, <1>2 DEF vars, ReadStill, OrphansRead, PlanStill, Orphan
<1>3. ASSUME NEW s \in Scans, Alone(s), r # s
      PROVE  ReadStill(r)' /\ OrphansRead(r)' /\ PlanStill(r)'
  <2>1. scan'[r] = scan[r] /\ disk' = disk
    BY <1>3 DEF Alone
  <2> QED BY <1>1, <2>1 DEF ReadStill, OrphansRead, PlanStill, Orphan
<1>4. ASSUME NEW s \in Scans,
             \/ ScanStarts(s) \/ \E place \in Places : ScanLists(s, place)
             \/ ScanVisits(s) \/ SkipsVisit(s) \/ ScanVisited(s)
             \/ ScanRechecks(s) \/ SkipsRecheck(s)
             \/ RaisesCounter(s) \/ SkipsCounter(s)
      PROVE  ReadStill(r)' /\ OrphansRead(r)' /\ PlanStill(r)'
  BY <1>3, <1>4, ReadingFollowed, PlanningFollowed
<1>5. ASSUME NEW s \in Scans, DropsFix(s) \/ SkipsFix(s)
      PROVE  ReadStill(r)' /\ OrphansRead(r)' /\ PlanStill(r)'
  <2>1. PICK f : Alone(s) /\ Takes(s, f) /\ scan[s].at = "fix"
    BY <1>5, DropsFixDoes, SkipsFixDoes
  <2>2. CASE r = s
    BY <1>1, <2>1, <2>2, StillFollowed DEF Alone, Takes
  <2> QED BY <1>3, <2>1, <2>2
<1>6. ASSUME NEW s \in Scans, ScanEnds(s) \/ ScanStops(s)
      PROVE  ReadStill(r)' /\ OrphansRead(r)' /\ PlanStill(r)'
  BY <1>3, <1>6, ScanGoesIdle, IdleTyped
<1>7. ASSUME NEW s \in Scans, ReassignsUuid(s) \/ ReassignsId(s) \/ Adopts(s)
      PROVE  ReadStill(r)' /\ OrphansRead(r)' /\ PlanStill(r)'
  <2>1. PICK f, n : Fixes(s, f, n)
    BY <1>7, ReassignsUuidDoes, ReassignsIdDoes, AdoptsDoes
  <2>2. /\ scan'[r].at = scan[r].at
        /\ scan'[r].notes = scan[r].notes /\ scan'[r].fixes \subseteq scan[r].fixes
        /\ scan[r].outside \subseteq scan'[r].outside /\ scan[r].moved \subseteq scan'[r].moved
    BY <2>1 DEF Fixes, Takes, Beside
  <2> QED BY <1>1, <1>7, <2>2, FixingKeeps, StillFollowed
\* What the apps write, they write whole.
<1>8. ASSUME NEW paths, Operates(paths),
             \A p \in paths : ~(~disk'[p].body /\ disk'[p].uuid # 0)
      PROVE  ReadStill(r)' /\ OrphansRead(r)' /\ PlanStill(r)'
  <2>1. /\ scan[r].at # "idle" /\ scan'[r].notes = scan[r].notes /\ scan'[r].fixes = scan[r].fixes
        /\ scan'[r].outside = scan[r].outside /\ scan'[r].moved = scan[r].moved \cup paths
    BY <1>8 DEF Operates, Beside
  <2>2. \A p \in Path \ paths : disk'[p] = disk[p]
    BY <1>8 DEF Operates
  <2> QED BY <1>1, <1>8, <2>1, <2>2, StillFollowed
<1>9. CASE Create
  BY <1>8, <1>9, CreateDoes
<1>10. ASSUME NEW from, NEW to, Moved(from, to)
       PROVE  ReadStill(r)' /\ OrphansRead(r)' /\ PlanStill(r)'
  <2>1. Operates({from, to}) /\ disk'[to].body /\ disk'[from] = Nothing
    BY <1>10 DEF Moved, Served
  <2> QED BY <1>8, <2>1, NothingTyped
<1>11. ASSUME NEW stem \in Stems, Purge(stem)
       PROVE  ReadStill(r)' /\ OrphansRead(r)' /\ PlanStill(r)'
  BY <1>8, <1>11, PurgeDoes, NothingTyped
<1>12. ASSUME NEW p \in Path, Edit(p)
       PROVE  ReadStill(r)' /\ OrphansRead(r)' /\ PlanStill(r)'
  <2>1. /\ scan[r].at # "idle" /\ scan'[r].notes = scan[r].notes /\ scan'[r].fixes = scan[r].fixes
        /\ scan'[r].outside = scan[r].outside \cup {p} /\ scan'[r].moved = scan[r].moved \cup {}
    BY <1>12, EditDoes DEF Beside
  <2>2. \A q \in Path \ {p} : disk'[q] = disk[q]
    BY <1>12, EditDoes
  <2> QED BY <1>1, <2>1, <2>2, StillFollowed
<1> QED BY <1>2, <1>4, <1>5, <1>6, <1>7, <1>9, <1>10, <1>11, <1>12, MovesDoes DEF Next


LEMMA InitFollowed == Init => Followed
BY IdleTyped DEF Init, Followed

LEMMA AlwaysFollowed == Spec => [](Typed /\ Ordered /\ Followed)
<1>1. Init => Followed
  BY InitFollowed
<1>2. Typed /\ Followed /\ [Next]_vars => Followed'
  BY StepFollowed
<1> QED BY <1>1, <1>2, AlwaysOrdered, PTL DEF Spec

\* What a fix leaves at its path has the claim that was there, or a new one, and
\* in that case another note has the old claim.
Reclaims(f, n) ==
  /\ n.body = disk[f.path].body
  /\ \/ Claim(n) = Claim(disk[f.path])
     \/ /\ Claim(n) = issued + 1
        /\ \/ Claim(disk[f.path]) = 0
           \/ \E k \in Notes(disk) \ {f.path} : Claim(disk[k]) = Claim(disk[f.path])

LEMMA FixReclaims ==
  ASSUME Typed, Ordered, Followed, NEW s \in Scans, NEW f \in scan[s].fixes,
         Finishes(s, f), Undisturbed(s, f),
         ReassignsUuid(s) \/ ReassignsId(s) \/ Adopts(s)
  PROVE  \E n : Fixes(s, f, n) /\ Reclaims(f, n)
<1>1. ASSUME NEW g, NEW n, Fixes(s, g, n) PROVE f = g
  BY <1>1 DEF Fixes, Takes, Finishes
<1>2. f.path \in Path /\ f.keeper \in Path /\ issued \in Nat
  BY ScanTyped, DiskTyped
<1>3. PlanStill(s)
  BY DEF Followed, Finishes
<1>4. CASE ReassignsUuid(s)
  <2>1. PICK n : /\ Fixes(s, f, n) /\ f.kind = "uuid" /\ Conflict(f)
                 /\ n.body /\ n.uuid = issued + 1
    BY <1>1, <1>4, ReassignsUuidDoes
  <2>2. /\ disk[f.path].body /\ Claim(disk[f.path]) = f.uuid /\ Claim(disk[f.keeper]) = f.uuid
        /\ f.uuid # 0 /\ f.keeper # f.path
    BY <2>1 DEF Conflict, Ordered, PlansApart
  <2>3. ~Orphan(f.keeper)
    BY <1>3, <2>1 DEF PlanStill, Undisturbed
  <2>4. disk[f.keeper].body
    BY <1>2, <2>2, <2>3, DiskTyped DEF Orphan, Claim
  <2>5. Claim(n) = issued + 1
    BY <1>2, <2>1 DEF Claim
  <2>6. f.keeper \in Notes(disk) \ {f.path}
    BY <1>2, <2>2, <2>4 DEF Notes
  <2>7. Reclaims(f, n)
    BY <2>1, <2>2, <2>5, <2>6 DEF Reclaims
  <2> QED BY <2>1, <2>7
<1>5. CASE ReassignsId(s)
  <2>1. PICK n : /\ Fixes(s, f, n) /\ n.body = disk[f.path].body
                 /\ n.fm = disk[f.path].fm /\ n.uuid = disk[f.path].uuid
    BY <1>1, <1>5, ReassignsIdDoes
  <2>2. Reclaims(f, n)
    BY <2>1 DEF Reclaims, Claim
  <2> QED BY <2>1, <2>2
<1>6. CASE Adopts(s)
  <2>1. PICK n : /\ Fixes(s, f, n) /\ f.kind = "adopt" /\ Conflict(f)
                 /\ n.body = disk[f.path].body /\ n.fm = disk[f.path].fm
                 /\ disk[f.path].uuid # 0 => n.uuid = disk[f.path].uuid
                 /\ disk[f.path].uuid = 0 => n.uuid = IF f.uuid # 0 THEN f.uuid ELSE issued + 1
    BY <1>1, <1>6, AdoptsDoes
  <2>2. disk[f.path].uuid = 0 => f.uuid = disk[f.path].fm
    BY <1>3, <2>1 DEF PlanStill, Undisturbed, Conflict
  <2>3. Claim(n) = Claim(disk[f.path]) \/ (Claim(n) = issued + 1 /\ Claim(disk[f.path]) = 0)
    BY <1>2, <2>1, <2>2 DEF Claim
  <2>4. Reclaims(f, n)
    BY <2>1, <2>3 DEF Reclaims
  <2> QED BY <2>1, <2>4
<1> QED BY <1>4, <1>5, <1>6

(* However many scans repair one folder, with plans of different moments,  *)
(* an identity stays with a note while a fix takes it from another.        *)
THEOREM IdentityKept == Spec => IdentitiesKept
<1>1. ASSUME Typed, Ordered, Followed, [Next]_vars
      PROVE  \A s \in Scans : \A f \in scan[s].fixes :
               Finishes(s, f) /\ Undisturbed(s, f)
                 => Claimed(disk) \ {0} \subseteq Claimed(disk')
  <2> SUFFICES ASSUME NEW s \in Scans, NEW f \in scan[s].fixes,
                      Finishes(s, f), Undisturbed(s, f),
                      NEW p \in Notes(disk), Claim(disk[p]) # 0
               PROVE  \E q \in Notes(disk') : Claim(disk'[q]) = Claim(disk[p])
    BY DEF Claimed
  <2>1. CASE UNCHANGED disk
    BY <2>1
  <2>2. CASE ReassignsUuid(s) \/ ReassignsId(s) \/ Adopts(s)
    <3>1. PICK n : Fixes(s, f, n) /\ Reclaims(f, n)
      BY <1>1, <2>2, FixReclaims
    <3>2. p \in Path /\ disk[p].body /\ \A q \in Path : disk'[q] = IF q = f.path THEN n ELSE disk[q]
      BY <3>1 DEF Fixes, Notes
    <3>3. CASE p # f.path
      BY <3>2, <3>3 DEF Notes
    <3>4. CASE p = f.path /\ Claim(n) = Claim(disk[p])
      BY <3>1, <3>2, <3>4 DEF Notes, Reclaims
    <3>5. CASE p = f.path /\ Claim(n) # Claim(disk[p])
      <4>1. PICK k \in Notes(disk) \ {p} : Claim(disk[k]) = Claim(disk[p])
        BY <3>1, <3>5 DEF Reclaims
      <4> QED BY <3>2, <3>5, <4>1 DEF Notes
    <3> QED BY <3>3, <3>4, <3>5
  <2> QED BY <1>1, <2>1, <2>2, OthersFinishNothing
<1>2. Typed /\ Ordered /\ Followed /\ [Next]_vars =>
        [\A s \in Scans : \A f \in scan[s].fixes :
           Finishes(s, f) /\ Undisturbed(s, f)
             => Claimed(disk) \ {0} \subseteq Claimed(disk')]_vars
  BY <1>1
<1> QED BY <1>2, AlwaysFollowed, PTL DEF Spec, IdentitiesKept

(* And no fix gives a note a UUID that another note has.                   *)
THEOREM IdentityApart == Spec => IdentitiesApart
<1>1. ASSUME Typed, Ordered, Followed, [Next]_vars
      PROVE  \A s \in Scans : \A f \in scan[s].fixes :
               Finishes(s, f) /\ Undisturbed(s, f)
                 => \A p, q \in Notes(disk') :
                      (p # q /\ Claim(disk'[p]) # 0 /\ Claim(disk'[p]) = Claim(disk'[q]))
                        => Claim(disk[p]) = Claim(disk[q])
  <2> SUFFICES ASSUME NEW s \in Scans, NEW f \in scan[s].fixes,
                      Finishes(s, f), Undisturbed(s, f),
                      NEW p \in Notes(disk'), NEW q \in Notes(disk'),
                      p # q, Claim(disk'[p]) # 0, Claim(disk'[p]) = Claim(disk'[q])
               PROVE  Claim(disk[p]) = Claim(disk[q])
    OBVIOUS
  <2>1. CASE UNCHANGED disk
    BY <2>1
  <2>2. CASE ReassignsUuid(s) \/ ReassignsId(s) \/ Adopts(s)
    <3>1. PICK n : Fixes(s, f, n) /\ Reclaims(f, n)
      BY <1>1, <2>2, FixReclaims
    <3>2. p \in Path /\ q \in Path /\ \A r \in Path : disk'[r] = IF r = f.path THEN n ELSE disk[r]
      BY <3>1 DEF Fixes, Notes
    <3>3. ASSUME NEW r \in Path PROVE Claim(disk[r]) # issued + 1
      BY <1>1, <3>3, DiskTyped
    <3>4. CASE Claim(n) = Claim(disk[f.path])
      BY <3>2, <3>4
    <3>5. CASE Claim(n) = issued + 1
      BY <3>2, <3>3, <3>5
    <3> QED BY <3>1, <3>4, <3>5 DEF Reclaims
  <2> QED BY <1>1, <2>1, <2>2, OthersFinishNothing
<1>2. Typed /\ Ordered /\ Followed /\ [Next]_vars =>
        [\A s \in Scans : \A f \in scan[s].fixes :
           Finishes(s, f) /\ Undisturbed(s, f)
             => \A p, q \in Notes(disk') :
                  (p # q /\ Claim(disk'[p]) # 0 /\ Claim(disk'[p]) = Claim(disk'[q]))
                    => Claim(disk[p]) = Claim(disk[q])]_vars
  BY <1>1
<1> QED BY <1>2, AlwaysFollowed, PTL DEF Spec, IdentitiesApart

-----------------------------------------------------------------------------
(* A scan that nobody disturbs. *)

LEMMA PathsWithout ==
  ASSUME NEW fixes, NEW f \in fixes, NEW kinds
  PROVE  /\ \A g \in fixes : g.kind \in kinds => g.path \in Paths(fixes, kinds)
         /\ Paths(fixes \ {f}, kinds) \subseteq Paths(fixes, kinds)
         /\ f.kind \notin kinds => Paths(fixes \ {f}, kinds) = Paths(fixes, kinds)
         /\ \A p \in Paths(fixes, kinds) : p # f.path => p \in Paths(fixes \ {f}, kinds)
BY DEF Paths

\* A fix whose note is in order already can go.
LEMMA PlanDropped ==
  ASSUME NEW notes \in [Path -> Note], NEW fixes \in SUBSET Fix, NEW f \in fixes,
         PlanCovers(notes, fixes), PlanApplies(notes, fixes),
         f.kind = "adopt", Complete(notes[f.path])
  PROVE  PlanCovers(notes, fixes \ {f}) /\ PlanApplies(notes, fixes \ {f})
<1>1. /\ Paths(fixes \ {f}, {"uuid"}) = Paths(fixes, {"uuid"})
      /\ Paths(fixes \ {f}, {"id"}) = Paths(fixes, {"id"})
      /\ Paths(fixes \ {f}, {"uuid", "id"}) = Paths(fixes, {"uuid", "id"})
      /\ \A p \in Paths(fixes, {"uuid", "adopt"}) :
           p # f.path => p \in Paths(fixes \ {f}, {"uuid", "adopt"})
  BY PathsWithout
<1>2. PlanCovers(notes, fixes \ {f})
  BY <1>1 DEF PlanCovers
<1>3. PlanApplies(notes, fixes \ {f})
  BY <1>1 DEF PlanApplies
<1> QED BY <1>2, <1>3

\* A repeated UUID is replaced by a new one.
LEMMA UuidFixed ==
  ASSUME NEW notes \in [Path -> Note], NEW fixes \in SUBSET Fix, NEW f \in fixes,
         NEW after, NEW n \in Note,
         PlanCovers(notes, fixes), PlanApplies(notes, fixes),
         \A p \in Path : after[p] = IF p = f.path THEN n ELSE notes[p],
         f.kind = "uuid", Complete(n),
         \A p \in Path : Claim(notes[p]) # Claim(n) /\ notes[p].id # n.id
  PROVE  PlanCovers(after, fixes \ {f}) /\ PlanApplies(after, fixes \ {f})
<1> DEFINE left == fixes \ {f}
<1>1. /\ f.path \in Path
      /\ \A g \in fixes : g.path \in Path /\ g.keeper \in Path /\ g.kind \in {"uuid", "id", "adopt"}
  BY DEF Fix
<1>2. \A p \in Path : p # f.path =>
        /\ p \in Paths(fixes, {"uuid"}) => p \in Paths(left, {"uuid"})
        /\ p \in Paths(fixes, {"uuid", "id"}) => p \in Paths(left, {"uuid", "id"})
        /\ p \in Paths(fixes, {"uuid", "adopt"}) => p \in Paths(left, {"uuid", "adopt"})
  BY PathsWithout
<1>3. PlanCovers(after, left)
  <2>1. ASSUME NEW p \in Path, NEW q \in Path, after[p].body, after[q].body, p # q
        PROVE  /\ (Claim(after[p]) # 0 /\ Claim(after[p]) = Claim(after[q])) =>
                    p \in Paths(left, {"uuid"}) \/ q \in Paths(left, {"uuid"})
               /\ (after[p].id # 0 /\ after[p].id = after[q].id) =>
                    p \in Paths(left, {"uuid", "id"}) \/ q \in Paths(left, {"uuid", "id"})
    <3>1. CASE p # f.path /\ q # f.path
      <4>1. after[p] = notes[p] /\ after[q] = notes[q] /\ p \in Notes(notes) /\ q \in Notes(notes)
        BY <2>1, <3>1 DEF Notes
      <4> QED BY <1>2, <2>1, <3>1, <4>1 DEF PlanCovers
    <3>2. CASE p = f.path \/ q = f.path
      <4>1. Claim(after[p]) # Claim(after[q]) /\ after[p].id # after[q].id
        BY <2>1, <3>2
      <4> QED BY <4>1
    <3> QED BY <3>1, <3>2
  <2>2. ASSUME NEW p \in Path, after[p].body
        PROVE  Complete(after[p]) \/ p \in Paths(left, {"uuid", "adopt"})
    <3>1. CASE p = f.path
      BY <3>1
    <3>2. CASE p # f.path
      <4>1. after[p] = notes[p] /\ p \in Notes(notes)
        BY <2>2, <3>2 DEF Notes
      <4> QED BY <1>2, <3>2, <4>1 DEF PlanCovers
    <3> QED BY <3>1, <3>2
  <2> HIDE DEF left
  <2> QED BY <2>1, <2>2 DEF PlanCovers, Notes
<1>4. PlanApplies(after, left)
  <2>1. /\ Paths(left, {"uuid"}) \subseteq Paths(fixes, {"uuid"})
        /\ Paths(left, {"id"}) \subseteq Paths(fixes, {"id"})
        /\ Paths(left, {"uuid", "id"}) \subseteq Paths(fixes, {"uuid", "id"})
        /\ f.path \in Paths(fixes, {"uuid"}) /\ f.path \in Paths(fixes, {"uuid", "id"})
    BY PathsWithout
  <2>2. ASSUME NEW g \in left
        PROVE  /\ g \in fixes /\ after[g.path] = notes[g.path]
               /\ g.kind \in {"uuid", "id"} => after[g.keeper] = notes[g.keeper]
    <3>1. g.path # f.path
      BY <2>1 DEF PlanApplies
    <3>2. g.kind \in {"uuid", "id"} => g.keeper # f.path
      BY <2>1 DEF PlanApplies
    <3> QED BY <1>1, <3>1, <3>2
  <2> HIDE DEF left
  <2>3. \A g, h \in left : g.kind = h.kind /\ g.path = h.path => g = h
    BY <2>2 DEF PlanApplies
  <2> QED BY <2>1, <2>2, <2>3 DEF PlanApplies
<1> QED BY <1>3, <1>4

\* A repeated id is replaced by a new one.
LEMMA IdFixed ==
  ASSUME NEW notes \in [Path -> Note], NEW fixes \in SUBSET Fix, NEW f \in fixes,
         NEW after, NEW n \in Note,
         PlanCovers(notes, fixes), PlanApplies(notes, fixes),
         \A p \in Path : after[p] = IF p = f.path THEN n ELSE notes[p],
         f.kind = "id", n.body = notes[f.path].body, n.fm = notes[f.path].fm,
         n.uuid = notes[f.path].uuid, n.id # 0,
         \A p \in Path : notes[p].id # n.id
  PROVE  PlanCovers(after, fixes \ {f}) /\ PlanApplies(after, fixes \ {f})
<1> DEFINE left == fixes \ {f}
<1>1. /\ f.path \in Path
      /\ \A g \in fixes : g.path \in Path /\ g.keeper \in Path /\ g.kind \in {"uuid", "id", "adopt"}
  BY DEF Fix
<1>2. \A p \in Path : /\ after[p].body = notes[p].body /\ after[p].fm = notes[p].fm
                      /\ after[p].uuid = notes[p].uuid /\ Claim(after[p]) = Claim(notes[p])
                      /\ Complete(notes[p]) => Complete(after[p])
  BY <1>1 DEF Claim, Complete
<1>3. /\ Paths(left, {"uuid"}) = Paths(fixes, {"uuid"})
      /\ Paths(left, {"uuid", "adopt"}) = Paths(fixes, {"uuid", "adopt"})
      /\ \A p \in Paths(fixes, {"uuid", "id"}) : p # f.path => p \in Paths(left, {"uuid", "id"})
      /\ Paths(left, {"id"}) \subseteq Paths(fixes, {"id"})
      /\ Paths(left, {"uuid", "id"}) \subseteq Paths(fixes, {"uuid", "id"})
      /\ f.path \in Paths(fixes, {"id"}) /\ f.path \in Paths(fixes, {"uuid", "id"})
  BY PathsWithout
<1>4. PlanCovers(after, left)
  <2>1. ASSUME NEW p \in Path, NEW q \in Path, after[p].body, after[q].body, p # q
        PROVE  /\ (Claim(after[p]) # 0 /\ Claim(after[p]) = Claim(after[q])) =>
                    p \in Paths(left, {"uuid"}) \/ q \in Paths(left, {"uuid"})
               /\ (after[p].id # 0 /\ after[p].id = after[q].id) =>
                    p \in Paths(left, {"uuid", "id"}) \/ q \in Paths(left, {"uuid", "id"})
    <3>1. p \in Notes(notes) /\ q \in Notes(notes)
      BY <1>2, <2>1 DEF Notes
    <3>2. CASE p # f.path /\ q # f.path
      <4>1. after[p] = notes[p] /\ after[q] = notes[q]
        BY <3>2
      <4>2. /\ (Claim(notes[p]) # 0 /\ Claim(notes[p]) = Claim(notes[q])) =>
                 p \in Paths(fixes, {"uuid"}) \/ q \in Paths(fixes, {"uuid"})
            /\ (notes[p].id # 0 /\ notes[p].id = notes[q].id) =>
                 p \in Paths(fixes, {"uuid", "id"}) \/ q \in Paths(fixes, {"uuid", "id"})
        BY <2>1, <3>1 DEF PlanCovers
      <4> QED BY <1>3, <3>2, <4>1, <4>2
    <3>3. CASE p = f.path \/ q = f.path
      <4>1. after[p].id # after[q].id
        BY <2>1, <3>3
      <4>2. (Claim(notes[p]) # 0 /\ Claim(notes[p]) = Claim(notes[q])) =>
              p \in Paths(fixes, {"uuid"}) \/ q \in Paths(fixes, {"uuid"})
        BY <2>1, <3>1 DEF PlanCovers
      <4>3. Claim(after[p]) = Claim(notes[p]) /\ Claim(after[q]) = Claim(notes[q])
        BY <1>2
      <4> QED BY <1>3, <4>1, <4>2, <4>3
    <3> QED BY <3>2, <3>3
  <2>2. ASSUME NEW p \in Path, after[p].body
        PROVE  Complete(after[p]) \/ p \in Paths(left, {"uuid", "adopt"})
    <3>1. p \in Notes(notes)
      BY <1>2, <2>2 DEF Notes
    <3> QED BY <1>2, <1>3, <3>1 DEF PlanCovers
  <2> HIDE DEF left
  <2> QED BY <2>1, <2>2 DEF PlanCovers, Notes
<1>5. PlanApplies(after, left)
  <2>1. ASSUME NEW g \in left
        PROVE  /\ g \in fixes
               /\ g.kind = "id" => after[g.path] = notes[g.path] /\ after[g.keeper] = notes[g.keeper]
               /\ g.kind = "adopt" /\ g.id # 0 => after[g.path] = notes[g.path]
    <3>1. g.kind = "id" => g.path # f.path /\ g.keeper # f.path
      BY <1>3 DEF PlanApplies
    <3>2. g.kind = "adopt" /\ g.id # 0 => g.path # f.path
      BY <1>3 DEF PlanApplies
    <3> QED BY <1>1, <3>1, <3>2
  <2> HIDE DEF left
  <2>2. \A g, h \in left : g.kind = h.kind /\ g.path = h.path => g = h
    BY <2>1 DEF PlanApplies
  <2>3. ASSUME NEW g \in left
        PROVE  /\ after[g.path].body
               /\ g.kind = "uuid" =>
                    /\ g.uuid # 0 /\ Claim(after[g.path]) = g.uuid /\ Claim(after[g.keeper]) = g.uuid
                    /\ g.keeper \notin Paths(left, {"uuid"})
               /\ g.kind # "uuid" => g.path \notin Paths(left, {"uuid"})
    BY <1>1, <1>2, <1>3, <2>1 DEF PlanApplies
  <2>4. ASSUME NEW g \in left, g.kind = "id"
        PROVE  /\ g.id # 0 /\ after[g.path].id = g.id /\ after[g.keeper].id = g.id
               /\ g.keeper \notin Paths(left, {"uuid", "id"})
    BY <1>3, <2>1, <2>4 DEF PlanApplies
  <2>5. ASSUME NEW g \in left, g.kind = "adopt"
        PROVE  /\ after[g.path].uuid = 0 => g.uuid = after[g.path].fm
               /\ g.id # 0 => g.id = after[g.path].id /\ g.path \notin Paths(left, {"id"})
    BY <1>1, <1>2, <1>3, <2>1, <2>5 DEF PlanApplies
  <2> QED BY <2>2, <2>3, <2>4, <2>5 DEF PlanApplies
<1> QED BY <1>4, <1>5

\* What is missing is filled in, once nothing is repeated any more.
LEMMA Adopted ==
  ASSUME NEW notes \in [Path -> Note], NEW fixes \in SUBSET Fix, NEW f \in fixes,
         NEW after, NEW n \in Note,
         PlanCovers(notes, fixes), PlanApplies(notes, fixes),
         \A p \in Path : after[p] = IF p = f.path THEN n ELSE notes[p],
         \A g \in fixes : g.kind = "adopt",
         n.uuid # 0, n.id # 0,
         Claim(notes[f.path]) # 0 => Claim(n) = Claim(notes[f.path]),
         Claim(notes[f.path]) = 0 => \A p \in Path : Claim(notes[p]) # Claim(n),
         notes[f.path].id # 0 => n.id = notes[f.path].id,
         notes[f.path].id = 0 => \A p \in Path : notes[p].id # n.id
  PROVE  PlanCovers(after, fixes \ {f}) /\ PlanApplies(after, fixes \ {f})
<1> DEFINE left == fixes \ {f}
<1>1. f.path \in Path /\ \A g \in fixes : g.path \in Path
  BY DEF Fix
<1>2. Claim(n) # 0
  BY DEF Claim
<1>3. /\ \A kinds : "adopt" \notin kinds => Paths(fixes, kinds) = {} /\ Paths(left, kinds) = {}
      /\ \A p \in Paths(fixes, {"uuid", "adopt"}) : p # f.path => p \in Paths(left, {"uuid", "adopt"})
  BY PathsWithout DEF Paths
<1>4. \A p, q \in Notes(notes) : p # q =>
        /\ Claim(notes[p]) # 0 => Claim(notes[p]) # Claim(notes[q])
        /\ notes[p].id # 0 => notes[p].id # notes[q].id
  BY <1>3 DEF PlanCovers
<1>5. notes[f.path].body
  BY DEF PlanApplies
<1>6. PlanCovers(after, left)
  <2>1. ASSUME NEW p \in Path, NEW q \in Path, after[p].body, after[q].body, p # q
        PROVE  /\ Claim(after[p]) # 0 => Claim(after[p]) # Claim(after[q])
               /\ after[p].id # 0 => after[p].id # after[q].id
    <3>1. p \in Notes(notes) /\ q \in Notes(notes)
      BY <1>5, <2>1 DEF Notes
    <3>2. CASE p # f.path /\ q # f.path
      BY <1>4, <2>1, <3>1, <3>2
    <3>3. CASE p = f.path
      <4>1. after[p] = n /\ after[q] = notes[q]
        BY <2>1, <3>3
      <4> QED BY <1>2, <1>4, <2>1, <3>1, <3>3, <4>1
    <3>4. CASE q = f.path
      <4>1. after[q] = n /\ after[p] = notes[p]
        BY <2>1, <3>4
      <4> QED BY <1>2, <1>4, <2>1, <3>1, <3>4, <4>1
    <3> QED BY <3>2, <3>3, <3>4
  <2>2. ASSUME NEW p \in Path, after[p].body
        PROVE  Complete(after[p]) \/ p \in Paths(left, {"uuid", "adopt"})
    <3>1. CASE p = f.path
      BY <3>1 DEF Complete
    <3>2. CASE p # f.path
      <4>1. after[p] = notes[p] /\ p \in Notes(notes)
        BY <2>2, <3>2 DEF Notes
      <4> QED BY <1>3, <3>2, <4>1 DEF PlanCovers
    <3> QED BY <3>1, <3>2
  <2> HIDE DEF left
  <2> QED BY <2>1, <2>2 DEF PlanCovers, Notes
<1>7. PlanApplies(after, left)
  <2>1. ASSUME NEW g \in left
        PROVE  g \in fixes /\ after[g.path] = notes[g.path] /\ g.kind = "adopt"
    <3>1. g.path # f.path
      BY DEF PlanApplies
    <3> QED BY <1>1, <3>1
  <2> HIDE DEF left
  <2>2. \A g, h \in left : g.kind = h.kind /\ g.path = h.path => g = h
    BY <2>1 DEF PlanApplies
  <2> QED BY <1>3, <2>1, <2>2 DEF PlanApplies
<1> QED BY <1>6, <1>7

\* What a quiet scan has read stays as it is on disk, page by page.
LEMMA ReadingQuiet ==
  ASSUME Typed, NEW s \in Scans, QuietReads(s), scan'[s].quiet,
         \/ ScanStarts(s) \/ \E place \in Places : ScanLists(s, place)
         \/ ScanVisits(s) \/ SkipsVisit(s) \/ ScanVisited(s)
         \/ ScanRechecks(s) \/ SkipsRecheck(s)
  PROVE  QuietReads(s)' /\ QuietPlan(s)'
<1> DEFINE was == scan[s].notes
<1>1. /\ disk \in [Path -> Note] /\ was \in [Path -> Note]
      /\ \A p \in Path : /\ disk[p] \in Note /\ was[p] \in Note
                         /\ disk[p].body \/ disk[p].fm = 0
                         /\ disk[p].body \in BOOLEAN
  BY DiskTyped, ScanTyped, NoteTyped
<1>2. \A p \in Path : p[2] \in Places
  BY DEF Path
<1>3. CASE ScanStarts(s)
  <2>1. scan'[s].at = "list live" /\ scan'[s].todo = {} /\ \A p \in Path : scan'[s].notes[p] = Nothing
    BY <1>3, ScanStartsDoes, IdleTyped
  <2>2. ReadInto(s, {})'
    BY <2>1 DEF ReadInto
  <2> QED BY <2>1, <2>2 DEF QuietReads, QuietPlan
<1>4. ASSUME NEW place \in Places, ScanLists(s, place)
      PROVE  QuietReads(s)' /\ QuietPlan(s)'
  <2> DEFINE before == IF place = "live" THEN {} ELSE {"live"}
             after == IF place = "live" THEN {"live"} ELSE Places
  <2>1. /\ scan'[s].at = IF place = "live" THEN "visit live" ELSE "visit trash"
        /\ scan'[s].todo = FilesIn(place) /\ scan'[s].notes = was /\ disk' = disk
    BY <1>4, ScanListsDoes DEF Reads, Alone
  <2>2. ReadInto(s, before) /\ scan[s].todo = {} /\ after = before \cup {place} /\ place \notin before
    BY <1>4, ScanListsDoes DEF QuietReads, Places
  <2> HIDE DEF before, after, was
  <2>3. FilesIn(place) \subseteq {f \in Path \X Parts : f[1][2] \in after}
    BY <2>2 DEF FilesIn
  <2>4. ASSUME NEW p \in Path, p[2] \in before
        PROVE  /\ was[p].body = disk[p].body /\ was[p].fm = disk[p].fm
               /\ was[p].uuid = disk[p].uuid /\ was[p].id = disk[p].id
    BY <2>2, <2>4 DEF ReadInto, was
  <2>5. ASSUME NEW p \in Path, p[2] = place
        PROVE  /\ <<p, "body">> \notin FilesIn(place) =>
                    was[p].body = disk[p].body /\ was[p].fm = disk[p].fm
               /\ <<p, "sidecar">> \notin FilesIn(place) =>
                    was[p].uuid = disk[p].uuid /\ was[p].id = disk[p].id
    <3>1. was[p] = Nothing /\ Nothing.body = FALSE
      BY <2>2, <2>5 DEF ReadInto, was, Nothing
    <3>2. <<p, "body">> \notin FilesIn(place) => ~disk[p].body /\ disk[p].fm = 0
      BY <1>1, <2>5 DEF FilesIn, Parts
    <3>3. <<p, "sidecar">> \notin FilesIn(place) => disk[p].uuid = 0 /\ disk[p].id = 0
      BY <2>5 DEF FilesIn, Parts
    <3> QED BY <1>1, <3>1, <3>2, <3>3, NothingTyped
  <2>6. ASSUME NEW p \in Path, p[2] \notin after PROVE was[p] = Nothing
    BY <2>2, <2>6 DEF ReadInto, was
  <2>7. ASSUME NEW p \in Path, p[2] \in after
        PROVE  /\ <<p, "body">> \notin FilesIn(place) =>
                    was[p].body = disk[p].body /\ was[p].fm = disk[p].fm
               /\ <<p, "sidecar">> \notin FilesIn(place) =>
                    was[p].uuid = disk[p].uuid /\ was[p].id = disk[p].id
    BY <2>2, <2>4, <2>5, <2>7
  <2>8. ReadInto(s, after)'
    BY <2>1, <2>3, <2>6, <2>7 DEF ReadInto
  <2> QED BY <2>1, <2>8 DEF QuietReads, QuietPlan, Places, after
<1>5. CASE ScanVisits(s)
  <2>1. PICK p \in Path, part \in Parts :
          /\ <<p, part>> \in scan[s].todo
          /\ Reads(s, scan[s].at, scan[s].todo \ {<<p, part>>},
                   [scan[s].notes EXCEPT ![p] = Overlay(scan[s].notes[p], disk[p], {part})])
    BY <1>5, ScanVisitsDoes
  <2> DEFINE n == Overlay(was[p], disk[p], {part})
             notes == [was EXCEPT ![p] = n]
             todo == scan[s].todo \ {<<p, part>>}
  <2>2. /\ part = "body" => /\ n.body = disk[p].body /\ n.fm = disk[p].fm
                            /\ n.uuid = was[p].uuid /\ n.id = was[p].id
        /\ part = "sidecar" => /\ n.body = was[p].body /\ n.fm = was[p].fm
                               /\ n.uuid = disk[p].uuid /\ n.id = disk[p].id
    BY DEF Overlay
  <2>3. /\ scan'[s].at = scan[s].at /\ scan'[s].todo = todo /\ scan'[s].notes = notes
    BY <2>1 DEF Reads
  <2>4. disk' = disk /\ scan[s].at \in {"visit live", "visit trash"}
    BY <1>5, ScanVisitsDoes DEF Alone
  <2> HIDE DEF n
  <2>5. \A q \in Path : notes[q] = IF q = p THEN n ELSE was[q]
    BY <1>1
  <2> HIDE DEF notes, was
  <2>6. ASSUME NEW places, ReadInto(s, places)
        PROVE  ReadInto(s, places)'
    <3>1. /\ scan[s].todo \subseteq {f \in Path \X Parts : f[1][2] \in places}
          /\ \A q \in Path : q[2] \in places =>
                /\ <<q, "body">> \notin scan[s].todo => was[q].body = disk[q].body /\ was[q].fm = disk[q].fm
                /\ <<q, "sidecar">> \notin scan[s].todo => was[q].uuid = disk[q].uuid /\ was[q].id = disk[q].id
          /\ \A q \in Path : q[2] \notin places => was[q] = Nothing
      BY <2>6 DEF ReadInto, was
    <3>2. p[2] \in places
      BY <2>1, <3>1
    <3>3. ASSUME NEW q \in Path, q[2] \in places
          PROVE  /\ <<q, "body">> \notin todo => notes[q].body = disk[q].body /\ notes[q].fm = disk[q].fm
                 /\ <<q, "sidecar">> \notin todo => notes[q].uuid = disk[q].uuid /\ notes[q].id = disk[q].id
      <4>1. CASE q # p
        BY <2>5, <3>1, <3>3, <4>1
      <4>2. CASE q = p
        BY <2>2, <2>5, <3>1, <3>3, <4>2 DEF Parts
      <4> QED BY <4>1, <4>2
    <3>4. todo \subseteq {f \in Path \X Parts : f[1][2] \in places}
      BY <3>1
    <3>5. ASSUME NEW q \in Path, q[2] \notin places PROVE notes[q] = Nothing
      BY <2>5, <3>1, <3>2, <3>5
    <3> HIDE DEF todo
    <3> QED BY <2>3, <2>4, <3>3, <3>4, <3>5 DEF ReadInto
  <2> QED BY <2>3, <2>4, <2>6 DEF QuietReads, QuietPlan
<1>6. CASE ScanVisited(s)
  <2>1. /\ scan[s].at \in {"visit live", "visit trash"} /\ scan[s].todo = {}
        /\ scan'[s].at = IF scan[s].at = "visit live" THEN "list trash" ELSE "recheck"
        /\ scan'[s].todo = {} /\ scan'[s].notes = was /\ disk' = disk
    BY <1>6, ScanVisitedDoes DEF Reads, Alone
  <2>2. CASE scan[s].at = "visit live"
    <3>1. ReadInto(s, {"live"})
      BY <2>2 DEF QuietReads
    <3>2. ASSUME NEW p \in Path
          PROVE  /\ p[2] \notin {"live"} => was[p] = Nothing
                 /\ p[2] \in {"live"} => /\ was[p].body = disk[p].body /\ was[p].fm = disk[p].fm
                                         /\ was[p].uuid = disk[p].uuid /\ was[p].id = disk[p].id
      BY <2>1, <3>1 DEF ReadInto
    <3> HIDE DEF was
    <3>3. ReadInto(s, {"live"})'
      BY <2>1, <3>2 DEF ReadInto
    <3> QED BY <2>1, <2>2, <3>3 DEF QuietReads, QuietPlan
  <2>3. CASE scan[s].at = "visit trash"
    <3>1. ReadInto(s, Places)
      BY <2>3 DEF QuietReads
    <3>2. ASSUME NEW p \in Path PROVE was[p] = disk[p]
      <4>1. /\ was[p].body = disk[p].body /\ was[p].fm = disk[p].fm
            /\ was[p].uuid = disk[p].uuid /\ was[p].id = disk[p].id
        BY <1>2, <2>1, <3>1 DEF ReadInto
      <4> QED BY <1>1, <4>1, NotesEqual
    <3>3. was = disk
      BY <1>1, <3>2
    <3> QED BY <2>1, <2>3, <3>3 DEF QuietReads, QuietPlan
  <2> QED BY <2>1, <2>2, <2>3
<1>7. CASE ScanRechecks(s)
  <2>1. /\ scan[s].at = "recheck" /\ scan'[s].at = "raise"
        /\ scan'[s].notes = Rechecked(was, {}) /\ disk' = disk
    BY <1>7, ScanRechecksDoes DEF Reads, Alone
  <2>2. was = disk
    BY <2>1 DEF QuietReads
  <2>3. ASSUME NEW p \in Path PROVE Overlay(disk[p], Nothing, {part \in Parts : <<p, part>> \in {}}) = disk[p]
    BY <1>1, NoteTyped DEF Overlay
  <2>4. Rechecked(disk, {}) = disk
    <3>1. Rechecked(disk, {}) = [p \in Path |-> disk[p]]
      BY <2>3 DEF Rechecked
    <3> QED BY <1>1, <3>1
  <2> QED BY <2>1, <2>2, <2>4 DEF QuietReads, QuietPlan
<1>8. CASE SkipsVisit(s) \/ SkipsRecheck(s)
  BY <1>8, SkipsVisitDoes, SkipsRecheckDoes
<1> QED BY <1>3, <1>4, <1>5, <1>6, <1>7, <1>8

\* Its plan settles what it read, and the counter is above the ids.
LEMMA PlanningQuiet ==
  ASSUME Typed, NEW s \in Scans, QuietReads(s), scan[s].quiet, RaisesCounter(s)
  PROVE  QuietReads(s)' /\ QuietPlan(s)'
<1>1. /\ scan[s].at = "raise" /\ disk' = disk
      /\ scan'[s].at = "fix" /\ scan'[s].fixes = Plan(scan[s].notes)
      /\ \A p \in Path : scan[s].notes[p].id <= counter'
  BY RaisesCounterDoes, PlannedTyped DEF Alone
<1>2. scan[s].notes = disk /\ disk \in [Path -> Note]
  BY <1>1, DiskTyped DEF QuietReads
<1>3. PlanCovers(disk', scan'[s].fixes) /\ PlanApplies(disk', scan'[s].fixes)
  BY <1>1, <1>2, PlanSettles
<1>4. IdsCovered(disk', counter')
  BY <1>1, <1>2 DEF IdsCovered
<1> QED BY <1>1, <1>3, <1>4 DEF QuietReads, QuietPlan

\* Each of its fixes brings the folder closer to the plan.
LEMMA FixingQuiet ==
  ASSUME Typed, NEW s \in Scans, QuietPlan(s),
         DropsFix(s) \/ ReassignsUuid(s) \/ ReassignsId(s) \/ Adopts(s)
  PROVE  QuietReads(s)' /\ QuietPlan(s)'
<1> DEFINE fixes == scan[s].fixes
<1>1. /\ disk \in [Path -> Note] /\ counter \in Nat /\ issued \in Nat
      /\ fixes \in SUBSET Fix /\ \A f \in fixes : f.path \in Path /\ f.keeper \in Path
      /\ \A p \in Path : /\ disk[p] \in Note /\ disk[p].id \in Nat
                         /\ Claim(disk[p]) \in Nat /\ Claim(disk[p]) <= issued
  BY DiskTyped, ScanTyped, NoteTyped
<1>2. scan[s].at = "fix" =>
        PlanCovers(disk, fixes) /\ PlanApplies(disk, fixes) /\ IdsCovered(disk, counter)
  BY DEF QuietPlan
<1>3. ASSUME NEW f \in fixes, Takes(s, f), PlanCovers(disk', fixes \ {f}),
             PlanApplies(disk', fixes \ {f}), IdsCovered(disk', counter')
      PROVE  QuietReads(s)' /\ QuietPlan(s)'
  BY <1>3 DEF Takes, QuietReads, QuietPlan
<1>4. CASE DropsFix(s)
  <2>1. PICK f \in fixes : ~Conflict(f) /\ Takes(s, f)
    BY <1>4, DropsFixDoes
  <2>2. /\ PlanCovers(disk, fixes) /\ PlanApplies(disk, fixes) /\ IdsCovered(disk, counter)
        /\ disk' = disk /\ counter' = counter
    BY <1>2, <1>4, DropsFixDoes DEF Alone
  <2>3. f.kind = "adopt" /\ Complete(disk[f.path])
    <3>1. f.kind \in {"uuid", "id", "adopt"} /\ disk[f.path].body
      BY <2>1, <2>2, ScanTyped DEF PlanApplies
    <3>2. f.kind = "uuid" => Claim(disk[f.path]) = f.uuid /\ Claim(disk[f.keeper]) = f.uuid
      BY <2>1, <2>2 DEF PlanApplies
    <3>3. f.kind = "id" => disk[f.path].id = f.id /\ disk[f.keeper].id = f.id
      BY <2>1, <2>2 DEF PlanApplies
    <3> QED BY <2>1, <3>1, <3>2, <3>3 DEF Conflict
  <2>4. PlanCovers(disk, fixes \ {f}) /\ PlanApplies(disk, fixes \ {f})
    <3> HIDE DEF fixes
    <3> QED BY <1>1, <2>1, <2>2, <2>3, PlanDropped
  <2> QED BY <1>3, <2>1, <2>2, <2>4
<1>5. ASSUME NEW f, NEW n, Fixes(s, f, n)
      PROVE  /\ f \in fixes /\ n \in Note /\ Takes(s, f)
             /\ PlanCovers(disk, fixes) /\ PlanApplies(disk, fixes) /\ IdsCovered(disk, counter)
             /\ \A p \in Path : disk'[p] = IF p = f.path THEN n ELSE disk[p]
             /\ f.kind = "adopt" => \A g \in fixes : g.kind = "adopt"
  BY <1>2, <1>5 DEF Fixes
<1>6. ASSUME NEW f, NEW n, Fixes(s, f, n), n.id <= counter'
      PROVE  IdsCovered(disk', counter')
  <2>1. ASSUME NEW p \in Path PROVE disk'[p].id <= counter'
    <3>1. CASE p = f.path
      BY <1>5, <1>6, <3>1
    <3>2. CASE p # f.path
      <4>1. disk'[p] = disk[p] /\ disk[p].id <= counter
        BY <1>5, <1>6, <3>2 DEF IdsCovered
      <4>2. counter' \in Nat /\ counter' >= counter
        BY <1>6 DEF Fixes
      <4> QED BY <1>1, <4>1, <4>2
    <3> QED BY <3>1, <3>2
  <2> QED BY <2>1 DEF IdsCovered
<1>7. ASSUME IdsCovered(disk, counter), NEW p \in Path
      PROVE  Claim(disk[p]) # issued + 1 /\ disk[p].id # counter + 1
  BY <1>1, <1>7 DEF IdsCovered
<1>8. CASE ReassignsUuid(s)
  <2>1. PICK f, n : /\ Fixes(s, f, n) /\ f.kind = "uuid"
                    /\ n.uuid = issued + 1 /\ n.id = counter + 1 /\ counter' = counter + 1
    BY <1>8, ReassignsUuidDoes
  <2> HIDE DEF fixes
  <2>2. /\ f \in fixes /\ n \in Note /\ Takes(s, f)
        /\ PlanCovers(disk, fixes) /\ PlanApplies(disk, fixes) /\ IdsCovered(disk, counter)
        /\ \A p \in Path : disk'[p] = IF p = f.path THEN n ELSE disk[p]
    BY <1>5, <2>1
  <2>3. Complete(n) /\ Claim(n) = issued + 1 /\ n.id <= counter'
    BY <1>1, <2>1 DEF Complete, Claim
  <2>4. \A p \in Path : Claim(disk[p]) # Claim(n) /\ disk[p].id # n.id
    BY <1>7, <2>1, <2>2, <2>3
  <2>5. PlanCovers(disk', fixes \ {f}) /\ PlanApplies(disk', fixes \ {f})
    BY <1>1, <2>1, <2>2, <2>3, <2>4, UuidFixed
  <2> QED BY <1>3, <1>6, <2>1, <2>2, <2>3, <2>5
<1>9. CASE ReassignsId(s)
  <2>1. PICK f, n : /\ Fixes(s, f, n) /\ f.kind = "id"
                    /\ n.body = disk[f.path].body /\ n.fm = disk[f.path].fm
                    /\ n.uuid = disk[f.path].uuid /\ n.id = counter + 1
                    /\ counter' = counter + 1
    BY <1>9, ReassignsIdDoes
  <2> HIDE DEF fixes
  <2>2. /\ f \in fixes /\ n \in Note /\ Takes(s, f)
        /\ PlanCovers(disk, fixes) /\ PlanApplies(disk, fixes) /\ IdsCovered(disk, counter)
        /\ \A p \in Path : disk'[p] = IF p = f.path THEN n ELSE disk[p]
    BY <1>5, <2>1
  <2>3. n.id # 0 /\ n.id <= counter' /\ \A p \in Path : disk[p].id # n.id
    BY <1>1, <1>7, <2>1, <2>2
  <2>4. PlanCovers(disk', fixes \ {f}) /\ PlanApplies(disk', fixes \ {f})
    BY <1>1, <2>1, <2>2, <2>3, IdFixed
  <2> QED BY <1>3, <1>6, <2>1, <2>2, <2>3, <2>4
<1>10. CASE Adopts(s)
  <2>1. PICK f, n : /\ Fixes(s, f, n) /\ f.kind = "adopt"
                    /\ n.fm = disk[f.path].fm
                    /\ disk[f.path].uuid # 0 => n.uuid = disk[f.path].uuid
                    /\ disk[f.path].uuid = 0 => n.uuid = IF f.uuid # 0 THEN f.uuid ELSE issued + 1
                    /\ n.uuid # 0 /\ n.id # 0 /\ n.id \in {f.id, disk[f.path].id, counter + 1}
                    /\ f.id # 0 => n.id = f.id
                    /\ f.id = 0 /\ disk[f.path].id # 0 => n.id = disk[f.path].id
                    /\ n.id = counter + 1 /\ f.id = 0 /\ disk[f.path].id = 0 => counter' = counter + 1
    BY <1>10, AdoptsDoes
  <2>2. /\ f \in fixes /\ n \in Note /\ Takes(s, f) /\ f.path \in Path
        /\ PlanCovers(disk, fixes) /\ PlanApplies(disk, fixes) /\ IdsCovered(disk, counter)
        /\ \A p \in Path : disk'[p] = IF p = f.path THEN n ELSE disk[p]
        /\ \A g \in fixes : g.kind = "adopt"
        /\ counter' \in Nat /\ counter' >= counter
    BY <1>1, <1>5, <2>1 DEF Fixes
  <2>3. /\ disk[f.path].uuid = 0 => f.uuid = disk[f.path].fm
        /\ f.id # 0 => f.id = disk[f.path].id
    BY <2>1, <2>2 DEF PlanApplies
  <2>4. /\ Claim(disk[f.path]) # 0 => Claim(n) = Claim(disk[f.path])
        /\ Claim(disk[f.path]) = 0 => Claim(n) = issued + 1
    BY <2>1, <2>3 DEF Claim
  <2>5. /\ disk[f.path].id # 0 => n.id = disk[f.path].id
        /\ disk[f.path].id = 0 => n.id = counter + 1 /\ counter' = counter + 1
    BY <2>1, <2>3
  <2>6. n.id <= counter'
    <3>1. disk[f.path].id <= counter /\ disk[f.path].id \in Nat
      BY <1>1, <2>2 DEF IdsCovered
    <3> QED BY <1>1, <2>2, <2>5, <3>1
  <2> HIDE DEF fixes
  <2>7. /\ n.uuid # 0 /\ n.id # 0
        /\ Claim(disk[f.path]) = 0 => \A p \in Path : Claim(disk[p]) # Claim(n)
        /\ disk[f.path].id # 0 => n.id = disk[f.path].id
        /\ disk[f.path].id = 0 => \A p \in Path : disk[p].id # n.id
    BY <1>7, <2>1, <2>2, <2>4, <2>5
  <2>8. PlanCovers(disk', fixes \ {f}) /\ PlanApplies(disk', fixes \ {f})
    BY <1>1, <2>2, <2>4, <2>7, Adopted
  <2> QED BY <1>3, <1>6, <2>1, <2>2, <2>6, <2>8
<1> QED BY <1>4, <1>8, <1>9, <1>10

LEMMA StepQuiet ==
  ASSUME Typed, Quiet, [Next]_vars
  PROVE  Quiet'
<1> SUFFICES ASSUME NEW r \in Scans, scan'[r].quiet
             PROVE  QuietReads(r)' /\ QuietPlan(r)'
  BY DEF Quiet
<1>1. scan[r].quiet => QuietReads(r) /\ QuietPlan(r)
  BY DEF Quiet
<1>2. CASE UNCHANGED vars
  BY <1>1, <1>2 DEF vars, QuietReads, ReadInto, QuietPlan
\* What others do beside it, it does not survive as a quiet scan.
<1>3. ASSUME NEW outside, NEW moved, Beside(r, outside, moved)
      PROVE  QuietReads(r)' /\ QuietPlan(r)'
  BY <1>3 DEF Beside, QuietReads, QuietPlan
<1>4. ASSUME NEW s \in Scans, Alone(s), r # s, counter' \in Nat, counter' >= counter
      PROVE  QuietReads(r)' /\ QuietPlan(r)'
  <2>1. scan'[r] = scan[r] /\ disk' = disk
    BY <1>4 DEF Alone
  <2>2. ASSUME NEW places, ReadInto(r, places) PROVE ReadInto(r, places)'
    BY <2>1, <2>2 DEF ReadInto
  <2>3. QuietReads(r)'
    BY <1>1, <2>1, <2>2 DEF QuietReads
  <2>4. IdsCovered(disk, counter) => IdsCovered(disk, counter')
    <3>1. counter \in Nat /\ \A p \in Path : disk[p].id \in Nat
      BY DiskTyped, NoteTyped
    <3> QED BY <1>4, <3>1 DEF IdsCovered
  <2> QED BY <1>1, <2>1, <2>3, <2>4 DEF QuietPlan
<1>5. ASSUME NEW s \in Scans,
             \/ ScanStarts(s) \/ \E place \in Places : ScanLists(s, place)
             \/ ScanVisits(s) \/ SkipsVisit(s) \/ ScanVisited(s)
             \/ ScanRechecks(s) \/ SkipsRecheck(s)
      PROVE  QuietReads(r)' /\ QuietPlan(r)'
  <2>1. Alone(s) /\ counter' = counter /\ counter \in Nat
    BY <1>5, ScanStartsDoes, ScanListsDoes, ScanVisitsDoes, SkipsVisitDoes, ScanVisitedDoes,
       ScanRechecksDoes, SkipsRecheckDoes, DiskTyped
  <2>2. ASSUME r = s PROVE QuietReads(r)
    <3>1. CASE ScanStarts(s)
      BY <2>2, <3>1 DEF ScanStarts, QuietReads
    <3>2. CASE ~ScanStarts(s)
      <4>1. scan'[s].quiet = scan[s].quiet \/ ~scan'[s].quiet
        BY <1>5, <3>2, ScanListsDoes, ScanVisitsDoes, SkipsVisitDoes, ScanVisitedDoes,
           ScanRechecksDoes, SkipsRecheckDoes
      <4> QED BY <1>1, <2>2, <4>1
    <3> QED BY <3>1, <3>2
  <2> QED BY <1>4, <1>5, <2>1, <2>2, ReadingQuiet
<1>6. ASSUME NEW s \in Scans, RaisesCounter(s)
      PROVE  QuietReads(r)' /\ QuietPlan(r)'
  <2>1. Alone(s) /\ counter' \in Nat /\ counter' >= counter /\ scan'[s].quiet = scan[s].quiet
    BY <1>6, RaisesCounterDoes, PlannedTyped
  <2> QED BY <1>1, <1>4, <1>6, <2>1, PlanningQuiet
<1>7. ASSUME NEW s \in Scans, SkipsCounter(s) \/ SkipsFix(s) \/ ScanEnds(s) \/ ScanStops(s)
      PROVE  QuietReads(r)' /\ QuietPlan(r)'
  <2>1. Alone(s) /\ counter' = counter /\ counter \in Nat
    BY <1>7, SkipsCounterDoes, SkipsFixDoes, ScanGoesIdle, DiskTyped
  <2>2. ~scan'[s].quiet
    <3>1. CASE SkipsCounter(s)
      <4>1. scan'[s] = [Planned(s) EXCEPT !.quiet = FALSE]
        BY <3>1, SkipsCounterDoes
      <4> QED BY <4>1, PlannedTyped DEF Scan
    <3> QED BY <1>7, <3>1, SkipsFixDoes, ScanGoesIdle, IdleTyped
  <2> QED BY <1>4, <2>1, <2>2
<1>8. ASSUME NEW s \in Scans, DropsFix(s)
      PROVE  QuietReads(r)' /\ QuietPlan(r)'
  <2>1. Alone(s) /\ counter' = counter /\ counter \in Nat /\ scan'[s].quiet = scan[s].quiet
    BY <1>8, DropsFixDoes, DiskTyped
  <2> QED BY <1>1, <1>4, <1>8, <2>1, FixingQuiet
<1>9. ASSUME NEW s \in Scans, ReassignsUuid(s) \/ ReassignsId(s) \/ Adopts(s)
      PROVE  QuietReads(r)' /\ QuietPlan(r)'
  <2>1. PICK f, n : Fixes(s, f, n)
    BY <1>9, ReassignsUuidDoes, ReassignsIdDoes, AdoptsDoes
  <2>2. scan'[s].quiet = scan[s].quiet /\ (r # s => Beside(r, {}, {}))
    BY <2>1 DEF Fixes
  <2> QED BY <1>1, <1>3, <1>9, <2>2, FixingQuiet
<1>10. ASSUME NEW paths, Operates(paths)
       PROVE  QuietReads(r)' /\ QuietPlan(r)'
  BY <1>3, <1>10 DEF Operates
<1>11. CASE Create
  BY <1>10, <1>11, CreateDoes
<1>12. ASSUME NEW from, NEW to, Moved(from, to)
       PROVE  QuietReads(r)' /\ QuietPlan(r)'
  BY <1>10, <1>12 DEF Moved
<1>13. ASSUME NEW stem \in Stems, Purge(stem)
       PROVE  QuietReads(r)' /\ QuietPlan(r)'
  BY <1>10, <1>13, PurgeDoes
<1>14. ASSUME NEW p \in Path, Edit(p)
       PROVE  QuietReads(r)' /\ QuietPlan(r)'
  BY <1>3, <1>14, EditDoes
<1> QED BY <1>2, <1>5, <1>6, <1>7, <1>8, <1>9, <1>11, <1>12, <1>13, <1>14, MovesDoes DEF Next

(* A scan beside which nobody else wrote, and which skipped nothing,       *)
(* leaves every note with a UUID and an id of its own, and the counter     *)
(* above the ids, whatever it found.                                       *)
THEOREM QuietSettles == Spec => []QuietScanSettles
<1>1. Init => Quiet
  BY IdleTyped DEF Init, Quiet
<1>2. Typed /\ Quiet /\ [Next]_vars => Quiet'
  BY StepQuiet
<1>3. Typed /\ Quiet => QuietScanSettles
  <2> SUFFICES ASSUME Typed, Quiet, NEW s \in Scans,
                      scan[s].at = "fix", scan[s].fixes = {}, scan[s].quiet
               PROVE  Settled(disk) /\ IdsCovered(disk, counter)
    BY DEF QuietScanSettles
  <2>1. PlanCovers(disk, {}) /\ IdsCovered(disk, counter)
    BY DEF Quiet, QuietPlan
  <2>2. \A kinds : Paths({}, kinds) = {}
    BY DEF Paths
  <2>3. \A p \in Notes(disk) : Complete(disk[p])
    BY <2>1, <2>2 DEF PlanCovers
  <2>4. ASSUME NEW p \in Notes(disk) PROVE Claim(disk[p]) # 0 /\ disk[p].id # 0
    BY <2>3 DEF Complete, Claim
  <2>5. ASSUME NEW p \in Notes(disk), NEW q \in Notes(disk), p # q
        PROVE  Claim(disk[p]) # Claim(disk[q]) /\ disk[p].id # disk[q].id
    BY <2>1, <2>2, <2>4, <2>5 DEF PlanCovers
  <2> QED BY <2>1, <2>3, <2>5 DEF Settled
<1> QED BY <1>1, <1>2, <1>3, AlwaysTyped, PTL DEF Spec
=============================================================================
