----------------------- MODULE JournalSnapshotsProofs -----------------------
(***************************************************************************)
(* Theorems about the history of one note, for any number of records,      *)
(* outside edits and faults.                                               *)
(*                                                                         *)
(* Base is what holds whatever happens: how a record is made (Fits), what  *)
(* the holder of the lock is at (Holds), which texts must exist already    *)
(* (TextsThere) and which version ids the counter or an unfinished record  *)
(* accounts for (Covered).  It gives the types, the texts of what is       *)
(* listed, the counter, and one snapshot for each edit.                    *)
(*                                                                         *)
(* Alone and Kept hold while one record at a time is unfinished.  By Alone *)
(* the history only grows (ListKept), so what it has saved stays saved; by *)
(* Kept, whoever is about to replace a text of the note knows where else   *)
(* that text can be found.                                                 *)
(***************************************************************************)
EXTENDS JournalSnapshots, FiniteSetTheorems, WellFoundedInduction, TLAPS

Entry  == [id : Versions, op : Ops \cup {0}]
Record == [text : Texts, expect : Texts, moves : BOOLEAN, ver : 0..MaxVer,
           vtext : Texts, entries : SUBSET Entry]

Types ==
  /\ TypeOK
  /\ record \in [Ops -> Record]
  /\ left \subseteq DOMAIN Rank
  /\ crowded \in BOOLEAN
  /\ owed \subseteq Edits /\ late \subseteq Edits

(* What each phase of a hold says of the rest of the holder's state. *)
Holds ==
  /\ work = "idle" => skip = {} /\ todo = {} /\ cur = 0
  /\ work = "rolling" => todo = journal /\ skip = {}
  /\ work = "handling" => PendingPaths \subseteq skip /\ cur = 0
  /\ work = "applying" => cur # 0
  /\ work = "stamping" => cur = 0
  /\ cur = 0 => left = {} /\ snap = 0
  /\ cur # 0 => left \subseteq FilesOf(cur)

Numbered == \E n \in 0..MaxOps : Used = 1..n

(* The entries of a history index name each record at most once. *)
Once(entries) == \A d, e \in entries : d.op # 0 /\ d.op = e.op => d = e

(* A record writes the body, moves the note, or saves a version, the last  *)
(* of the ids in the index it carries.                                     *)
Fits(o, r) ==
  /\ r.text \in {o, None}
  /\ r.ver # 0 \/ r.text # None \/ r.moves
  /\ r.ver # 0 => /\ [id |-> r.ver, op |-> 0] \in r.entries
                  /\ \A e \in r.entries : e.id <= r.ver
                  /\ r.vtext # None
  /\ r.moves => r.vtext # None /\ r.text = None /\ r.ver = 0
  /\ r.ver = 0 /\ ~r.moves => r.vtext = None
  /\ \A e \in r.entries : e.op < o
  /\ Once(r.entries)

RecordsFit == \A o \in Used : Fits(o, record[o])

IndexOnce == Once(index) /\ \A e \in index : e.op # 0 => e.op \in Used

(* The text of a version is on disk before an index that lists it is. *)
TextsThere ==
  /\ ListedVersionsExist
  /\ \A o \in journal : \A e \in record[o].entries :
        e.id = record[o].ver \/ hbody[e.id] # None
  /\ cur # 0 /\ record[cur].ver # 0 /\ "hbody" \notin left => hbody[record[cur].ver] # None

(* A listed id is at most the counter, or the version of an unfinished     *)
(* record that will raise it.                                              *)
Covered ==
  /\ \A e \in index : \/ e.id <= counter
                      \/ \E o \in journal : record[o].ver # 0 /\ e.id <= record[o].ver
  /\ cur # 0 /\ record[cur].ver # 0 /\ "manifest" \notin left => counter >= record[cur].ver
  /\ work = "applying" /\ record[cur].ver # 0 /\ "manifest" \in left
        => counter = record[cur].ver - 1

Snapping == snap # 0 => /\ MustKeep(cur)
                        /\ snap = counter
                        /\ snap > record[cur].ver

Base == Types /\ Holds /\ Numbered /\ RecordsFit /\ IndexOnce /\ TextsThere /\ Covered /\ Snapping

-----------------------------------------------------------------------------
(* Numbers, records and the steps between them *)

\* The bounds are numbers, the ids of records are texts, and None is no id.
LEMMA Bounds ==
  /\ MaxOps \in Nat /\ MaxVer \in Nat /\ MaxEdits \in Nat /\ MaxFaults \in Nat
  /\ None \in Texts /\ None \notin Ops /\ 0 \in Texts /\ 0 # None
  /\ Ops \subseteq Texts /\ Ops \subseteq Nat /\ 0 \notin Ops /\ Edits \subseteq Texts
  /\ None \notin Edits
BY BoundsAssumption DEF MaxVer, None, Texts, Ops, Edits

\* The next record has a number of its own, and nothing names it yet.
LEMMA NextRecord ==
  ASSUME Types, Numbered, IndexOnce, NEW o \in Ops, o = Cardinality(Used) + 1
  PROVE  /\ Used = 1..(o - 1) /\ o \notin Used /\ o \notin journal
         /\ \A e \in index : e.op < o
<1>1. PICK n \in 0..MaxOps : Used = 1..n
  BY DEF Numbered
<1>2. n \in Nat /\ Cardinality(1..n) = n
  BY FS_Interval, Bounds
<1>3. o = n + 1
  BY <1>1, <1>2
<1>4. o \notin Used /\ o \notin journal /\ Used = 1..(o - 1)
  BY <1>1, <1>2, <1>3 DEF Types, TypeOK
<1>5. ASSUME NEW e \in index PROVE e.op < o
  <2>1. e.op = 0 \/ e.op \in 1..n
    BY <1>1 DEF IndexOnce
  <2> QED BY <2>1, <1>2, <1>3
<1> QED BY <1>4, <1>5

\* What the three handlers commit.
Plan(o, r) ==
  /\ r \in Record /\ Commit(o, r) /\ body # None
  /\ r.text \in {o, None}
  /\ r.ver # 0 \/ r.text # None \/ r.moves
  /\ r.ver # 0 => /\ r.ver = counter + 1 /\ r.vtext = body
                  /\ r.entries = index \cup {[id |-> r.ver, op |-> 0]}
  /\ r.ver = 0 => r.entries = {}
  /\ r.moves => r.text = None /\ r.ver = 0 /\ r.vtext = body /\ r.expect = body
  /\ r.ver = 0 /\ ~r.moves => r.vtext = None
  /\ r.text # None => r.expect = body
  /\ r.text # None /\ r.ver = 0 => body = stamp
  /\ r.text = None /\ ~r.moves => r.expect = None

\* The record with no version a handler starts from.
LEMMA PlainRecord ==
  ASSUME NEW t \in Texts, NEW x \in Texts, NEW v \in Texts, NEW m \in BOOLEAN
  PROVE  [text |-> t, expect |-> x, moves |-> m, ver |-> 0, vtext |-> v, entries |-> {}] \in Record
BY Bounds DEF Record

\* A plan with a snapshot of the body.
LEMMA VersionRecord ==
  ASSUME Types, counter < MaxVer, NEW t \in Texts, NEW x \in Texts
  PROVE  [text |-> t, expect |-> x, moves |-> FALSE, ver |-> counter + 1, vtext |-> body,
          entries |-> index \cup {[id |-> counter + 1, op |-> 0]}] \in Record
<1>1. counter \in 0..MaxVer /\ body \in Texts /\ index \in SUBSET Entry
  BY DEF Types, TypeOK, Entry
<1>2. counter + 1 \in 0..MaxVer /\ counter + 1 \in Versions
  BY <1>1, Bounds DEF Versions
<1>3. [id |-> counter + 1, op |-> 0] \in Entry
  BY <1>2 DEF Entry
<1>4. index \cup {[id |-> counter + 1, op |-> 0]} \in SUBSET Entry
  BY <1>1, <1>3
<1> QED BY <1>1, <1>2, <1>4 DEF Record

\* The handlers commit nothing else.
LEMMA Planned ==
  ASSUME Base, NEW o \in Ops, Patch(o) \/ SaveVersion(o) \/ Delete(o)
  PROVE  \E r : Plan(o, r)
<1> DEFINE Move == [text |-> None, expect |-> body, moves |-> TRUE,
                    ver |-> 0, vtext |-> body, entries |-> {}]
<1>0. Types /\ counter \in 0..MaxVer /\ body \in Texts /\ o \in Texts /\ None \in Texts /\ o # None
  BY Bounds DEF Base, Types, TypeOK
<1>1. CASE body # None /\ body = stamp /\ Commit(o, Plain(o, body))
  <2>1. Plain(o, body) \in Record
    BY <1>0, PlainRecord DEF Plain
  <2>2. Plan(o, Plain(o, body))
    BY <1>0, <1>1, <2>1 DEF Plan, Plain
  <2> QED BY ONLY <2>2
<1>2. ASSUME NEW t \in {o, None}, NEW x \in {body, None}, x = body <=> t = o,
             body # None, counter < MaxVer, Commit(o, WithVersion(t, x))
      PROVE  \E r : Plan(o, r)
  <2>1. WithVersion(t, x) \in Record
    BY <1>0, <1>2, VersionRecord DEF WithVersion
  <2>2. /\ WithVersion(t, x).text = t /\ WithVersion(t, x).expect = x /\ ~WithVersion(t, x).moves
        /\ WithVersion(t, x).ver = counter + 1 /\ WithVersion(t, x).vtext = body
        /\ WithVersion(t, x).entries = index \cup {[id |-> counter + 1, op |-> 0]}
        /\ counter + 1 # 0
    BY <1>0, Bounds DEF WithVersion
  <2>3. Plan(o, WithVersion(t, x))
    BY <1>0, <1>2, <2>1, <2>2 DEF Plan
  <2> QED BY ONLY <2>3
<1>3. CASE body # None /\ Commit(o, Move)
  <2>1. Move \in Record
    BY <1>0, PlainRecord
  <2>2. Plan(o, Move)
    BY <1>0, <1>3, <2>1 DEF Plan
  <2> QED BY ONLY <2>2
<1>4. CASE Patch(o)
  BY <1>1, <1>2, <1>4 DEF Patch
<1>5. CASE SaveVersion(o)
  BY <1>0, <1>2, <1>5 DEF SaveVersion
<1>6. CASE Delete(o)
  BY <1>3, <1>6 DEF Delete
<1> QED BY <1>4, <1>5, <1>6

-----------------------------------------------------------------------------
(* Steps that write no file of the history: they only move the holder. *)

Quiet == \/ ExternalEdit \/ RequestBegins \/ HandlerEnds \/ StampSidecar
         \/ RollNext \/ RollEnds \/ Interrupt \/ RollFails

\* Such a step ends with no record under way, or with one just begun.
LEMMA QuietShape ==
  ASSUME Types, Holds, Quiet
  PROVE  /\ UNCHANGED <<hbody, index, counter, record, journal>>
         /\ snap' = 0
         /\ (cur' = 0 /\ left' = {}) \/ RollNext
<1>1. CASE ExternalEdit
  BY <1>1 DEF ExternalEdit, holder, Holds
<1>2. CASE RequestBegins
  BY <1>2 DEF RequestBegins, files, Holds
<1>3. CASE HandlerEnds \/ Interrupt \/ StampSidecar
  BY <1>3 DEF HandlerEnds, Interrupt, StampSidecar, Idle, files
<1>4. CASE RollNext
  BY <1>4 DEF RollNext, files, Holds
<1>5. CASE RollEnds
  BY <1>5 DEF RollEnds, files, Holds
<1>6. CASE RollFails
  BY <1>6 DEF RollFails, files
<1> QED BY <1>1, <1>2, <1>3, <1>4, <1>5, <1>6 DEF Quiet

\* The record rolled forward next is a pending one.
LEMMA RollNextShape ==
  ASSUME Types, Holds, RollNext
  PROVE  /\ cur' \in todo /\ cur' \in journal /\ cur' # 0 /\ cur' \in Ops
         /\ left' = FilesOf(cur') /\ work = "rolling" /\ work' = "rolling"
         /\ \A q \in todo : cur' <= q
<1>1. todo \subseteq journal /\ journal \subseteq Ops /\ todo # {} /\ todo \subseteq Nat
  BY Bounds DEF Types, TypeOK, Used, RollNext
<1>2. \E o \in todo : \A q \in todo : o <= q
  <2> DEFINE less == {ss \in Nat \X Nat : ss[1] < ss[2]}
  <2>1. IsWellFoundedOn(less, Nat)
    BY NatLessThanWellFounded DEF OpToRel
  <2>2. PICK m \in todo : \A n \in todo : <<n, m>> \notin less
    BY <1>1, <2>1, WFMin, Zenon
  <2>3. ASSUME NEW n \in todo PROVE m <= n
    <3>1. n \in Nat /\ m \in Nat
      BY <1>1
    <3>2. n < m => <<n, m>> \in less
      BY <3>1
    <3>3. ~(n < m)
      BY <3>2, <2>2
    <3> QED BY <3>1, <3>3
  <2> QED BY <2>3
<1>3. cur' \in todo /\ \A q \in todo : cur' <= q
  BY <1>2 DEF RollNext
<1> QED BY <1>1, <1>3, Bounds DEF RollNext

\* Such a step keeps the types.
LEMMA QuietTypes ==
  ASSUME Base, Quiet
  PROVE  Types'
<1>0. Types /\ Holds
  BY DEF Base
<1>1. CASE ExternalEdit
  <2>1. edits' \in 0..MaxEdits /\ -edits' \in Edits /\ body' = -edits' /\ -edits' \in Texts
    BY <1>0, <1>1, Bounds DEF ExternalEdit, Types, TypeOK, Edits, Texts
  <2>2. owed' \subseteq Edits /\ late' \subseteq Edits
    BY <1>0, <1>1, <2>1 DEF ExternalEdit, Types
  <2> QED BY <1>0, <1>1, <2>1, <2>2 DEF ExternalEdit, Types, TypeOK, holder, Used
<1>2. CASE RequestBegins
  BY <1>0, <1>2 DEF RequestBegins, Types, TypeOK, files, history, Used
<1>3. CASE HandlerEnds
  BY <1>0, <1>3, Bounds DEF HandlerEnds, Types, TypeOK, files, history, Used, Idle
<1>4. CASE StampSidecar
  BY <1>0, <1>4, Bounds DEF StampSidecar, Types, TypeOK, history, Used, Idle
<1>5. CASE RollNext
  <2>1. cur' \in journal /\ left' \subseteq DOMAIN Rank
    BY <1>0, <1>5, RollNextShape DEF FilesOf, Rank
  <2> QED BY <1>0, <1>5, <2>1 DEF RollNext, Types, TypeOK, files, history, Used
<1>6. CASE RollEnds
  BY <1>0, <1>6 DEF RollEnds, Types, TypeOK, files, history, Used
<1>7. CASE Interrupt
  BY <1>0, <1>7, Bounds DEF Interrupt, Types, TypeOK, files, history, Used, Idle
<1>8. CASE RollFails
  <2>1. PendingPaths \subseteq {"body", "trash", "history", "manifest"}
    BY DEF PendingPaths, Touched
  <2> QED BY <1>0, <1>8, <2>1, Bounds DEF RollFails, Types, TypeOK, files, history, Used
<1> QED BY <1>1, <1>2, <1>3, <1>4, <1>5, <1>6, <1>7, <1>8 DEF Quiet

\* Such a step keeps what the phases of a hold say.
LEMMA QuietHolds ==
  ASSUME Base, Quiet
  PROVE  Holds'
<1>0. Types /\ Holds
  BY DEF Base
<1>1. CASE ExternalEdit
  BY <1>0, <1>1 DEF ExternalEdit, holder, Holds
<1>2. CASE RequestBegins
  <2>1. journal = {} => PendingPaths' = {}
    BY <1>2 DEF RequestBegins, PendingPaths, Touched
  <2> QED BY <1>0, <1>2, <2>1 DEF RequestBegins, Holds
<1>3. CASE HandlerEnds \/ StampSidecar \/ Interrupt
  BY <1>3 DEF HandlerEnds, StampSidecar, Interrupt, Idle, Holds
<1>4. CASE RollNext
  <2>1. FilesOf(cur)' = FilesOf(cur')
    BY <1>4 DEF RollNext, FilesOf
  <2> QED BY <1>0, <1>4, <2>1, RollNextShape DEF RollNext, Holds
<1>5. CASE RollEnds
  <2>1. PendingPaths' = {}
    BY <1>0, <1>5 DEF RollEnds, Holds, PendingPaths, Touched
  <2> QED BY <1>0, <1>5, <2>1 DEF RollEnds, Holds
<1>6. CASE RollFails
  <2>1. PendingPaths' = PendingPaths
    BY <1>6 DEF RollFails, PendingPaths, Touched
  <2> QED BY <1>6, <2>1 DEF RollFails, Holds
<1> QED BY <1>1, <1>2, <1>3, <1>4, <1>5, <1>6 DEF Quiet

\* The records are numbered and fit as before when no record is written.
LEMMA SameRecords ==
  ASSUME Numbered, RecordsFit, UNCHANGED record
  PROVE  Used' = Used /\ Numbered' /\ RecordsFit'
BY DEF Used, Numbered, RecordsFit, Fits, Once

LEMMA QuietBase ==
  ASSUME Base, Quiet
  PROVE  Base'
<1>0. Types /\ Holds /\ Numbered /\ RecordsFit /\ IndexOnce /\ TextsThere /\ Covered
  BY DEF Base
<1>1. /\ UNCHANGED <<hbody, index, counter, record, journal>>
      /\ snap' = 0
      /\ \/ cur' = 0
         \/ cur' # 0 /\ left' = FilesOf(cur') /\ work' = "rolling"
  BY <1>0, QuietShape, RollNextShape
<1>2. Types' /\ Holds'
  BY QuietTypes, QuietHolds
<1>3. Used' = Used /\ Numbered' /\ RecordsFit'
  BY <1>0, <1>1, SameRecords
<1>4. IndexOnce'
  BY <1>0, <1>1, <1>3 DEF IndexOnce, Once
<1>5. cur' # 0 /\ record[cur'].ver # 0 => "hbody" \in left' /\ "manifest" \in left'
  BY <1>1 DEF FilesOf
<1>6. TextsThere'
  BY <1>0, <1>1, <1>5 DEF TextsThere, ListedVersionsExist
<1>7. Covered'
  <2>1. work' # "applying"
    BY <1>1, <1>2 DEF Holds
  <2> QED BY <1>0, <1>1, <1>5, <2>1 DEF Covered
<1>8. Snapping'
  BY <1>1 DEF Snapping
<1> QED BY <1>2, <1>3, <1>4, <1>6, <1>7, <1>8 DEF Base

-----------------------------------------------------------------------------
(* A commit *)

\* A new record fits, is the only one to save a version, and the others stay.
LEMMA CommitShape ==
  ASSUME Base, NEW o \in Ops, NEW r, Plan(o, r)
  PROVE  /\ record' = [record EXCEPT ![o] = r] /\ record'[o] = r
         /\ \A q \in Ops \ {o} : record'[q] = record[q]
         /\ o \notin Used /\ o \notin journal /\ Used' = Used \cup {o} /\ Used = 1..(o - 1)
         /\ \A e \in index : e.op < o
         /\ r.ver # 0 => \A q \in journal : record[q].ver = 0
<1>0. Types /\ Holds /\ Numbered /\ IndexOnce
  BY DEF Base
<1>1. Commit(o, r) /\ r \in Record
  BY DEF Plan
<1>2. o \notin Used /\ o \notin journal /\ Used = 1..(o - 1) /\ \A e \in index : e.op < o
  BY <1>0, <1>1, NextRecord DEF Commit
<1>3. record' = [record EXCEPT ![o] = r] /\ record \in [Ops -> Record]
  BY <1>0, <1>1 DEF Commit, Types
<1>4. record'[o] = r /\ \A q \in Ops \ {o} : record'[q] = record[q]
  BY <1>3
<1>5. r # NoRecord
  BY Bounds DEF Plan, NoRecord, Plain
<1>6. Used' = Used \cup {o}
  BY <1>4, <1>5 DEF Used, NoRecord, Plain
<1>7. ASSUME r.ver # 0, NEW q \in journal PROVE record[q].ver = 0
  <2>1. "history" \in Touched(o)'
    BY <1>4, <1>7 DEF Touched
  <2>2. "history" \notin PendingPaths
    BY <1>0, <1>1, <2>1 DEF Commit, Holds
  <2>3. "history" \notin Touched(q)
    BY <2>2 DEF PendingPaths
  <2> QED BY <2>3 DEF Touched
<1> QED BY <1>2, <1>3, <1>4, <1>6, <1>7

\* A record that saves a version lists it above every version listed.
LEMMA PlanFits ==
  ASSUME Base, NEW o \in Ops, NEW r, Plan(o, r)
  PROVE  Fits(o, r)
<1>0. Types /\ IndexOnce /\ Covered /\ r \in Record /\ o # None
  BY Bounds DEF Base, Plan
<1>1. counter \in Nat /\ body \in Texts /\ body # None /\ index \subseteq Entry
  BY <1>0 DEF Types, TypeOK, Plan, Entry
<1>2. ASSUME r.ver # 0
      PROVE  /\ [id |-> r.ver, op |-> 0] \in r.entries
             /\ \A e \in r.entries : e.id <= r.ver /\ e.op < o
             /\ Once(r.entries)
  <2>1. r.ver = counter + 1 /\ r.entries = index \cup {[id |-> r.ver, op |-> 0]}
    BY <1>2 DEF Plan
  <2>2. \A e \in index : e.op < o /\ e.id <= counter /\ e.id \in Nat
    BY <1>0, <1>1, <1>2, CommitShape DEF Covered, Entry, Versions
  <2>3. \A e \in r.entries : e.id <= r.ver /\ e.op < o
    BY <1>1, <2>1, <2>2, Bounds DEF Ops
  <2>4. Once(r.entries)
    BY <1>0, <2>1 DEF IndexOnce, Once
  <2> QED BY <2>1, <2>3, <2>4
<1>3. r.ver = 0 => r.entries = {}
  BY DEF Plan
<1> QED BY <1>0, <1>1, <1>2, <1>3 DEF Fits, Plan, Once

LEMMA CommitBase ==
  ASSUME Base, NEW o \in Ops, NEW r, Plan(o, r)
  PROVE  Base'
<1>0. Types /\ Holds /\ Numbered /\ RecordsFit /\ IndexOnce /\ TextsThere /\ Covered
  BY DEF Base
<1>1. Commit(o, r) /\ r \in Record
  BY DEF Plan
<1>2. /\ UNCHANGED <<body, trash, stamp, hbody, index, counter, skip, todo, snap, edits, owed, late, faults>>
      /\ journal' = journal \cup {o} /\ crowded' = (crowded \/ journal # {})
      /\ work = "handling" /\ work' = "applying" /\ cur' = o /\ left' = FilesOf(o)' /\ snap = 0 /\ snap' = 0
  BY <1>0, <1>1 DEF Commit, files, Holds
<1>3. /\ record'[o] = r /\ \A q \in Ops \ {o} : record'[q] = record[q]
      /\ o \notin Used /\ o \notin journal /\ Used' = Used \cup {o} /\ Used = 1..(o - 1)
      /\ \A e \in index : e.op < o
      /\ r.ver # 0 => \A q \in journal : record[q].ver = 0
      /\ record' = [record EXCEPT ![o] = r]
  BY CommitShape
<1>4. journal \subseteq Used /\ Used \subseteq Ops /\ body # None
  BY <1>0 DEF Types, TypeOK, Used, Plan
<1>5. Types'
  <2>1. record' \in [Ops -> Record]
    BY <1>0, <1>1, <1>3 DEF Types
  <2>2. left' \subseteq DOMAIN Rank
    BY <1>2 DEF FilesOf, Rank
  <2>3. journal' \subseteq Used' /\ todo' \subseteq journal' /\ cur' \in journal' \cup {0}
    BY <1>0, <1>2, <1>3 DEF Types, TypeOK
  <2> HIDE <1>1
  <2>4. TypeOK'
    BY <1>0, <1>2, <2>3 DEF Types, TypeOK
  <2> QED BY <1>0, <1>2, <2>1, <2>2, <2>4 DEF Types
<1>6. Holds'
  <2>1. cur' # 0 /\ left' = FilesOf(cur)'
    BY <1>2, Bounds DEF FilesOf
  <2> QED BY <1>2, <2>1 DEF Holds
<1>7. Numbered'
  <2>1. Used' = 1..o /\ o \in 0..MaxOps
    BY <1>3, Bounds DEF Ops
  <2> QED BY <2>1 DEF Numbered
<1>8. RecordsFit'
  <2>1. Fits(o, r)
    BY PlanFits
  <2>2. \A q \in Used : Fits(q, record[q])
    BY <1>0 DEF RecordsFit
  <2>3. \A q \in Used \cup {o} : Fits(q, record'[q])
    BY <1>3, <1>4, <2>1, <2>2
  <2> QED BY <1>3, <2>3 DEF RecordsFit, Fits, Once
<1>9. IndexOnce'
  BY <1>0, <1>2, <1>3 DEF IndexOnce, Once
<1>10. TextsThere'
  <2>1. \A e \in index : hbody[e.id] # None
    BY <1>0 DEF TextsThere, ListedVersionsExist
  <2>2. \A e \in r.entries : e.id = r.ver \/ hbody[e.id] # None
    BY <2>1 DEF Plan
  <2>3. \A q \in journal' : \A e \in record'[q].entries : e.id = record'[q].ver \/ hbody[e.id] # None
    BY <1>0, <1>2, <1>3, <1>4, <2>2 DEF TextsThere
  <2>4. r.ver # 0 => "hbody" \in left'
    BY <1>2, <1>3 DEF FilesOf
  <2> QED BY <1>2, <1>3, <2>1, <2>3, <2>4 DEF TextsThere, ListedVersionsExist
<1>11. Covered'
  <2>1. \A q \in journal : q # o /\ q \in Ops
    BY <1>3, <1>4
  <2>2. r.ver # 0 => "manifest" \in left' /\ r.ver = counter + 1
    BY <1>2, <1>3 DEF FilesOf, Plan
  <2>3. counter \in Nat
    BY <1>0 DEF Types, TypeOK
  <2>4. \A e \in index' : e.id <= counter' \/ \E q \in journal' : record'[q].ver # 0 /\ e.id <= record'[q].ver
    BY <1>0, <1>2, <1>3, <2>1 DEF Covered
  <2> QED BY <1>2, <1>3, <2>2, <2>3, <2>4 DEF Covered
<1>12. Snapping'
  BY <1>2 DEF Snapping
<1> QED BY <1>5, <1>6, <1>7, <1>8, <1>9, <1>10, <1>11, <1>12 DEF Base

-----------------------------------------------------------------------------
(* A record is done *)

LEMMA DoneBase ==
  ASSUME Base, RecordDone
  PROVE  Base'
<1>0. Types /\ Holds /\ Numbered /\ RecordsFit /\ IndexOnce /\ TextsThere /\ Covered
  BY DEF Base
<1>1. /\ UNCHANGED <<body, trash, stamp, hbody, index, counter, record, skip, left, snap,
                     edits, owed, late, crowded, faults>>
      /\ cur # 0 /\ cur' = 0 /\ left = {} /\ journal' = journal \ {cur} /\ todo' = todo \ {cur}
      /\ work' = IF Replaying THEN "rolling" ELSE "stamping"
  BY DEF RecordDone, files, history
<1>2. Used' = Used /\ Numbered' /\ RecordsFit'
  BY <1>0, <1>1, SameRecords
<1>3. Types'
  BY <1>0, <1>1, <1>2 DEF Types, TypeOK, Replaying
<1>4. snap = 0
  BY <1>0, <1>1 DEF Base, Snapping, MustKeep, IsNext
<1>5. Holds'
  BY <1>0, <1>1, <1>4 DEF Holds, Replaying
<1>6. IndexOnce'
  BY <1>0, <1>1, <1>2 DEF IndexOnce, Once
<1>7. TextsThere'
  BY <1>0, <1>1 DEF TextsThere, ListedVersionsExist
<1>8. Covered'
  <2>1. ASSUME NEW e \in index
        PROVE  e.id <= counter \/ \E o \in journal \ {cur} : record[o].ver # 0 /\ e.id <= record[o].ver
    <3>1. e.id \in Nat /\ counter \in Nat /\ cur \in Ops
      BY <1>0, <1>1 DEF Types, TypeOK, Versions, Used
    <3>2. record[cur].ver \in Nat
      BY <1>0, <3>1 DEF Types, Record
    <3>3. record[cur].ver # 0 => counter >= record[cur].ver
      BY <1>0, <1>1 DEF Covered
    <3>4. e.id <= counter \/ \E o \in journal : record[o].ver # 0 /\ e.id <= record[o].ver
      BY <1>0 DEF Covered
    <3>5. record[cur].ver # 0 /\ e.id <= record[cur].ver => e.id <= counter
      BY <3>1, <3>2, <3>3
    <3> QED BY <3>4, <3>5
  <2> QED BY <1>1, <2>1 DEF Covered, Replaying
<1>9. Snapping'
  BY <1>1, <1>4 DEF Snapping
<1> QED BY <1>2, <1>3, <1>5, <1>6, <1>7, <1>8, <1>9 DEF Base

-----------------------------------------------------------------------------
(* A file of the record under way *)

\* What writing file f of the record under way changes.
Applies(f) ==
  /\ f \in left /\ IsNext(f) /\ left' = left \ {f}
  /\ body' = IF f = "body" THEN record[cur].text ELSE IF f = "remove" THEN None ELSE body
  /\ trash' = IF f = "trash" THEN record[cur].vtext ELSE trash
  /\ hbody' = IF f = "hbody" THEN [hbody EXCEPT ![record[cur].ver] = record[cur].vtext] ELSE hbody
  /\ index' = IF f = "index" THEN IndexText(cur) ELSE index
  /\ counter' = IF f = "manifest" THEN CounterText(cur) ELSE counter

LEMMA ApplyShape ==
  ASSUME Base, ApplyFile
  PROVE  /\ \E f : Applies(f)
         /\ UNCHANGED <<stamp, journal, record, work, skip, todo, cur, snap, edits, owed, late,
                        crowded, faults>>
         /\ work \in {"rolling", "applying"} /\ cur # 0 /\ cur \in journal /\ cur \in Used
         /\ snap = 0 /\ cur \in Ops /\ record[cur] \in Record /\ Fits(cur, record[cur])
<1>1. cur # 0 /\ cur \in journal /\ cur \in Used /\ cur \in Ops
  BY DEF ApplyFile, Base, Types, TypeOK, Used
<1>2. record[cur] \in Record /\ Fits(cur, record[cur])
  BY <1>1 DEF Base, Types, RecordsFit
<1>3. \E f : Applies(f)
  BY DEF ApplyFile, Applies
<1> QED BY <1>1, <1>2, <1>3 DEF ApplyFile, history

\* The files of a record are those of what it does.
LEMMA FileOf ==
  ASSUME Base, cur # 0, NEW f \in left
  PROVE  /\ f \in {"body", "trash", "remove", "hbody", "index", "manifest"}
         /\ f = "body" => record[cur].text # None
         /\ f \in {"trash", "remove"} => record[cur].moves
         /\ f \in {"hbody", "index", "manifest"} => record[cur].ver # 0
BY DEF Base, Holds, FilesOf

\* The entries a record writes are its own, or those its own replay saved.
LEMMA IndexTextShape ==
  ASSUME Base, NEW o \in Used
  PROVE  /\ IndexText(o) \subseteq Entry /\ Once(IndexText(o))
         /\ \A e \in IndexText(o) : \/ e \in record[o].entries
                                    \/ e \in index /\ e.op = o
         /\ \A e \in IndexText(o) : e.op # 0 => e.op \in Used
<1>1. Types /\ Numbered /\ IndexOnce /\ o \in Ops /\ Fits(o, record[o]) /\ index \subseteq Entry
  BY DEF Base, Used, RecordsFit, Types, TypeOK, Entry
<1>2. record[o].entries \subseteq Entry
  BY <1>1 DEF Types, Record
<1>3. \A e \in IndexText(o) : e \in record[o].entries \/ (e \in index /\ e.op = o)
  BY DEF IndexText
<1>4. IndexText(o) \subseteq Entry
  BY <1>1, <1>2, <1>3
<1>5. \A e \in record[o].entries : e.op < o
  BY <1>1 DEF Fits
<1>6. Once(IndexText(o))
  <2>1. Once(record[o].entries) /\ Once(index)
    BY <1>1 DEF Fits, IndexOnce
  <2>2. \A e \in record[o].entries : e.op # o
    BY <1>1, <1>5, Bounds
  <2> QED BY <1>3, <2>1, <2>2 DEF Once
<1>7. ASSUME NEW e \in IndexText(o), e.op # 0 PROVE e.op \in Used
  <2>1. CASE e \in index
    BY <1>1, <1>7, <2>1 DEF IndexOnce
  <2>2. CASE e \in record[o].entries
    <3>1. PICK n \in 0..MaxOps : Used = 1..n
      BY <1>1 DEF Numbered
    <3>2. e.op \in Ops /\ e.op < o
      BY <1>2, <1>5, <1>7, <2>2 DEF Entry
    <3> QED BY <3>1, <3>2, Bounds DEF Ops
  <2> QED BY <1>3, <2>1, <2>2
<1> QED BY <1>3, <1>4, <1>6, <1>7

\* A file of a record keeps the types.
LEMMA ApplyTypes ==
  ASSUME Base, ApplyFile
  PROVE  Types' /\ Used' = Used
<1>0. Types /\ Holds
  BY DEF Base
<1> PICK f : Applies(f)
  BY ApplyShape
<1>1. f \in left /\ record[cur] \in Record /\ cur \in Used /\ cur # 0 /\ Fits(cur, record[cur])
  BY ApplyShape DEF Applies
<1>2. /\ UNCHANGED <<stamp, journal, record, work, skip, todo, cur, snap, edits, owed, late,
                     crowded, faults>>
  BY ApplyShape
<1>3. body' \in Texts /\ trash' \in Texts
  BY <1>0, <1>1, Bounds DEF Applies, Types, TypeOK, Record
<1>4. hbody' \in [Versions -> Texts]
  BY <1>0, <1>1 DEF Applies, Types, TypeOK, Record
<1>5. index' \subseteq Entry
  BY <1>0, <1>1, IndexTextShape DEF Applies, Types, TypeOK, Entry
<1>6. counter' \in 0..MaxVer
  <2>1. record[cur].ver \in 0..MaxVer /\ counter \in 0..MaxVer
    BY <1>0, <1>1 DEF Types, TypeOK, Record
  <2> QED BY <2>1 DEF Applies, CounterText, MaxOf
<1>7. left' \subseteq DOMAIN Rank
  BY <1>0 DEF Applies, Types
<1>8. Used' = Used
  BY <1>2 DEF Used
<1>9. TypeOK'
  BY <1>0, <1>2, <1>3, <1>4, <1>5, <1>6, <1>8 DEF Types, TypeOK, Entry
<1> QED BY <1>0, <1>2, <1>7, <1>8, <1>9 DEF Types

LEMMA ApplyBase ==
  ASSUME Base, ApplyFile
  PROVE  Base'
<1>0. Types /\ Holds /\ Numbered /\ RecordsFit /\ IndexOnce /\ TextsThere /\ Covered
  BY DEF Base
<1> PICK f : Applies(f)
  BY ApplyShape
<1>1. f \in left /\ record[cur] \in Record /\ cur \in Used /\ cur # 0 /\ Fits(cur, record[cur])
      /\ cur \in journal /\ snap = 0 /\ work \in {"rolling", "applying"}
  BY ApplyShape DEF Applies
<1>2. /\ UNCHANGED <<stamp, journal, record, work, skip, todo, cur, snap, edits, owed, late,
                     crowded, faults>>
  BY ApplyShape
<1>3. Types' /\ Used' = Used
  BY ApplyTypes
<1>4. Numbered' /\ RecordsFit'
  BY <1>0, <1>2, SameRecords
<1>5. FilesOf(cur)' = FilesOf(cur) /\ left' = left \ {f} /\ PendingPaths' = PendingPaths
  BY <1>2 DEF FilesOf, Applies, PendingPaths, Touched
<1>6. Holds'
  BY <1>0, <1>1, <1>2, <1>5 DEF Holds
<1>7. index' = index \/ (f = "index" /\ index' = IndexText(cur))
  BY DEF Applies
<1>8. IndexOnce'
  BY <1>0, <1>1, <1>3, <1>7, IndexTextShape DEF IndexOnce, Once
<1>9. /\ \A v \in Versions : hbody[v] # None => hbody'[v] # None
      /\ f = "hbody" => hbody'[record[cur].ver] # None
  <2>1. CASE f = "hbody"
    <3>1. record[cur].ver # 0 /\ record[cur].ver \in Versions
      BY <1>0, <1>1, <2>1, FileOf, Bounds DEF Record, Versions
    <3>2. record[cur].vtext # None
      BY <1>1, <3>1 DEF Fits
    <3> QED BY <1>0, <2>1, <3>1, <3>2 DEF Applies, Types, TypeOK
  <2>2. CASE f # "hbody"
    BY <2>2 DEF Applies
  <2> QED BY <2>1, <2>2
<1>10. /\ index \subseteq Entry
       /\ \A o \in journal : record[o].entries \subseteq Entry
  BY <1>0 DEF Types, TypeOK, Entry, Record, Used
<1>11. record[cur].ver # 0 /\ "hbody" \notin left' => hbody'[record[cur].ver] # None
  <2>1. ASSUME record[cur].ver # 0, "hbody" \notin left', f # "hbody"
        PROVE  hbody'[record[cur].ver] # None
    <3>1. hbody[record[cur].ver] # None
      BY <1>0, <1>1, <1>5, <2>1 DEF TextsThere
    <3>2. record[cur].ver \in Versions
      BY <1>1, <2>1, Bounds DEF Record, Versions
    <3> QED BY <1>9, <3>1, <3>2
  <2> QED BY <1>9, <2>1
<1>12. TextsThere'
  <2>1. \A o \in journal : \A e \in record[o].entries : e.id = record[o].ver \/ hbody'[e.id] # None
    BY <1>0, <1>9, <1>10 DEF TextsThere, Entry
  <2>2. \A e \in index : hbody'[e.id] # None
    BY <1>0, <1>9, <1>10 DEF TextsThere, ListedVersionsExist, Entry
  <2>3. CASE index' = index
    BY <1>2, <1>11, <2>1, <2>2, <2>3 DEF TextsThere, ListedVersionsExist
  <2>4. CASE f = "index" /\ index' = IndexText(cur)
    <3>1. "hbody" \notin left' /\ record[cur].ver # 0
      BY <1>1, <1>5, <2>4, FileOf DEF Applies, IsNext, Rank
    <3>2. \A e \in record[cur].entries : hbody'[e.id] # None
      BY <1>1, <1>11, <2>1, <3>1
    <3>3. \A e \in index' : hbody'[e.id] # None
      BY <1>1, <2>2, <2>4, <3>2, IndexTextShape
    <3> QED BY <1>2, <1>11, <2>1, <3>3 DEF TextsThere, ListedVersionsExist
  <2> QED BY <1>7, <2>3, <2>4
<1>13. Covered'
  <2>0. record[cur].ver \in Nat /\ counter \in Nat
    BY <1>0, <1>1, Bounds DEF Types, TypeOK, Record
  <2>1. counter' >= counter /\ (f = "manifest" => counter' >= record[cur].ver)
    <3>1. CASE f = "manifest"
      <4>1. work = "applying" => counter = record[cur].ver - 1
        BY <1>0, <1>1, <3>1, FileOf DEF Covered
      <4> QED BY <1>1, <2>0, <3>1, <4>1 DEF Applies, CounterText, MaxOf, Replaying
    <3>2. CASE f # "manifest"
      BY <2>0, <3>2 DEF Applies
    <3> QED BY <3>1, <3>2
  <2>2. counter' \in Nat
    BY <1>3, Bounds DEF Types, TypeOK
  <2>3. \A e \in index : e.id <= counter' \/ \E o \in journal : record[o].ver # 0 /\ e.id <= record[o].ver
    <3>1. \A e \in index : e.id \in Nat
      BY <1>10, Bounds DEF Entry, Versions
    <3> QED BY <1>0, <2>0, <2>1, <2>2, <3>1 DEF Covered
  <2>4. \A e \in index' : e.id <= counter' \/ \E o \in journal : record[o].ver # 0 /\ e.id <= record[o].ver
    <3>1. CASE f = "index" /\ index' = IndexText(cur)
      <4>1. record[cur].ver # 0
        BY <1>1, <3>1, FileOf
      <4>2. \A e \in record[cur].entries : e.id <= record[cur].ver
        BY <1>1, <4>1 DEF Fits
      <4> QED BY <1>1, <2>3, <3>1, <4>1, <4>2, IndexTextShape
    <3> QED BY <1>7, <2>3, <3>1
  <2>5. record[cur].ver # 0 /\ "manifest" \notin left' => counter' >= record[cur].ver
    BY <1>0, <1>1, <1>5, <2>0, <2>1, <2>2 DEF Covered
  <2>6. work = "applying" /\ record[cur].ver # 0 /\ "manifest" \in left' => counter' = record[cur].ver - 1
    BY <1>0, <1>5 DEF Covered, Applies
  <2> QED BY <1>2, <2>4, <2>5, <2>6 DEF Covered
<1>14. Snapping'
  BY <1>1, <1>2 DEF Snapping
<1> QED BY <1>3, <1>4, <1>6, <1>8, <1>12, <1>13, <1>14 DEF Base

-----------------------------------------------------------------------------
(* The snapshot of a replay *)

\* The last of the ids a record carries is the version it saves.
LEMMA FloorIsVersion ==
  ASSUME Base, NEW o \in Used
  PROVE  Floor(o) = record[o].ver
<1>0. record[o] \in Record /\ Fits(o, record[o])
  BY DEF Base, Types, Used, RecordsFit
<1>1. CASE record[o].ver = 0
  BY <1>1 DEF Floor
<1>2. CASE record[o].ver # 0
  <2> DEFINE ids == {e.id : e \in record[o].entries}
             last(m) == \A e \in record[o].entries : e.id <= m
  <2>1. record[o].ver \in ids /\ last(record[o].ver)
    BY <1>0, <1>2 DEF Fits
  <2>2. ids \subseteq Nat
    BY <1>0, Bounds DEF Record, Entry, Versions
  <2>3. Floor(o) = CHOOSE m \in ids : last(m)
    BY <1>2 DEF Floor
  <2>4. Floor(o) \in ids /\ last(Floor(o))
    BY <2>1, <2>3
  <2>5. Floor(o) <= record[o].ver /\ record[o].ver <= Floor(o)
    <3>1. PICK e \in record[o].entries : e.id = Floor(o)
      BY <2>4
    <3>2. PICK d \in record[o].entries : d.id = record[o].ver
      BY <2>1
    <3> QED BY <2>1, <2>4, <3>1, <3>2
  <2>6. Floor(o) \in Nat /\ record[o].ver \in Nat
    BY <2>1, <2>2, <2>4
  <2> QED BY <2>5, <2>6
<1> QED BY <1>1, <1>2

\* The snapshot takes an id above the counter and the record's own.
LEMMA SnapshotIdShape ==
  ASSUME Base, SnapshotCounter
  PROVE  /\ cur \in journal /\ cur \in Used /\ cur # 0 /\ work = "rolling" /\ MustKeep(cur)
         /\ snap' = counter' /\ counter' \in 0..MaxVer /\ counter' > counter
         /\ counter' > record[cur].ver
         /\ UNCHANGED <<body, trash, stamp, hbody, index, journal, record,
                        work, skip, todo, cur, left, history, faults>>
<1>1. cur # 0 /\ cur \in journal /\ cur \in Used /\ MustKeep(cur) /\ work = "rolling"
  BY DEF SnapshotCounter, Base, Types, TypeOK, MustKeep, Replaying
<1>2. record[cur].ver \in 0..MaxVer /\ counter \in 0..MaxVer
  BY <1>1 DEF Base, Types, TypeOK, Record, Used
<1>3. Floor(cur) = record[cur].ver
  BY <1>1, FloorIsVersion
<1>4. MaxOf(counter, record[cur].ver) < MaxVer /\ counter' = MaxOf(counter, record[cur].ver) + 1
  BY <1>3 DEF SnapshotCounter
<1>5. counter' \in 0..MaxVer /\ counter' > counter /\ counter' > record[cur].ver
  BY <1>2, <1>4, Bounds DEF MaxOf
<1> QED BY <1>1, <1>5 DEF SnapshotCounter

LEMMA SnapshotIdBase ==
  ASSUME Base, SnapshotCounter
  PROVE  Base'
<1>0. Types /\ Holds /\ Numbered /\ RecordsFit /\ IndexOnce /\ TextsThere /\ Covered
  BY DEF Base
<1>1. /\ cur \in journal /\ cur \in Used /\ cur # 0 /\ work = "rolling" /\ MustKeep(cur)
      /\ snap' = counter' /\ counter' \in 0..MaxVer /\ counter' > counter /\ counter' > record[cur].ver
  BY SnapshotIdShape
<1>2. UNCHANGED <<body, trash, stamp, hbody, index, journal, record, work, skip, todo, cur, left,
                  edits, owed, late, crowded, faults>>
  BY SnapshotIdShape DEF history
<1>3. Used' = Used /\ Numbered' /\ RecordsFit'
  BY <1>0, <1>2, SameRecords
<1>4. Types'
  BY <1>0, <1>1, <1>2, <1>3 DEF Types, TypeOK
<1>5. Holds'
  BY <1>0, <1>1, <1>2 DEF Holds, FilesOf
<1>6. IndexOnce' /\ TextsThere'
  BY <1>0, <1>2, <1>3 DEF IndexOnce, Once, TextsThere, ListedVersionsExist
<1>7. Covered'
  <2>1. \A e \in index : e.id \in Nat
    BY <1>0 DEF Types, TypeOK, Versions
  <2>2. counter \in Nat /\ counter' \in Nat /\ record[cur].ver \in Nat
    BY <1>0, <1>1 DEF Types, TypeOK, Record, Used
  <2> QED BY <1>0, <1>1, <1>2, <2>1, <2>2 DEF Covered
<1>8. Snapping'
  BY <1>1, <1>2 DEF Snapping, MustKeep, Replaying, IsNext
<1> QED BY <1>3, <1>4, <1>5, <1>6, <1>7, <1>8 DEF Base

\* A snapshot under way: its id is the counter, and the edit is in the note.
LEMMA SnapshotUnderWay ==
  ASSUME Base, snap # 0
  PROVE  /\ cur # 0 /\ cur \in journal /\ cur \in Used /\ cur \in Ops /\ work = "rolling"
         /\ body # None /\ body \in Texts /\ body # record[cur].expect
         /\ snap \in Versions /\ snap = counter /\ snap > record[cur].ver
         /\ \A e \in index : e.op # cur
<1>1. cur # 0 /\ cur \in journal /\ cur \in Used /\ cur \in Ops
  BY DEF Base, Holds, Types, TypeOK, Used
<1>2. snap \in Versions
  BY Bounds DEF Base, Types, TypeOK, Versions
<1> QED BY <1>1, <1>2 DEF Base, Snapping, MustKeep, Replaying, Types, TypeOK

LEMMA SnapshotBodyBase ==
  ASSUME Base, SnapshotBody
  PROVE  Base'
<1>0. Types /\ Holds /\ Numbered /\ RecordsFit /\ IndexOnce /\ TextsThere /\ Covered /\ Snapping
  BY DEF Base
<1>1. /\ body # None /\ body \in Texts /\ snap \in Versions
      /\ hbody' = [hbody EXCEPT ![snap] = body]
  BY SnapshotUnderWay DEF SnapshotBody
<1>2. UNCHANGED <<body, trash, stamp, counter, index, journal, record, work, skip, todo, cur, left,
                  snap, edits, owed, late, crowded, faults>>
  BY DEF SnapshotBody, history, holder
<1>3. Used' = Used /\ Numbered' /\ RecordsFit'
  BY <1>0, <1>2, SameRecords
<1>4. Types'
  BY <1>0, <1>1, <1>2, <1>3 DEF Types, TypeOK
<1>5. Holds'
  BY <1>0, <1>2 DEF Holds, FilesOf, PendingPaths, Touched
<1>6. IndexOnce'
  BY <1>0, <1>2, <1>3 DEF IndexOnce, Once
<1>7. TextsThere'
  <2>1. \A v \in Versions : hbody[v] # None => hbody'[v] # None
    BY <1>0, <1>1 DEF Types, TypeOK
  <2>2. /\ \A e \in index : e.id \in Versions
        /\ \A o \in journal : \A e \in record[o].entries : e.id \in Versions
    BY <1>0 DEF Types, TypeOK, Record, Entry, Used
  <2>3. cur # 0 /\ record[cur].ver # 0 => record[cur].ver \in Versions
    BY <1>0, Bounds DEF Types, TypeOK, Record, Used, Versions
  <2> QED BY <1>0, <1>2, <2>1, <2>2, <2>3 DEF TextsThere, ListedVersionsExist
<1>8. Covered' /\ Snapping'
  BY <1>0, <1>2 DEF Covered, Snapping, MustKeep, Replaying, IsNext
<1> QED BY <1>3, <1>4, <1>5, <1>6, <1>7, <1>8 DEF Base

LEMMA SnapshotEntryBase ==
  ASSUME Base, SnapshotEntry
  PROVE  Base'
<1>0. Types /\ Holds /\ Numbered /\ RecordsFit /\ IndexOnce /\ TextsThere /\ Covered /\ Snapping
  BY DEF Base
<1>1. /\ cur # 0 /\ cur \in journal /\ cur \in Used /\ cur \in Ops /\ work = "rolling"
      /\ body # None /\ snap \in Versions /\ snap = counter
      /\ \A e \in index : e.op # cur
      /\ hbody[snap] = body /\ index' = index \cup {[id |-> snap, op |-> cur]} /\ snap' = 0
  BY SnapshotUnderWay DEF SnapshotEntry
<1>2. UNCHANGED <<body, trash, stamp, hbody, counter, journal, record, work, skip, todo, cur, left,
                  edits, owed, late, crowded, faults>>
  BY DEF SnapshotEntry, history
<1>3. Used' = Used /\ Numbered' /\ RecordsFit'
  BY <1>0, <1>2, SameRecords
<1>4. Types'
  <2>1. index' \subseteq Entry
    BY <1>0, <1>1 DEF Types, TypeOK, Entry
  <2> QED BY <1>0, <1>1, <1>2, <1>3, <2>1, Bounds DEF Types, TypeOK, Entry
<1>5. Holds'
  BY <1>0, <1>1, <1>2 DEF Holds, FilesOf
<1>6. IndexOnce'
  BY <1>0, <1>1, <1>3 DEF IndexOnce, Once
<1>7. TextsThere'
  BY <1>0, <1>1, <1>2 DEF TextsThere, ListedVersionsExist
<1>8. Covered'
  <2>1. snap <= counter
    BY <1>0, <1>1 DEF Types, TypeOK
  <2> QED BY <1>0, <1>1, <1>2, <2>1 DEF Covered
<1>9. Snapping'
  BY <1>1 DEF Snapping
<1> QED BY <1>3, <1>4, <1>5, <1>6, <1>7, <1>8, <1>9 DEF Base

-----------------------------------------------------------------------------
(* What holds whatever happens *)

LEMMA InitBase == Init => Base
<1> SUFFICES ASSUME Init PROVE Base
  OBVIOUS
<1>1. Used = {} /\ Used = 1..0
  BY DEF Init, Used
<1>2. Types
  <2>1. record \in [Ops -> Record]
    <3>1. NoRecord \in Record
      BY Bounds, PlainRecord DEF NoRecord, Plain
    <3> QED BY <3>1 DEF Init
  <2>2. hbody \in [Versions -> Texts]
    BY Bounds DEF Init
  <2>3. TypeOK
    BY <1>1, <2>2, Bounds DEF Init, TypeOK
  <2> QED BY <2>1, <2>3 DEF Init, Types
<1>3. Holds
  BY DEF Init, Holds
<1>4. Numbered /\ RecordsFit
  BY <1>1, Bounds DEF Numbered, RecordsFit
<1>5. IndexOnce /\ TextsThere /\ Covered /\ Snapping
  BY DEF Init, IndexOnce, Once, TextsThere, ListedVersionsExist, Covered, Snapping
<1> QED BY <1>2, <1>3, <1>4, <1>5 DEF Base

LEMMA NextBase == Base /\ [Next]_vars => Base'
<1> SUFFICES ASSUME Base, [Next]_vars PROVE Base'
  OBVIOUS
<1>1. CASE Quiet
  BY <1>1, QuietBase
<1>2. ASSUME NEW o \in Ops, Patch(o) \/ SaveVersion(o) \/ Delete(o) PROVE Base'
  <2>1. PICK r : Plan(o, r)
    BY <1>2, Planned
  <2> QED BY <2>1, CommitBase
<1>3. CASE ApplyFile
  BY <1>3, ApplyBase
<1>4. CASE SnapshotCounter
  BY <1>4, SnapshotIdBase
<1>5. CASE SnapshotBody
  BY <1>5, SnapshotBodyBase
<1>6. CASE SnapshotEntry
  BY <1>6, SnapshotEntryBase
<1>7. CASE RecordDone
  BY <1>7, DoneBase
<1>8. CASE UNCHANGED vars
  <2>1. UNCHANGED <<body, trash, stamp, hbody, index, counter, journal, record, work, skip, todo,
                    cur, left, snap, edits, owed, late, crowded, faults>>
    BY <1>8 DEF vars, files, holder, history
  <2>2. Used' = Used /\ Numbered' /\ RecordsFit'
    BY <2>1, SameRecords DEF Base
  <2>3. Types' /\ IndexOnce'
    BY <2>1, <2>2 DEF Base, Types, TypeOK, IndexOnce, Once
  <2>4. Holds'
    BY <2>1 DEF Base, Holds, FilesOf, PendingPaths, Touched
  <2>5. TextsThere' /\ Covered' /\ Snapping'
    BY <2>1 DEF Base, TextsThere, ListedVersionsExist, Covered, Snapping, MustKeep, Replaying, IsNext
  <2> QED BY <2>2, <2>3, <2>4, <2>5 DEF Base
<1> QED BY <1>1, <1>2, <1>3, <1>4, <1>5, <1>6, <1>7, <1>8 DEF Next, Quiet

\* Whatever is interrupted and replayed, Base holds.
THEOREM BaseHolds == Spec => []Base
BY InitBase, NextBase, PTL DEF Spec

\* The files, the journal and the holder of the lock have the values the code
\* gives them.
THEOREM TypeCorrect == Spec => []TypeOK
<1>1. Base => TypeOK
  BY DEF Base, Types
<1> QED BY <1>1, BaseHolds, PTL

\* The history of a note lists no version whose text is missing, whatever was
\* interrupted: the text goes to disk before the index, and so has every text
\* an index that is replayed lists.
THEOREM ListedExist == Spec => []ListedVersionsExist
<1>1. Base => ListedVersionsExist
  BY DEF Base, TextsThere
<1> QED BY <1>1, BaseHolds, PTL

\* Once no record is unfinished, the counter is at or above every version the
\* history lists: the next id is a new one.
THEOREM CounterCovers == Spec => []CounterCoversHistory
<1>1. Base => CounterCoversHistory
  BY DEF Base, Covered, CounterCoversHistory
<1> QED BY <1>1, BaseHolds, PTL

\* However often a record is replayed and interrupted, its replays list one
\* snapshot of the edit they met.
THEOREM OneSnapshot == Spec => []OneSnapshotPerEdit
<1>1. Base => OneSnapshotPerEdit
  BY DEF Base, IndexOnce, Once, OneSnapshotPerEdit
<1> QED BY <1>1, BaseHolds, PTL

-----------------------------------------------------------------------------
(* One record at a time *)

(* While at most one record was ever unfinished, the history only grows:   *)
(* an index the record writes has every entry already listed, and the ids  *)
(* it or its snapshot write texts for are listed with that text or not at  *)
(* all.                                                                    *)
OneJournaled == \A o, q \in journal : o = q

IndexKeeps ==
  \A o \in journal : record[o].ver # 0 =>
    \A e \in index : /\ e.id = record[o].ver => hbody[e.id] = record[o].vtext
                     /\ e \in record[o].entries \/ (e.op = o /\ e.id > record[o].ver)

VersionWritten ==
  cur # 0 /\ record[cur].ver # 0 =>
    /\ "hbody" \notin left => hbody[record[cur].ver] = record[cur].vtext
    /\ "index" \notin left => [id |-> record[cur].ver, op |-> 0] \in index

SnapshotAbove == snap # 0 => \A e \in index : e.id < snap

CommitFresh == work = "applying" => \A e \in index : e.op # cur

Alone == OneJournaled /\ IndexKeeps /\ VersionWritten /\ SnapshotAbove /\ CommitFresh

(* Every version listed stays listed, with its text. *)
ListKept == index \subseteq index' /\ \A e \in index : hbody'[e.id] = hbody[e.id]

\* A commit that meets no other record comes to an empty journal.
LEMMA CommitAlone ==
  ASSUME Base, NEW o \in Ops, NEW r, Plan(o, r), ~crowded'
  PROVE  /\ ~crowded /\ journal = {} /\ journal' = {o} /\ cur' = o /\ o # 0 /\ left' = FilesOf(o)'
         /\ work' = "applying" /\ snap' = 0 /\ record'[o] = r
         /\ UNCHANGED <<body, trash, stamp, hbody, index, counter, edits, owed, late>>
         /\ \A e \in index : e.id <= counter /\ e.op < o
         /\ \A e \in index : e.id \in Nat
<1>1. /\ ~crowded /\ journal = {} /\ journal' = {o} /\ cur' = o /\ left' = FilesOf(o)'
      /\ work' = "applying" /\ snap' = 0
      /\ UNCHANGED <<body, trash, stamp, hbody, index, counter, edits, owed, late>>
  BY DEF Plan, Commit, files, Base, Types, Holds
<1>2. \A e \in index : e.id <= counter
  BY <1>1 DEF Base, Covered
<1>3. \A e \in index : e.id \in Nat
  BY DEF Base, Types, TypeOK, Versions
<1> QED BY <1>1, <1>2, <1>3, CommitShape, Bounds

\* What no write of the history can break.
LEMMA QuietAlone ==
  ASSUME Base, Alone, Quiet
  PROVE  Alone' /\ ListKept
<1>0. Types /\ Holds /\ Holds'
  BY QuietBase DEF Base
<1>1. /\ UNCHANGED <<hbody, index, counter, record, journal>>
      /\ snap' = 0
      /\ \/ cur' = 0
         \/ cur' # 0 /\ left' = FilesOf(cur') /\ work' = "rolling"
  BY <1>0, QuietShape, RollNextShape
<1>2. OneJournaled' /\ IndexKeeps'
  BY <1>1 DEF Alone, OneJournaled, IndexKeeps
<1>3. VersionWritten'
  BY <1>1 DEF VersionWritten, FilesOf
<1>4. SnapshotAbove' /\ CommitFresh'
  BY <1>0, <1>1 DEF SnapshotAbove, CommitFresh, Holds
<1> QED BY <1>1, <1>2, <1>3, <1>4 DEF Alone, ListKept

LEMMA CommitKeepsAlone ==
  ASSUME Base, NEW o \in Ops, NEW r, Plan(o, r), ~crowded'
  PROVE  Alone' /\ ListKept
<1>1. /\ journal' = {o} /\ cur' = o /\ o # 0 /\ left' = FilesOf(o)'
      /\ snap' = 0 /\ record'[o] = r /\ UNCHANGED <<hbody, index, counter>>
      /\ \A e \in index : e.id <= counter /\ e.op < o /\ e.id \in Nat
  BY CommitAlone
<1>2. counter \in Nat
  BY DEF Base, Types, TypeOK
<1>3. r.ver # 0 => r.ver = counter + 1 /\ r.entries = index \cup {[id |-> r.ver, op |-> 0]}
  BY DEF Plan
<1>4. IndexKeeps'
  BY <1>1, <1>2, <1>3 DEF IndexKeeps
<1>5. VersionWritten'
  BY <1>1 DEF VersionWritten, FilesOf
<1>6. CommitFresh'
  BY <1>1, Bounds DEF CommitFresh
<1> QED BY <1>1, <1>4, <1>5, <1>6 DEF Alone, OneJournaled, SnapshotAbove, ListKept

LEMMA DoneAlone ==
  ASSUME Base, Alone, RecordDone
  PROVE  Alone' /\ ListKept
<1>1. /\ UNCHANGED <<hbody, index, record, snap>> /\ cur' = 0 /\ left = {}
      /\ journal' = journal \ {cur} /\ work' # "applying" /\ cur # 0
  BY DEF RecordDone, files
<1>2. snap = 0
  BY <1>1 DEF Base, Snapping, MustKeep, IsNext
<1> QED BY <1>1, <1>2 DEF Alone, OneJournaled, IndexKeeps, VersionWritten, SnapshotAbove,
                          CommitFresh, ListKept

LEMMA ApplyAlone ==
  ASSUME Base, Alone, ApplyFile
  PROVE  Alone' /\ ListKept
<1>0. Types /\ Holds /\ RecordsFit
  BY DEF Base
<1> PICK f : Applies(f)
  BY ApplyShape
<1>1. /\ f \in left /\ record[cur] \in Record /\ cur \in Used /\ cur # 0 /\ Fits(cur, record[cur])
      /\ cur \in journal /\ snap = 0 /\ work \in {"rolling", "applying"} /\ left' = left \ {f}
      /\ UNCHANGED <<journal, record, work, cur, snap>> /\ cur \in Ops
  BY ApplyShape DEF Applies
<1>2. \A o \in journal : o = cur
  BY <1>1 DEF Alone, OneJournaled
<1>3. f # "hbody" => hbody' = hbody
  BY DEF Applies
<1>4. f = "hbody" => /\ record[cur].ver # 0 /\ record[cur].ver \in Versions
                     /\ hbody' = [hbody EXCEPT ![record[cur].ver] = record[cur].vtext]
                     /\ hbody'[record[cur].ver] = record[cur].vtext
  <2>1. f = "hbody" => record[cur].ver # 0 /\ record[cur].ver \in Versions
    BY <1>1, FileOf, Bounds DEF Record, Versions
  <2> QED BY <1>0, <2>1 DEF Applies, Types, TypeOK
<1>5. \A e \in index : hbody'[e.id] = hbody[e.id]
  <2>1. CASE f = "hbody"
    <3>1. \A e \in index : e.id \in Versions
      BY <1>0 DEF Types, TypeOK
    <3>2. \A e \in index : e.id = record[cur].ver => hbody[e.id] = record[cur].vtext
      BY <1>1, <1>4, <2>1 DEF Alone, IndexKeeps
    <3> QED BY <1>0, <1>4, <2>1, <3>1, <3>2 DEF Types, TypeOK
  <2> QED BY <1>3, <2>1
<1>6. f # "index" => index' = index
  BY DEF Applies
<1>7. f = "index" => /\ record[cur].ver # 0 /\ "hbody" \notin left
                     /\ hbody' = hbody /\ hbody[record[cur].ver] = record[cur].vtext
                     /\ index' = IndexText(cur)
  <2>1. f = "index" => record[cur].ver # 0 /\ "hbody" \notin left /\ hbody' = hbody
                       /\ index' = IndexText(cur)
    BY <1>1, FileOf DEF Applies, IsNext, Rank
  <2> QED BY <1>1, <2>1 DEF Alone, VersionWritten
<1>8. f = "index" => index \subseteq index' /\ [id |-> record[cur].ver, op |-> 0] \in index'
                     /\ \A e \in index' : \/ e \in record[cur].entries
                                          \/ e \in index /\ e.op = cur /\ e.id > record[cur].ver
  <2> SUFFICES ASSUME f = "index"
               PROVE  index \subseteq index' /\ [id |-> record[cur].ver, op |-> 0] \in index'
                      /\ \A e \in index' : \/ e \in record[cur].entries
                                           \/ e \in index /\ e.op = cur /\ e.id > record[cur].ver
    OBVIOUS
  <2>1. [id |-> record[cur].ver, op |-> 0] \in record[cur].entries
        /\ \A e \in record[cur].entries : e.id <= record[cur].ver /\ e.op < cur
    BY <1>1, <1>7 DEF Fits
  <2>2. record[cur].entries \subseteq index'
    BY <1>7 DEF IndexText
  <2>3. \A e \in index : e \in record[cur].entries \/ (e.op = cur /\ e.id > record[cur].ver)
    BY <1>1, <1>7 DEF Alone, IndexKeeps
  <2>4. ASSUME NEW e \in index, e \notin record[cur].entries PROVE e \in index'
    <3>1. e.op = cur /\ e.id > record[cur].ver
      BY <2>3, <2>4
    <3>2. work = "rolling"
      BY <1>1, <3>1 DEF Alone, CommitFresh
    <3>3. record[cur].ver \in Nat /\ \A d \in record[cur].entries : d.id \in Nat
      BY <1>1, Bounds DEF Record, Entry, Versions
    <3>4. e.id \in Nat
      BY <1>0 DEF Types, TypeOK, Versions
    <3>5. e.id \notin {d.id : d \in record[cur].entries}
      BY <2>1, <3>1, <3>3, <3>4
    <3> QED BY <1>7, <3>1, <3>2, <3>5 DEF IndexText, Replaying
  <2>5. \A e \in index' : e \in record[cur].entries \/ e \in index
    BY <1>1, <1>7, IndexTextShape
  <2> QED BY <2>1, <2>2, <2>3, <2>4, <2>5
<1>9. ListKept
  BY <1>5, <1>6, <1>8 DEF ListKept
<1>10. IndexKeeps'
  <2> SUFFICES ASSUME record[cur].ver # 0, NEW e \in index'
               PROVE  /\ e.id = record[cur].ver => hbody'[e.id] = record[cur].vtext
                      /\ e \in record[cur].entries \/ (e.op = cur /\ e.id > record[cur].ver)
    BY <1>1, <1>2 DEF IndexKeeps
  <2>1. CASE f = "index"
    BY <1>1, <1>7, <1>8, <2>1
  <2>2. CASE f # "index"
    BY <1>1, <1>5, <1>6, <2>2 DEF Alone, IndexKeeps
  <2> QED BY <2>1, <2>2
<1>11. VersionWritten'
  <2> SUFFICES ASSUME record[cur].ver # 0
               PROVE  /\ "hbody" \notin left' => hbody'[record[cur].ver] = record[cur].vtext
                      /\ "index" \notin left' => [id |-> record[cur].ver, op |-> 0] \in index'
    BY <1>1 DEF VersionWritten
  <2>1. "hbody" \notin left' => hbody'[record[cur].ver] = record[cur].vtext
    BY <1>1, <1>3, <1>4 DEF Alone, VersionWritten
  <2>2. "index" \notin left' => [id |-> record[cur].ver, op |-> 0] \in index'
    BY <1>1, <1>6, <1>8 DEF Alone, VersionWritten
  <2> QED BY <2>1, <2>2
<1>12. CommitFresh'
  <2> SUFFICES ASSUME work = "applying", NEW e \in index' PROVE e.op # cur
    BY <1>1 DEF CommitFresh
  <2>1. CASE f = "index"
    <3>1. e \in record[cur].entries
      BY <1>8, <2>1 DEF Alone, CommitFresh
    <3> QED BY <1>1, <3>1, Bounds DEF Fits
  <2>2. CASE f # "index"
    BY <1>6, <2>2 DEF Alone, CommitFresh
  <2> QED BY <2>1, <2>2
<1> QED BY <1>1, <1>9, <1>10, <1>11, <1>12 DEF Alone, OneJournaled, SnapshotAbove

LEMMA SnapshotIdAlone ==
  ASSUME Base, Alone, SnapshotCounter
  PROVE  Alone' /\ ListKept
<1>1. /\ cur \in journal /\ cur \in Used /\ cur # 0 /\ work = "rolling"
      /\ snap' = counter' /\ counter' \in 0..MaxVer /\ counter' > counter /\ counter' > record[cur].ver
      /\ UNCHANGED <<body, hbody, index, journal, record, work, cur, left>>
  BY SnapshotIdShape
<1>2. ASSUME NEW e \in index PROVE e.id < snap'
  <2>1. e.id <= counter \/ e.id <= record[cur].ver
    BY <1>1 DEF Base, Covered, Alone, OneJournaled
  <2>2. e.id \in Nat /\ counter \in Nat /\ record[cur].ver \in Nat /\ counter' \in Nat
    BY <1>1, Bounds DEF Base, Types, TypeOK, Versions, Record, Used
  <2> QED BY <1>1, <2>1, <2>2
<1>3. SnapshotAbove'
  BY <1>1, <1>2 DEF SnapshotAbove
<1> QED BY <1>1, <1>3 DEF Alone, OneJournaled, IndexKeeps, VersionWritten, CommitFresh, ListKept

LEMMA SnapshotBodyAlone ==
  ASSUME Base, Alone, SnapshotBody
  PROVE  Alone' /\ ListKept
<1>0. Types
  BY DEF Base
<1>1. /\ cur # 0 /\ cur \in journal /\ cur \in Used /\ cur \in Ops /\ work = "rolling"
      /\ snap \in Versions /\ snap > record[cur].ver /\ snap # 0
      /\ hbody' = [hbody EXCEPT ![snap] = body]
      /\ UNCHANGED <<index, journal, record, work, cur, left, snap>>
  BY SnapshotUnderWay DEF SnapshotBody, holder
<1>2. \A v \in Versions \ {snap} : hbody'[v] = hbody[v]
  BY <1>0, <1>1 DEF Types, TypeOK
<1>3. \A e \in index : e.id \in Versions /\ e.id < snap
  BY <1>0, <1>1 DEF Types, TypeOK, Alone, SnapshotAbove
<1>4. \A e \in index : hbody'[e.id] = hbody[e.id]
  BY <1>1, <1>2, <1>3 DEF Versions
<1>5. record[cur].ver # 0 => hbody'[record[cur].ver] = hbody[record[cur].ver]
  <2>1. record[cur].ver # 0 => record[cur].ver \in Versions
    BY <1>0, <1>1, Bounds DEF Types, Record, Versions
  <2> QED BY <1>1, <1>2, <2>1 DEF Versions
<1>6. IndexKeeps'
  BY <1>1, <1>4 DEF Alone, IndexKeeps
<1>7. VersionWritten'
  BY <1>1, <1>5 DEF Alone, VersionWritten
<1> QED BY <1>1, <1>4, <1>6, <1>7 DEF Alone, OneJournaled, SnapshotAbove, CommitFresh, ListKept

LEMMA SnapshotEntryAlone ==
  ASSUME Base, Alone, SnapshotEntry
  PROVE  Alone' /\ ListKept /\ (\E e \in index' : hbody'[e.id] = body)
<1>1. /\ cur # 0 /\ cur \in journal /\ work = "rolling"
      /\ snap > record[cur].ver /\ hbody[snap] = body
      /\ index' = index \cup {[id |-> snap, op |-> cur]} /\ snap' = 0
      /\ UNCHANGED <<hbody, journal, record, work, cur, left>>
  BY SnapshotUnderWay DEF SnapshotEntry
<1>2. \A o \in journal : o = cur
  BY <1>1 DEF Alone, OneJournaled
<1>3. record[cur].ver < snap => record[cur].ver # snap
  BY <1>1, SnapshotUnderWay DEF Base, Types, Record, Versions
<1>4. IndexKeeps'
  BY <1>1, <1>2, <1>3 DEF Alone, IndexKeeps
<1> QED BY <1>1, <1>4 DEF Alone, OneJournaled, VersionWritten, SnapshotAbove, CommitFresh, ListKept

\* No record leaves the history of unfinished records.
LEMMA CrowdedStays == Base /\ [Next]_vars => (crowded => crowded')
<1> SUFFICES ASSUME Base, [Next]_vars, crowded PROVE crowded'
  OBVIOUS
<1>1. ASSUME NEW o \in Ops, Patch(o) \/ SaveVersion(o) \/ Delete(o) PROVE crowded'
  BY <1>1 DEF Patch, SaveVersion, Delete, Commit
<1> QED BY <1>1 DEF Next, vars, history, ExternalEdit, RequestBegins, HandlerEnds, ApplyFile,
             SnapshotCounter, SnapshotBody, SnapshotEntry, RecordDone, StampSidecar, RollNext,
             RollEnds, Interrupt, RollFails

-----------------------------------------------------------------------------
(* Where an edit is found *)

InHist(t) == \E e \in index : hbody[e.id] = t

Safe(t) == t \in late \/ InHist(t)

(* An edit is no older text: nothing read before it was that text. *)
Past ==
  /\ \A t \in owed : t >= -edits
  /\ body >= -edits /\ stamp >= -edits
  /\ \A o \in Ops : record[o].expect >= -edits

(* The text a record expects in the note is saved, or the record saves it. *)
ExpectSafe ==
  \A o \in journal : record[o].expect \in owed =>
     Safe(record[o].expect) \/ record[o].vtext = record[o].expect

(* So is the text the sidecar describes: a PATCH may replace it unsaved. *)
StampSafe == stamp \in owed => Safe(stamp)

(* An edit that meets a record which kept one already is late, or the one. *)
ReplaySafe == \A e \in index : e.op \in journal /\ body \in owed => Safe(body)

(* A note on its way to the trash is in one of the two places. *)
MoveFits ==
  /\ \A o \in journal : record[o].moves => trash \in {None, record[o].vtext}
  /\ trash # None => body = None \/ \E o \in journal : record[o].moves /\ trash = record[o].vtext
  /\ \A o \in journal : ~record[o].moves => body # None
  /\ cur # 0 /\ record[cur].moves /\ "trash" \notin left => trash = record[cur].vtext
  /\ cur # 0 /\ record[cur].moves /\ "remove" \notin left => body = None

(* A commit finds the note as its handler read it. *)
CommitFits == work = "applying" =>
  /\ record[cur].text = None /\ ~record[cur].moves => body = record[cur].vtext
  /\ record[cur].text # None /\ "body" \notin left => body = record[cur].text
  /\ "body" \in left \/ "remove" \in left => body = record[cur].expect

StampingSafe == work = "stamping" /\ body \in owed => Safe(body)

AllFound == \A t \in owed : t \in late \/ Found(t)

Kept == /\ ExpectSafe /\ StampSafe /\ ReplaySafe /\ MoveFits /\ CommitFits /\ StampingSafe
        /\ AllFound

Inv == Base /\ Past /\ (~crowded => Alone /\ Kept)

\* Edits are texts of their own, and texts are numbers.
LEMMA EditNumbers ==
  ASSUME Base
  PROVE  /\ body \in Int /\ stamp \in Int /\ edits \in Nat
         /\ \A o \in Ops : record[o].expect \in Int
         /\ \A t \in owed : t \in Int /\ t < 0 /\ t # None
         /\ None \in Nat /\ None > 0 /\ \A o \in Ops : o > 0
<1>1. Texts \subseteq Int /\ None \in Nat /\ None > 0 /\ \A o \in Ops : o > 0
  BY BoundsAssumption DEF Texts, None, Ops
<1>2. \A t \in Edits : t \in Int /\ t < 0
  BY BoundsAssumption DEF Edits
<1>3. \A o \in Ops : record[o].expect \in Int
  BY <1>1 DEF Base, Types, Record
<1>4. owed \subseteq Edits /\ body \in Int /\ stamp \in Int
  BY <1>1 DEF Base, Types, TypeOK
<1>5. edits \in Nat
  BY BoundsAssumption DEF Base, Types, TypeOK
<1> QED BY <1>1, <1>2, <1>3, <1>4, <1>5, Bounds

LEMMA InitPast == Init => Past
<1> SUFFICES ASSUME Init PROVE Past
  OBVIOUS
<1>1. \A o \in Ops : record[o].expect = None
  BY DEF Init, NoRecord, Plain
<1>2. None >= 0
  BY BoundsAssumption DEF None
<1> QED BY <1>1, <1>2 DEF Init, Past

\* No text but an edit is below the edits made so far.
LEMMA NextPast ==
  ASSUME Base, Past, [Next]_vars
  PROVE  Past'
<1>0. /\ body \in Int /\ stamp \in Int /\ edits \in Nat /\ None \in Nat /\ None > 0
      /\ \A o \in Ops : record[o].expect \in Int /\ o > 0
      /\ \A t \in owed : t \in Int
  BY EditNumbers
<1>1. CASE ExternalEdit
  BY <1>0, <1>1 DEF ExternalEdit, Past
<1>2. ASSUME NEW o \in Ops, Patch(o) \/ SaveVersion(o) \/ Delete(o) PROVE Past'
  <2>1. PICK r : Plan(o, r)
    BY <1>2, Planned
  <2>2. /\ record'[o] = r /\ \A q \in Ops \ {o} : record'[q] = record[q]
        /\ UNCHANGED <<body, stamp, edits, owed>>
    BY <2>1, CommitShape DEF Plan, Commit, files
  <2>3. r.expect \in {body, None}
    BY <2>1 DEF Plan
  <2>4. r.expect >= -edits
    BY <1>0, <2>3 DEF Past
  <2>5. \A q \in Ops : record'[q].expect >= -edits
    BY <2>2, <2>4 DEF Past
  <2> QED BY <2>2, <2>5 DEF Past
<1>3. CASE ApplyFile
  <2>1. PICK f : Applies(f)
    BY <1>3, ApplyShape
  <2>2. UNCHANGED <<stamp, record, edits, owed>> /\ Fits(cur, record[cur]) /\ cur \in Ops
    BY <1>3, ApplyShape
  <2>3. body' \in {body, None, cur}
    BY <2>1, <2>2 DEF Applies, Fits
  <2>4. body >= -edits /\ edits' = edits /\ cur \in Int /\ cur > 0
    BY <1>0, <2>2 DEF Past, Ops
  <2>5. CASE body' = body
    <3>1. body' >= -edits
      BY <2>4, <2>5
    <3> QED BY <2>2, <3>1 DEF Past
  <2>6. CASE body' = None
    <3>1. body' >= -edits
      BY <1>0, <2>6
    <3> QED BY <2>2, <3>1 DEF Past
  <2>7. CASE body' = cur
    <3>1. body' >= -edits
      BY <1>0, <2>4, <2>7
    <3> QED BY <2>2, <3>1 DEF Past
  <2> QED BY <2>3, <2>5, <2>6, <2>7
<1>4. CASE StampSidecar
  BY <1>4 DEF StampSidecar, history, Past
<1>5. CASE \/ UNCHANGED vars \/ RequestBegins \/ HandlerEnds \/ SnapshotCounter \/ SnapshotBody
           \/ SnapshotEntry \/ RecordDone \/ RollNext \/ RollEnds \/ Interrupt \/ RollFails
  <2>1. UNCHANGED <<body, stamp, record, edits, owed>>
    BY <1>5 DEF vars, files, history, RequestBegins, HandlerEnds, SnapshotCounter, SnapshotBody,
                SnapshotEntry, RecordDone, RollNext, RollEnds, Interrupt, RollFails
  <2> QED BY <2>1 DEF Past
<1> QED BY <1>1, <1>2, <1>3, <1>4, <1>5 DEF Next

(* Safe and Found after the step, for a text of before it. *)
InHistNext(t) == \E e \in index' : hbody'[e.id] = t
SafeNext(t)   == t \in late' \/ InHistNext(t)
FoundNext(t)  == \/ body' = t \/ trash' = t \/ InHistNext(t)
                 \/ \E o \in journal' : record'[o].vtext = t

\* While one record at a time is unfinished, what is safe stays so.
LEMMA SafeStays ==
  ASSUME ListKept, late \subseteq late', NEW t
  PROVE  (Safe(t) => SafeNext(t)) /\ (InHist(t) => InHistNext(t))
BY DEF ListKept, Safe, InHist, SafeNext, InHistNext

\* What the primed parts of the invariant say.
LEMMA KeptNext ==
  ASSUME \A o \in journal' : record'[o].expect \in owed' =>
            SafeNext(record'[o].expect) \/ record'[o].vtext = record'[o].expect,
         stamp' \in owed' => SafeNext(stamp'),
         \A e \in index' : e.op \in journal' /\ body' \in owed' => SafeNext(body'),
         MoveFits', CommitFits',
         work' = "stamping" /\ body' \in owed' => SafeNext(body'),
         \A t \in owed' : t \in late' \/ FoundNext(t)
  PROVE  Kept'
BY DEF Kept, ExpectSafe, StampSafe, ReplaySafe, StampingSafe, AllFound, Found, Safe, InHist,
       SafeNext, FoundNext, InHistNext

\* A step that leaves the note, its trash and the records alone.
LEMMA SameNote ==
  ASSUME Kept, ListKept, UNCHANGED <<body, trash, stamp, journal, record, owed, late>>
  PROVE  /\ \A o \in journal' : record'[o].expect \in owed' =>
               SafeNext(record'[o].expect) \/ record'[o].vtext = record'[o].expect
         /\ stamp' \in owed' => SafeNext(stamp')
         /\ \A e \in index : e.op \in journal' /\ body' \in owed' => SafeNext(body')
         /\ \A t \in owed' : t \in late' \/ FoundNext(t)
         /\ \A o \in journal' : record'[o].moves => trash' \in {None, record'[o].vtext}
         /\ trash' # None => body' = None \/ \E o \in journal' : record'[o].moves /\ trash' = record'[o].vtext
         /\ \A o \in journal' : ~record'[o].moves => body' # None
<1>1. \A t : (Safe(t) => SafeNext(t)) /\ (InHist(t) => InHistNext(t))
  BY SafeStays
<1>2. \A o \in journal : record[o].expect \in owed =>
          SafeNext(record[o].expect) \/ record[o].vtext = record[o].expect
  BY <1>1 DEF Kept, ExpectSafe
<1>3. stamp \in owed => SafeNext(stamp)
  BY <1>1 DEF Kept, StampSafe
<1>4. \A e \in index : e.op \in journal /\ body \in owed => SafeNext(body)
  BY <1>1 DEF Kept, ReplaySafe
<1>5. \A t \in owed : t \in late \/ FoundNext(t)
  <2>1. \A t : Found(t) => FoundNext(t)
    BY <1>1 DEF Found, FoundNext, InHist
  <2> QED BY <2>1 DEF Kept, AllFound
<1>6. /\ \A o \in journal : record[o].moves => trash \in {None, record[o].vtext}
      /\ trash # None => body = None \/ \E o \in journal : record[o].moves /\ trash = record[o].vtext
      /\ \A o \in journal : ~record[o].moves => body # None
  BY DEF Kept, MoveFits
<1> QED BY <1>2, <1>3, <1>4, <1>5, <1>6

\* An edit outside the app: the text it replaces was the user's to replace.
LEMMA EditKept ==
  ASSUME Base, Past, Alone, Kept, ListKept, ExternalEdit
  PROVE  Kept'
<1>0. /\ body' = -edits' /\ edits' = edits + 1 /\ body # None
      /\ owed' = (owed \ {body}) \cup {body'}
      /\ late' = IF \E e \in index : e.op \in journal THEN late \cup {body'} ELSE late
      /\ UNCHANGED <<trash, stamp, hbody, index, journal, record, work, cur, left>>
      /\ work = "idle" /\ cur = 0
  BY DEF ExternalEdit, holder, Base, Holds
<1>1. /\ body \in Int /\ stamp \in Int /\ edits \in Nat /\ journal \subseteq Ops
      /\ \A o \in Ops : record[o].expect \in Int
      /\ None \in Nat
  BY EditNumbers DEF Base, Types, TypeOK, Used
<1>2. late \subseteq late' /\ \A t : (Safe(t) => SafeNext(t)) /\ (InHist(t) => InHistNext(t))
  <2>1. late \subseteq late'
    BY <1>0
  <2> QED BY <2>1, SafeStays
<1>3. body' # None /\ stamp # body' /\ \A o \in journal : record[o].expect # body'
  BY <1>0, <1>1 DEF Past
<1>4. \A o \in journal' : record'[o].expect \in owed' =>
          SafeNext(record'[o].expect) \/ record'[o].vtext = record'[o].expect
  <2>1. \A o \in journal : record[o].expect \in owed' => record[o].expect \in owed
    BY <1>0, <1>3
  <2>2. \A o \in journal : record[o].expect \in owed =>
            SafeNext(record[o].expect) \/ record[o].vtext = record[o].expect
    BY <1>2 DEF Kept, ExpectSafe
  <2> QED BY <1>0, <2>1, <2>2
<1>5. stamp' \in owed' => SafeNext(stamp')
  <2>1. stamp \in owed' => stamp \in owed
    BY <1>0, <1>3
  <2>2. stamp \in owed => SafeNext(stamp)
    BY <1>2 DEF Kept, StampSafe
  <2> QED BY <1>0, <2>1, <2>2
<1>6. \A e \in index' : e.op \in journal' /\ body' \in owed' => SafeNext(body')
  BY <1>0 DEF SafeNext
<1>7. MoveFits'
  BY <1>0, <1>3 DEF Kept, MoveFits
<1>8. CommitFits' /\ work' # "stamping"
  BY <1>0 DEF CommitFits
<1>9. \A t \in owed' : t \in late' \/ FoundNext(t)
  <2>1. \A t : Found(t) /\ t # body => FoundNext(t)
    BY <1>0, <1>2 DEF Found, FoundNext, InHist
  <2>2. FoundNext(body')
    BY DEF FoundNext
  <2>3. \A t \in owed : t \in late' \/ Found(t)
    BY <1>0 DEF Kept, AllFound
  <2> QED BY <1>0, <2>1, <2>2, <2>3
<1> QED BY <1>4, <1>5, <1>6, <1>7, <1>8, <1>9, KeptNext

\* The other steps that only move the holder.
LEMMA QuietKept ==
  ASSUME Base, Alone, Kept, ListKept, Quiet, ~ExternalEdit
  PROVE  Kept'
<1>0. Types /\ Holds
  BY DEF Base
<1>1. /\ UNCHANGED <<body, trash, hbody, index, journal, record, owed, late>>
      /\ work' \notin {"applying", "stamping"}
      /\ stamp' = stamp \/ (work = "stamping" /\ stamp' = body)
  BY <1>0 DEF Quiet, RequestBegins, HandlerEnds, StampSidecar, RollNext, RollEnds, Interrupt, RollFails,
         Idle, files, history, Holds
<1>2. cur' = 0 \/ (cur' # 0 /\ left' = FilesOf(cur'))
  BY <1>0, QuietShape, RollNextShape
<1>3. \A t : Safe(t) => SafeNext(t)
  BY <1>1, SafeStays
<1>4. stamp' \in owed' => SafeNext(stamp')
  <2>1. stamp \in owed => SafeNext(stamp)
    BY <1>3 DEF Kept, StampSafe
  <2>2. work = "stamping" /\ body \in owed => SafeNext(body)
    BY <1>3 DEF Kept, StampingSafe
  <2> QED BY <1>1, <2>1, <2>2
<1>5. MoveFits'
  <2>1. cur' # 0 /\ record[cur'].moves => "trash" \in left' /\ "remove" \in left'
    BY <1>2 DEF FilesOf
  <2> QED BY <1>1, <2>1 DEF Kept, MoveFits
<1>6. CommitFits'
  BY <1>1 DEF CommitFits
<1>7. \A o \in journal' : record'[o].expect \in owed' =>
          SafeNext(record'[o].expect) \/ record'[o].vtext = record'[o].expect
  BY <1>1, <1>3 DEF Kept, ExpectSafe
<1>8. \A e \in index' : e.op \in journal' /\ body' \in owed' => SafeNext(body')
  BY <1>1, <1>3 DEF Kept, ReplaySafe
<1>9. \A t \in owed' : t \in late' \/ FoundNext(t)
  <2>1. \A t : Found(t) => FoundNext(t)
    BY <1>1 DEF Found, FoundNext, InHistNext
  <2> QED BY <1>1, <2>1 DEF Kept, AllFound
<1> QED BY <1>1, <1>4, <1>5, <1>6, <1>7, <1>8, <1>9, KeptNext

\* A commit expects the text in the note, which is saved, or will be by it.
LEMMA CommitKept ==
  ASSUME Base, Kept, ListKept, NEW o \in Ops, NEW r, Plan(o, r), ~crowded'
  PROVE  Kept'
<1>1. /\ journal = {} /\ journal' = {o} /\ cur' = o /\ o # 0 /\ left' = FilesOf(o)'
      /\ work' = "applying" /\ record'[o] = r
      /\ UNCHANGED <<body, trash, stamp, hbody, index, owed, late>>
      /\ \A e \in index : e.op < o /\ e.op # o
  <2>1. \A e \in index : e.op < o /\ o \in Nat
    BY CommitAlone, Bounds
  <2> QED BY <2>1, CommitAlone
<1>2. \A t : Safe(t) => SafeNext(t)
  BY <1>1, SafeStays
<1>3. None \notin owed /\ body # None
  BY EditNumbers DEF Plan
<1>4. r.expect \in owed => SafeNext(r.expect) \/ r.vtext = r.expect
  <2>1. CASE r.text # None /\ r.ver = 0
    <3>1. r.expect = stamp
      BY <2>1 DEF Plan
    <3> QED BY <1>2, <3>1 DEF Kept, StampSafe
  <2>2. CASE r.moves \/ (r.text # None /\ r.ver # 0)
    BY <2>2 DEF Plan
  <2>3. CASE r.text = None /\ ~r.moves
    BY <1>3, <2>3 DEF Plan
  <2> QED BY <2>1, <2>2, <2>3
<1>5. stamp' \in owed' => SafeNext(stamp')
  BY <1>1, <1>2 DEF Kept, StampSafe
<1>6. \A e \in index' : e.op \notin journal'
  BY <1>1
<1>7. trash = None
  BY <1>1, <1>3 DEF Kept, MoveFits
<1>8. /\ r.text # None => "body" \in left'
      /\ r.moves => "trash" \in left' /\ "remove" \in left'
      /\ "body" \in left' => r.text # None
      /\ "remove" \in left' => r.moves
  BY <1>1 DEF FilesOf
<1>9. MoveFits'
  BY <1>1, <1>3, <1>7, <1>8 DEF MoveFits
<1>10. CommitFits'
  <2>1. r.text = None /\ ~r.moves => body = r.vtext
    BY DEF Plan
  <2>2. r.text # None \/ r.moves => body = r.expect
    BY DEF Plan
  <2> QED BY <1>1, <1>8, <2>1, <2>2 DEF CommitFits
<1>11. \A t \in owed' : t \in late' \/ FoundNext(t)
  <2>1. \A t : Found(t) => FoundNext(t)
    BY <1>1 DEF Found, FoundNext, InHistNext
  <2> QED BY <1>1, <2>1 DEF Kept, AllFound
<1> QED BY <1>1, <1>4, <1>5, <1>6, <1>9, <1>10, <1>11, KeptNext

\* A text the record under way replaces in the note can be found elsewhere: a
\* commit expects it, and a replay expects it, or kept it, or met it late.
LEMMA ReplacedFound ==
  ASSUME Base, Alone, Kept, ApplyFile, NEW f, Applies(f), f \in {"body", "remove"},
         body \in owed, body # body'
  PROVE  Safe(body) \/ record[cur].vtext = body
<1>1. /\ f \in left /\ IsNext(f) /\ cur \in journal /\ cur # 0 /\ work \in {"rolling", "applying"}
      /\ ~MustKeep(cur)
  BY ApplyShape DEF Applies, ApplyFile
<1>2. body # None
  BY EditNumbers
<1>3. body = record[cur].expect => Safe(body) \/ record[cur].vtext = body
  BY <1>1 DEF Kept, ExpectSafe
<1>4. (\E e \in index : e.op = cur) => Safe(body)
  BY <1>1 DEF Kept, ReplaySafe
<1>5. CASE work = "applying"
  <2>1. body = record[cur].expect
    BY <1>1, <1>5 DEF Kept, CommitFits
  <2> QED BY <1>3, <2>1
<1>6. CASE work = "rolling"
  <2>1. f = "body" => body # record[cur].text
    BY DEF Applies
  <2>2. body = record[cur].expect \/ \E e \in index : e.op = cur
    BY <1>1, <1>2, <1>6, <2>1 DEF MustKeep, Replaying
  <2> QED BY <1>3, <1>4, <2>2
<1> QED BY <1>1, <1>5, <1>6

LEMMA ApplyKept ==
  ASSUME Base, Alone, Kept, ListKept, ApplyFile
  PROVE  Kept'
<1>0. Types /\ Holds
  BY DEF Base
<1> PICK f : Applies(f)
  BY ApplyShape
<1>1. /\ f \in left /\ cur \in Used /\ cur \in Ops /\ cur # 0 /\ Fits(cur, record[cur])
      /\ cur \in journal /\ work \in {"rolling", "applying"} /\ left' = left \ {f}
      /\ UNCHANGED <<stamp, journal, record, work, cur, owed, late>>
      /\ \A o \in journal : o = cur
  BY ApplyShape DEF Applies, Alone, OneJournaled
<1>2. \A t : (Safe(t) => SafeNext(t)) /\ (InHist(t) => InHistNext(t))
  BY <1>1, SafeStays
<1>3. /\ f \in {"body", "trash", "remove", "hbody", "index", "manifest"}
      /\ f = "body" => record[cur].text # None /\ ~record[cur].moves
      /\ f \in {"trash", "remove"} => record[cur].moves
  BY <1>1, FileOf DEF Fits
<1>4. /\ f = "body" => body' = record[cur].text
      /\ f = "remove" => body' = None
      /\ f \notin {"body", "remove"} => body' = body
      /\ f = "trash" => trash' = record[cur].vtext
      /\ f # "trash" => trash' = trash
  BY DEF Applies
<1>5. None \notin owed /\ record[cur].text \notin owed
  BY <1>1, EditNumbers DEF Fits
<1>6. body' \in owed => body' = body
  BY <1>3, <1>4, <1>5
<1>7. \A o \in journal' : record'[o].expect \in owed' =>
          SafeNext(record'[o].expect) \/ record'[o].vtext = record'[o].expect
  BY <1>1, <1>2 DEF Kept, ExpectSafe
<1>8. stamp' \in owed' => SafeNext(stamp')
  BY <1>1, <1>2 DEF Kept, StampSafe
<1>9. \A e \in index' : e.op \in journal' /\ body' \in owed' => SafeNext(body')
  <2> SUFFICES ASSUME NEW e \in index', e.op = cur, body' \in owed PROVE SafeNext(body')
    BY <1>1
  <2>1. e \in index
    <3>1. CASE f = "index"
      <4>1. e \in IndexText(cur)
        BY <3>1 DEF Applies
      <4>2. \A d \in record[cur].entries : d.op < cur
        BY <1>1 DEF Fits
      <4>3. cur \in Nat
        BY <1>1, Bounds
      <4> QED BY <1>1, <4>1, <4>2, <4>3, IndexTextShape
    <3> QED BY <3>1 DEF Applies
  <2> QED BY <1>1, <1>2, <1>6, <2>1 DEF Kept, ReplaySafe
<1>10. MoveFits'
  <2>1. record[cur].moves => trash' \in {None, record[cur].vtext}
    BY <1>1, <1>4 DEF Kept, MoveFits
  <2>2. trash' # None => body' = None \/ (record[cur].moves /\ trash' = record[cur].vtext)
    <3>1. CASE record[cur].moves
      BY <2>1, <3>1
    <3>2. CASE ~record[cur].moves
      <4>1. trash' = trash /\ (trash # None => body = None) /\ body # None
        BY <1>1, <1>3, <1>4, <3>2 DEF Kept, MoveFits
      <4> QED BY <4>1
    <3> QED BY <3>1, <3>2
  <2>3. ~record[cur].moves => body' # None
    BY <1>1, <1>3, <1>4 DEF Kept, MoveFits
  <2>4. record[cur].moves /\ "trash" \notin left' => trash' = record[cur].vtext
    BY <1>1, <1>4 DEF Kept, MoveFits
  <2>5. record[cur].moves /\ "remove" \notin left' => body' = None
    BY <1>1, <1>3, <1>4 DEF Kept, MoveFits
  <2> QED BY <1>1, <2>1, <2>2, <2>3, <2>4, <2>5 DEF MoveFits
<1>11. CommitFits'
  <2> SUFFICES ASSUME work = "applying"
               PROVE  /\ record[cur].text = None /\ ~record[cur].moves => body' = record[cur].vtext
                      /\ record[cur].text # None /\ "body" \notin left' => body' = record[cur].text
                      /\ "body" \in left' \/ "remove" \in left' => body' = record[cur].expect
    BY <1>1 DEF CommitFits
  <2>1. record[cur].text = None /\ ~record[cur].moves => body' = record[cur].vtext
    BY <1>1, <1>3, <1>4 DEF Kept, CommitFits
  <2>2. record[cur].text # None /\ "body" \notin left' => body' = record[cur].text
    <3>1. record[cur].text # None => f # "remove"
      BY <1>1, <1>3 DEF Fits
    <3> QED BY <1>1, <1>4, <3>1 DEF Kept, CommitFits
  <2>3. "body" \in left' \/ "remove" \in left' => body' = record[cur].expect
    <3>1. ("body" \in left => record[cur].text # None) /\ ("remove" \in left => record[cur].moves)
      BY <1>1, FileOf
    <3>2. "body" \in left' \/ "remove" \in left' => f \notin {"body", "remove"}
      BY <1>1, <1>3, <3>1 DEF Fits
    <3> QED BY <1>1, <1>4, <3>2 DEF Kept, CommitFits
  <2> QED BY <2>1, <2>2, <2>3
<1>12. \A t \in owed' : t \in late' \/ FoundNext(t)
  <2> SUFFICES ASSUME NEW t \in owed, t \notin late PROVE t \in late \/ FoundNext(t)
    BY <1>1
  <2>1. Found(t) /\ t # None
    BY <1>5 DEF Kept, AllFound
  <2>2. CASE body = t /\ body' # body
    <3>1. f \in {"body", "remove"}
      BY <1>4, <2>2
    <3>2. Safe(t) \/ record[cur].vtext = t
      BY <2>2, <3>1, ReplacedFound
    <3> QED BY <1>1, <1>2, <3>2 DEF Safe, FoundNext
  <2>3. CASE body = t /\ body' = body
    BY <2>3 DEF FoundNext
  <2>4. CASE trash = t
    <3>1. CASE f = "trash"
      <4>1. trash = record[cur].vtext
        BY <1>1, <1>3, <2>1, <2>4, <3>1 DEF Kept, MoveFits
      <4> QED BY <1>4, <2>4, <3>1, <4>1 DEF FoundNext
    <3> QED BY <1>4, <2>4, <3>1 DEF FoundNext
  <2>5. CASE InHist(t)
    BY <1>2, <2>5 DEF FoundNext
  <2>6. CASE \E o \in journal : record[o].vtext = t
    BY <1>1, <2>6 DEF FoundNext
  <2> QED BY <2>1, <2>2, <2>3, <2>4, <2>5, <2>6 DEF Found, InHist
<1> QED BY <1>1, <1>7, <1>8, <1>9, <1>10, <1>11, <1>12, KeptNext

\* A snapshot only adds to the history, and lists the edit it found.
LEMMA SnapshotKept ==
  ASSUME Base, Alone, Kept, ListKept,
         SnapshotCounter \/ SnapshotBody \/ SnapshotEntry
  PROVE  Kept'
<1>1. /\ UNCHANGED <<body, trash, stamp, journal, record, work, cur, left, owed, late>>
      /\ work = "rolling" /\ cur # 0
  <2>1. CASE SnapshotCounter
    BY <2>1, SnapshotIdShape DEF history
  <2>2. CASE SnapshotBody
    BY <2>2, SnapshotUnderWay DEF SnapshotBody, holder, history
  <2>3. CASE SnapshotEntry
    BY <2>3, SnapshotUnderWay DEF SnapshotEntry, history
  <2> QED BY <2>1, <2>2, <2>3
<1>2. index' = index \/ InHistNext(body)
  <2>1. CASE SnapshotEntry
    BY <2>1, SnapshotEntryAlone DEF InHistNext
  <2>2. CASE SnapshotCounter \/ SnapshotBody
    BY <2>2 DEF SnapshotCounter, SnapshotBody
  <2> QED BY <2>1, <2>2
<1>3. \A e \in index' : e.op \in journal' /\ body' \in owed' => SafeNext(body')
  BY <1>1, <1>2, SameNote DEF SafeNext
<1>4. MoveFits' /\ CommitFits'
  BY <1>1 DEF Kept, MoveFits, CommitFits
<1> QED BY <1>1, <1>3, <1>4, SameNote, KeptNext

\* A record that is gone has put what it was to save in the history or trash.
LEMMA DoneKept ==
  ASSUME Base, Alone, Kept, ListKept, RecordDone
  PROVE  Kept'
<1>1. /\ UNCHANGED <<body, trash, stamp, hbody, index, record, owed, late>>
      /\ cur # 0 /\ cur' = 0 /\ left = {} /\ cur \in journal /\ cur \in Used
      /\ work' = IF work = "rolling" THEN "rolling" ELSE "stamping"
      /\ work \in {"rolling", "applying"} /\ Fits(cur, record[cur])
  BY DEF RecordDone, files, history, Replaying, Base, Holds, Types, TypeOK, RecordsFit
<1>2. journal' = {}
  BY <1>1 DEF RecordDone, Alone, OneJournaled
<1>3. \A t : Safe(t) => SafeNext(t)
  BY <1>1, SafeStays
<1>4. record[cur].ver # 0 => InHistNext(record[cur].vtext)
  BY <1>1 DEF Alone, VersionWritten, InHistNext
<1>5. record[cur].moves => trash = record[cur].vtext /\ body = None
  BY <1>1 DEF Kept, MoveFits
<1>6. None \notin owed /\ record[cur].text \notin owed
  BY <1>1, EditNumbers DEF Fits, Used
<1>7. stamp' \in owed' => SafeNext(stamp')
  BY <1>1, <1>3 DEF Kept, StampSafe
<1>8. MoveFits'
  <2>1. trash # None => body = None
    BY <1>1, <1>2, <1>5 DEF Kept, MoveFits, Alone, OneJournaled
  <2> QED BY <1>1, <1>2, <2>1 DEF MoveFits
<1>9. work' = "stamping" /\ body' \in owed' => SafeNext(body')
  <2> SUFFICES ASSUME work = "applying", body \in owed PROVE SafeNext(body)
    BY <1>1
  <2>1. record[cur].text = None /\ ~record[cur].moves
    BY <1>1, <1>5, <1>6 DEF Kept, CommitFits
  <2>2. body = record[cur].vtext /\ record[cur].ver # 0
    BY <1>1, <2>1 DEF Kept, CommitFits, Fits
  <2> QED BY <1>4, <2>2 DEF SafeNext
<1>10. \A t \in owed' : t \in late' \/ FoundNext(t)
  <2> SUFFICES ASSUME NEW t \in owed, Found(t) PROVE FoundNext(t)
    BY <1>1 DEF Kept, AllFound
  <2>1. CASE \E o \in journal : record[o].vtext = t
    <3>1. record[cur].vtext = t
      BY <1>1, <2>1 DEF Alone, OneJournaled
    <3>2. record[cur].ver # 0 \/ record[cur].moves
      BY <1>1, <1>6, <3>1 DEF Fits
    <3> QED BY <1>1, <1>4, <1>5, <3>1, <3>2 DEF FoundNext
  <2>2. CASE body = t \/ trash = t \/ \E v \in index : hbody[v.id] = t
    BY <1>1, <2>2 DEF FoundNext, InHistNext
  <2> QED BY <2>1, <2>2 DEF Found
<1>11. CommitFits'
  BY <1>1 DEF CommitFits
<1> QED BY <1>2, <1>7, <1>8, <1>9, <1>10, <1>11, KeptNext

LEMMA NextAlone ==
  ASSUME Inv, [Next]_vars, ~crowded'
  PROVE  Alone' /\ ListKept
<1>0. Base /\ ~crowded /\ Alone
  BY CrowdedStays DEF Inv
<1>1. CASE Quiet
  BY <1>0, <1>1, QuietAlone
<1>2. ASSUME NEW o \in Ops, Patch(o) \/ SaveVersion(o) \/ Delete(o) PROVE Alone' /\ ListKept
  <2>1. PICK r : Plan(o, r)
    BY <1>0, <1>2, Planned
  <2> QED BY <1>0, <2>1, CommitKeepsAlone
<1>3. CASE ApplyFile
  BY <1>0, <1>3, ApplyAlone
<1>4. CASE SnapshotCounter
  BY <1>0, <1>4, SnapshotIdAlone
<1>5. CASE SnapshotBody
  BY <1>0, <1>5, SnapshotBodyAlone
<1>6. CASE SnapshotEntry
  BY <1>0, <1>6, SnapshotEntryAlone
<1>7. CASE RecordDone
  BY <1>0, <1>7, DoneAlone
<1>8. CASE UNCHANGED vars
  BY <1>0, <1>8 DEF vars, files, holder, history, Alone, OneJournaled, IndexKeeps, VersionWritten,
                    SnapshotAbove, CommitFresh, ListKept
<1> QED BY <1>1, <1>2, <1>3, <1>4, <1>5, <1>6, <1>7, <1>8 DEF Next, Quiet

LEMMA NextKept ==
  ASSUME Inv, [Next]_vars, ~crowded', ListKept
  PROVE  Kept'
<1>0. Base /\ Past /\ ~crowded /\ Alone /\ Kept
  BY CrowdedStays DEF Inv
<1>1. CASE ExternalEdit
  BY <1>0, <1>1, EditKept
<1>2. CASE Quiet /\ ~ExternalEdit
  BY <1>0, <1>2, QuietKept
<1>3. ASSUME NEW o \in Ops, Patch(o) \/ SaveVersion(o) \/ Delete(o) PROVE Kept'
  <2>1. PICK r : Plan(o, r)
    BY <1>0, <1>3, Planned
  <2> QED BY <1>0, <2>1, CommitKept
<1>4. CASE ApplyFile
  BY <1>0, <1>4, ApplyKept
<1>5. CASE SnapshotCounter \/ SnapshotBody \/ SnapshotEntry
  BY <1>0, <1>5, SnapshotKept
<1>6. CASE RecordDone
  BY <1>0, <1>6, DoneKept
<1>7. CASE UNCHANGED vars
  <2>1. UNCHANGED <<body, trash, stamp, index, hbody, journal, record, work, cur, left, owed, late>>
    BY <1>7 DEF vars, files, holder, history
  <2> QED BY <1>0, <2>1 DEF Kept, ExpectSafe, StampSafe, ReplaySafe, MoveFits, CommitFits,
                            StampingSafe, AllFound, Found, Safe, InHist
<1> QED BY <1>1, <1>2, <1>3, <1>4, <1>5, <1>6, <1>7 DEF Next, Quiet

\* And while one record at a time is unfinished, so do Alone and Kept.
THEOREM InvHolds == Spec => []Inv
<1>1. Init => Inv
  <2> SUFFICES ASSUME Init PROVE Inv
    OBVIOUS
  <2>1. Alone
    BY DEF Init, Alone, OneJournaled, IndexKeeps, VersionWritten, SnapshotAbove, CommitFresh
  <2>2. Kept
    BY DEF Init, Kept, ExpectSafe, StampSafe, ReplaySafe, MoveFits, CommitFits, StampingSafe, AllFound
  <2> QED BY <2>1, <2>2, InitBase, InitPast DEF Inv
<1>2. Inv /\ [Next]_vars => Inv'
  <2>1. Inv /\ [Next]_vars => Base'
    BY NextBase DEF Inv
  <2>2. Inv /\ [Next]_vars => Past'
    BY NextPast DEF Inv
  <2>3. Inv /\ [Next]_vars /\ ~crowded' => Alone' /\ Kept'
    BY NextAlone, NextKept
  <2> QED BY <2>1, <2>2, <2>3 DEF Inv
<1> QED BY <1>1, <1>2, PTL DEF Spec

\* The text of a listed version never changes, as long as no two records were
\* unfinished at once.
THEOREM ListedVersionsKept == Spec => VersionsKept
<1>1. Inv /\ [Next]_vars => [~crowded' => \A e \in index : hbody'[e.id] = hbody[e.id]]_vars
  BY NextAlone DEF ListKept
<1> QED BY <1>1, InvHolds, PTL DEF Spec, VersionsKept

\* No edit made outside the app is lost, as long as no two records were
\* unfinished at once, but an edit made after a replay of the pending record
\* kept one already.
THEOREM FirstKept == Spec => []FirstEditKept
<1>1. Inv => FirstEditKept
  BY DEF Inv, Kept, AllFound, FirstEditKept
<1> QED BY <1>1, InvHolds, PTL

=============================================================================
