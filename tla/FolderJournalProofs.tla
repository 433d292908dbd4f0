------------------------- MODULE FolderJournalProofs ------------------------
(***************************************************************************)
(* Theorems about the journal, for every number of tabs, files, operations,*)
(* failures and crashes.                                                   *)
(*                                                                         *)
(* The argument: an exclusive holder is alone, so what it listed is what   *)
(* the journal holds (HolderKnows); before a handler runs, every pending   *)
(* file is in its skip set, which is why the record it adds names none of  *)
(* them (PendingDisjoint); and since records share no file, the folder     *)
(* they add up to does not change when one of them is applied or deleted.  *)
(***************************************************************************)
EXTENDS FolderJournal, TLAPS, WellFoundedInduction

Working == {"rollRead", "rollWrite", "handling", "applying"}
Serving == {"reading", "rereading", "readingSkipping"}
Places  == {"idle", "toRoll", "reReadAll", "reReadSkipping", "between"} \cup Serving \cup Working

(* Types, without the bounds of failures and crashes. *)
Types ==
  /\ disk \in [Paths -> Ops \cup {0, Absent}]
  /\ record \in [Ops -> [writes : SUBSET Paths, removals : SUBSET Paths, tooNew : BOOLEAN]]
  /\ journal \subseteq Used
  /\ hold \in [Tabs -> {"shared", "exclusive", "none"}]
  /\ pc \in [Tabs -> Places]
  /\ skip \in [Tabs -> SUBSET Paths]
  /\ met \in [Tabs -> SUBSET Ops]
  /\ todo \subseteq journal
  /\ cur \in journal \cup {0}
  /\ applied \subseteq (IF cur = 0 THEN {} ELSE Touched(cur))
  /\ fails \in 0..MaxFails /\ crashes \in 0..MaxCrashes

(* Who holds the lock is where its request is, and an exclusive holder is  *)
(* alone.                                                                  *)
Locking ==
  /\ \A t \in Tabs : /\ hold[t] = "exclusive" <=> pc[t] \in Working
                     /\ hold[t] = "shared" <=> pc[t] \in Serving
  /\ \A t, u \in Tabs : (t # u /\ hold[t] = "exclusive") => hold[u] = "none"

(* What the exclusive holder knows about the journal. *)
HolderKnows ==
  \A t \in Tabs :
    /\ Rolling(t) => todo = journal
    /\ pc[t] = "handling" => cur = 0 /\ PendingPaths \subseteq skip[t]
    /\ pc[t] = "applying" =>
         /\ cur # 0
         /\ \A o \in journal \ {cur} : Touched(o) \subseteq skip[t]

(* The record being applied is on disk as far as it was applied. *)
AppliedOnDisk == cur # 0 => \A p \in applied : disk[p] = Text(cur, p)

(* Nobody is at work when nobody holds the lock exclusively. *)
NoWork == (\A t \in Tabs : hold[t] # "exclusive") => (todo = {} /\ cur = 0 /\ applied = {})

(* Records never change once written, and their two parts are disjoint. *)
RecordsFormed == \A o \in Ops : record[o].writes \cap record[o].removals = {}

(* What a reader knows about the records it met. *)
ReaderKnows ==
  \A t \in Tabs :
    /\ met[t] \subseteq Used
    /\ pc[t] = "idle" => met[t] = {}
    /\ pc[t] = "reading" => journal = {} /\ met[t] = {}
    /\ pc[t] \in {"reReadAll", "rereading"} => met[t] \cap journal = {}
    /\ pc[t] = "readingSkipping" => PendingPaths \subseteq skip[t]

IInv == /\ Types /\ Locking /\ HolderKnows /\ AppliedOnDisk /\ NoWork
        /\ RecordsFormed /\ ReaderKnows /\ PendingDisjoint

-----------------------------------------------------------------------------
(* Taking the lock: t held nothing, nobody held it exclusively, and an     *)
(* exclusive t is alone.                                                   *)
LEMMA AcquireEffect ==
  ASSUME NEW t \in Tabs, NEW m \in {"shared", "exclusive"}, Types, Acquire(t, m)
  PROVE  /\ hold[t] = "none"
         /\ hold' = [hold EXCEPT ![t] = m]
         /\ \A u \in Tabs \ {t} : hold[u] # "exclusive"
         /\ m = "exclusive" => \A u \in Tabs \ {t} : hold[u] = "none"
<1>1. t \notin Lock!Holders
  BY DEF Acquire, Lock!Handover
<1>2. hold[t] = "none"
  BY <1>1 DEF Lock!Holders
<1>3. hold' = [p \in Tabs |-> IF p = t THEN m ELSE hold[p]]
  BY DEF Acquire, Lock!Handover
<1>4. hold' = [hold EXCEPT ![t] = m]
  BY <1>3 DEF Types
<1>5. \A p, q \in Tabs : (p # q /\ hold'[p] = "exclusive") => hold'[q] = "none"
  BY DEF Acquire, Lock!Handover, Lock!Compatible
<1> QED BY <1>2, <1>3, <1>4, <1>5

(* Letting the lock go changes nothing but t's hold. *)
LEMMA DropEffect ==
  ASSUME NEW t \in Tabs, Types, Drop(t)
  PROVE  hold' = [hold EXCEPT ![t] = "none"]
<1>1. hold' = [p \in Tabs |-> IF p = t THEN "none" ELSE hold[p]]
  BY DEF Drop, Lock!Handover
<1> QED BY <1>1 DEF Types

(* The invariant holds of the untouched folder. *)
LEMMA InitIInv == Init => IInv
<1> SUFFICES ASSUME Init PROVE IInv
  OBVIOUS
<1>1. record \in [Ops -> [writes : SUBSET Paths, removals : SUBSET Paths, tooNew : BOOLEAN]]
  BY DEF Init, NoRecord
<1>2. Types
  BY <1>1, BoundsAssumption DEF Init, Types, Places, Serving, Working, Lock!Init
<1>3. Locking
  BY DEF Init, Locking, Lock!Init, Serving, Working
<1>4. HolderKnows
  BY DEF Init, HolderKnows, Rolling
<1>5. AppliedOnDisk /\ NoWork /\ ReaderKnows /\ PendingDisjoint
  BY DEF Init, AppliedOnDisk, NoWork, ReaderKnows, PendingDisjoint
<1>6. RecordsFormed
  BY DEF Init, RecordsFormed, NoRecord
<1> QED BY <1>2, <1>3, <1>4, <1>5, <1>6 DEF IInv

-----------------------------------------------------------------------------
(* Reading keeps the invariant: a first hold on an empty journal. *)
LEMMA ReadFirstKeeps ==
  ASSUME IInv, NEW t \in Tabs, ReadFirst(t)
  PROVE  IInv'
<1>1. /\ Types /\ Locking /\ HolderKnows /\ AppliedOnDisk /\ NoWork
      /\ RecordsFormed /\ ReaderKnows /\ PendingDisjoint
  BY DEF IInv
<1>2. /\ pc[t] = "idle" /\ journal = {} /\ pc' = [pc EXCEPT ![t] = "reading"]
      /\ UNCHANGED <<disk, journal, record, skip, met, todo, cur, applied, fails, crashes>>
  BY DEF ReadFirst, Goto, workVars
<1>3. /\ hold[t] = "none" /\ hold' = [hold EXCEPT ![t] = "shared"]
      /\ \A u \in Tabs \ {t} : hold[u] # "exclusive"
      /\ "shared" = "exclusive" => \A u \in Tabs \ {t} : hold[u] = "none"
  BY <1>1, AcquireEffect DEF ReadFirst
<1>4. Types'
  BY <1>1, <1>2, <1>3 DEF Types, Places, Serving, Working, Used, Touched
<1>5. Locking'
  BY <1>1, <1>2, <1>3 DEF Types, Locking, Places, Serving, Working
<1>6. HolderKnows'
  BY <1>1, <1>2, <1>3 DEF Types, Locking, Serving, Working, HolderKnows, Rolling, PendingPaths, Touched
<1>7. AppliedOnDisk'
  BY <1>1, <1>2, <1>3 DEF Types, AppliedOnDisk, Text
<1>8. NoWork'
  BY <1>1, <1>2, <1>3 DEF Types, Locking, Working, NoWork
<1>9. RecordsFormed'
  BY <1>1, <1>2, <1>3 DEF RecordsFormed
<1>10. ReaderKnows'
  BY <1>1, <1>2, <1>3 DEF Types, Locking, Serving, Working, ReaderKnows, PendingPaths, Touched, Used
<1>11. PendingDisjoint'
  BY <1>1, <1>2, <1>3 DEF PendingDisjoint, Touched
<1> QED BY <1>4, <1>5, <1>6, <1>7, <1>8, <1>9, <1>10, <1>11 DEF IInv

(* A first hold that finds records. *)
LEMMA ReadFindsJournalKeeps ==
  ASSUME IInv, NEW t \in Tabs, ReadFindsJournal(t)
  PROVE  IInv'
<1>1. /\ Types /\ Locking /\ HolderKnows /\ AppliedOnDisk /\ NoWork
      /\ RecordsFormed /\ ReaderKnows /\ PendingDisjoint
  BY DEF IInv
<1>2. /\ pc[t] = "idle" /\ pc' = [pc EXCEPT ![t] = "toRoll"]
      /\ UNCHANGED <<disk, journal, record, hold, skip, met, todo, cur, applied, fails, crashes>>
  BY DEF ReadFindsJournal, Goto, workVars
<1>3. Types'
  BY <1>1, <1>2 DEF Types, Places, Serving, Working, Used, Touched
<1>4. Locking'
  BY <1>1, <1>2 DEF Types, Locking, Places, Serving, Working
<1>5. HolderKnows'
  BY <1>1, <1>2 DEF Types, Locking, Serving, Working, HolderKnows, Rolling, PendingPaths, Touched
<1>6. AppliedOnDisk'
  BY <1>1, <1>2 DEF Types, AppliedOnDisk, Text
<1>7. NoWork'
  BY <1>1, <1>2 DEF Types, Locking, Working, NoWork
<1>8. RecordsFormed'
  BY <1>1, <1>2 DEF RecordsFormed
<1>9. ReaderKnows'
  BY <1>1, <1>2 DEF Types, Locking, Serving, Working, ReaderKnows, PendingPaths, Touched, Used
<1>10. PendingDisjoint'
  BY <1>1, <1>2 DEF PendingDisjoint, Touched
<1> QED BY <1>3, <1>4, <1>5, <1>6, <1>7, <1>8, <1>9, <1>10 DEF IInv

(* The reader takes the lock to roll forward. *)
LEMMA ReadRollsKeeps ==
  ASSUME IInv, NEW t \in Tabs, ReadRolls(t)
  PROVE  IInv'
<1>1. /\ Types /\ Locking /\ HolderKnows /\ AppliedOnDisk /\ NoWork
      /\ RecordsFormed /\ ReaderKnows /\ PendingDisjoint
  BY DEF IInv
<1>2. /\ pc[t] = "toRoll" /\ pc' = [pc EXCEPT ![t] = "rollRead"]
      /\ met' = [met EXCEPT ![t] = journal] /\ todo' = journal
      /\ UNCHANGED <<disk, journal, record, skip, cur, applied, fails, crashes>>
  BY DEF ReadRolls, Goto
<1>3. /\ hold[t] = "none" /\ hold' = [hold EXCEPT ![t] = "exclusive"]
      /\ \A u \in Tabs \ {t} : hold[u] # "exclusive"
      /\ "exclusive" = "exclusive" => \A u \in Tabs \ {t} : hold[u] = "none"
  BY <1>1, AcquireEffect DEF ReadRolls
<1>4. Types'
  BY <1>1, <1>2, <1>3 DEF Types, Places, Serving, Working, Used, Touched
<1>5. Locking'
  BY <1>1, <1>2, <1>3 DEF Types, Locking, Places, Serving, Working
<1>6. HolderKnows'
  BY <1>1, <1>2, <1>3 DEF Types, Locking, Serving, Working, HolderKnows, Rolling, PendingPaths, Touched
<1>7. AppliedOnDisk'
  BY <1>1, <1>2, <1>3 DEF Types, AppliedOnDisk, Text
<1>8. NoWork'
  BY <1>1, <1>2, <1>3 DEF Types, Locking, Working, NoWork
<1>9. RecordsFormed'
  BY <1>1, <1>2, <1>3 DEF RecordsFormed
<1>10. ReaderKnows'
  BY <1>1, <1>2, <1>3 DEF Types, Locking, Serving, Working, ReaderKnows, PendingPaths, Touched, Used
<1>11. PendingDisjoint'
  BY <1>1, <1>2, <1>3 DEF PendingDisjoint, Touched
<1> QED BY <1>4, <1>5, <1>6, <1>7, <1>8, <1>9, <1>10, <1>11 DEF IInv

(* The second shared hold. *)
LEMMA ReadAgainKeeps ==
  ASSUME IInv, NEW t \in Tabs, ReadAgain(t)
  PROVE  IInv'
<1>1. /\ Types /\ Locking /\ HolderKnows /\ AppliedOnDisk /\ NoWork
      /\ RecordsFormed /\ ReaderKnows /\ PendingDisjoint
  BY DEF IInv
<1>2. /\ pc[t] \in {"reReadAll", "reReadSkipping"}
      /\ pc' = [pc EXCEPT ![t] = IF pc[t] = "reReadSkipping" THEN "readingSkipping" ELSE "rereading"]
      /\ skip' = [skip EXCEPT ![t] = IF pc[t] = "reReadSkipping" THEN PendingPaths ELSE {}]
      /\ UNCHANGED <<disk, journal, record, met, todo, cur, applied, fails, crashes>>
  BY DEF ReadAgain, Goto, workVars
<1>3. /\ hold[t] = "none" /\ hold' = [hold EXCEPT ![t] = "shared"]
      /\ \A u \in Tabs \ {t} : hold[u] # "exclusive"
      /\ "shared" = "exclusive" => \A u \in Tabs \ {t} : hold[u] = "none"
  BY <1>1, AcquireEffect DEF ReadAgain
<1>4. PendingPaths \subseteq Paths /\ PendingPaths' = PendingPaths
  BY <1>1, <1>2 DEF PendingPaths, Touched, Types, Used
<1>5. Types'
  BY <1>1, <1>2, <1>3, <1>4 DEF Types, Places, Serving, Working, Used, Touched
<1>6. Locking'
  BY <1>1, <1>2, <1>3, <1>4 DEF Types, Locking, Places, Serving, Working
<1>7. HolderKnows'
  BY <1>1, <1>2, <1>3, <1>4 DEF Types, Locking, Serving, Working, HolderKnows, Rolling, PendingPaths, Touched
<1>8. AppliedOnDisk'
  BY <1>1, <1>2, <1>3, <1>4 DEF Types, AppliedOnDisk, Text
<1>9. NoWork'
  BY <1>1, <1>2, <1>3, <1>4 DEF Types, Locking, Working, NoWork
<1>10. RecordsFormed'
  BY <1>1, <1>2, <1>3, <1>4 DEF RecordsFormed
<1>11. ReaderKnows'
  BY <1>1, <1>2, <1>3, <1>4 DEF Types, Locking, Serving, Working, ReaderKnows, PendingPaths, Touched, Used
<1>12. PendingDisjoint'
  BY <1>1, <1>2, <1>3, <1>4 DEF PendingDisjoint, Touched
<1> QED BY <1>5, <1>6, <1>7, <1>8, <1>9, <1>10, <1>11, <1>12 DEF IInv

(* A read ends. *)
LEMMA ReadEndsKeeps ==
  ASSUME IInv, NEW t \in Tabs, ReadEnds(t)
  PROVE  IInv'
<1>1. /\ Types /\ Locking /\ HolderKnows /\ AppliedOnDisk /\ NoWork
      /\ RecordsFormed /\ ReaderKnows /\ PendingDisjoint
  BY DEF IInv
<1>2. /\ pc[t] \in Serving /\ pc' = [pc EXCEPT ![t] = "idle"]
      /\ skip' = [skip EXCEPT ![t] = {}] /\ met' = [met EXCEPT ![t] = {}]
      /\ UNCHANGED <<disk, journal, record, todo, cur, applied, fails, crashes>>
  BY DEF ReadEnds, Reading, Serving, EndRequest, workVars
<1>3. hold' = [hold EXCEPT ![t] = "none"]
  BY <1>1, DropEffect DEF ReadEnds
<1>4. pc[t] \notin Working
  BY <1>2 DEF Serving, Working
<1>5. Types'
  BY <1>1, <1>2, <1>3, <1>4 DEF Types, Places, Serving, Working, Used, Touched
<1>6. Locking'
  BY <1>1, <1>2, <1>3, <1>4 DEF Types, Locking, Places, Serving, Working
<1>7. HolderKnows'
  BY <1>1, <1>2, <1>3, <1>4 DEF Types, Locking, Serving, Working, HolderKnows, Rolling, PendingPaths, Touched
<1>8. AppliedOnDisk'
  BY <1>1, <1>2, <1>3, <1>4 DEF Types, AppliedOnDisk, Text
<1>9. NoWork'
  BY <1>1, <1>2, <1>3, <1>4 DEF Types, Locking, Working, NoWork
<1>10. RecordsFormed'
  BY <1>1, <1>2, <1>3, <1>4 DEF RecordsFormed
<1>11. ReaderKnows'
  BY <1>1, <1>2, <1>3, <1>4 DEF Types, Locking, Serving, Working, ReaderKnows, PendingPaths, Touched, Used
<1>12. PendingDisjoint'
  BY <1>1, <1>2, <1>3, <1>4 DEF PendingDisjoint, Touched
<1> QED BY <1>5, <1>6, <1>7, <1>8, <1>9, <1>10, <1>11, <1>12 DEF IInv

(* A wait of the read path runs out. *)
LEMMA GivesUpKeeps ==
  ASSUME IInv, NEW t \in Tabs, GivesUp(t)
  PROVE  IInv'
<1>1. /\ Types /\ Locking /\ HolderKnows /\ AppliedOnDisk /\ NoWork
      /\ RecordsFormed /\ ReaderKnows /\ PendingDisjoint
  BY DEF IInv
<1>2. /\ pc[t] \in {"toRoll", "reReadAll", "reReadSkipping", "between"}
      /\ pc' = [pc EXCEPT ![t] = "idle"]
      /\ skip' = [skip EXCEPT ![t] = {}] /\ met' = [met EXCEPT ![t] = {}]
      /\ UNCHANGED <<disk, journal, record, hold, todo, cur, applied, fails, crashes>>
  BY DEF GivesUp, EndRequest, workVars
<1>3. Types'
  BY <1>1, <1>2 DEF Types, Places, Serving, Working, Used, Touched
<1>4. Locking'
  BY <1>1, <1>2 DEF Types, Locking, Places, Serving, Working
<1>5. HolderKnows'
  BY <1>1, <1>2 DEF Types, Locking, Serving, Working, HolderKnows, Rolling, PendingPaths, Touched
<1>6. AppliedOnDisk'
  BY <1>1, <1>2 DEF Types, AppliedOnDisk, Text
<1>7. NoWork'
  BY <1>1, <1>2 DEF Types, Locking, Working, NoWork
<1>8. RecordsFormed'
  BY <1>1, <1>2 DEF RecordsFormed
<1>9. ReaderKnows'
  BY <1>1, <1>2 DEF Types, Locking, Serving, Working, ReaderKnows, PendingPaths, Touched, Used
<1>10. PendingDisjoint'
  BY <1>1, <1>2 DEF PendingDisjoint, Touched
<1> QED BY <1>3, <1>4, <1>5, <1>6, <1>7, <1>8, <1>9, <1>10 DEF IInv

(* A write takes the lock. *)
LEMMA WriteBeginsKeeps ==
  ASSUME IInv, NEW t \in Tabs, WriteBegins(t)
  PROVE  IInv'
<1>1. /\ Types /\ Locking /\ HolderKnows /\ AppliedOnDisk /\ NoWork
      /\ RecordsFormed /\ ReaderKnows /\ PendingDisjoint
  BY DEF IInv
<1>2. /\ pc[t] \in {"idle", "between"} /\ pc' = [pc EXCEPT ![t] = "rollWrite"] /\ todo' = journal
      /\ UNCHANGED <<disk, journal, record, skip, met, cur, applied, fails, crashes>>
  BY DEF WriteBegins, Goto
<1>3. /\ hold[t] = "none" /\ hold' = [hold EXCEPT ![t] = "exclusive"]
      /\ \A u \in Tabs \ {t} : hold[u] # "exclusive"
      /\ "exclusive" = "exclusive" => \A u \in Tabs \ {t} : hold[u] = "none"
  BY <1>1, AcquireEffect DEF WriteBegins
<1>4. Types'
  BY <1>1, <1>2, <1>3 DEF Types, Places, Serving, Working, Used, Touched
<1>5. Locking'
  BY <1>1, <1>2, <1>3 DEF Types, Locking, Places, Serving, Working
<1>6. HolderKnows'
  BY <1>1, <1>2, <1>3 DEF Types, Locking, Serving, Working, HolderKnows, Rolling, PendingPaths, Touched
<1>7. AppliedOnDisk'
  BY <1>1, <1>2, <1>3 DEF Types, AppliedOnDisk, Text
<1>8. NoWork'
  BY <1>1, <1>2, <1>3 DEF Types, Locking, Working, NoWork
<1>9. RecordsFormed'
  BY <1>1, <1>2, <1>3 DEF RecordsFormed
<1>10. ReaderKnows'
  BY <1>1, <1>2, <1>3 DEF Types, Locking, Serving, Working, ReaderKnows, PendingPaths, Touched, Used
<1>11. PendingDisjoint'
  BY <1>1, <1>2, <1>3 DEF PendingDisjoint, Touched
<1> QED BY <1>4, <1>5, <1>6, <1>7, <1>8, <1>9, <1>10, <1>11 DEF IInv

(* A commit: the record names no file of a record that is pending. *)
LEMMA CommitKeeps ==
  ASSUME IInv, NEW t \in Tabs, NEW o \in Ops, NEW s \in Shapes, Commit(t, o, s)
  PROVE  IInv'
<1>1. /\ Types /\ Locking /\ HolderKnows /\ AppliedOnDisk /\ NoWork
      /\ RecordsFormed /\ ReaderKnows /\ PendingDisjoint
  BY DEF IInv
<1>2. /\ pc[t] = "handling" /\ o \notin Used /\ (s.writes \cup s.removals) \cap skip[t] = {}
      /\ pc' = [pc EXCEPT ![t] = "applying"]
      /\ record' = [record EXCEPT ![o] = [writes |-> s.writes, removals |-> s.removals,
                                          tooNew |-> t \notin OldTabs /\ OldTabs # {}]]
      /\ journal' = journal \cup {o} /\ cur' = o /\ applied' = {}
      /\ UNCHANGED <<disk, hold, skip, met, todo, fails, crashes>>
  BY DEF Commit, Goto
<1>3. \A u \in Tabs \ {t} : hold[u] = "none" /\ pc[u] \notin Working /\ pc[u] \notin Serving
  BY <1>1, <1>2 DEF Types, Locking, Working, Rolling, Serving
<1>4. /\ s.writes \in SUBSET Paths /\ s.removals \in SUBSET Paths
      /\ s.writes \cap s.removals = {} /\ s.writes \cup s.removals # {}
  BY ShapesAssumption
<1>5. /\ record'[o] # NoRecord /\ Touched(o)' = s.writes \cup s.removals
      /\ \A q \in Ops \ {o} : record'[q] = record[q] /\ Touched(q)' = Touched(q)
      /\ Used' = Used \cup {o} /\ o \notin journal /\ o # 0
  <2>1. record'[o] = [writes |-> s.writes, removals |-> s.removals,
                      tooNew |-> t \notin OldTabs /\ OldTabs # {}]
    BY <1>1, <1>2 DEF Types
  <2>2. record'[o] # NoRecord /\ Touched(o)' = s.writes \cup s.removals
    BY <2>1, <1>4 DEF Touched, NoRecord
  <2>3. \A q \in Ops \ {o} : record'[q] = record[q]
    BY <1>1, <1>2 DEF Types
  <2>4. \A q \in Ops \ {o} : Touched(q)' = Touched(q)
    BY <2>3 DEF Touched
  <2>5. Used' = Used \cup {o}
    BY <2>2, <2>3 DEF Used
  <2>6. o \notin journal /\ o # 0
    BY <1>1, <1>2, OpsAssumption DEF Types
  <2> QED BY <2>2, <2>3, <2>4, <2>5, <2>6
<1>6. cur = 0 /\ PendingPaths \subseteq skip[t]
  BY <1>1, <1>2 DEF HolderKnows
<1>7. \A q \in journal : q \in Ops \ {o} /\ Touched(q) \subseteq skip[t]
  BY <1>1, <1>5, <1>6 DEF Types, Used, PendingPaths
<1>8. Types'
  <2>1. record' \in [Ops -> [writes : SUBSET Paths, removals : SUBSET Paths, tooNew : BOOLEAN]]
    BY <1>1, <1>2, <1>4 DEF Types
  <2> QED BY <2>1, <1>1, <1>2, <1>3, <1>4, <1>5, <1>6, <1>7 DEF Types, Places, Working
<1>9. Locking'
  BY <1>1, <1>2, <1>3, <1>4, <1>5, <1>6, <1>7 DEF Types, Locking, Places, Serving, Working
<1>10. HolderKnows'
  <2>1. \A u \in Tabs \ {t} : pc'[u] \notin Working
    BY <1>1, <1>2, <1>3 DEF Types
  <2>2. pc'[t] = "applying" /\ cur' = o /\ skip' = skip /\ journal' \ {o} = journal
    BY <1>1, <1>2, <1>5 DEF Types
  <2>3. \A q \in journal' \ {cur'} : Touched(q)' \subseteq skip'[t]
    BY <2>2, <1>5, <1>7
  <2> QED BY <2>1, <2>2, <2>3, <1>5 DEF HolderKnows, Working, Rolling
<1>11. AppliedOnDisk'
  BY <1>1, <1>2, <1>3, <1>4, <1>5, <1>6, <1>7 DEF Types, AppliedOnDisk, Text
<1>12. NoWork'
  BY <1>1, <1>2, <1>3, <1>4, <1>5, <1>6, <1>7 DEF Types, Locking, Working, NoWork
<1>13. RecordsFormed'
  BY <1>1, <1>2, <1>4, <1>5 DEF Types, RecordsFormed
<1>14. ReaderKnows'
  <2>1. \A u \in Tabs : met[u] \subseteq Used /\ o \notin met[u]
    BY <1>1, <1>2 DEF ReaderKnows
  <2>2. \A u \in Tabs : pc'[u] \notin Serving
    BY <1>1, <1>2, <1>3 DEF Types, Serving
  <2>3. \A u \in Tabs : pc'[u] \in {"idle", "reReadAll"} => pc'[u] = pc[u]
    BY <1>1, <1>2 DEF Types
  <2>4. met' = met /\ journal' = journal \cup {o} /\ Used' = Used \cup {o}
    BY <1>2, <1>5
  <2> QED BY <1>1, <2>1, <2>2, <2>3, <2>4 DEF ReaderKnows, Serving
<1>15. PendingDisjoint'
  <2> SUFFICES ASSUME NEW a \in journal', NEW b \in journal', a # b
               PROVE  Touched(a)' \cap Touched(b)' = {}
    BY DEF PendingDisjoint
  <2>1. CASE a = o
    BY <2>1, <1>2, <1>5, <1>7
  <2>2. CASE b = o
    BY <2>2, <1>2, <1>5, <1>7
  <2>3. CASE a # o /\ b # o
    BY <2>3, <1>1, <1>2, <1>5, <1>7 DEF PendingDisjoint
  <2> QED BY <2>1, <2>2, <2>3
<1> QED BY <1>8, <1>9, <1>10, <1>11, <1>12, <1>13, <1>14, <1>15 DEF IInv

(* A single file is replaced, outside the files of every pending record. *)
LEMMA WriteOneFileKeeps ==
  ASSUME IInv, NEW t \in Tabs, NEW o \in Ops, NEW p \in Paths, WriteOneFile(t, o, p)
  PROVE  IInv'
<1>1. /\ Types /\ Locking /\ HolderKnows /\ AppliedOnDisk /\ NoWork
      /\ RecordsFormed /\ ReaderKnows /\ PendingDisjoint
  BY DEF IInv
<1>2. /\ pc[t] = "handling" /\ o \notin Used /\ p \notin skip[t]
      /\ disk' = [disk EXCEPT ![p] = o]
      /\ record' = [record EXCEPT ![o] = [NoRecord EXCEPT !.writes = {p}]]
      /\ UNCHANGED <<journal, hold, pc, skip, met, todo, cur, applied, fails, crashes>>
  BY DEF WriteOneFile, tabVars, workVars
<1>3. \A u \in Tabs \ {t} : hold[u] = "none" /\ pc[u] \notin Working /\ pc[u] \notin Serving
  BY <1>1, <1>2 DEF Types, Locking, Working, Rolling, Serving
<1>4. /\ record'[o] # NoRecord
      /\ \A q \in Ops \ {o} : record'[q] = record[q] /\ Touched(q)' = Touched(q)
      /\ Used' = Used \cup {o} /\ o \notin journal /\ o # 0
      /\ record' \in [Ops -> [writes : SUBSET Paths, removals : SUBSET Paths, tooNew : BOOLEAN]]
      /\ record'[o].writes \cap record'[o].removals = {}
  <2>1. record'[o] = [writes |-> {p}, removals |-> {}, tooNew |-> FALSE]
    BY <1>1, <1>2 DEF Types, NoRecord
  <2>2. record'[o] # NoRecord
    BY <2>1 DEF NoRecord
  <2>3. \A q \in Ops \ {o} : record'[q] = record[q]
    BY <1>1, <1>2 DEF Types
  <2>4. \A q \in Ops \ {o} : Touched(q)' = Touched(q)
    BY <2>3 DEF Touched
  <2>5. Used' = Used \cup {o}
    BY <2>2, <2>3 DEF Used
  <2>6. o \notin journal /\ o # 0
    BY <1>1, <1>2, OpsAssumption DEF Types
  <2>7. [NoRecord EXCEPT !.writes = {p}]
          \in [writes : SUBSET Paths, removals : SUBSET Paths, tooNew : BOOLEAN]
    BY DEF NoRecord
  <2>8. record' \in [Ops -> [writes : SUBSET Paths, removals : SUBSET Paths, tooNew : BOOLEAN]]
    BY <2>7, <1>1, <1>2 DEF Types
  <2> QED BY <2>1, <2>2, <2>3, <2>4, <2>5, <2>6, <2>8
<1>5. cur = 0 /\ PendingPaths \subseteq skip[t] /\ applied = {}
  BY <1>1, <1>2 DEF HolderKnows, Types
<1>6. /\ \A q \in journal : q \in Ops \ {o} /\ Touched(q)' = Touched(q)
      /\ PendingPaths' = PendingPaths
  BY <1>1, <1>2, <1>4 DEF Types, Used, PendingPaths
<1>7. Types'
  BY <1>1, <1>2, <1>4, <1>5 DEF Types
<1>8. Locking'
  BY <1>1, <1>2 DEF Locking
<1>9. HolderKnows'
  <2>1. \A u \in Tabs \ {t} : pc[u] \notin Working
    BY <1>3
  <2> QED BY <2>1, <1>2, <1>5, <1>6 DEF HolderKnows, Working, Rolling
<1>10. AppliedOnDisk'
  BY <1>2, <1>5 DEF AppliedOnDisk
<1>11. NoWork'
  BY <1>1, <1>2, <1>3, <1>4, <1>5, <1>6 DEF Types, Locking, Working, NoWork
<1>12. RecordsFormed'
  BY <1>1, <1>4 DEF RecordsFormed
<1>13. ReaderKnows'
  BY <1>1, <1>2, <1>3, <1>4, <1>6 DEF ReaderKnows, Serving
<1>14. PendingDisjoint'
  BY <1>1, <1>2, <1>6 DEF PendingDisjoint
<1> QED BY <1>7, <1>8, <1>9, <1>10, <1>11, <1>12, <1>13, <1>14 DEF IInv

(* A handler ends. *)
LEMMA HandlerEndsKeeps ==
  ASSUME IInv, NEW t \in Tabs, HandlerEnds(t)
  PROVE  IInv'
<1>1. /\ Types /\ Locking /\ HolderKnows /\ AppliedOnDisk /\ NoWork
      /\ RecordsFormed /\ ReaderKnows /\ PendingDisjoint
  BY DEF IInv
<1>2. /\ pc[t] = "handling" /\ pc' = [pc EXCEPT ![t] = "idle"]
      /\ skip' = [skip EXCEPT ![t] = {}] /\ met' = [met EXCEPT ![t] = {}]
      /\ todo' = {} /\ cur' = 0 /\ applied' = {}
      /\ UNCHANGED <<disk, journal, record, fails, crashes>>
  BY DEF HandlerEnds, EndRequest, IdleWork
<1>3. hold' = [hold EXCEPT ![t] = "none"]
  BY <1>1, DropEffect DEF HandlerEnds
<1>4. \A u \in Tabs \ {t} : hold[u] = "none" /\ pc[u] \notin Working /\ pc[u] \notin Serving
  BY <1>1, <1>2 DEF Types, Locking, Working, Rolling, Serving
<1>5. Types'
  BY <1>1, <1>2, <1>3, <1>4 DEF Types, Places, Serving, Working, Used, Touched
<1>6. Locking'
  BY <1>1, <1>2, <1>3, <1>4 DEF Types, Locking, Places, Serving, Working
<1>7. HolderKnows'
  BY <1>1, <1>2, <1>3, <1>4 DEF Types, Locking, Serving, Working, HolderKnows, Rolling, PendingPaths, Touched
<1>8. AppliedOnDisk'
  BY <1>1, <1>2, <1>3, <1>4 DEF Types, AppliedOnDisk, Text
<1>9. NoWork'
  BY <1>1, <1>2, <1>3, <1>4 DEF Types, Locking, Working, NoWork
<1>10. RecordsFormed'
  BY <1>1, <1>2, <1>3, <1>4 DEF RecordsFormed
<1>11. ReaderKnows'
  BY <1>1, <1>2, <1>3, <1>4 DEF Types, Locking, Serving, Working, ReaderKnows, PendingPaths, Touched, Used
<1>12. PendingDisjoint'
  BY <1>1, <1>2, <1>3, <1>4 DEF PendingDisjoint, Touched
<1> QED BY <1>5, <1>6, <1>7, <1>8, <1>9, <1>10, <1>11, <1>12 DEF IInv

(* A chunk ends and its request goes on. *)
LEMMA ChunkEndsKeeps ==
  ASSUME IInv, NEW t \in Tabs, ChunkEnds(t)
  PROVE  IInv'
<1>1. /\ Types /\ Locking /\ HolderKnows /\ AppliedOnDisk /\ NoWork
      /\ RecordsFormed /\ ReaderKnows /\ PendingDisjoint
  BY DEF IInv
<1>2. /\ pc[t] = "handling" /\ pc' = [pc EXCEPT ![t] = "between"]
      /\ todo' = {} /\ cur' = 0 /\ applied' = {}
      /\ UNCHANGED <<disk, journal, record, skip, met, fails, crashes>>
  BY DEF ChunkEnds, Goto, IdleWork
<1>3. hold' = [hold EXCEPT ![t] = "none"]
  BY <1>1, DropEffect DEF ChunkEnds
<1>4. \A u \in Tabs \ {t} : hold[u] = "none" /\ pc[u] \notin Working /\ pc[u] \notin Serving
  BY <1>1, <1>2 DEF Types, Locking, Working, Rolling, Serving
<1>5. Types'
  BY <1>1, <1>2, <1>3, <1>4 DEF Types, Places, Serving, Working, Used, Touched
<1>6. Locking'
  BY <1>1, <1>2, <1>3, <1>4 DEF Types, Locking, Places, Serving, Working
<1>7. HolderKnows'
  BY <1>1, <1>2, <1>3, <1>4 DEF Types, Locking, Serving, Working, HolderKnows, Rolling, PendingPaths, Touched
<1>8. AppliedOnDisk'
  BY <1>1, <1>2, <1>3, <1>4 DEF Types, AppliedOnDisk, Text
<1>9. NoWork'
  BY <1>1, <1>2, <1>3, <1>4 DEF Types, Locking, Working, NoWork
<1>10. RecordsFormed'
  BY <1>1, <1>2, <1>3, <1>4 DEF RecordsFormed
<1>11. ReaderKnows'
  BY <1>1, <1>2, <1>3, <1>4 DEF Types, Locking, Serving, Working, ReaderKnows, PendingPaths, Touched, Used
<1>12. PendingDisjoint'
  BY <1>1, <1>2, <1>3, <1>4 DEF PendingDisjoint, Touched
<1> QED BY <1>5, <1>6, <1>7, <1>8, <1>9, <1>10, <1>11, <1>12 DEF IInv

(* A commit fails and leaves its record. *)
LEMMA CommitFailsKeeps ==
  ASSUME IInv, NEW t \in Tabs, CommitFails(t)
  PROVE  IInv'
<1>1. /\ Types /\ Locking /\ HolderKnows /\ AppliedOnDisk /\ NoWork
      /\ RecordsFormed /\ ReaderKnows /\ PendingDisjoint
  BY DEF IInv
<1>2. /\ pc[t] = "applying" /\ pc' = [pc EXCEPT ![t] = "idle"]
      /\ skip' = [skip EXCEPT ![t] = {}] /\ met' = [met EXCEPT ![t] = {}]
      /\ todo' = {} /\ cur' = 0 /\ applied' = {}
      /\ UNCHANGED <<disk, journal, record, crashes>>
  BY DEF CommitFails, EndRequest, IdleWork
<1>3. hold' = [hold EXCEPT ![t] = "none"]
  BY <1>1, DropEffect DEF CommitFails
<1>4. \A u \in Tabs \ {t} : hold[u] = "none" /\ pc[u] \notin Working /\ pc[u] \notin Serving
  BY <1>1, <1>2 DEF Types, Locking, Working, Rolling, Serving
<1>5. fails' \in 0..MaxFails
  BY <1>1, BoundsAssumption DEF CommitFails, Types
<1>6. Types'
  BY <1>1, <1>2, <1>3, <1>4, <1>5 DEF Types, Places, Serving, Working, Used, Touched
<1>7. Locking'
  BY <1>1, <1>2, <1>3, <1>4, <1>5 DEF Types, Locking, Places, Serving, Working
<1>8. HolderKnows'
  BY <1>1, <1>2, <1>3, <1>4, <1>5 DEF Types, Locking, Serving, Working, HolderKnows, Rolling, PendingPaths, Touched
<1>9. AppliedOnDisk'
  BY <1>1, <1>2, <1>3, <1>4, <1>5 DEF Types, AppliedOnDisk, Text
<1>10. NoWork'
  BY <1>1, <1>2, <1>3, <1>4, <1>5 DEF Types, Locking, Working, NoWork
<1>11. RecordsFormed'
  BY <1>1, <1>2, <1>3, <1>4, <1>5 DEF RecordsFormed
<1>12. ReaderKnows'
  BY <1>1, <1>2, <1>3, <1>4, <1>5 DEF Types, Locking, Serving, Working, ReaderKnows, PendingPaths, Touched, Used
<1>13. PendingDisjoint'
  BY <1>1, <1>2, <1>3, <1>4, <1>5 DEF PendingDisjoint, Touched
<1> QED BY <1>6, <1>7, <1>8, <1>9, <1>10, <1>11, <1>12, <1>13 DEF IInv

(* The holder's tab dies. *)
LEMMA CrashKeeps ==
  ASSUME IInv, NEW t \in Tabs, Crash(t)
  PROVE  IInv'
<1>1. /\ Types /\ Locking /\ HolderKnows /\ AppliedOnDisk /\ NoWork
      /\ RecordsFormed /\ ReaderKnows /\ PendingDisjoint
  BY DEF IInv
<1>2. /\ pc[t] \in Working /\ pc' = [pc EXCEPT ![t] = "idle"]
      /\ skip' = [skip EXCEPT ![t] = {}] /\ met' = [met EXCEPT ![t] = {}]
      /\ todo' = {} /\ cur' = 0 /\ applied' = {}
      /\ UNCHANGED <<disk, journal, record, fails>>
  BY <1>1 DEF Crash, EndRequest, IdleWork, Locking
<1>3. hold' = [hold EXCEPT ![t] = "none"]
  BY <1>1, DropEffect DEF Crash
<1>4. \A u \in Tabs \ {t} : hold[u] = "none" /\ pc[u] \notin Working /\ pc[u] \notin Serving
  BY <1>1, <1>2 DEF Types, Locking, Working, Rolling, Serving
<1>5. crashes' \in 0..MaxCrashes
  BY <1>1, BoundsAssumption DEF Crash, Types
<1>6. Types'
  BY <1>1, <1>2, <1>3, <1>4, <1>5 DEF Types, Places, Serving, Working, Used, Touched
<1>7. Locking'
  BY <1>1, <1>2, <1>3, <1>4, <1>5 DEF Types, Locking, Places, Serving, Working
<1>8. HolderKnows'
  BY <1>1, <1>2, <1>3, <1>4, <1>5 DEF Types, Locking, Serving, Working, HolderKnows, Rolling, PendingPaths, Touched
<1>9. AppliedOnDisk'
  BY <1>1, <1>2, <1>3, <1>4, <1>5 DEF Types, AppliedOnDisk, Text
<1>10. NoWork'
  BY <1>1, <1>2, <1>3, <1>4, <1>5 DEF Types, Locking, Working, NoWork
<1>11. RecordsFormed'
  BY <1>1, <1>2, <1>3, <1>4, <1>5 DEF RecordsFormed
<1>12. ReaderKnows'
  BY <1>1, <1>2, <1>3, <1>4, <1>5 DEF Types, Locking, Serving, Working, ReaderKnows, PendingPaths, Touched, Used
<1>13. PendingDisjoint'
  BY <1>1, <1>2, <1>3, <1>4, <1>5 DEF PendingDisjoint, Touched
<1> QED BY <1>6, <1>7, <1>8, <1>9, <1>10, <1>11, <1>12, <1>13 DEF IInv

(* The next record is taken up. *)
LEMMA RollNextKeeps ==
  ASSUME IInv, NEW t \in Tabs, RollNext(t)
  PROVE  IInv'
<1>1. /\ Types /\ Locking /\ HolderKnows /\ AppliedOnDisk /\ NoWork
      /\ RecordsFormed /\ ReaderKnows /\ PendingDisjoint
  BY DEF IInv
<1>2. /\ pc[t] \in {"rollRead", "rollWrite"} /\ cur = 0 /\ cur' \in todo /\ applied' = {}
      /\ UNCHANGED <<disk, journal, record, hold, pc, skip, met, todo, fails, crashes>>
  BY DEF RollNext, Rolling, tabVars
<1>3. \A u \in Tabs \ {t} : hold[u] = "none" /\ pc[u] \notin Working /\ pc[u] \notin Serving
  BY <1>1, <1>2 DEF Types, Locking, Working, Rolling, Serving
<1>4. Types'
  BY <1>1, <1>2, <1>3 DEF Types, Places, Serving, Working, Used, Touched
<1>5. Locking'
  BY <1>1, <1>2, <1>3 DEF Types, Locking, Places, Serving, Working
<1>6. HolderKnows'
  BY <1>1, <1>2, <1>3 DEF Types, Locking, Serving, Working, HolderKnows, Rolling, PendingPaths, Touched
<1>7. AppliedOnDisk'
  BY <1>1, <1>2, <1>3 DEF Types, AppliedOnDisk, Text
<1>8. NoWork'
  BY <1>1, <1>2, <1>3 DEF Types, Locking, Working, NoWork
<1>9. RecordsFormed'
  BY <1>1, <1>2, <1>3 DEF RecordsFormed
<1>10. ReaderKnows'
  BY <1>1, <1>2, <1>3 DEF Types, Locking, Serving, Working, ReaderKnows, PendingPaths, Touched, Used
<1>11. PendingDisjoint'
  BY <1>1, <1>2, <1>3 DEF PendingDisjoint, Touched
<1> QED BY <1>4, <1>5, <1>6, <1>7, <1>8, <1>9, <1>10, <1>11 DEF IInv

(* One file of the record is applied. *)
LEMMA ApplyPathKeeps ==
  ASSUME IInv, NEW t \in Tabs, ApplyPath(t)
  PROVE  IInv'
<1>1. /\ Types /\ Locking /\ HolderKnows /\ AppliedOnDisk /\ NoWork
      /\ RecordsFormed /\ ReaderKnows /\ PendingDisjoint
  BY DEF IInv
<1>2. /\ pc[t] \in {"rollRead", "rollWrite", "applying"} /\ cur # 0
      /\ UNCHANGED <<journal, record, hold, pc, skip, met, todo, cur, fails, crashes>>
  BY DEF ApplyPath, Rolling, tabVars
<1>3. PICK p \in NextPaths(cur) : disk' = [disk EXCEPT ![p] = Text(cur, p)] /\ applied' = applied \cup {p}
  BY DEF ApplyPath
<1>4. cur \in journal /\ cur \in Ops /\ p \in Touched(cur) /\ p \in Paths
  BY <1>1, <1>2 DEF Types, NextPaths, Touched, Used
<1>5. Text(cur, p) \in Ops \cup {0, Absent} /\ disk'[p] = Text(cur, p)
  BY <1>1, <1>3, <1>4 DEF Text, Types
<1>6. \A u \in Tabs \ {t} : hold[u] = "none" /\ pc[u] \notin Working /\ pc[u] \notin Serving
  BY <1>1, <1>2 DEF Types, Locking, Working, Rolling, Serving
<1>7. Types'
  <2>1. disk' \in [Paths -> Ops \cup {0, Absent}]
    BY <1>1, <1>3, <1>4, <1>5 DEF Types
  <2>2. applied' \subseteq Touched(cur)
    BY <1>1, <1>2, <1>3, <1>4 DEF Types
  <2> QED BY <2>1, <2>2, <1>1, <1>2 DEF Types, Used, Touched
<1>8. Locking'
  BY <1>1, <1>2, <1>3, <1>4, <1>5, <1>6 DEF Types, Locking, Places, Serving, Working
<1>9. HolderKnows'
  BY <1>1, <1>2, <1>3, <1>4, <1>5, <1>6 DEF Types, Locking, Serving, Working, HolderKnows, Rolling, PendingPaths, Touched
<1>10. AppliedOnDisk'
  BY <1>1, <1>2, <1>3, <1>4, <1>5 DEF Types, AppliedOnDisk, Text
<1>11. NoWork'
  BY <1>1, <1>2, <1>6 DEF Types, Locking, NoWork, Working
<1>12. RecordsFormed'
  BY <1>1, <1>2, <1>3, <1>4, <1>5, <1>6 DEF RecordsFormed
<1>13. ReaderKnows'
  BY <1>1, <1>2, <1>3, <1>4, <1>5, <1>6 DEF Types, Locking, Serving, Working, ReaderKnows, PendingPaths, Touched, Used
<1>14. PendingDisjoint'
  BY <1>1, <1>2, <1>3, <1>4, <1>5, <1>6 DEF PendingDisjoint, Touched
<1> QED BY <1>7, <1>8, <1>9, <1>10, <1>11, <1>12, <1>13, <1>14 DEF IInv

(* The record is deleted. *)
LEMMA RecordDoneKeeps ==
  ASSUME IInv, NEW t \in Tabs, RecordDone(t)
  PROVE  IInv'
<1>1. /\ Types /\ Locking /\ HolderKnows /\ AppliedOnDisk /\ NoWork
      /\ RecordsFormed /\ ReaderKnows /\ PendingDisjoint
  BY DEF IInv
<1>2. /\ pc[t] \in {"rollRead", "rollWrite", "applying"} /\ cur # 0
      /\ journal' = journal \ {cur} /\ todo' = todo \ {cur} /\ cur' = 0 /\ applied' = {}
      /\ pc' = [pc EXCEPT ![t] = IF pc[t] = "applying" THEN "handling" ELSE pc[t]]
      /\ UNCHANGED <<disk, record, hold, skip, met, fails, crashes>>
  BY DEF RecordDone, Rolling, Goto
<1>3. \A u \in Tabs \ {t} : hold[u] = "none" /\ pc[u] \notin Working /\ pc[u] \notin Serving
  BY <1>1, <1>2 DEF Types, Locking, Working, Rolling, Serving
<1>4. Types'
  BY <1>1, <1>2, <1>3 DEF Types, Places, Serving, Working, Used, Touched
<1>5. Locking'
  BY <1>1, <1>2, <1>3 DEF Types, Locking, Places, Serving, Working
<1>6. HolderKnows'
  BY <1>1, <1>2, <1>3 DEF Types, Locking, Serving, Working, HolderKnows, Rolling, PendingPaths, Touched
<1>7. AppliedOnDisk'
  BY <1>1, <1>2, <1>3 DEF Types, AppliedOnDisk, Text
<1>8. NoWork'
  BY <1>1, <1>2, <1>3 DEF Types, Locking, Working, NoWork
<1>9. RecordsFormed'
  BY <1>1, <1>2, <1>3 DEF RecordsFormed
<1>10. ReaderKnows'
  BY <1>1, <1>2, <1>3 DEF Types, Locking, Serving, Working, ReaderKnows, PendingPaths, Touched, Used
<1>11. PendingDisjoint'
  BY <1>1, <1>2, <1>3 DEF PendingDisjoint, Touched
<1> QED BY <1>4, <1>5, <1>6, <1>7, <1>8, <1>9, <1>10, <1>11 DEF IInv

(* The roll-forward finished: the journal is empty. *)
LEMMA RollEndsKeeps ==
  ASSUME IInv, NEW t \in Tabs, RollEnds(t)
  PROVE  IInv'
<1>1. /\ Types /\ Locking /\ HolderKnows /\ AppliedOnDisk /\ NoWork
      /\ RecordsFormed /\ ReaderKnows /\ PendingDisjoint
  BY DEF IInv
<1>2. /\ pc[t] \in {"rollRead", "rollWrite"} /\ todo' = {} /\ cur' = 0 /\ applied' = {}
      /\ UNCHANGED <<disk, journal, record, met, crashes>>
  BY DEF RollEnds, AfterRoll, IdleWork, Rolling
<1>3. \A u \in Tabs \ {t} : hold[u] = "none" /\ pc[u] \notin Working /\ pc[u] \notin Serving
  BY <1>1, <1>2 DEF Types, Locking, Working, Rolling, Serving
<1>4. \/ /\ pc[t] = "rollRead" /\ hold' = [hold EXCEPT ![t] = "none"] /\ skip' = skip
         /\ pc' = [pc EXCEPT ![t] = "reReadAll"]
      \/ /\ pc[t] = "rollWrite" /\ hold' = hold /\ pc' = [pc EXCEPT ![t] = "handling"]
         /\ skip' = [skip EXCEPT ![t] = skip[t]]
  BY <1>1, DropEffect DEF RollEnds, AfterRoll, Goto
<1>5. PendingPaths \subseteq Paths /\ PendingPaths' = PendingPaths
  BY <1>1, <1>2 DEF PendingPaths, Touched, Types, Used
<1>6. fails' = fails /\ journal = {} /\ PendingPaths = {}
  BY <1>1 DEF RollEnds, HolderKnows, PendingPaths
<1>7. Types'
  BY <1>1, <1>2, <1>3, <1>4, <1>5, <1>6 DEF Types, Places, Serving, Working, Used, Touched
<1>8. Locking'
  BY <1>1, <1>2, <1>3, <1>4, <1>5, <1>6 DEF Types, Locking, Places, Serving, Working
<1>9. HolderKnows'
  BY <1>1, <1>2, <1>3, <1>4, <1>5, <1>6 DEF Types, Locking, Serving, Working, HolderKnows, Rolling, PendingPaths, Touched
<1>10. AppliedOnDisk'
  BY <1>1, <1>2, <1>3, <1>4, <1>5, <1>6 DEF Types, AppliedOnDisk, Text
<1>11. NoWork'
  BY <1>1, <1>2, <1>3, <1>4, <1>5, <1>6 DEF Types, Locking, Working, NoWork
<1>12. RecordsFormed'
  BY <1>1, <1>2, <1>3, <1>4, <1>5, <1>6 DEF RecordsFormed
<1>13. ReaderKnows'
  BY <1>1, <1>2, <1>3, <1>4, <1>5, <1>6 DEF Types, Locking, Serving, Working, ReaderKnows, PendingPaths, Touched, Used
<1>14. PendingDisjoint'
  BY <1>1, <1>2, <1>3, <1>4, <1>5, <1>6 DEF PendingDisjoint, Touched
<1> QED BY <1>7, <1>8, <1>9, <1>10, <1>11, <1>12, <1>13, <1>14 DEF IInv

(* The roll-forward met a record it cannot read. *)
LEMMA RollTooNewKeeps ==
  ASSUME IInv, NEW t \in Tabs, RollTooNew(t)
  PROVE  IInv'
<1>1. /\ Types /\ Locking /\ HolderKnows /\ AppliedOnDisk /\ NoWork
      /\ RecordsFormed /\ ReaderKnows /\ PendingDisjoint
  BY DEF IInv
<1>2. /\ pc[t] \in {"rollRead", "rollWrite"} /\ todo' = {} /\ cur' = 0 /\ applied' = {}
      /\ UNCHANGED <<disk, journal, record, met, crashes>>
  BY DEF RollTooNew, AfterRoll, IdleWork, Rolling
<1>3. \A u \in Tabs \ {t} : hold[u] = "none" /\ pc[u] \notin Working /\ pc[u] \notin Serving
  BY <1>1, <1>2 DEF Types, Locking, Working, Rolling, Serving
<1>4. \/ /\ pc[t] = "rollRead" /\ hold' = [hold EXCEPT ![t] = "none"] /\ skip' = skip
         /\ pc' = [pc EXCEPT ![t] = "reReadSkipping"]
      \/ /\ pc[t] = "rollWrite" /\ hold' = hold /\ pc' = [pc EXCEPT ![t] = "handling"]
         /\ skip' = [skip EXCEPT ![t] = PendingPaths]
  BY <1>1, DropEffect DEF RollTooNew, AfterRoll, Goto
<1>5. PendingPaths \subseteq Paths /\ PendingPaths' = PendingPaths
  BY <1>1, <1>2 DEF PendingPaths, Touched, Types, Used
<1>6. fails' \in 0..MaxFails
  BY <1>1 DEF RollTooNew, Types
<1>7. Types'
  BY <1>1, <1>2, <1>3, <1>4, <1>5, <1>6 DEF Types, Places, Serving, Working, Used, Touched
<1>8. Locking'
  BY <1>1, <1>2, <1>3, <1>4, <1>5, <1>6 DEF Types, Locking, Places, Serving, Working
<1>9. HolderKnows'
  BY <1>1, <1>2, <1>3, <1>4, <1>5, <1>6 DEF Types, Locking, Serving, Working, HolderKnows, Rolling, PendingPaths, Touched
<1>10. AppliedOnDisk'
  BY <1>1, <1>2, <1>3, <1>4, <1>5, <1>6 DEF Types, AppliedOnDisk, Text
<1>11. NoWork'
  BY <1>1, <1>2, <1>3, <1>4, <1>5, <1>6 DEF Types, Locking, Working, NoWork
<1>12. RecordsFormed'
  BY <1>1, <1>2, <1>3, <1>4, <1>5, <1>6 DEF RecordsFormed
<1>13. ReaderKnows'
  BY <1>1, <1>2, <1>3, <1>4, <1>5, <1>6 DEF Types, Locking, Serving, Working, ReaderKnows, PendingPaths, Touched, Used
<1>14. PendingDisjoint'
  BY <1>1, <1>2, <1>3, <1>4, <1>5, <1>6 DEF PendingDisjoint, Touched
<1> QED BY <1>7, <1>8, <1>9, <1>10, <1>11, <1>12, <1>13, <1>14 DEF IInv

(* The roll-forward failed. *)
LEMMA RollFailsKeeps ==
  ASSUME IInv, NEW t \in Tabs, RollFails(t)
  PROVE  IInv'
<1>1. /\ Types /\ Locking /\ HolderKnows /\ AppliedOnDisk /\ NoWork
      /\ RecordsFormed /\ ReaderKnows /\ PendingDisjoint
  BY DEF IInv
<1>2. /\ pc[t] \in {"rollRead", "rollWrite"} /\ todo' = {} /\ cur' = 0 /\ applied' = {}
      /\ UNCHANGED <<disk, journal, record, met, crashes>>
  BY DEF RollFails, AfterRoll, IdleWork, Rolling
<1>3. \A u \in Tabs \ {t} : hold[u] = "none" /\ pc[u] \notin Working /\ pc[u] \notin Serving
  BY <1>1, <1>2 DEF Types, Locking, Working, Rolling, Serving
<1>4. \/ /\ pc[t] = "rollRead" /\ hold' = [hold EXCEPT ![t] = "none"] /\ skip' = skip
         /\ pc' = [pc EXCEPT ![t] = "reReadSkipping"]
      \/ /\ pc[t] = "rollWrite" /\ hold' = hold /\ pc' = [pc EXCEPT ![t] = "handling"]
         /\ skip' = [skip EXCEPT ![t] = PendingPaths]
  BY <1>1, DropEffect DEF RollFails, AfterRoll, Goto
<1>5. PendingPaths \subseteq Paths /\ PendingPaths' = PendingPaths
  BY <1>1, <1>2 DEF PendingPaths, Touched, Types, Used
<1>6. fails' \in 0..MaxFails
  BY <1>1, BoundsAssumption DEF RollFails, Types
<1>7. Types'
  BY <1>1, <1>2, <1>3, <1>4, <1>5, <1>6 DEF Types, Places, Serving, Working, Used, Touched
<1>8. Locking'
  BY <1>1, <1>2, <1>3, <1>4, <1>5, <1>6 DEF Types, Locking, Places, Serving, Working
<1>9. HolderKnows'
  BY <1>1, <1>2, <1>3, <1>4, <1>5, <1>6 DEF Types, Locking, Serving, Working, HolderKnows, Rolling, PendingPaths, Touched
<1>10. AppliedOnDisk'
  BY <1>1, <1>2, <1>3, <1>4, <1>5, <1>6 DEF Types, AppliedOnDisk, Text
<1>11. NoWork'
  BY <1>1, <1>2, <1>3, <1>4, <1>5, <1>6 DEF Types, Locking, Working, NoWork
<1>12. RecordsFormed'
  BY <1>1, <1>2, <1>3, <1>4, <1>5, <1>6 DEF RecordsFormed
<1>13. ReaderKnows'
  BY <1>1, <1>2, <1>3, <1>4, <1>5, <1>6 DEF Types, Locking, Serving, Working, ReaderKnows, PendingPaths, Touched, Used
<1>14. PendingDisjoint'
  BY <1>1, <1>2, <1>3, <1>4, <1>5, <1>6 DEF PendingDisjoint, Touched
<1> QED BY <1>7, <1>8, <1>9, <1>10, <1>11, <1>12, <1>13, <1>14 DEF IInv

-----------------------------------------------------------------------------
(* Every step keeps the invariant. *)
LEMMA NextIInv == IInv /\ [Next]_vars => IInv'
<1> SUFFICES ASSUME IInv, [Next]_vars PROVE IInv'
  OBVIOUS
<1>1. CASE UNCHANGED vars
  BY <1>1 DEF vars, tabVars, workVars, IInv, Types, Locking, HolderKnows, AppliedOnDisk,
     NoWork, RecordsFormed, ReaderKnows, PendingDisjoint, Rolling, PendingPaths, Touched, Used, Text
<1>2. CASE Next
  <2>1. PICK t \in Tabs : ReadStep(t) \/ WriteStep(t) \/ RollStep(t) \/ FailStep(t)
    BY <1>2 DEF Next
  <2>2. CASE ReadStep(t)
    BY <2>2, ReadFirstKeeps, ReadFindsJournalKeeps, ReadRollsKeeps, ReadAgainKeeps,
       ReadEndsKeeps, GivesUpKeeps DEF ReadStep
  <2>3. CASE WriteStep(t)
    BY <2>3, WriteBeginsKeeps, ChunkEndsKeeps, HandlerEndsKeeps, CommitKeeps, WriteOneFileKeeps DEF WriteStep
  <2>4. CASE RollStep(t)
    BY <2>4, RollNextKeeps, ApplyPathKeeps, RecordDoneKeeps, RollEndsKeeps, RollTooNewKeeps
       DEF RollStep
  <2>5. CASE FailStep(t)
    BY <2>5, RollFailsKeeps, CommitFailsKeeps, CrashKeeps DEF FailStep
  <2> QED BY <2>1, <2>2, <2>3, <2>4, <2>5
<1> QED BY <1>1, <1>2

(* The inductive invariant holds of every behaviour. *)
THEOREM Invariance == Spec => []IInv
BY InitIInv, NextIInv, PTL DEF Spec

(* Every variable keeps its type. *)
THEOREM TypeCorrect == Spec => []TypeOK
<1>1. IInv => TypeOK
  BY DEF IInv, Types, TypeOK, Places, Serving, Working, Lock!Modes
<1> QED BY <1>1, Invariance, PTL

(* No two unfinished records name the same file, however many tabs,        *)
(* crashes and failures there are: replaying them late, in any order,      *)
(* overwrites nothing newer.                                               *)
THEOREM Disjoint == Spec => []PendingDisjoint
<1>1. IInv => PendingDisjoint
  BY DEF IInv
<1> QED BY <1>1, Invariance, PTL

(* A read that starts on an empty journal sees whole operations only until *)
(* it ends: nobody can begin to write before it lets the lock go.          *)
THEOREM FirstReads == Spec => []FirstReadWhole
<1>1. IInv => FirstReadWhole
  <2> SUFFICES ASSUME IInv, NEW t \in Tabs, pc[t] = "reading" PROVE disk = Logical
    BY DEF FirstReadWhole
  <2>1. journal = {} /\ disk \in [Paths -> Ops \cup {0, Absent}]
    BY DEF IInv, ReaderKnows, Types
  <2>2. Logical = [p \in Paths |-> disk[p]]
    BY <2>1 DEF Logical
  <2> QED BY <2>1, <2>2
<1> QED BY <1>1, Invariance, PTL

(* A reader never serves a record it met half-applied. *)
THEOREM MetRecords == Spec => []MetRecordsWhole
<1>1. IInv => MetRecordsWhole
  <2> SUFFICES ASSUME IInv, NEW t \in Tabs, Reading(t), NEW o \in met[t] \cap journal
               PROVE  Touched(o) \subseteq skip[t]
    BY DEF MetRecordsWhole
  <2>1. CASE pc[t] \in {"reading", "rereading"}
    BY <2>1 DEF IInv, ReaderKnows
  <2>2. CASE pc[t] = "readingSkipping"
    BY <2>2 DEF IInv, ReaderKnows, PendingPaths
  <2> QED BY <2>1, <2>2 DEF Reading
<1> QED BY <1>1, Invariance, PTL

(* A reader whose roll-forward failed looks only at files that no record   *)
(* will change.                                                            *)
THEOREM SkippingReads == Spec => []SkippingReadWhole
<1>1. IInv => SkippingReadWhole
  <2> SUFFICES ASSUME IInv, NEW t \in Tabs, pc[t] = "readingSkipping",
                      NEW p \in Paths \ skip[t]
               PROVE  disk[p] = Logical[p]
    BY DEF SkippingReadWhole
  <2>1. {o \in journal : p \in Touched(o)} = {}
    BY DEF IInv, ReaderKnows, PendingPaths
  <2> QED BY <2>1 DEF Logical
<1> QED BY <1>1, Invariance, PTL

-----------------------------------------------------------------------------
(* The refinement.  What the folder will be is what the only record naming *)
(* a file makes of it, and the file itself where no record names it.       *)
FolderIs ==
  \A p \in Paths :
    /\ \A o \in journal : p \in Touched(o) => Logical[p] = Text(o, p)
    /\ (\A o \in journal : p \notin Touched(o)) => Logical[p] = disk[p]

LEMMA WhatLogicalIs == IInv => FolderIs
<1> SUFFICES ASSUME IInv, NEW p \in Paths
             PROVE  /\ \A o \in journal : p \in Touched(o) => Logical[p] = Text(o, p)
                    /\ (\A o \in journal : p \notin Touched(o)) => Logical[p] = disk[p]
  BY DEF FolderIs
<1> DEFINE naming == {o \in journal : p \in Touched(o)}
<1>1. Logical[p] = IF naming = {} THEN disk[p] ELSE Text(LastOf(naming), p)
  BY DEF Logical
<1>2. ASSUME NEW o \in journal, p \in Touched(o)
      PROVE  Logical[p] = Text(o, p)
  <2>1. naming = {o}
    BY <1>2 DEF IInv, PendingDisjoint
  <2>2. o \in Nat
    BY OpsAssumption DEF IInv, Types, Used
  <2>3. LastOf({o}) = o
    BY <2>2 DEF LastOf
  <2> QED BY <1>1, <2>1, <2>3
<1>3. ASSUME \A o \in journal : p \notin Touched(o)
      PROVE  Logical[p] = disk[p]
  BY <1>1, <1>3
<1> QED BY <1>2, <1>3

(* A record with no next file is applied to the last of its files: a set   *)
(* of naturals that is not empty has a smallest element.                   *)
LEMMA NothingLeft ==
  ASSUME IInv, cur # 0, NextPaths(cur) = {}
  PROVE  Touched(cur) \subseteq applied
<1> DEFINE left  == record[cur].writes \ applied
           ranks == {Rank[p] : p \in left}
           less  == {ss \in Nat \X Nat : ss[1] < ss[2]}
<1>1. left \subseteq Paths
  BY DEF IInv, Types, Used
<1>2. left = {}
  <2> SUFFICES ASSUME left # {} PROVE FALSE
    OBVIOUS
  <2>1. ranks \subseteq Nat /\ ranks # {}
    BY <1>1, RankAssumption
  <2>2. IsWellFoundedOn(less, Nat)
    BY NatLessThanWellFounded DEF OpToRel
  <2>3. PICK m \in ranks : \A n \in ranks : <<n, m>> \notin less
    BY <2>1, <2>2, WFMin, Zenon
  <2>4. \A n \in ranks : m <= n
    <3> SUFFICES ASSUME NEW n \in ranks PROVE m <= n
      OBVIOUS
    <3>1. n \in Nat /\ m \in Nat
      BY <2>1
    <3>2. n < m => <<n, m>> \in less
      BY <3>1
    <3>3. ~(n < m)
      BY <3>2, <2>3
    <3> QED BY <3>1, <3>3
  <2>5. PICK p \in left : Rank[p] = m
    BY <2>3
  <2>6. p \in NextPaths(cur)
    BY <2>4, <2>5 DEF NextPaths
  <2> QED BY <2>6
<1>3. record[cur].removals \subseteq applied
  BY <1>2 DEF NextPaths
<1> QED BY <1>2, <1>3 DEF Touched

(* A new record: its files change, the others do not. *)
LEMMA CommitIsAtomic ==
  ASSUME IInv, IInv', NEW t \in Tabs, NEW o \in Ops, NEW s \in Shapes, Commit(t, o, s)
  PROVE  Folder!Commit(o, s)
<1>1. /\ Types /\ RecordsFormed /\ record' \in [Ops -> [writes : SUBSET Paths, removals : SUBSET Paths, tooNew : BOOLEAN]]
  BY DEF IInv, Types
<1>2. /\ s.writes \subseteq Paths /\ s.removals \subseteq Paths
      /\ s.writes \cap s.removals = {} /\ s.writes \cup s.removals # {}
  BY ShapesAssumption
<1>3. /\ o \notin Used /\ journal' = journal \cup {o} /\ disk' = disk
      /\ \A q \in Ops \ {o} : record'[q] = record[q]
      /\ record'[o].writes = s.writes /\ record'[o].removals = s.removals
  BY <1>1 DEF Commit, Types
<1>4. record'[o] # NoRecord
  BY <1>2, <1>3 DEF NoRecord
<1>5. Used' = Used \cup {o}
  BY <1>3, <1>4 DEF Used
<1>6. journal \subseteq Ops \ {o}
  BY <1>1, <1>3 DEF Types, Used
<1>7. FolderIs /\ FolderIs'
  <2>1. IInv => FolderIs
    BY WhatLogicalIs
  <2>2. IInv' => FolderIs'
    BY WhatLogicalIs, PTL
  <2> QED BY <2>1, <2>2
<1>8. ASSUME NEW p \in Paths
      PROVE  Logical'[p] = IF p \in s.writes THEN o
                           ELSE IF p \in s.removals THEN Absent ELSE Logical[p]
  <2>1. CASE p \in s.writes \cup s.removals
    <3>1. Logical'[p] = Text(o, p)'
      BY <2>1, <1>3, <1>7 DEF FolderIs, Touched
    <3> QED BY <3>1, <2>1, <1>2, <1>3 DEF Text
  <2>2. CASE p \notin s.writes \cup s.removals
    <3>1. CASE \E q \in journal : p \in Touched(q)
      <4>1. PICK q \in journal : p \in Touched(q)
        BY <3>1
      <4>2. Logical[p] = Text(q, p)
        BY <4>1, <1>7 DEF FolderIs
      <4>3. Logical'[p] = Text(q, p)'
        BY <4>1, <1>3, <1>6, <1>7 DEF FolderIs, Touched
      <4> QED BY <4>1, <4>2, <4>3, <2>2, <1>3, <1>6 DEF Text
    <3>2. CASE \A q \in journal : p \notin Touched(q)
      <4>1. Logical[p] = disk[p]
        BY <3>2, <1>7 DEF FolderIs
      <4>2. Logical'[p] = disk'[p]
        BY <3>2, <2>2, <1>3, <1>6, <1>7 DEF FolderIs, Touched
      <4> QED BY <4>1, <4>2, <2>2, <1>3
    <3> QED BY <3>1, <3>2
  <2> QED BY <2>1, <2>2
<1>9. Logical' = [p \in Paths |-> Logical'[p]]
  BY DEF Logical
<1> QED BY <1>3, <1>5, <1>8, <1>9 DEF Folder!Commit, Absent, Folder!Absent

(* One file replaced outside the journal is an operation of one file. *)
LEMMA WriteOneFileIsAtomic ==
  ASSUME IInv, IInv', NEW t \in Tabs, NEW o \in Ops, NEW p \in Paths, WriteOneFile(t, o, p)
  PROVE  Folder!Commit(o, [writes |-> {p}, removals |-> {}])
<1>1. Types /\ HolderKnows
  BY DEF IInv
<1>2. /\ o \notin Used /\ journal' = journal /\ disk' = [disk EXCEPT ![p] = o]
      /\ \A q \in Ops \ {o} : record'[q] = record[q]
      /\ record'[o].writes = {p} /\ p \notin PendingPaths
  BY <1>1 DEF WriteOneFile, Types, NoRecord, HolderKnows
<1>3. record'[o] # NoRecord
  BY <1>2 DEF NoRecord
<1>4. Used' = Used \cup {o}
  BY <1>2, <1>3 DEF Used
<1>5. journal \subseteq Ops \ {o}
  BY <1>1, <1>2 DEF Types, Used
<1>6. \A q \in journal : Touched(q)' = Touched(q) /\ p \notin Touched(q)
  BY <1>2, <1>5 DEF Touched, PendingPaths
<1>7. FolderIs /\ FolderIs'
  <2>1. IInv => FolderIs
    BY WhatLogicalIs
  <2>2. IInv' => FolderIs'
    BY WhatLogicalIs, PTL
  <2> QED BY <2>1, <2>2
<1>8. Logical'[p] = o
  BY <1>1, <1>2, <1>6, <1>7 DEF FolderIs, Types
<1>9. ASSUME NEW r \in Paths, r # p
      PROVE  Logical'[r] = Logical[r]
  <2>1. CASE \E q \in journal : r \in Touched(q)
    <3>1. PICK q \in journal : r \in Touched(q)
      BY <2>1
    <3>2. Logical[r] = Text(q, r) /\ Logical'[r] = Text(q, r)'
      BY <3>1, <1>2, <1>6, <1>7 DEF FolderIs
    <3> QED BY <3>1, <3>2, <1>2, <1>5 DEF Text
  <2>2. CASE \A q \in journal : r \notin Touched(q)
    BY <2>2, <1>1, <1>2, <1>6, <1>7, <1>9 DEF FolderIs, Types
  <2> QED BY <2>1, <2>2
<1>10. Logical' = [r \in Paths |-> Logical'[r]]
  BY DEF Logical
<1> QED BY <1>2, <1>4, <1>8, <1>9, <1>10 DEF Folder!Commit

(* Applying a file changes nothing: the record said it already. *)
LEMMA ApplyPathStutters ==
  ASSUME IInv, IInv', NEW t \in Tabs, ApplyPath(t)
  PROVE  Logical' = Logical /\ Used' = Used
<1>1. Types /\ PendingDisjoint
  BY DEF IInv
<1>2. /\ journal' = journal /\ record' = record /\ cur \in journal
      /\ \E p \in NextPaths(cur) : disk' = [disk EXCEPT ![p] = Text(cur, p)]
  BY <1>1 DEF ApplyPath, Types
<1>3. PICK p \in Touched(cur) : disk' = [disk EXCEPT ![p] = Text(cur, p)]
  BY <1>2 DEF NextPaths, Touched
<1>4. \A q \in journal : Touched(q)' = Touched(q)
  BY <1>2 DEF Touched
<1>5. FolderIs /\ FolderIs'
  <2>1. IInv => FolderIs
    BY WhatLogicalIs
  <2>2. IInv' => FolderIs'
    BY WhatLogicalIs, PTL
  <2> QED BY <2>1, <2>2
<1>6. ASSUME NEW r \in Paths PROVE Logical'[r] = Logical[r]
  <2>1. CASE \E q \in journal : r \in Touched(q)
    <3>1. PICK q \in journal : r \in Touched(q)
      BY <2>1
    <3>2. Logical[r] = Text(q, r) /\ Logical'[r] = Text(q, r)'
      BY <3>1, <1>2, <1>4, <1>5 DEF FolderIs
    <3> QED BY <3>2, <1>2 DEF Text
  <2>2. CASE \A q \in journal : r \notin Touched(q)
    <3>1. Logical[r] = disk[r] /\ Logical'[r] = disk'[r] /\ r # p
      BY <2>2, <1>2, <1>3, <1>4, <1>5 DEF FolderIs
    <3> QED BY <3>1, <1>3, <1>1 DEF Types
  <2> QED BY <2>1, <2>2
<1>7. Logical = [r \in Paths |-> Logical[r]] /\ Logical' = [r \in Paths |-> Logical'[r]]
  BY DEF Logical
<1> QED BY <1>2, <1>6, <1>7 DEF Used

(* Deleting a record changes nothing: every file of it is on disk. *)
LEMMA RecordDoneStutters ==
  ASSUME IInv, IInv', NEW t \in Tabs, RecordDone(t)
  PROVE  Logical' = Logical /\ Used' = Used
<1>1. Types /\ PendingDisjoint /\ AppliedOnDisk
  BY DEF IInv
<1>2. /\ record' = record /\ disk' = disk /\ journal' = journal \ {cur}
      /\ cur \in journal /\ cur # 0 /\ NextPaths(cur) = {}
  BY <1>1 DEF RecordDone, Types
<1>3. \A r \in Touched(cur) : disk[r] = Text(cur, r)
  BY <1>1, <1>2, NothingLeft DEF AppliedOnDisk
<1>4. \A q \in journal : Touched(q)' = Touched(q)
  BY <1>2 DEF Touched
<1>5. FolderIs /\ FolderIs'
  <2>1. IInv => FolderIs
    BY WhatLogicalIs
  <2>2. IInv' => FolderIs'
    BY WhatLogicalIs, PTL
  <2> QED BY <2>1, <2>2
<1>6. ASSUME NEW r \in Paths PROVE Logical'[r] = Logical[r]
  <2>1. CASE r \in Touched(cur)
    <3>1. Logical[r] = Text(cur, r)
      BY <2>1, <1>2, <1>5 DEF FolderIs
    <3>2. \A q \in journal' : r \notin Touched(q)'
      BY <2>1, <1>1, <1>2, <1>4 DEF PendingDisjoint
    <3>3. Logical'[r] = disk'[r]
      BY <3>2, <1>5 DEF FolderIs
    <3> QED BY <3>1, <3>3, <2>1, <1>2, <1>3
  <2>2. CASE \E q \in journal \ {cur} : r \in Touched(q)
    <3>1. PICK q \in journal \ {cur} : r \in Touched(q)
      BY <2>2
    <3>2. Logical[r] = Text(q, r) /\ Logical'[r] = Text(q, r)'
      BY <3>1, <1>2, <1>4, <1>5 DEF FolderIs
    <3> QED BY <3>2, <1>2 DEF Text
  <2>3. CASE \A q \in journal : r \notin Touched(q)
    BY <2>3, <1>2, <1>4, <1>5 DEF FolderIs
  <2> QED BY <2>1, <2>2, <2>3, <1>2
<1>7. Logical = [r \in Paths |-> Logical[r]] /\ Logical' = [r \in Paths |-> Logical'[r]]
  BY DEF Logical
<1> QED BY <1>2, <1>6, <1>7 DEF Used

(* Steps that touch neither the files nor the journal change nothing. *)
LEMMA OthersStutter ==
  ASSUME UNCHANGED <<disk, journal, record>>
  PROVE  Logical' = Logical /\ Used' = Used
BY DEF Logical, Used, LastOf, Text, Touched

(* Every step of the journal is one whole operation, or none. *)
LEMMA StepIsAtomic ==
  ASSUME IInv, IInv', [Next]_vars
  PROVE  [Folder!Next]_<<Logical, Used>>
<1>1. CASE UNCHANGED vars
  BY <1>1, OthersStutter DEF vars
<1>2. CASE Next
  <2>1. PICK t \in Tabs : ReadStep(t) \/ WriteStep(t) \/ RollStep(t) \/ FailStep(t)
    BY <1>2 DEF Next
  <2>2. CASE ReadStep(t)
    BY <2>2, OthersStutter
       DEF ReadStep, ReadFirst, ReadFindsJournal, ReadRolls, ReadAgain, ReadEnds, GivesUp
  <2>3. CASE WriteStep(t)
    <3>1. CASE WriteBegins(t) \/ ChunkEnds(t) \/ HandlerEnds(t)
      BY <3>1, OthersStutter DEF WriteBegins, ChunkEnds, HandlerEnds
    <3>2. ASSUME NEW o \in Ops, NEW s \in Shapes, Commit(t, o, s)
          PROVE  Folder!Next
      BY <3>2, CommitIsAtomic DEF Folder!Next
    <3>3. ASSUME NEW o \in Ops, NEW p \in Paths, WriteOneFile(t, o, p)
          PROVE  Folder!Next
      BY <3>3, WriteOneFileIsAtomic DEF Folder!Next, SingleWrites
    <3> QED BY <2>3, <3>1, <3>2, <3>3 DEF WriteStep
  <2>4. CASE RollStep(t)
    <3>1. CASE RollNext(t) \/ RollEnds(t) \/ RollTooNew(t)
      BY <3>1, OthersStutter DEF RollNext, RollEnds, RollTooNew
    <3>2. CASE ApplyPath(t) \/ RecordDone(t)
      BY <3>2, ApplyPathStutters, RecordDoneStutters
    <3> QED BY <2>4, <3>1, <3>2 DEF RollStep
  <2>5. CASE FailStep(t)
    BY <2>5, OthersStutter DEF FailStep, RollFails, CommitFails, Crash
  <2> QED BY <2>1, <2>2, <2>3, <2>4, <2>5
<1> QED BY <1>1, <1>2

(* The journal makes a multi-file operation atomic: it happens whole and   *)
(* once, when its record is written, for every number of tabs, files and   *)
(* operations and whatever crashes and failures interrupt its replays.     *)
THEOREM Atomicity == Spec => ImplementsAtomicFolder
<1>1. Init => Folder!Init
  BY DEF Init, Folder!Init, Logical, Used
<1>2. IInv /\ IInv' /\ [Next]_vars => [Folder!Next]_<<Logical, Used>>
  BY StepIsAtomic
<1> QED BY <1>1, <1>2, Invariance, PTL DEF Spec, ImplementsAtomicFolder, Folder!Spec

=============================================================================
