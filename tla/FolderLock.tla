---------------------------- MODULE FolderLock -----------------------------
(***************************************************************************)
(* The folder lock: a first-in first-out readers-writer queue.             *)
(*                                                                         *)
(*   frontend/notechondria_shared/lib/src/local_folder/folder_lock.dart    *)
(*   frontend/notechondria_shared/lib/src/local_folder/folder_lock_web.dart*)
(*                                                                         *)
(* MemoryFolderLocks is the queue in Dart; WebFolderLocks asks the         *)
(* browser's Web Locks for the same thing, so the queue below is also the  *)
(* external model of navigator.locks.request.  One lock name is modelled:  *)
(* names do not interact.  A process is one call of FolderLocks.run; the   *)
(* operation it runs inside the hold is the business of the modules that   *)
(* use the lock.                                                           *)
(*                                                                         *)
(* The queue is kept as the relation "was queued before me": ahead[p] is   *)
(* the set of requests still pending in front of p.  Its length in time    *)
(* (kFolderLockWait, the request's timeLeft) is abstracted to a timeout    *)
(* that may fire whenever a request is pending.                            *)
(***************************************************************************)
CONSTANTS Procs,            \* calls of FolderLocks.run
          TabOf             \* TabOf[p]: the browser tab the call runs in

VARIABLES status,           \* "idle", "pending" (in the queue) or "held"
          mode,             \* the mode p asked for, "none" when idle
          ahead             \* ahead[p]: the pending requests queued before p

vars == <<status, mode, ahead>>

Modes == {"shared", "exclusive"}

Pending == {p \in Procs : status[p] = "pending"}
Held    == {p \in Procs : status[p] = "held"}

TypeOK ==
  /\ status \in [Procs -> {"idle", "pending", "held"}]
  /\ mode \in [Procs -> Modes \cup {"none"}]
  /\ ahead \in [Procs -> SUBSET Procs]
  /\ \A p \in Procs : (status[p] = "idle") <=> (mode[p] = "none")

Init ==
  /\ status = [p \in Procs |-> "idle"]
  /\ mode = [p \in Procs |-> "none"]
  /\ ahead = [p \in Procs |-> {}]

-----------------------------------------------------------------------------
(* Mutants of Granted: a writer that only waits for other writers; readers *)
(* that pass a waiting writer.                                             *)
GrantedBesideReaders(st, md, ah) ==
  {p \in Procs :
    /\ st[p] = "pending"
    /\ \A q \in {r \in Procs : st[r] = "held"} \cup ah[p] : md[q] # "exclusive"
    /\ md[p] = "exclusive" => ah[p] = {}}

GrantedPastWriters(st, md, ah) ==
  LET held == {p \in Procs : st[p] = "held"}
  IN  {p \in Procs :
        /\ st[p] = "pending"
        /\ IF md[p] = "exclusive"
           THEN held = {} /\ ah[p] = {}
           ELSE \A q \in held : md[q] # "exclusive"}

(* _MemoryQueue.process: an exclusive request needs nothing held and       *)
(* nobody in front of it; a shared one needs no exclusive hold and no      *)
(* exclusive request in front of it.  The loop stops at the first request  *)
(* it cannot grant, so these are exactly the requests one call grants.     *)
Granted(st, md, ah) ==
  LET held == {p \in Procs : st[p] = "held"}
  IN  {p \in Procs :
        /\ st[p] = "pending"
        /\ IF md[p] = "exclusive"
           THEN held = {} /\ ah[p] = {}
           ELSE \A q \in held \cup ah[p] : md[q] # "exclusive"}

(* The queue after process() has granted what it can. *)
Process(st, md, ah) ==
  LET g == Granted(st, md, ah)
  IN  /\ status' = [p \in Procs |-> IF p \in g THEN "held" ELSE st[p]]
      /\ mode' = md
      /\ ahead' = [p \in Procs |-> IF p \in g THEN {} ELSE ah[p] \ g]

(* Mutants of Leave: the mode of a request that left is kept; those behind *)
(* it still wait for it.                                                   *)
LeaveKeepingMode(gone) ==
  Process([p \in Procs |-> IF p \in gone THEN "idle" ELSE status[p]],
          mode,
          [p \in Procs |-> IF p \in gone THEN {} ELSE ahead[p] \ gone])

LeaveStillAhead(gone) ==
  Process([p \in Procs |-> IF p \in gone THEN "idle" ELSE status[p]],
          [p \in Procs |-> IF p \in gone THEN "none" ELSE mode[p]],
          [p \in Procs |-> IF p \in gone THEN {} ELSE ahead[p]])

(* Takes the requests in gone out of the queue and out of the held list,   *)
(* then calls process().                                                   *)
Leave(gone) ==
  Process([p \in Procs |-> IF p \in gone THEN "idle" ELSE status[p]],
          [p \in Procs |-> IF p \in gone THEN "none" ELSE mode[p]],
          [p \in Procs |-> IF p \in gone THEN {} ELSE ahead[p] \ gone])

-----------------------------------------------------------------------------
(* run: queue the request and process.  A request whose timeLeft is already*)
(* used up throws before it is queued, which changes nothing.              *)
Request(p, m) ==
  /\ status[p] = "idle"
  /\ Process([status EXCEPT ![p] = "pending"],
             [mode EXCEPT ![p] = m],
             [ahead EXCEPT ![p] = Pending])

(* Mutant of TimeOut: the request leaves and process() is not called. *)
TimeOutWakingNobody(p) ==
  /\ status[p] = "pending"
  /\ status' = [status EXCEPT ![p] = "idle"]
  /\ mode' = [mode EXCEPT ![p] = "none"]
  /\ ahead' = [q \in Procs |-> IF q = p THEN {} ELSE ahead[q] \ {p}]

(* The wait's timer fires before the grant: the request leaves the queue   *)
(* and run throws FolderLockTimeout.                                       *)
TimeOut(p) ==
  /\ status[p] = "pending"
  /\ Leave({p})

(* Mutant of Release: the first in the queue is granted without a look at  *)
(* the other holds.                                                        *)
ReleaseToFirstWaiter(p) ==
  /\ status[p] = "held"
  /\ LET next == {q \in Pending : ahead[q] = {}}
     IN  /\ status' = [q \in Procs |-> IF q = p THEN "idle" ELSE
                                       IF q \in next THEN "held" ELSE status[q]]
         /\ mode' = [mode EXCEPT ![p] = "none"]
         /\ ahead' = [q \in Procs |-> ahead[q] \ next]

(* The operation completed or threw: the finally block of run. *)
Release(p) ==
  /\ status[p] = "held"
  /\ Leave({p})

(* The tab closed or crashed: the browser drops its holds and requests. *)
TabGone(t) ==
  LET gone == {p \in Procs : TabOf[p] = t /\ status[p] # "idle"}
  IN  gone # {} /\ Leave(gone)

Tabs == {TabOf[p] : p \in Procs}

Next ==
  \/ \E p \in Procs, m \in Modes : Request(p, m)
  \/ \E p \in Procs : TimeOut(p)
  \/ \E p \in Procs : Release(p)
  \/ \E t \in Tabs : TabGone(t)

(* An operation ends (R4 bounds every hold), so a hold is released.  No    *)
(* fairness is assumed of the timeouts, of new requests or of tabs closing.*)
Fairness == \A p \in Procs : WF_vars(Release(p))

Spec == Init /\ [][Next]_vars
FairSpec == Spec /\ Fairness

-----------------------------------------------------------------------------
(* Safety: a tab in an exclusive hold is alone in the folder, so neither a *)
(* reader nor another writer runs between its re-read and its last write   *)
(* (security_and_tabs.md R1).                                              *)
MutualExclusion ==
  \A p, q \in Held : (p # q) => (mode[p] = "shared" /\ mode[q] = "shared")

(* No lost wake-up: nothing grantable is left in the queue once a handler  *)
(* has run.  Every path out of the queue or the held list must call        *)
(* process(), the timeout of a request at the head included: the requests  *)
(* behind it have no other event to wake them.                             *)
NoLostWakeup == Granted(status, mode, ahead) = {}

(* The queue is a total order of the pending requests, and nothing but a   *)
(* pending request is in front of anybody.                                 *)
QueueOrder ==
  \A p, q \in Procs :
    /\ q \in ahead[p] => (status[p] = "pending" /\ status[q] = "pending"
                          /\ p \notin ahead[q] /\ ahead[q] \subseteq ahead[p])
    /\ (p # q /\ status[p] = "pending" /\ status[q] = "pending")
         => (q \in ahead[p] \/ p \in ahead[q])

(* Liveness: when every hold ends, every waiting request leaves the queue  *)
(* without the help of its timeout: a stream of readers cannot starve a    *)
(* writer.  (TimeOut carries no fairness; see FairSpec.)                   *)
EveryWaitEnds == \A p \in Procs : (status[p] = "pending") ~> (status[p] # "pending")

-----------------------------------------------------------------------------
(* The lock implements the readers-writer promise of SharedMutex. *)
HoldOf == [p \in Procs |-> IF status[p] = "held" THEN mode[p] ELSE "none"]

Promise == INSTANCE SharedMutex WITH hold <- HoldOf

(* Refinement: every step of the queue is a hand-over the promise allows,  *)
(* or leaves the holders as they are.                                      *)
ImplementsPromise == Promise!Spec
=============================================================================
