---------------------------- MODULE SharedMutex ----------------------------
(***************************************************************************)
(* What a folder lock promises (FolderLocks, folder_lock.dart:45-58): at   *)
(* every moment either any number of requests hold the folder in "shared"  *)
(* mode, or exactly one holds it in "exclusive" mode; a hold is never      *)
(* revoked, changed or upgraded, it only ends.  How requests wait is not   *)
(* part of the promise: FolderLock implements it with a queue.             *)
(***************************************************************************)
CONSTANT Procs              \* the requests that may ask for the lock

VARIABLE hold               \* hold[p]: the mode p holds the lock in, or "none"

Modes == {"shared", "exclusive"}

Holders == {p \in Procs : hold[p] # "none"}

(* A set of holders the lock permits. *)
Compatible(h) ==
  \A p, q \in Procs :
    (p # q /\ h[p] = "exclusive") => h[q] = "none"

Init == hold = [p \in Procs |-> "none"]

(* The requests in out let go and the requests in come enter, in one step: *)
(* the release of one hold is what admits the next ones.                   *)
Handover(out, come, mode) ==
  /\ out \subseteq Holders
  /\ come \cap Holders = {}
  /\ hold' = [p \in Procs |-> IF p \in come THEN mode[p]
                              ELSE IF p \in out THEN "none"
                              ELSE hold[p]]
  /\ Compatible(hold')

Next ==
  \E out, come \in SUBSET Procs : \E mode \in [come -> Modes] :
    Handover(out, come, mode)

Spec == Init /\ [][Next]_hold
=============================================================================
