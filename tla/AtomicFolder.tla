---------------------------- MODULE AtomicFolder ----------------------------
(***************************************************************************)
(* What the write-ahead journal promises (storage_rules.md 3.4.1): a       *)
(* multi-file operation happens whole and once.  The folder is one map     *)
(* from paths to contents; an operation replaces the contents of the files *)
(* it writes and removes the files it removes in a single step.  There are *)
(* no journal records, crashes or retries at this level.                   *)
(***************************************************************************)
EXTENDS Integers

CONSTANTS Paths,            \* the files of the folder
          Ops,              \* operation ids, naturals above 0
          Operations        \* what an operation may do: [writes, removals]

VARIABLES folder,           \* folder[p]: the content of p
          done              \* the operations that have happened

(* A file holds the text of the operation that wrote it last; 0 is the     *)
(* text it had at the start.                                               *)
Absent == -1

Init == folder = [p \in Paths |-> 0] /\ done = {}

(* The operation o replaces the files s.writes and removes s.removals. *)
Commit(o, s) ==
  /\ o \notin done
  /\ done' = done \cup {o}
  /\ folder' = [p \in Paths |-> IF p \in s.writes THEN o
                                ELSE IF p \in s.removals THEN Absent
                                ELSE folder[p]]

Next == \E o \in Ops, s \in Operations : Commit(o, s)

Spec == Init /\ [][Next]_<<folder, done>>
=============================================================================
