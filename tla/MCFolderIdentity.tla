-------------------------- MODULE MCFolderIdentity --------------------------
(* Instances of FolderIdentity for TLC: three paths that may hold notes at  *)
(* first (one stem spells UUID 1, in notes/ and in the trash, the other     *)
(* spells nothing), and one stem for a note created later.                  *)
EXTENDS FolderIdentity, TLC

CONSTANTS name, s1, s2

MCScans == {s1, s2}
MCStems == {1, 3, name}
MCOrder ==
  [p \in Path |-> (IF p[2] = "live" THEN 0 ELSE 3)
                    + (IF p[1] = 1 THEN 0 ELSE IF p[1] = 3 THEN 1 ELSE 2)]

\* Notes in order, copies with and without a sidecar or its UUID, new bodies.
MCNotes ==
  {Nothing, Handwritten,
   [body |-> TRUE, fm |-> 1, uuid |-> 1, id |-> 1],
   [body |-> TRUE, fm |-> 2, uuid |-> 2, id |-> 2],
   [body |-> TRUE, fm |-> 1, uuid |-> 0, id |-> 0],
   [body |-> TRUE, fm |-> 0, uuid |-> 0, id |-> 1],
   [body |-> TRUE, fm |-> 2, uuid |-> 2, id |-> 1],
   [body |-> FALSE, fm |-> 0, uuid |-> 1, id |-> 1]}

With(a, b, c, top, n, m, k, l) ==
  [notes |-> [p \in Path |-> IF p = Live(1) THEN a ELSE IF p = Trashed(1) THEN b
                             ELSE IF p = Live(name) THEN c ELSE Nothing],
   counter |-> top, issued |-> 2, scans |-> n, ops |-> m, edits |-> k, skips |-> l]

one == [body |-> TRUE, fm |-> 1, uuid |-> 1, id |-> 1]
two == [body |-> TRUE, fm |-> 2, uuid |-> 2, id |-> 2]
copy == [body |-> TRUE, fm |-> 1, uuid |-> 0, id |-> 0]
partial == [body |-> TRUE, fm |-> 1, uuid |-> 0, id |-> 1]
retitled == [body |-> TRUE, fm |-> 1, uuid |-> 2, id |-> 0]

\* Two scans of any folder, one fix skipped; two scans and two operations in
\* a folder in order; scans, an operation and an edit where there is
\* something to repair.
MCStarts ==
  {With(a, b, c, 1, 2, 0, 0, 1) : a, b, c \in MCNotes}
    \cup {With(one, Nothing, two, 2, 2, 2, 0, 0)}
    \cup {With(one, Nothing, copy, 2, n, 2 - n, 1, 0) : n \in {1, 2}}
    \cup {With(retitled, two, copy, 2, 1, 0, 0, 2)}
    \cup {With(partial, Nothing, one, 2, n, 2 - n, 1, 0) : n \in {1, 2}}

EitherScan == Permutations(MCScans)
=============================================================================
