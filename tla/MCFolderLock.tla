---------------------------- MODULE MCFolderLock ---------------------------
(* Three or four requests in two tabs: enough for a holder, a waiting      *)
(* writer, a reader behind it and a request of the tab that closes.        *)
EXTENDS FolderLock, TLC

CONSTANTS p1, p2, p3, p4, t1, t2

MCProcs == {p1, p2, p3, p4}
MCTabOf == (p1 :> t1) @@ (p2 :> t1) @@ (p3 :> t2) @@ (p4 :> t2)
=============================================================================
