------------------------- MODULE MCFolderIndexCache -------------------------
(* One tab's index beside another tab's writes, within the .cfg bounds.  *)
(* Scans are interchangeable: no definition names one.                   *)
EXTENDS FolderIndexCache, TLC

ScanSymmetry == Permutations(Scans)
=============================================================================
