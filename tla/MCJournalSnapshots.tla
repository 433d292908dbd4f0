------------------------- MODULE MCJournalSnapshots -------------------------
(* The history of one note under every interleaving of records, outside    *)
(* edits and faults the .cfg bounds allow.                                 *)
EXTENDS JournalSnapshots
=============================================================================
