-------------------------- MODULE MCFolderSession --------------------------
(* Instances of FolderSession for TLC: one document written here and one    *)
(* pulled from account a of two, and room to restore a draft once.          *)
EXTENDS FolderSession, TLC

CONSTANTS a, b, d1, d2

MCAccounts == {a, b}
MCDocs == {d1, d2}
MCPulled == (d1 :> None) @@ (d2 :> a)
MCFirst == (1 :> d1) @@ (2 :> d2) @@ (3 :> None)
============================================================================
