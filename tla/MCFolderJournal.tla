--------------------------- MODULE MCFolderJournal --------------------------
(* Four files and the operations handlers journal on them: a PATCH (body   *)
(* and sidecar), a move (one body and the manifest written, the other body *)
(* removed) and a manifest-only change.                                    *)
EXTENDS FolderJournal

CONSTANTS t1, t2, body, trash, sidecar, manifest

MCPaths == {body, trash, sidecar, manifest}
MCRank == [p \in MCPaths |-> CASE p = body -> 0 [] p = trash -> 0
                               [] p = sidecar -> 1 [] p = manifest -> 4]
MCShapes ==
  { [writes |-> {body, sidecar}, removals |-> {}],
    [writes |-> {trash, manifest}, removals |-> {body}],
    [writes |-> {manifest}, removals |-> {}] }
=============================================================================
