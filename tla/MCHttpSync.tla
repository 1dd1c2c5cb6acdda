----------------------------- MODULE MCHttpSync -----------------------------
(* HttpSync on a small tree: a file at the top, and a folder with a file that *)
(* is backed up and one that is excluded.                                     *)
EXTENDS HttpSync

MCPaths == 1..3
MCFolder == [p \in MCPaths |-> IF p = 1 THEN "" ELSE "folder"]
MCExcluded == {3}
=============================================================================
