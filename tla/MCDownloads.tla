----------------------------- MODULE MCDownloads -----------------------------
(* An instance of Downloads: a file of two chunks that is replaced by shorter and longer ones. *)
EXTENDS Downloads

MCSize == [v \in Versions |-> CASE v = 1 -> 2 [] v = 2 -> 1 [] OTHER -> 3]
=============================================================================
