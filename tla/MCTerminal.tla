----------------------------- MODULE MCTerminal -----------------------------
(* Terminal with two sessions whose output is one chunk longer than the backlog. *)
EXTENDS Terminal
=============================================================================
