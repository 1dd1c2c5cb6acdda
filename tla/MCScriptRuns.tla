---------------------------- MODULE MCScriptRuns ----------------------------
(* ScriptRuns on small instances. *)
EXTENDS ScriptRuns
=============================================================================
