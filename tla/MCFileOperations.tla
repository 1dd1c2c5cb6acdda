-------------------------- MODULE MCFileOperations --------------------------
(* FileOperations on small instances. *)
EXTENDS FileOperations
=============================================================================
