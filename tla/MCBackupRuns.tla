---------------------------- MODULE MCBackupRuns ----------------------------
(* BackupRuns on small instances. *)
EXTENDS BackupRuns

\* Of two jobs, one whose transfer has a timeout and one whose transfer has none, one is
\* there to begin with, in any state that a save leaves it in.
InitOne == Init /\ Cardinality({j \in Jobs : job[j].state = "present"}) = 1

FairSpecOne == InitOne /\ [][Next]_vars /\ Fairness
=============================================================================
