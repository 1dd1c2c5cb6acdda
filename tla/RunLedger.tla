----------------------------- MODULE RunLedger ------------------------------
(***************************************************************************)
(* What the history page promises of a run, whoever writes its row: it is  *)
(* opened once, it is settled, and a settled run is never running again.   *)
(* Its verdict may still be corrected, and it goes when its job is         *)
(* deleted.  BackupRuns implements this ledger.                            *)
(***************************************************************************)
CONSTANT Runs

VARIABLE ledger

States == {"free", "running", "settled", "deleted"}

Init == ledger = [r \in Runs |-> "free"]

Open(r) == /\ ledger[r] = "free"
           /\ ledger' = [ledger EXCEPT ![r] = "running"]

Settle(r) == /\ ledger[r] = "running"
             /\ ledger' = [ledger EXCEPT ![r] = "settled"]

\* A job is deleted with every run it has.
Drop(dropped) ==
  /\ \A r \in dropped : ledger[r] \in {"running", "settled"}
  /\ ledger' = [r \in Runs |-> IF r \in dropped THEN "deleted" ELSE ledger[r]]

Next == \/ \E r \in Runs : Open(r) \/ Settle(r)
        \/ \E dropped \in SUBSET Runs : Drop(dropped)

Spec == Init /\ [][Next]_ledger
=============================================================================
