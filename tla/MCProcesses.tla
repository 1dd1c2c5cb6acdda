----------------------------- MODULE MCProcesses -----------------------------
(* An instance of Processes: a program, another one of its name whose command *)
(* cannot be read, and one in a container that has another command.           *)
EXTENDS Processes, TLC

Symmetric == Permutations(Requests)

MCHost == [name |-> "x", user |-> "user", cmd |-> "c", box |-> None]

MCHidden == [name |-> "x", user |-> "user", cmd |-> None, box |-> None]

MCBoxed(b) == [name |-> "x", user |-> "user", cmd |-> "d", box |-> b]

MCPrograms == {MCHost, MCHidden} \cup {MCBoxed(b) : b \in Boxes \ {Own}}

MCRunning == [p \in Pids |-> IF p = 1 THEN MCHost ELSE IF p = 2 THEN MCBoxed(CHOOSE b \in Boxes : b # Own) ELSE None]
=============================================================================
