-------------------------------- MODULE MCLogin -------------------------------
(* Instances of LoginProcesses for TLC. *)
EXTENDS LoginProcesses, TLC

Symmetric == Permutations(Worker) \cup Permutations(Secret)
==============================================================================
