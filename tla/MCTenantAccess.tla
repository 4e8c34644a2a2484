---------------------------- MODULE MCTenantAccess ---------------------------
(* The instances of TenantAccess that TLC explores. *)
EXTENDS TenantAccess, TLC

Symmetric == Permutations(Worker) \cup Permutations(Token)
==============================================================================
