-------------------------- MODULE MCLocalRateLimit ----------------------------
(* The instance of LocalRateLimit that TLC explores. *)
EXTENDS LocalRateLimit, TLC

Symmetric == Permutations(Network)
==============================================================================
