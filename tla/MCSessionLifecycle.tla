------------------------- MODULE MCSessionLifecycle --------------------------
(* Instances of SessionLifecycle for TLC. *)
EXTENDS SessionLifecycle, TLC

Symmetric == Permutations(Worker) \cup Permutations(Token \ Opened)
==============================================================================
