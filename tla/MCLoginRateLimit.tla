--------------------------- MODULE MCLoginRateLimit ---------------------------
(* Rules small enough for a window, a block and a boundary to be crossed. *)
EXTENDS LoginRateLimit, TLC

Rules ==
  [Network |-> [max |-> 2, window |-> 2, block |-> 2],
   Identity |-> [max |-> 1, window |-> 2, block |-> 2],
   IdentityNetwork |-> [max |-> 1, window |-> 1, block |-> 2]]

Symmetric == Permutations(Worker)
==============================================================================
