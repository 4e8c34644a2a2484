------------------------------ MODULE MCAuthHttp ------------------------------
(* Instances of AuthHttp for TLC. *)
EXTENDS AuthHttp, TLC

Symmetric == Permutations(Request) \cup Permutations(User)
==============================================================================
