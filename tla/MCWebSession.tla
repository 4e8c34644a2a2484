----------------------------- MODULE MCWebSession -----------------------------
(* The instance of WebSession that TLC explores; its run checks liveness, so *)
(* it has no symmetry.                                                      *)
EXTENDS WebSession, TLC
==============================================================================
