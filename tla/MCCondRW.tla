------------------------------ MODULE MCCondRW ------------------------------
(* Instances of CondRW for TLC; the numbers of readers and records are in   *)
(* the configurations.                                                      *)
EXTENDS CondRW

=============================================================================
