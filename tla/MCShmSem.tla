------------------------------ MODULE MCShmSem ------------------------------
(* ShmSem for TLC.  Two senders suffice for one to clean up after another;  *)
(* the run that refutes OneSender needs a third.                            *)
EXTENDS ShmSem

=============================================================================
