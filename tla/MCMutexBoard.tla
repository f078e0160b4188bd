---------------------------- MODULE MCMutexBoard ----------------------------
(* MutexBoard for TLC, on the constants of MutexBoard.cfg.                  *)
EXTENDS MutexBoard

=============================================================================
