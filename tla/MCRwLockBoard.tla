---------------------------- MODULE MCRwLockBoard ----------------------------
(* RwLockBoard for TLC, on the constants of RwLockBoard.cfg.                *)
EXTENDS RwLockBoard

=============================================================================
