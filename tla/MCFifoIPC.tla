------------------------------ MODULE MCFifoIPC ------------------------------
(* FifoIPC by itself for TLC: two runs of each program.                     *)
EXTENDS FifoIPC

=============================================================================
