------------------------------ MODULE MCArchiver ------------------------------
(* Archiver for TLC.  The configurations choose the calls that fail.        *)
EXTENDS Archiver

=============================================================================
