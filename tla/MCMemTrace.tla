----------------------------- MODULE MCMemTrace -----------------------------
(* MemTrace for TLC.                                                       *)
EXTENDS MemTrace, TLC

=============================================================================
