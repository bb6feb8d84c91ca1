------------------------------ MODULE MCPlatSync ------------------------------
(* PlatSync for TLC: the threads are interchangeable, and so are the blocks. *)
EXTENDS PlatSync, TLC

MCSymmetry == Permutations(Threads) \cup Permutations(Blocks)

=============================================================================
