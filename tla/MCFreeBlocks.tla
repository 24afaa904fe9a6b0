---------------------------- MODULE MCFreeBlocks -----------------------------
(* FreeBlocks with a stack of two or three entries, so that groups are     *)
(* written to blocks and read back.                                        *)
EXTENDS FreeBlocks, TLC

Symmetry == Permutations(Procs) \cup Permutations(Blocks)
==============================================================================
