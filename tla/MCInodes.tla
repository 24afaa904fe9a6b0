------------------------------ MODULE MCInodes -------------------------------
(* Inodes with fewer slots than inodes, so that the table of inodes gets   *)
(* full, and one free number at a time in s_inode.                         *)
EXTENDS Inodes, TLC

Symmetry == Permutations(Procs) \cup Permutations(Names)
==============================================================================
