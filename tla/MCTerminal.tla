---------------------------- MODULE MCTerminal -----------------------------
(* Instance: a shell and a program that opened the terminal itself.         *)
EXTENDS Terminal

CONSTANTS sh, prog
MCProcs == {sh, prog}
=============================================================================
