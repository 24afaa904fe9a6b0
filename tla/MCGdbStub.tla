----------------------------- MODULE MCGdbStub -----------------------------
(* An instruction at 0, below the kernel, and a call at 1 of a procedure   *)
(* at 3 that may loop or go on into kernel_debug_checkpoint, whose rest is *)
(* at 2 and returns to 0.                                                  *)
EXTENDS GdbStub

MCCode == 0 .. 3
MCFlow == (0 :> {1}) @@ (1 :> {3}) @@ (2 :> {0}) @@ (3 :> {1, 2})
=============================================================================
