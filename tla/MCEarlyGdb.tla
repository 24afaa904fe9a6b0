---------------------------- MODULE MCEarlyGdb ----------------------------
(* A kernel of four bytes: a call and its operand, an indirect call and an *)
(* instruction of two bytes, of which the second is outside the image.     *)
EXTENDS EarlyGdb, TLC
MCImage == (4 :> "call") @@ (5 :> "arg") @@ (6 :> "icall") @@ (7 :> "two")
MCDest  == (4 :> 7) @@ (5 :> 4) @@ (6 :> 4) @@ (7 :> 4)
=============================================================================
