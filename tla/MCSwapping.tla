----------------------------- MODULE MCSwapping -----------------------------
(***************************************************************************)
(* Three processes and three programs - one of whole pages, one with an    *)
(* uneven text, one with more data - for two entries of text[]; memory for *)
(* two images and a text, so that the third image has to leave.            *)
(***************************************************************************)
EXTENDS Swapping

CONSTANTS even, odd, big

MCTextOf == [f \in Files |-> IF f = odd THEN 3 ELSE 2]
MCDataOf == [f \in Files |-> IF f = big THEN 4 ELSE 2]

=============================================================================
