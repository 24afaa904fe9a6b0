----------------------------- MODULE MCProcesses -----------------------------
(* Processes with a shell and two or three other slots.                    *)
EXTENDS Processes

MCSwapBlks == 1..MaxPid
=============================================================================
