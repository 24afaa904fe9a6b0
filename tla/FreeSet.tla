------------------------------- MODULE FreeSet -------------------------------
(***************************************************************************)
(* What Alloc and Free promise to the file system: the blocks of the data  *)
(* zone that no file has are a set.  Alloc takes any of them and fails     *)
(* only if there is none; Free puts one back.                              *)
(***************************************************************************)
CONSTANTS Procs, Blocks, NoBlk

VARIABLES avail,   \* the free blocks
          used,    \* the blocks of files
          taken,   \* the block Alloc has for a process
          given,   \* the block a process frees
          full     \* has the last Alloc of the process failed?

fvars == <<avail, used, taken, given, full>>

Init == /\ avail = {}
        /\ used = Blocks
        /\ taken = [p \in Procs |-> NoBlk]
        /\ given = [p \in Procs |-> NoBlk]
        /\ full = [p \in Procs |-> FALSE]

Idle(p) == taken[p] = NoBlk /\ given[p] = NoBlk

Take(p) == /\ Idle(p)
           /\ \E b \in avail : /\ avail' = avail \ {b}
                               /\ taken' = [taken EXCEPT ![p] = b]
           /\ full' = [full EXCEPT ![p] = FALSE]
           /\ UNCHANGED <<used, given>>

Keep(p) == /\ taken[p] # NoBlk
           /\ used' = used \cup {taken[p]}
           /\ taken' = [taken EXCEPT ![p] = NoBlk]
           /\ UNCHANGED <<avail, given, full>>

Fail(p) == /\ Idle(p)
           /\ avail = {}
           /\ full' = [full EXCEPT ![p] = TRUE]
           /\ UNCHANGED <<avail, used, taken, given>>

Drop(p) == /\ Idle(p)
           /\ \E b \in used : /\ used' = used \ {b}
                              /\ given' = [given EXCEPT ![p] = b]
           /\ UNCHANGED <<avail, taken, full>>

Give(p) == /\ given[p] # NoBlk
           /\ avail' = avail \cup {given[p]}
           /\ given' = [given EXCEPT ![p] = NoBlk]
           /\ UNCHANGED <<used, taken, full>>

\* A Free that finds the table unlocked and not full
DropGive(p) == /\ Idle(p)
               /\ \E b \in used : /\ used' = used \ {b}
                                  /\ avail' = avail \cup {b}
               /\ UNCHANGED <<taken, given, full>>

Next == \E p \in Procs : Take(p) \/ Keep(p) \/ Fail(p) \/ Drop(p) \/ Give(p) \/ DropGive(p)

Spec == Init /\ [][Next]_fvars
==============================================================================
