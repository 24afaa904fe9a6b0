------------------------------ MODULE BlockStore ------------------------------
(***************************************************************************)
(* What the buffer cache promises to the file system: every block is a     *)
(* cell.  A process takes a block, alone, and if it asked for the contents *)
(* it finds what was last written, by whatever process and in whatever of  *)
(* the three ways of writing.  There is no cache here and no disk.         *)
(***************************************************************************)
CONSTANTS Procs, Blks, Vals, NoProc, NoVal, Blank

VARIABLES store,   \* the contents of each block
          holder,  \* who has the block
          seen     \* what a process found in the block it has

svars == <<store, holder, seen>>

Init == /\ store = [k \in Blks |-> Blank]
        /\ holder = [k \in Blks |-> NoProc]
        /\ seen = [p \in Procs |-> NoVal]

\* Bread and Breada show the contents, GetBlk shows nothing
Acquire(p, k) == /\ holder[k] = NoProc
                 /\ \A j \in Blks : holder[j] # p
                 /\ holder' = [holder EXCEPT ![k] = p]
                 /\ seen' \in {seen, [seen EXCEPT ![p] = store[k]]}
                 /\ UNCHANGED store

Drop(p, k) == /\ holder[k] = p
              /\ holder' = [holder EXCEPT ![k] = NoProc]
              /\ seen' = [seen EXCEPT ![p] = NoVal]

Release(p, k) == Drop(p, k) /\ UNCHANGED store

Update(p, k) == \E v \in Vals : Drop(p, k) /\ store' = [store EXCEPT ![k] = v]

Next == \E p \in Procs, k \in Blks : Acquire(p, k) \/ Release(p, k) \/ Update(p, k)

Spec == Init /\ [][Next]_svars
===============================================================================
