---------------------------- MODULE MCBufferCache ----------------------------
(* Two processes, two buffers, three blocks and one the disk does not      *)
(* have: a buffer has to be given to another block, Breada can find the    *)
(* cache full of busy buffers and delayed writes, and both processes can   *)
(* keep one buffer in Breada and ask for a second.  Processes and          *)
(* sound blocks are interchangeable: of the behaviours that differ by a    *)
(* permutation, the one is kept in which First calls first and the blocks  *)
(* are first named in the order of Order (what a SYMMETRY would do, which  *)
(* may not be used with the liveness property of this run).                *)
EXTENDS BufferCache
CONSTANTS p1, p2, k1, k2, k3, k4
VARIABLES named,  \* how many blocks of Order were named so far
          beyond  \* whether k4 was, which the disk does not have

First == p1
Order == <<k1, k2, k3>>
Place(k) == IF \E n \in DOMAIN Order : Order[n] = k THEN CHOOSE n \in DOMAIN Order : Order[n] = k ELSE 0
Later(m, k) == IF Place(k) > m THEN Place(k) ELSE m

MCInit == Init /\ named = 0 /\ beyond = FALSE
MCNext ==
    /\ Next
    /\ IF calls' = calls THEN UNCHANGED <<named, beyond>>
       ELSE /\ calls = 0 => pc'[First] # "idle"
            /\ \E p \in Procs :
                  /\ pc[p] = "idle" /\ pc'[p] # "idle"
                  /\ Place(blk'[p]) <= named + 1
                  /\ Place(rablk'[p]) <= Later(named, blk'[p]) + 1
                  /\ named' = Later(Later(named, blk'[p]), rablk'[p])
                  /\ beyond' = (beyond \/ k4 \in {blk'[p], rablk'[p]})
                  /\ ~(beyond /\ k4 \in {blk'[p], rablk'[p]})
    \* bound: one accident, a fault of the disk or a block it does not have
    /\ ~(beyond' /\ faults' > 0)
MCSpec == MCInit /\ [][MCNext]_<<vars, named, beyond>> /\ Fairness
==============================================================================
