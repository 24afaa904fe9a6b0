--------------------------- MODULE FreeBlocksProofs ---------------------------
(***************************************************************************)
(* Theorems about FreeBlocks, for any processes, blocks and size of stack. *)
(*                                                                         *)
(* IndInv has the types and the lock.  ChainInv says where every block is: *)
(* the lists of the chain form a tree (Tree), whose root is s_free or, while *)
(* a group is written or read, the group in the block of the process that  *)
(* has s_flock (RootIs).  What a step does to the tree is said once for any *)
(* groups and lists (PopChain, LastChain, PushChain, TreeSame).            *)
(***************************************************************************)
EXTENDS FreeBlocks, SequenceTheorems, TLAPS

Busy == {"allocread", "allocgot", "freewait", "freebuf", "freewrite"}

\* A 0 is only at the bottom of a list, so what Alloc has or Free gets is a block
NoZero(l) == \A i \in 2..Len(l) : l[i] # NoBlk
BlkInv ==
    /\ NoZero(sfree)
    /\ \A b \in Blocks : NoZero(group[b])
    /\ \A p \in Procs : pc[p] \in Busy => blk[p] \in Blocks

\* Only who waits for s_flock sleeps for it
SleepInv == \A p \in Procs : asleep[p] => pc[p] \in {"allocwait", "freewait"}

IndInv == TypeOK /\ BlkInv /\ SleepInv /\ OneHolder

LEMMA CapFact == Cap \in Nat /\ Cap >= 2 /\ NoBlk \notin Blocks
  BY FreeBlocksAssumption DEF FreeBlocksAssumption

LEMMA ShortLists ==
    /\ <<>> \in Lists /\ NoZero(<<>>)
    /\ <<NoBlk>> \in Lists /\ NoZero(<<NoBlk>>)
    /\ \A b \in Blocks : <<b>> \in Lists /\ NoZero(<<b>>)
  BY CapFact DEF Lists, NoZero

\* What Alloc takes from the stack
LEMMA TopFacts ==
    ASSUME TypeOK, BlkInv, Len(sfree) >= 1
    PROVE  /\ Popped \in Lists /\ NoZero(Popped)
           /\ Len(Popped) = Len(sfree) - 1 /\ \A i \in 1..Len(Popped) : Popped[i] = sfree[i]
           /\ Top \in Blocks \cup {NoBlk}
           /\ Len(sfree) > 1 => Top \in Blocks
<1>1. sfree \in Seq(Blocks \cup {NoBlk}) /\ Len(sfree) <= Cap /\ Len(sfree) \in Nat
  BY DEF TypeOK, Lists
<1>2. Top \in Blocks \cup {NoBlk} /\ (Len(sfree) > 1 => Top # NoBlk)
  BY <1>1 DEF BlkInv, NoZero, Top
<1>3. /\ Popped \in Seq(Blocks \cup {NoBlk}) /\ Len(Popped) = Len(sfree) - 1
      /\ \A i \in 1..Len(Popped) : Popped[i] = sfree[i]
 <2> DEFINE n == Len(sfree)
 <2>0. n \in Nat /\ n >= 1 /\ n - 1 \in Nat  BY <1>1
 <2>1. \A i \in 1..(n - 1) : sfree[i] \in Blocks \cup {NoBlk}  BY <1>1
 <2>2. /\ Popped \in Seq(Blocks \cup {NoBlk})
       /\ Len(Popped) = (IF 1 <= n - 1 THEN n - 1 - 1 + 1 ELSE 0)
       /\ \A i \in 1..(n - 1 - 1 + 1) : Popped[i] = sfree[1 + i - 1]
   BY <2>0, <2>1, SubSeqProperties DEF Popped
 <2> HIDE DEF n
 <2>3. Len(Popped) = n - 1  BY <2>0, <2>2
 <2>4. ASSUME NEW i \in 1..Len(Popped) PROVE Popped[i] = sfree[i]
  <3>1. i \in 1..(n - 1 - 1 + 1) /\ 1 + i - 1 = i  BY <2>0, <2>3
  <3> QED  BY <2>2, <3>1
 <2> QED  BY <2>2, <2>3, <2>4 DEF n
<1> QED  BY <1>1, <1>2, <1>3, CapFact DEF BlkInv, NoZero, Lists

\* What Free puts onto it
LEMMA PushFacts ==
    ASSUME TypeOK, BlkInv, NEW b \in Blocks, ~StackFull
    PROVE  Append(Stack, b) \in Lists /\ NoZero(Append(Stack, b))
<1>1. Stack \in Lists /\ NoZero(Stack)  BY ShortLists DEF TypeOK, BlkInv, Stack
<1>2. Stack \in Seq(Blocks \cup {NoBlk}) /\ Len(Stack) \in Nat /\ Len(Stack) < Cap
  BY <1>1, CapFact DEF Lists, StackFull
<1>3. /\ Append(Stack, b) \in Seq(Blocks \cup {NoBlk})
      /\ Len(Append(Stack, b)) = Len(Stack) + 1
      /\ \A i \in 1..Len(Stack) : Append(Stack, b)[i] = Stack[i]
      /\ Append(Stack, b)[Len(Stack) + 1] = b
  BY <1>2
<1>4. Append(Stack, b) \in Lists  BY <1>2, <1>3, CapFact DEF Lists
<1>5. ASSUME NEW i \in 2..Len(Append(Stack, b)) PROVE Append(Stack, b)[i] # NoBlk
  BY <1>1, <1>2, <1>3, CapFact DEF NoZero
<1> QED  BY <1>4, <1>5 DEF NoZero

LEMMA InitInd == Init => IndInv
<1> SUFFICES ASSUME Init PROVE IndInv  OBVIOUS
<1>1. TypeOK  BY ShortLists DEF Init, TypeOK, PCs
<1>2. BlkInv  BY ShortLists DEF Init, BlkInv, Busy
<1> QED  BY <1>1, <1>2 DEF Init, IndInv, SleepInv, OneHolder, Holding

\* The lock, by the places of the processes: p moves and does not touch it, ...
LEMMA LockKept ==
    ASSUME OneHolder, NEW p \in Procs, ~Holding(p), ~Holding(p)', flock' = flock,
           \A q \in Procs \ {p} : pc'[q] = pc[q],
           \A q \in Procs \ {p} : asleep'[q] => asleep[q],
           asleep'[p] => flock
    PROVE  OneHolder'
  BY DEF OneHolder, Holding

\* ... takes it, or has it and keeps it, ...
LEMMA LockTaken ==
    ASSUME OneHolder, NEW p \in Procs, flock => Holding(p), Holding(p)', flock',
           \A q \in Procs \ {p} : pc'[q] = pc[q]
    PROVE  OneHolder'
<1>1. \A q \in Procs \ {p} : ~Holding(q) /\ (Holding(q)' <=> Holding(q))  BY DEF OneHolder, Holding
<1> QED  BY <1>1 DEF OneHolder

\* ... or gives it back and wakes everybody
LEMMA LockFreed ==
    ASSUME OneHolder, NEW p \in Procs, Holding(p), ~Holding(p)', Unlock, TypeOK,
           \A q \in Procs \ {p} : pc'[q] = pc[q]
    PROVE  OneHolder' /\ SleepInv'
<1>1. \A q \in Procs \ {p} : ~Holding(q) /\ (Holding(q)' <=> Holding(q))  BY DEF OneHolder, Holding
<1> QED  BY <1>1 DEF OneHolder, SleepInv, Unlock

\* Every step keeps the invariant
LEMMA NextInd ==
    ASSUME IndInv, Next
    PROVE  IndInv'
<1> USE DEF Goto, tableVars, diskVars, procVars
<1>0. TypeOK /\ BlkInv /\ SleepInv /\ OneHolder  BY DEF IndInv
<1>1. ASSUME NEW p \in Procs, AllocWait(p) PROVE IndInv'
 <2>1. TypeOK'  BY <1>0, <1>1 DEF AllocWait, AllocTurn, SleepFlock, TypeOK, PCs, BlkInv, Busy
 <2>2. BlkInv'  BY <1>0, <1>1 DEF AllocWait, AllocTurn, SleepFlock, BlkInv, Busy, TypeOK
 <2>3. SleepInv'  BY <1>0, <1>1 DEF AllocWait, AllocTurn, SleepFlock, SleepInv, TypeOK
 <2>4. /\ ~Holding(p) /\ ~Holding(p)' /\ flock' = flock
       /\ \A q \in Procs \ {p} : pc'[q] = pc[q] /\ asleep'[q] = asleep[q]
       /\ asleep'[p] => flock
   BY <1>0, <1>1 DEF AllocWait, AllocTurn, SleepFlock, Holding, TypeOK, SleepInv, OneHolder
 <2>5. OneHolder'  BY <1>0, <2>4, LockKept
 <2> QED  BY <2>1, <2>2, <2>3, <2>5 DEF IndInv
<1>2. ASSUME NEW p \in Procs, AllocTake(p) PROVE IndInv'
 <2>1. TypeOK'  BY <1>0, <1>2, TopFacts DEF AllocTake, AllocTurn, TypeOK, PCs, BlkInv, Busy
 <2>2. BlkInv'  BY <1>0, <1>2, TopFacts DEF AllocTake, AllocTurn, BlkInv, Busy, TypeOK
 <2>3. SleepInv'  BY <1>0, <1>2 DEF AllocTake, AllocTurn, SleepInv, TypeOK
 <2>4. /\ ~Holding(p) /\ ~Holding(p)' /\ flock' = flock
       /\ \A q \in Procs \ {p} : pc'[q] = pc[q] /\ asleep'[q] = asleep[q]
       /\ asleep'[p] => flock
   BY <1>0, <1>2 DEF AllocTake, AllocTurn, Holding, TypeOK, SleepInv, OneHolder
 <2>5. OneHolder'  BY <1>0, <2>4, LockKept
 <2> QED  BY <2>1, <2>2, <2>3, <2>5 DEF IndInv
<1>3. ASSUME NEW p \in Procs, AllocLast(p) PROVE IndInv'
 <2>1. TypeOK'
   BY <1>0, <1>3, TopFacts, ShortLists DEF AllocLast, AllocTurn, Unlocked, TypeOK, PCs, BlkInv, Busy
 <2>2. BlkInv'
   BY <1>0, <1>3, TopFacts, ShortLists DEF AllocLast, AllocTurn, Unlocked, BlkInv, Busy, TypeOK
 <2>3. SleepInv'  BY <1>0, <1>3 DEF AllocLast, AllocTurn, Unlocked, SleepInv, TypeOK
 <2>4. /\ flock => Holding(p)
       /\ Holding(p)' /\ flock'
       /\ \A q \in Procs \ {p} : pc'[q] = pc[q]
   BY <1>0, <1>3 DEF AllocLast, AllocTurn, Unlocked, Holding, TypeOK, OneHolder
 <2>5. OneHolder'  BY <1>0, <2>4, LockTaken
 <2> QED  BY <2>1, <2>2, <2>3, <2>5 DEF IndInv
<1>4. ASSUME NEW p \in Procs, AllocRead(p) PROVE IndInv'
 <2>1. TypeOK'  BY <1>0, <1>4 DEF AllocRead, GroupOf, Unlock, TypeOK, PCs, BlkInv, Busy
 <2>2. BlkInv'  BY <1>0, <1>4 DEF AllocRead, GroupOf, Unlock, BlkInv, Busy, TypeOK
 <2>3. Holding(p) /\ ~Holding(p)' /\ Unlock /\ \A q \in Procs \ {p} : pc'[q] = pc[q]
   BY <1>0, <1>4 DEF AllocRead, Holding, TypeOK
 <2> QED  BY <1>0, <2>1, <2>2, <2>3, LockFreed DEF IndInv
<1>5. ASSUME NEW p \in Procs, AllocEnd(p) PROVE IndInv'
 <2>1. TypeOK'  BY <1>0, <1>5, ShortLists DEF AllocEnd, TypeOK, PCs, BlkInv, Busy
 <2>2. BlkInv'  BY <1>0, <1>5, ShortLists DEF AllocEnd, BlkInv, Busy, TypeOK
 <2>3. SleepInv'  BY <1>0, <1>5 DEF AllocEnd, SleepInv, TypeOK
 <2>4. /\ ~Holding(p) /\ ~Holding(p)' /\ flock' = flock
       /\ \A q \in Procs \ {p} : pc'[q] = pc[q] /\ asleep'[q] = asleep[q]
       /\ asleep'[p] => flock
   BY <1>0, <1>5 DEF AllocEnd, Holding, TypeOK, SleepInv, OneHolder
 <2>5. OneHolder'  BY <1>0, <2>4, LockKept
 <2> QED  BY <2>1, <2>2, <2>3, <2>5 DEF IndInv
<1>6. ASSUME NEW p \in Procs, AllocFull(p) PROVE IndInv'
 <2>1. TypeOK'  BY <1>0, <1>6, ShortLists DEF AllocFull, AllocTurn, TypeOK, PCs, BlkInv, Busy
 <2>2. BlkInv'  BY <1>0, <1>6, ShortLists DEF AllocFull, AllocTurn, BlkInv, Busy, TypeOK
 <2>3. SleepInv'  BY <1>0, <1>6 DEF AllocFull, AllocTurn, SleepInv, TypeOK
 <2>4. /\ ~Holding(p) /\ ~Holding(p)' /\ flock' = flock
       /\ \A q \in Procs \ {p} : pc'[q] = pc[q] /\ asleep'[q] = asleep[q]
       /\ asleep'[p] => flock
   BY <1>0, <1>6 DEF AllocFull, AllocTurn, Holding, TypeOK, SleepInv, OneHolder
 <2>5. OneHolder'  BY <1>0, <2>4, LockKept
 <2> QED  BY <2>1, <2>2, <2>3, <2>5 DEF IndInv
<1>7. ASSUME NEW p \in Procs, AllocBelow(p) PROVE IndInv'
  BY <1>0, <1>7 DEF AllocBelow, IndInv, TypeOK, BlkInv, SleepInv, OneHolder, Holding
<1>8. ASSUME NEW p \in Procs, NEW b \in Blocks, FreeWait(p, b) PROVE IndInv'
 <2>1. TypeOK'  BY <1>0, <1>8 DEF FreeWait, FreeTurn, SleepFlock, TypeOK, PCs, BlkInv, Busy
 <2>2. BlkInv'  BY <1>0, <1>8 DEF FreeWait, FreeTurn, SleepFlock, BlkInv, Busy, TypeOK
 <2>3. SleepInv'  BY <1>0, <1>8 DEF FreeWait, FreeTurn, SleepFlock, SleepInv, TypeOK
 <2>4. /\ ~Holding(p) /\ ~Holding(p)' /\ flock' = flock
       /\ \A q \in Procs \ {p} : pc'[q] = pc[q] /\ asleep'[q] = asleep[q]
       /\ asleep'[p] => flock
   BY <1>0, <1>8 DEF FreeWait, FreeTurn, SleepFlock, Holding, TypeOK, SleepInv, OneHolder
 <2>5. OneHolder'  BY <1>0, <2>4, LockKept
 <2> QED  BY <2>1, <2>2, <2>3, <2>5 DEF IndInv
<1>9. ASSUME NEW p \in Procs, NEW b \in Blocks, FreePush(p, b) PROVE IndInv'
 <2>1. TypeOK'  BY <1>0, <1>9, PushFacts DEF FreePush, FreeTurn, TypeOK, PCs, BlkInv, Busy
 <2>2. BlkInv'  BY <1>0, <1>9, PushFacts DEF FreePush, FreeTurn, BlkInv, Busy, TypeOK
 <2>3. SleepInv'  BY <1>0, <1>9 DEF FreePush, FreeTurn, SleepInv, TypeOK
 <2>4. /\ ~Holding(p) /\ ~Holding(p)' /\ flock' = flock
       /\ \A q \in Procs \ {p} : pc'[q] = pc[q] /\ asleep'[q] = asleep[q]
       /\ asleep'[p] => flock
   BY <1>0, <1>9 DEF FreePush, FreeTurn, Holding, TypeOK, SleepInv, OneHolder
 <2>5. OneHolder'  BY <1>0, <2>4, LockKept
 <2> QED  BY <2>1, <2>2, <2>3, <2>5 DEF IndInv
<1>10. ASSUME NEW p \in Procs, NEW b \in Blocks, FreeSpill(p, b) PROVE IndInv'
 <2>1. TypeOK'  BY <1>0, <1>10 DEF FreeSpill, FreeTurn, Unlocked, TypeOK, PCs, BlkInv, Busy
 <2>2. BlkInv'  BY <1>0, <1>10 DEF FreeSpill, FreeTurn, Unlocked, BlkInv, Busy, TypeOK
 <2>3. SleepInv'  BY <1>0, <1>10 DEF FreeSpill, FreeTurn, Unlocked, SleepInv, TypeOK
 <2>4. /\ flock => Holding(p)
       /\ Holding(p)' /\ flock'
       /\ \A q \in Procs \ {p} : pc'[q] = pc[q]
   BY <1>0, <1>10 DEF FreeSpill, FreeTurn, Unlocked, Holding, TypeOK, OneHolder
 <2>5. OneHolder'  BY <1>0, <2>4, LockTaken
 <2> QED  BY <2>1, <2>2, <2>3, <2>5 DEF IndInv
<1>11. ASSUME NEW p \in Procs, FreeWrite(p) PROVE IndInv'
 <2>1. TypeOK'  BY <1>0, <1>11, ShortLists DEF FreeWrite, TypeOK, PCs, BlkInv, Busy
 <2>2. BlkInv'  BY <1>0, <1>11, ShortLists DEF FreeWrite, BlkInv, Busy, TypeOK
 <2>3. SleepInv'  BY <1>0, <1>11 DEF FreeWrite, SleepInv, TypeOK
 <2>4. /\ flock => Holding(p)
       /\ Holding(p)' /\ flock'
       /\ \A q \in Procs \ {p} : pc'[q] = pc[q]
   BY <1>0, <1>11 DEF FreeWrite, Holding, TypeOK, OneHolder
 <2>5. OneHolder'  BY <1>0, <2>4, LockTaken
 <2> QED  BY <2>1, <2>2, <2>3, <2>5 DEF IndInv
<1>12. ASSUME NEW p \in Procs, FreeEnd(p) PROVE IndInv'
 <2>1. TypeOK'  BY <1>0, <1>12, ShortLists DEF FreeEnd, Unlock, TypeOK, PCs, BlkInv, Busy
 <2>2. BlkInv'  BY <1>0, <1>12, ShortLists DEF FreeEnd, Unlock, BlkInv, Busy, TypeOK
 <2>3. Holding(p) /\ ~Holding(p)' /\ Unlock /\ \A q \in Procs \ {p} : pc'[q] = pc[q]
   BY <1>0, <1>12 DEF FreeEnd, Holding, TypeOK
 <2> QED  BY <1>0, <2>1, <2>2, <2>3, LockFreed DEF IndInv
<1>13. ASSUME NEW p \in Procs, Update(p) PROVE IndInv'
 <2>1. TypeOK'  BY <1>0, <1>13 DEF Update, TypeOK, PCs, BlkInv, Busy
 <2>2. BlkInv'  BY <1>0, <1>13 DEF Update, BlkInv, Busy, TypeOK
 <2>3. SleepInv'  BY <1>0, <1>13 DEF Update, SleepInv, TypeOK
 <2>4. /\ ~Holding(p) /\ ~Holding(p)' /\ flock' = flock
       /\ \A q \in Procs \ {p} : pc'[q] = pc[q] /\ asleep'[q] = asleep[q]
       /\ asleep'[p] => flock
   BY <1>0, <1>13 DEF Update, Holding, TypeOK, SleepInv, OneHolder
 <2>5. OneHolder'  BY <1>0, <2>4, LockKept
 <2> QED  BY <2>1, <2>2, <2>3, <2>5 DEF IndInv
<1>14. ASSUME NEW p \in Procs, UpdateSkip(p) PROVE IndInv'
 <2>1. TypeOK'  BY <1>0, <1>14 DEF UpdateSkip, TypeOK, PCs, BlkInv, Busy
 <2>2. BlkInv'  BY <1>0, <1>14 DEF UpdateSkip, BlkInv, Busy, TypeOK
 <2>3. SleepInv'  BY <1>0, <1>14 DEF UpdateSkip, SleepInv, TypeOK
 <2>4. /\ ~Holding(p) /\ ~Holding(p)' /\ flock' = flock
       /\ \A q \in Procs \ {p} : pc'[q] = pc[q] /\ asleep'[q] = asleep[q]
       /\ asleep'[p] => flock
   BY <1>0, <1>14 DEF UpdateSkip, Holding, TypeOK, SleepInv, OneHolder
 <2>5. OneHolder'  BY <1>0, <2>4, LockKept
 <2> QED  BY <2>1, <2>2, <2>3, <2>5 DEF IndInv
<1>15. ASSUME NEW p \in Procs, UpdateWrite(p) PROVE IndInv'
 <2>1. TypeOK'  BY <1>0, <1>15 DEF UpdateWrite, TypeOK, PCs, BlkInv, Busy
 <2>2. BlkInv'  BY <1>0, <1>15 DEF UpdateWrite, BlkInv, Busy, TypeOK
 <2>3. SleepInv'  BY <1>0, <1>15 DEF UpdateWrite, SleepInv, TypeOK
 <2>4. /\ ~Holding(p) /\ ~Holding(p)' /\ flock' = flock
       /\ \A q \in Procs \ {p} : pc'[q] = pc[q] /\ asleep'[q] = asleep[q]
       /\ asleep'[p] => flock
   BY <1>0, <1>15 DEF UpdateWrite, Holding, TypeOK, SleepInv, OneHolder
 <2>5. OneHolder'  BY <1>0, <2>4, LockKept
 <2> QED  BY <2>1, <2>2, <2>3, <2>5 DEF IndInv
<1>16. ASSUME NEW p \in Procs, UpdateEnd(p) PROVE IndInv'
 <2>1. TypeOK'  BY <1>0, <1>16 DEF UpdateEnd, TypeOK, PCs, BlkInv, Busy
 <2>2. BlkInv'  BY <1>0, <1>16 DEF UpdateEnd, BlkInv, Busy, TypeOK
 <2>3. SleepInv'  BY <1>0, <1>16 DEF UpdateEnd, SleepInv, TypeOK
 <2>4. /\ ~Holding(p) /\ ~Holding(p)' /\ flock' = flock
       /\ \A q \in Procs \ {p} : pc'[q] = pc[q] /\ asleep'[q] = asleep[q]
       /\ asleep'[p] => flock
   BY <1>0, <1>16 DEF UpdateEnd, Holding, TypeOK, SleepInv, OneHolder
 <2>5. OneHolder'  BY <1>0, <2>4, LockKept
 <2> QED  BY <2>1, <2>2, <2>3, <2>5 DEF IndInv
<1>17. ASSUME Undefined PROVE IndInv'
  BY <1>0, <1>17 DEF Undefined, vars, IndInv, TypeOK, BlkInv, SleepInv, OneHolder, Holding
<1> QED  BY <1>1, <1>2, <1>3, <1>4, <1>5, <1>6, <1>7, <1>8, <1>9, <1>10, <1>11, <1>12, <1>13,
<1>14, <1>15, <1>16, <1>17 DEF Next, Alloc, Free, Sync

\* Every reachable state satisfies the inductive invariant.
THEOREM Invariance == Spec => []IndInv
<1>1. IndInv /\ UNCHANGED vars => IndInv'
  BY DEF vars, tableVars, diskVars, procVars, IndInv, TypeOK, BlkInv, SleepInv,
     OneHolder, Holding
<1>2. IndInv /\ [Next]_vars => IndInv'  BY <1>1, NextInd
<1> QED  BY <1>2, InitInd, PTL DEF Spec

\* The state is well typed; in particular s_nfree never exceeds the 100 entries of
\* s_free, whatever Alloc reads from a block.
THEOREM TypeCorrect == Spec => []TypeOK
<1>1. IndInv => TypeOK  BY DEF IndInv
<1> QED  BY <1>1, Invariance, PTL

\* s_flock has one holder, and while anybody sleeps for it: nobody waits for a lock
\* that will not be given back.
THEOREM LockHasHolder == Spec => []FlockHeld
<1>1. IndInv => FlockHeld  BY DEF IndInv, FlockHeld
<1> QED  BY <1>1, Invariance, PTL
-----------------------------------------------------------------------------
(* The chain of groups (BlocksAccounted, ImplementsFreeSet).  Chained is   *)
(* written for any groups g, so that what is known of it holds before and   *)
(* after a step.                                                           *)

ClosedIn(g, S) == \A c \in S : Entries(g[c]) \subseteq S
Reach(g, l) == {b \in Blocks : \A S \in SUBSET Blocks :
                                 Entries(l) \subseteq S /\ ClosedIn(g, S) => b \in S}

Groups == [Blocks -> Lists]
Distinct(l) == \A i, j \in 1..Len(l) : i # j => l[i] # l[j]
\* Only the block at the bottom of a list contains a group
Plain(g, l) == \A i \in 2..Len(l) : g[l[i]] = <<>>
\* No two lists of the chain have a block in common, and no block is reached from its own group
Tree(g, l) ==
    /\ \A b \in Reach(g, l) : /\ b \notin Reach(g, g[b])
                              /\ Entries(l) \cap Entries(g[b]) = {}
                              /\ Distinct(g[b]) /\ Plain(g, g[b])
    /\ \A b, c \in Reach(g, l) : b # c => Entries(g[b]) \cap Entries(g[c]) = {}
    /\ Distinct(l) /\ Plain(g, l)

LEMMA ListFacts ==
    ASSUME NEW l \in Lists
    PROVE  /\ Len(l) \in Nat /\ \A i \in 1..Len(l) : l[i] \in Blocks \cup {NoBlk}
           /\ Entries(l) \subseteq Blocks
           /\ \A b \in Blocks : b \in Entries(l) <=> \E i \in 1..Len(l) : l[i] = b
<1>1. l \in Seq(Blocks \cup {NoBlk}) /\ DOMAIN l = 1..Len(l)  BY DEF Lists
<1> QED  BY <1>1, CapFact DEF Entries

\* The entries of the list, the groups of what is reached, and nothing else
LEMMA ReachFacts ==
    ASSUME NEW g \in Groups, NEW l \in Lists
    PROVE  /\ Reach(g, l) \subseteq Blocks
           /\ Entries(l) \subseteq Reach(g, l)
           /\ ClosedIn(g, Reach(g, l))
           /\ \A S \in SUBSET Blocks : Entries(l) \subseteq S /\ ClosedIn(g, S) => Reach(g, l) \subseteq S
<1>1. Entries(l) \subseteq Reach(g, l)  BY ListFacts DEF Reach
<1>2. ASSUME NEW c \in Reach(g, l), NEW b \in Entries(g[c]) PROVE b \in Reach(g, l)
 <2>1. c \in Blocks /\ g[c] \in Lists  BY DEF Reach, Groups
 <2>2. b \in Blocks  BY <2>1, ListFacts
 <2> QED  BY <2>1, <2>2 DEF Reach, ClosedIn
<1> QED  BY <1>1, <1>2 DEF Reach, ClosedIn

LEMMA ReachInside ==
    ASSUME NEW g \in Groups, NEW l \in Lists, NEW b \in Reach(g, l)
    PROVE  /\ g[b] \in Lists /\ Reach(g, g[b]) \subseteq Reach(g, l)
           /\ Entries(g[b]) \subseteq Reach(g, l)
<1>1. b \in Blocks /\ g[b] \in Lists  BY DEF Reach, Groups
<1>2. Entries(g[b]) \subseteq Reach(g, l)  BY ReachFacts DEF ClosedIn
<1>3. Reach(g, l) \in SUBSET Blocks /\ ClosedIn(g, Reach(g, l))  BY ReachFacts
<1> QED  BY <1>1, <1>2, <1>3, ReachFacts

\* What is not reached does not matter
LEMMA ReachSame ==
    ASSUME NEW g \in Groups, NEW h \in Groups, NEW l \in Lists,
           \A c \in Reach(g, l) : h[c] = g[c]
    PROVE  Reach(h, l) = Reach(g, l)
<1>1. Reach(h, l) \subseteq Reach(g, l)
 <2>1. ClosedIn(h, Reach(g, l)) /\ Reach(g, l) \in SUBSET Blocks /\ Entries(l) \subseteq Reach(g, l)
   BY ReachFacts DEF ClosedIn
 <2> QED  BY <2>1, ReachFacts
<1>2. Reach(g, l) \subseteq Reach(h, l)
 <2>1. ClosedIn(h, Reach(h, l)) /\ Reach(h, l) \in SUBSET Blocks /\ Entries(l) \subseteq Reach(h, l)
   BY ReachFacts
 <2>2. ClosedIn(g, Reach(h, l))  BY <1>1, <2>1 DEF ClosedIn
 <2> QED  BY <2>1, <2>2, ReachFacts
<1> QED  BY <1>1, <1>2

LEMMA TreeSame ==
    ASSUME NEW g \in Groups, NEW h \in Groups, NEW l \in Lists, NoZero(l), Tree(g, l),
           \A c \in Blocks : NoZero(g[c]),
           \A c \in Reach(g, l) : h[c] = g[c]
    PROVE  Tree(h, l) /\ Reach(h, l) = Reach(g, l)
<1>1. Reach(h, l) = Reach(g, l)  BY ReachSame
<1>2. ASSUME NEW m \in Lists, NoZero(m), Entries(m) \subseteq Reach(g, l), Plain(g, m)
      PROVE  Plain(h, m)
 <2> SUFFICES ASSUME NEW i \in 2..Len(m) PROVE h[m[i]] = <<>>  BY DEF Plain
 <2>1. Len(m) \in Nat /\ i \in 1..Len(m) /\ m[i] # NoBlk /\ g[m[i]] = <<>>
   BY <1>2, ListFacts DEF NoZero, Plain
 <2>2. m[i] \in Entries(m)  BY <2>1, ListFacts
 <2> QED  BY <1>2, <2>1, <2>2
<1>3. Plain(h, l)  BY <1>2, ReachFacts DEF Tree
<1>4. ASSUME NEW b \in Reach(g, l)
      PROVE  /\ h[b] = g[b] /\ b \notin Reach(h, h[b])
             /\ Entries(l) \cap Entries(h[b]) = {}
             /\ Distinct(h[b]) /\ Plain(h, h[b])
 <2>1. h[b] = g[b] /\ g[b] \in Lists /\ b \in Blocks  BY ReachInside, ReachFacts
 <2>2. \A c \in Reach(g, g[b]) : h[c] = g[c]  BY ReachInside
 <2>3. Reach(h, g[b]) = Reach(g, g[b])  BY <2>1, <2>2, ReachSame
 <2>4. /\ b \notin Reach(g, g[b]) /\ Entries(l) \cap Entries(g[b]) = {}
       /\ Distinct(g[b]) /\ Plain(g, g[b])
   BY DEF Tree
 <2>5. Plain(h, g[b])  BY <1>2, <2>1, <2>4, ReachInside
 <2> QED  BY <2>1, <2>3, <2>4, <2>5
<1>5. \A b, c \in Reach(g, l) : b # c => Entries(h[b]) \cap Entries(h[c]) = {}  BY <1>4 DEF Tree
<1> QED  BY <1>1, <1>3, <1>4, <1>5 DEF Tree

LEMMA NothingReached ==
    ASSUME NEW g \in Groups, NEW l \in {<<>>, <<NoBlk>>}
    PROVE  l \in Lists /\ Entries(l) = {} /\ Reach(g, l) = {} /\ Tree(g, l)
<1>1. l \in Lists  BY ShortLists
<1>2. Len(l) \in {0, 1} /\ \A i \in 1..Len(l) : l[i] = NoBlk  OBVIOUS
<1>3. Entries(l) = {}  BY <1>1, <1>2, ListFacts, CapFact
<1>4. Reach(g, l) = {}  BY <1>1, <1>3, ReachFacts DEF ClosedIn
<1>5. Distinct(l) /\ Plain(g, l)  BY <1>2 DEF Distinct, Plain
<1> QED  BY <1>1, <1>3, <1>4, <1>5 DEF Tree

\* What pops, pushes, spills and reads of groups do to a chain.
LEMMA PopChain ==
    ASSUME NEW g \in Groups, NEW l \in Lists, NEW m \in Lists, NoZero(l), Tree(g, l),
           Len(l) > 1, Len(m) = Len(l) - 1, \A i \in 1..Len(m) : m[i] = l[i]
    PROVE  /\ l[Len(l)] \in Reach(g, l)
           /\ Reach(g, m) = Reach(g, l) \ {l[Len(l)]}
           /\ Tree(g, m)
<1>1. PICK n \in Nat : n = Len(m) /\ n + 1 = Len(l) /\ n >= 1  BY ListFacts
<1>2. PICK b : b = l[n + 1]  OBVIOUS
<1>3. b # NoBlk /\ g[b] = <<>>  BY <1>1, <1>2 DEF NoZero, Tree, Plain
<1>4. b \in Blocks /\ b \in Entries(l)  BY <1>1, <1>2, <1>3, ListFacts
<1>5. b \in Reach(g, l)  BY <1>4, ReachFacts
<1>6. b \notin Entries(m)
 <2>1. \A i \in 1..n : l[i] # b  BY <1>1, <1>2 DEF Tree, Distinct
 <2> QED  BY <1>1, <1>4, <2>1, ListFacts
<1>7. /\ Entries(m) \subseteq Entries(l)
      /\ Entries(l) \subseteq Entries(m) \cup {b}
 <2>1. \A c \in Blocks : c \in Entries(l) <=> \E i \in 1..(n + 1) : l[i] = c  BY <1>1, ListFacts
 <2>2. \A c \in Blocks : c \in Entries(m) <=> \E i \in 1..n : l[i] = c  BY <1>1, ListFacts
 <2>3. Entries(m) \subseteq Blocks /\ Entries(l) \subseteq Blocks  BY ListFacts
 <2> QED  BY <1>2, <2>1, <2>2, <2>3
<1>8. Reach(g, m) \subseteq Reach(g, l) \ {b}
 <2>1. Reach(g, l) \ {b} \in SUBSET Blocks  BY ReachFacts
 <2>2. Entries(m) \subseteq Reach(g, l) \ {b}  BY <1>6, <1>7, ReachFacts
 <2>3. ClosedIn(g, Reach(g, l) \ {b})
  <3>1. \A c \in Reach(g, l) : Entries(g[c]) \subseteq Reach(g, l) /\ b \notin Entries(g[c])
    BY <1>4, ReachFacts DEF ClosedIn, Tree
  <3> QED  BY <3>1 DEF ClosedIn
 <2> QED  BY <2>1, <2>2, <2>3, ReachFacts
<1>9. Reach(g, l) \subseteq Reach(g, m) \cup {b}
 <2>1. Reach(g, m) \cup {b} \in SUBSET Blocks  BY <1>4, ReachFacts
 <2>2. Entries(l) \subseteq Reach(g, m) \cup {b}  BY <1>7, ReachFacts
 <2>3. ClosedIn(g, Reach(g, m) \cup {b})  BY <1>3, ReachFacts, NothingReached DEF ClosedIn
 <2> QED  BY <2>1, <2>2, <2>3, ReachFacts
<1>10. Tree(g, m)
 <2>1. Distinct(m) /\ Plain(g, m)  BY <1>1 DEF Tree, Distinct, Plain
 <2> QED  BY <1>7, <1>8, <2>1 DEF Tree
<1> QED  BY <1>1, <1>2, <1>5, <1>8, <1>9, <1>10

LEMMA OneEntry ==
    ASSUME NEW b \in Blocks
    PROVE  <<b>> \in Lists /\ Entries(<<b>>) = {b} /\ Distinct(<<b>>)
           /\ \A g \in Groups : Plain(g, <<b>>)
<1>1. <<b>> \in Lists /\ Len(<<b>>) = 1 /\ <<b>>[1] = b  BY ShortLists
<1>2. Distinct(<<b>>) /\ \A g \in Groups : Plain(g, <<b>>)  BY <1>1 DEF Distinct, Plain
<1> QED  BY <1>1, <1>2, ListFacts

\* The block that has the rest of the chain
LEMMA LastChain ==
    ASSUME NEW g \in Groups, NEW b \in Blocks
    PROVE  /\ Reach(g, <<b>>) = Reach(g, g[b]) \cup {b}
           /\ Tree(g, <<b>>) <=> Tree(g, g[b]) /\ b \notin Reach(g, g[b])
<1>1. <<b>> \in Lists /\ g[b] \in Lists /\ Entries(<<b>>) = {b}  BY OneEntry DEF Groups
<1>2. b \in Reach(g, <<b>>)  BY <1>1, ReachFacts
<1>3. Reach(g, g[b]) \subseteq Reach(g, <<b>>)  BY <1>1, <1>2, ReachInside
<1>4. Reach(g, <<b>>) \subseteq Reach(g, g[b]) \cup {b}
 <2>1. ClosedIn(g, Reach(g, g[b]) \cup {b})  BY <1>1, ReachFacts DEF ClosedIn
 <2>2. Reach(g, g[b]) \cup {b} \in SUBSET Blocks  BY <1>1, ReachFacts
 <2> QED  BY <1>1, <2>1, <2>2, ReachFacts
<1>5. Reach(g, <<b>>) = Reach(g, g[b]) \cup {b}  BY <1>2, <1>3, <1>4
<1>6. ASSUME Tree(g, <<b>>) PROVE Tree(g, g[b]) /\ b \notin Reach(g, g[b])
 <2>1. b \notin Reach(g, g[b]) /\ Distinct(g[b]) /\ Plain(g, g[b])  BY <1>2, <1>6 DEF Tree
 <2>2. \A c \in Reach(g, g[b]) : c # b /\ c \in Reach(g, <<b>>)  BY <1>3, <2>1
 <2>3. \A c \in Reach(g, g[b]) : Entries(g[b]) \cap Entries(g[c]) = {}  BY <1>2, <1>6, <2>2 DEF Tree
 <2> QED  BY <1>6, <2>1, <2>2, <2>3 DEF Tree
<1>7. ASSUME Tree(g, g[b]), b \notin Reach(g, g[b]) PROVE Tree(g, <<b>>)
 <2>1. Entries(g[b]) \subseteq Reach(g, g[b])  BY <1>1, ReachFacts
 <2>2. \A c \in Reach(g, g[b]) : Entries(g[c]) \subseteq Reach(g, g[b])
   BY <1>1, ReachFacts DEF ClosedIn
 <2>3. Distinct(<<b>>) /\ Plain(g, <<b>>)  BY OneEntry
 <2>4. ASSUME NEW c \in Reach(g, <<b>>)
       PROVE  /\ c \notin Reach(g, g[c])
              /\ Entries(<<b>>) \cap Entries(g[c]) = {}
              /\ Distinct(g[c]) /\ Plain(g, g[c])
  <3>1. CASE c = b  BY <1>1, <1>7, <2>1, <3>1 DEF Tree
  <3>2. CASE c \in Reach(g, g[b])  BY <1>1, <1>7, <2>2, <3>2 DEF Tree
  <3> QED  BY <1>4, <3>1, <3>2
 <2>5. ASSUME NEW c \in Reach(g, <<b>>), NEW d \in Reach(g, <<b>>), c # d
       PROVE  Entries(g[c]) \cap Entries(g[d]) = {}
  <3>1. CASE c = b \/ d = b  BY <1>4, <1>7, <2>5, <3>1 DEF Tree
  <3>2. CASE c # b /\ d # b  BY <1>4, <1>7, <2>5, <3>2 DEF Tree
  <3> QED  BY <3>1, <3>2
 <2> QED  BY <2>3, <2>4, <2>5 DEF Tree
<1> QED  BY <1>5, <1>6, <1>7

LEMMA PushChain ==
    ASSUME NEW g \in Groups, NEW l \in Lists, NEW m \in Lists, NEW b \in Blocks,
           Tree(g, l), b \notin Reach(g, l), g[b] = <<>>,
           Len(m) = Len(l) + 1, m[Len(m)] = b, \A i \in 1..Len(l) : m[i] = l[i]
    PROVE  Reach(g, m) = Reach(g, l) \cup {b} /\ Tree(g, m)
<1>1. PICK n \in Nat : n = Len(l) /\ n + 1 = Len(m)  BY ListFacts
<1>2. Entries(m) = Entries(l) \cup {b}
 <2>1. \A c \in Blocks : c \in Entries(m) <=> \E i \in 1..(n + 1) : m[i] = c  BY <1>1, ListFacts
 <2>2. \A c \in Blocks : c \in Entries(l) <=> \E i \in 1..n : m[i] = c  BY <1>1, ListFacts
 <2>3. Entries(m) \subseteq Blocks /\ Entries(l) \subseteq Blocks  BY ListFacts
 <2>4. \A c \in Blocks : c \in Entries(m) <=> c \in Entries(l) \/ c = b  BY <1>1, <2>1, <2>2
 <2> QED  BY <2>3, <2>4
<1>3. Entries(g[b]) = {} /\ Reach(g, g[b]) = {}  BY NothingReached
<1>4. Reach(g, m) \subseteq Reach(g, l) \cup {b}
 <2>1. ClosedIn(g, Reach(g, l) \cup {b}) /\ Reach(g, l) \cup {b} \in SUBSET Blocks
   BY <1>3, ReachFacts DEF ClosedIn
 <2>2. Entries(m) \subseteq Reach(g, l) \cup {b}  BY <1>2, ReachFacts
 <2> QED  BY <2>1, <2>2, ReachFacts
<1>5. Reach(g, l) \cup {b} \subseteq Reach(g, m)
 <2>1. Entries(m) \subseteq Reach(g, m) /\ Reach(g, m) \in SUBSET Blocks /\ ClosedIn(g, Reach(g, m))
   BY ReachFacts
 <2>2. Entries(l) \subseteq Reach(g, m) /\ b \in Reach(g, m)  BY <1>2, <2>1
 <2> QED  BY <2>1, <2>2, ReachFacts
<1>6. Entries(l) \subseteq Reach(g, l) /\ \A c \in Reach(g, l) : Entries(g[c]) \subseteq Reach(g, l)
  BY ReachFacts DEF ClosedIn
<1>7. Distinct(m)
 <2> SUFFICES ASSUME NEW i \in 1..(n + 1), NEW j \in 1..(n + 1), i < j PROVE m[i] # m[j]
   BY <1>1 DEF Distinct
 <2>1. i \in 1..n /\ m[i] = l[i] /\ (j \in 1..n \/ j = n + 1)  BY <1>1
 <2>2. CASE j \in 1..n  BY <1>1, <2>1, <2>2 DEF Tree, Distinct
 <2>3. CASE j = n + 1
  <3>1. m[i] # b  BY <1>1, <1>6, <2>1, ListFacts
  <3> QED  BY <1>1, <2>3, <3>1
 <2> QED  BY <2>1, <2>2, <2>3
<1>8. Plain(g, m)
 <2> SUFFICES ASSUME NEW i \in 2..(n + 1) PROVE g[m[i]] = <<>>  BY <1>1 DEF Plain
 <2>1. CASE i = n + 1  BY <1>1, <2>1
 <2>2. CASE i \in 2..n  BY <1>1, <2>2 DEF Tree, Plain
 <2> QED  BY <1>1, <2>1, <2>2
<1>9. ASSUME NEW c \in Reach(g, m)
      PROVE  /\ c \notin Reach(g, g[c])
             /\ Entries(m) \cap Entries(g[c]) = {}
             /\ Distinct(g[c]) /\ Plain(g, g[c])
 <2>1. CASE c = b  BY <1>3, <2>1, NothingReached DEF Tree
 <2>2. CASE c \in Reach(g, l)  BY <1>2, <1>6, <2>2 DEF Tree
 <2> QED  BY <1>4, <2>1, <2>2
<1>10. ASSUME NEW c \in Reach(g, m), NEW d \in Reach(g, m), c # d
       PROVE  Entries(g[c]) \cap Entries(g[d]) = {}
  BY <1>3, <1>4, <1>10 DEF Tree
<1> QED  BY <1>4, <1>5, <1>7, <1>8, <1>9, <1>10 DEF Tree
-----------------------------------------------------------------------------
(* The chain in the state, whose root is in the superblock or, while a     *)
(* group is written or read, in the block of the process that does it.     *)

Hand == {"allocread", "freewrite"}
RootIs(l) == \/ \E p \in Procs : pc[p] \in Hand /\ l = group[blk[p]]
             \/ (\A p \in Procs : pc[p] \notin Hand) /\ l = sfree
HandInv == \A p \in Procs : pc[p] \in Hand => sfree = <<>>

\* What may be pushed contains no group: Alloc has cleared it
BlankInv ==
    /\ \A b \in used : group[b] = <<>>
    /\ \A p \in Procs : pc[p] \in {"freewait", "freebuf"} => group[blk[p]] = <<>>

TreeInv == \E l \in Lists : RootIs(l) /\ Tree(group, l)

\* Every block is in one place
Parts ==
    /\ \A b \in Blocks : b \in Avail \/ b \in used \/ \E p \in Procs : b \in HeldBy(p)
    /\ Avail \cap used = {}
    /\ \A p \in Procs : HeldBy(p) \cap (Avail \cup used) = {}
    /\ \A p, q \in Procs : p # q => HeldBy(p) \cap HeldBy(q) = {}

ChainInv == HandInv /\ BlankInv /\ TreeInv /\ Parts

Known == IndInv /\ HandInv
FromRoot == \A l \in Lists : RootIs(l) => Avail = Reach(group, l) /\ NoZero(l)

LEMMA AvailFromRoot == Known => FromRoot
<1> SUFFICES ASSUME Known, NEW l \in Lists, RootIs(l) PROVE Avail = Reach(group, l) /\ NoZero(l)
  BY DEF FromRoot
<1>1. TypeOK /\ BlkInv /\ OneHolder /\ HandInv /\ group \in Groups
  BY DEF Known, IndInv, TypeOK, Groups
<1>2. \A m : Chained(m) = Reach(group, m)  BY DEF Chained, Reach, Closed, ClosedIn
<1>3. CASE \E p \in Procs : pc[p] \in Hand
 <2>1. PICK p \in Procs : pc[p] \in Hand /\ l = group[blk[p]]  BY <1>3 DEF RootIs
 <2>2. \A q \in Procs : pc[q] \in Hand => q = p  BY <1>1, <2>1 DEF OneHolder, Holding, Hand
 <2>3. sfree = <<>> /\ blk[p] \in Blocks  BY <1>1, <2>1 DEF HandInv, BlkInv, Busy, Hand
 <2>4. UNION {InHand(q) : q \in Procs} = Reach(group, l)
  <3>1. InHand(p) = Reach(group, l)  BY <1>2, <2>1 DEF InHand, Hand
  <3>2. \A q \in Procs : q # p => InHand(q) = {}  BY <2>2 DEF InHand, Hand
  <3> QED  BY <3>1, <3>2
 <2>5. Chained(sfree) = {}  BY <1>1, <1>2, <2>3, NothingReached
 <2> QED  BY <1>1, <2>1, <2>3, <2>4, <2>5 DEF Avail, BlkInv
<1>4. CASE \A p \in Procs : pc[p] \notin Hand
 <2>1. l = sfree  BY <1>4 DEF RootIs
 <2>2. \A q \in Procs : InHand(q) = {}  BY <1>4 DEF InHand, Hand
 <2> QED  BY <1>1, <1>2, <2>1, <2>2 DEF Avail, BlkInv
<1> QED  BY <1>3, <1>4

LEMMA AvailAfter == Known' => FromRoot'
  BY AvailFromRoot, PTL

LEMMA RootOf ==
    ASSUME Known, TreeInv
    PROVE  /\ \E l \in Lists : /\ RootIs(l) /\ Tree(group, l) /\ NoZero(l)
                               /\ Avail = Reach(group, l)
           /\ \A p \in Procs : pc[p] \in Hand =>
                 Tree(group, group[blk[p]]) /\ Avail = Reach(group, group[blk[p]])
           /\ (\A p \in Procs : pc[p] \notin Hand) => Tree(group, sfree) /\ Avail = Reach(group, sfree)
           /\ group \in Groups /\ \A c \in Blocks : NoZero(group[c])
           /\ sfree \in Lists /\ NoZero(sfree)
<1>1. group \in Groups /\ (\A c \in Blocks : NoZero(group[c])) /\ sfree \in Lists /\ NoZero(sfree)
  BY DEF Known, IndInv, TypeOK, BlkInv, Groups
<1>2. PICK l \in Lists : RootIs(l) /\ Tree(group, l)  BY DEF TreeInv
<1>3. Avail = Reach(group, l) /\ NoZero(l)  BY <1>2, AvailFromRoot DEF FromRoot
<1>4. ASSUME NEW p \in Procs, pc[p] \in Hand PROVE l = group[blk[p]]
 <2>1. PICK q \in Procs : pc[q] \in Hand /\ l = group[blk[q]]  BY <1>2, <1>4 DEF RootIs
 <2>2. q = p  BY <1>4, <2>1 DEF Known, IndInv, OneHolder, Holding, Hand
 <2> QED  BY <2>1, <2>2
<1>5. (\A p \in Procs : pc[p] \notin Hand) => l = sfree  BY <1>2 DEF RootIs
<1> QED  BY <1>1, <1>2, <1>3, <1>4, <1>5

LEMMA RootAfter ==
    ASSUME Known', NEW m \in Lists, RootIs(m)', Tree(group', m)
    PROVE  TreeInv' /\ Avail' = Reach(group', m)
  BY AvailAfter DEF FromRoot, TreeInv

\* Where the chain is does not change
LEMMA QuietChain ==
    ASSUME Known, Known', TreeInv, sfree' = sfree, group' = group,
           \A q \in Procs : /\ pc'[q] \in Hand <=> pc[q] \in Hand
                            /\ pc[q] \in Hand => blk'[q] = blk[q]
    PROVE  TreeInv' /\ Avail' = Avail
<1>1. PICK l \in Lists : RootIs(l) /\ Tree(group, l) /\ Avail = Reach(group, l)  BY RootOf
<1>2. RootIs(l)' /\ Tree(group', l)  BY <1>1 DEF RootIs
<1> QED  BY <1>1, <1>2, RootAfter

LEMMA NobodyHas ==
    ASSUME Known, ~flock
    PROVE  \A q \in Procs : pc[q] \notin Hand
  BY DEF Known, IndInv, OneHolder, Holding, Hand

\* Of other processes nothing changes
Alone(p) == \A q \in Procs \ {p} : pc'[q] = pc[q] /\ blk'[q] = blk[q]

LEMMA HeldFacts ==
    ASSUME NEW p \in Procs, Alone(p)
    PROVE  \A q \in Procs \ {p} : HeldBy(q)' = HeldBy(q)
  BY DEF Alone, HeldBy

LEMMA PartsMove ==
    ASSUME Parts, NEW p \in Procs, Alone(p),
           Avail' \cup used' \cup HeldBy(p)' = Avail \cup used \cup HeldBy(p),
           Avail' \cap used' = {}, HeldBy(p)' \cap (Avail' \cup used') = {}
    PROVE  Parts'
<1>1. \A q \in Procs \ {p} : HeldBy(q)' = HeldBy(q)  BY HeldFacts
<1>2. \A q \in Procs \ {p} : HeldBy(q) \cap (Avail \cup used \cup HeldBy(p)) = {}  BY DEF Parts
<1>3. ASSUME NEW b \in Blocks PROVE b \in Avail' \/ b \in used' \/ \E q \in Procs : b \in HeldBy(q)'
 <2>1. b \in Avail \/ b \in used \/ \E q \in Procs : b \in HeldBy(q)  BY DEF Parts
 <2>2. CASE b \in Avail \cup used \cup HeldBy(p)  BY <2>2
 <2>3. CASE \E q \in Procs \ {p} : b \in HeldBy(q)  BY <1>1, <2>3
 <2> QED  BY <2>1, <2>2, <2>3
<1>4. ASSUME NEW q \in Procs PROVE HeldBy(q)' \cap (Avail' \cup used') = {}  BY <1>1, <1>2
<1>5. ASSUME NEW q \in Procs, NEW r \in Procs, q # r PROVE HeldBy(q)' \cap HeldBy(r)' = {}
 <2>1. CASE q # p /\ r # p  BY <1>1, <1>5, <2>1 DEF Parts
 <2>2. CASE q = p  BY <1>1, <1>2, <1>5, <2>2
 <2>3. CASE r = p  BY <1>1, <1>2, <1>5, <2>3
 <2> QED  BY <2>1, <2>2, <2>3
<1> QED  BY <1>3, <1>4, <1>5 DEF Parts

\* Steps that change neither the superblock nor a group
LEMMA QuietStep ==
    ASSUME IndInv, IndInv', ChainInv, NEW p \in Procs, Alone(p),
           sfree' = sfree, group' = group, pc[p] \notin Hand, pc'[p] \notin Hand,
           used' \cup HeldBy(p)' = used \cup HeldBy(p), HeldBy(p)' \cap used' = {},
           used' \subseteq used,
           pc'[p] \in {"freewait", "freebuf"} => group[blk'[p]] = <<>>
    PROVE  ChainInv' /\ Avail' = Avail
<1>1. \A q \in Procs : /\ pc'[q] \in Hand <=> pc[q] \in Hand
                       /\ pc[q] \in Hand => blk'[q] = blk[q]
  BY DEF Alone
<1>2. HandInv'  BY <1>1 DEF ChainInv, HandInv
<1>3. TreeInv' /\ Avail' = Avail  BY <1>1, <1>2, QuietChain DEF ChainInv, Known
<1>4. BlankInv'  BY DEF ChainInv, BlankInv, Alone
<1>5. Parts'
 <2>1. HeldBy(p) \cap (Avail \cup used) = {} /\ Avail \cap used = {}  BY DEF ChainInv, Parts
 <2>2. Avail' \cup used' \cup HeldBy(p)' = Avail \cup used \cup HeldBy(p)  BY <1>3
 <2>3. Avail' \cap used' = {} /\ HeldBy(p)' \cap (Avail' \cup used') = {}  BY <1>3, <2>1
 <2> QED  BY <2>2, <2>3, PartsMove DEF ChainInv
<1> QED  BY <1>2, <1>3, <1>4, <1>5 DEF ChainInv

LEMMA Goes ==
    ASSUME IndInv, NEW p \in Procs, NEW l, NEW b, Goto(p, l, b)
    PROVE  Alone(p) /\ pc'[p] = l /\ blk'[p] = b
  BY DEF Goto, IndInv, TypeOK, Alone

LEMMA AllocWaitChain ==
    ASSUME IndInv, IndInv', ChainInv, NEW p \in Procs, AllocWait(p)
    PROVE  ChainInv' /\ Avail' = Avail
<1>1. /\ pc[p] \in {"idle", "allocwait"} /\ Goto(p, "allocwait", NoBlk)
      /\ sfree' = sfree /\ group' = group /\ used' = used
  BY DEF AllocWait, AllocTurn, SleepFlock, tableVars
<1>2. Alone(p) /\ pc'[p] = "allocwait"  BY <1>1, Goes
<1>3. HeldBy(p) = {} /\ HeldBy(p)' = {} /\ pc[p] \notin Hand /\ pc'[p] \notin Hand
  BY <1>1, <1>2 DEF HeldBy, Hand
<1> QED  BY <1>1, <1>2, <1>3, QuietStep

LEMMA AllocBelowChain ==
    ASSUME IndInv, IndInv', ChainInv, NEW p \in Procs, AllocBelow(p)
    PROVE  ChainInv' /\ Avail' = Avail
<1>1. /\ pc[p] \in {"idle", "allocwait"}
      /\ sfree' = sfree /\ group' = group /\ used' = used /\ pc' = pc /\ blk' = blk
  BY DEF AllocBelow, AllocTurn, tableVars, procVars
<1>2. HeldBy(p) = {} /\ HeldBy(p)' = {} /\ pc[p] \notin Hand /\ pc'[p] \notin Hand /\ Alone(p)
  BY <1>1 DEF HeldBy, Hand, Alone
<1> QED  BY <1>1, <1>2, QuietStep

LEMMA UpdateChain ==
    ASSUME IndInv, IndInv', ChainInv, NEW p \in Procs,
           Update(p) \/ UpdateSkip(p) \/ UpdateWrite(p) \/ UpdateEnd(p)
    PROVE  ChainInv' /\ Avail' = Avail
<1>1. PICK l \in {"updbuf", "upd", "idle"} : Goto(p, l, NoBlk)
  BY DEF Update, UpdateSkip, UpdateWrite, UpdateEnd
<1>2. /\ pc[p] \in {"idle", "updbuf", "upd"}
      /\ sfree' = sfree /\ group' = group /\ used' = used
  BY DEF Update, UpdateSkip, UpdateWrite, UpdateEnd, tableVars
<1>3. Alone(p) /\ pc'[p] = l  BY <1>1, Goes
<1>4. HeldBy(p) = {} /\ HeldBy(p)' = {} /\ pc[p] \notin Hand /\ pc'[p] \notin Hand
  BY <1>2, <1>3 DEF HeldBy, Hand
<1> QED  BY <1>2, <1>3, <1>4, QuietStep

\* The block that is freed
LEMMA FreeTurnFacts ==
    ASSUME IndInv, ChainInv, NEW p \in Procs, NEW b \in Blocks, FreeTurn(p, b)
    PROVE  /\ pc[p] \notin Hand /\ group[b] = <<>> /\ b \notin Avail
           /\ HeldBy(p) \subseteq {b} /\ used \cup HeldBy(p) = (used \ {b}) \cup {b}
           /\ pc[p] = "idle" => b \in used
           /\ pc[p] # "idle" => b = blk[p] /\ pc[p] = "freewait" /\ b \notin used
<1>1. CASE pc[p] = "idle" /\ b \in used  BY <1>1 DEF HeldBy, Hand, ChainInv, BlankInv, Parts
<1>2. CASE pc[p] = "freewait" /\ b = blk[p]
 <2>1. HeldBy(p) = {b}  BY <1>2 DEF HeldBy
 <2> QED  BY <1>2, <2>1 DEF Hand, ChainInv, BlankInv, Parts
<1> QED  BY <1>1, <1>2 DEF FreeTurn

LEMMA FreeWaitChain ==
    ASSUME IndInv, IndInv', ChainInv, NEW p \in Procs, NEW b \in Blocks, FreeWait(p, b)
    PROVE  ChainInv' /\ Avail' = Avail
<1>1. /\ FreeTurn(p, b) /\ Goto(p, "freewait", b)
      /\ sfree' = sfree /\ group' = group /\ used' = used \ {b}
  BY DEF FreeWait, SleepFlock
<1>2. Alone(p) /\ pc'[p] = "freewait" /\ blk'[p] = b  BY <1>1, Goes
<1>3. HeldBy(p)' = {b} /\ pc'[p] \notin Hand  BY <1>2 DEF HeldBy, Hand
<1>4. /\ pc[p] \notin Hand /\ group[b] = <<>>
      /\ used \cup HeldBy(p) = (used \ {b}) \cup {b}
  BY <1>1, FreeTurnFacts
<1> QED  BY <1>1, <1>2, <1>3, <1>4, QuietStep

LEMMA FreeSpillChain ==
    ASSUME IndInv, IndInv', ChainInv, NEW p \in Procs, NEW b \in Blocks, FreeSpill(p, b)
    PROVE  ChainInv' /\ Avail' = Avail
<1>1. /\ FreeTurn(p, b) /\ Goto(p, "freebuf", b)
      /\ sfree' = sfree /\ group' = group /\ used' = used \ {b}
  BY DEF FreeSpill
<1>2. Alone(p) /\ pc'[p] = "freebuf" /\ blk'[p] = b  BY <1>1, Goes
<1>3. HeldBy(p)' = {b} /\ pc'[p] \notin Hand  BY <1>2 DEF HeldBy, Hand
<1>4. /\ pc[p] \notin Hand /\ group[b] = <<>>
      /\ used \cup HeldBy(p) = (used \ {b}) \cup {b}
  BY <1>1, FreeTurnFacts
<1> QED  BY <1>1, <1>2, <1>3, <1>4, QuietStep

\* p takes the top of the stack
LEMMA AllocTakeChain ==
    ASSUME IndInv, IndInv', ChainInv, NEW p \in Procs, AllocTake(p)
    PROVE  ChainInv' /\ Top \in Avail /\ Avail' = Avail \ {Top}
<1>1. /\ pc[p] \in {"idle", "allocwait"} /\ Goto(p, "allocgot", Top) /\ ~flock /\ Len(sfree) > 1
      /\ sfree' = Popped /\ group' = group /\ used' = used
  BY DEF AllocTake, AllocTurn, Unlocked
<1>2. Alone(p) /\ pc'[p] = "allocgot" /\ blk'[p] = Top  BY <1>1, Goes
<1>3. /\ \A q \in Procs : pc[q] \notin Hand
      /\ Known /\ TreeInv
  BY <1>1, NobodyHas DEF Known, ChainInv
<1>4. /\ Tree(group, sfree) /\ Avail = Reach(group, sfree)
      /\ group \in Groups /\ sfree \in Lists /\ NoZero(sfree)
  BY <1>3, RootOf
<1>5. /\ Popped \in Lists /\ Len(Popped) = Len(sfree) - 1
      /\ \A i \in 1..Len(Popped) : Popped[i] = sfree[i]
 <2>1. TypeOK /\ BlkInv /\ Len(sfree) >= 1  BY <1>1, <1>4, ListFacts DEF IndInv
 <2> QED  BY <2>1, TopFacts
<1>6. /\ Top \in Avail /\ Reach(group, Popped) = Avail \ {Top} /\ Tree(group, Popped)
  BY <1>1, <1>4, <1>5, PopChain DEF Top
<1>7. \A q \in Procs : pc'[q] \notin Hand  BY <1>2, <1>3 DEF Alone, Hand
<1>8. HandInv' /\ Known'  BY <1>7 DEF HandInv, Known
<1>9. TreeInv' /\ Avail' = Avail \ {Top}
 <2>1. PICK m \in Lists : m = Popped  BY <1>5
 <2>2. RootIs(m)' /\ Tree(group', m)  BY <1>1, <1>6, <1>7, <2>1 DEF RootIs
 <2>3. TreeInv' /\ Avail' = Reach(group', m)  BY <1>8, <2>2, RootAfter
 <2> QED  BY <1>1, <1>6, <2>1, <2>3
<1>10. BlankInv'  BY <1>1, <1>2 DEF ChainInv, BlankInv, Alone
<1>11. Parts'
 <2>1. HeldBy(p) = {} /\ HeldBy(p)' = {Top}  BY <1>1, <1>2 DEF HeldBy
 <2>2. Avail \cap used = {}  BY DEF ChainInv, Parts
 <2> QED  BY <1>1, <1>2, <1>6, <1>9, <2>1, <2>2, PartsMove DEF ChainInv
<1> QED  BY <1>6, <1>8, <1>9, <1>10, <1>11 DEF ChainInv

\* What a process holds is nobody else's
LEMMA HeldApart ==
    ASSUME ChainInv, NEW p \in Procs, NEW b, HeldBy(p) = {b}
    PROVE  /\ b \notin Avail /\ b \notin used /\ Avail \cap used = {}
           /\ \A q \in Procs \ {p} : pc[q] \in Busy => blk[q] # b
<1>1. ASSUME NEW q \in Procs \ {p}, pc[q] \in Busy PROVE blk[q] # b
 <2>1. HeldBy(q) = {blk[q]}  BY <1>1 DEF HeldBy, Busy
 <2> QED  BY <2>1 DEF ChainInv, Parts
<1> QED  BY <1>1 DEF ChainInv, Parts

LEMMA OneHand ==
    ASSUME IndInv, NEW p \in Procs, Holding(p)
    PROVE  \A q \in Procs \ {p} : pc[q] \notin Hand
  BY DEF IndInv, OneHolder, Holding, Hand

\* p takes the block that has the next group
LEMMA AllocLastChain ==
    ASSUME IndInv, IndInv', ChainInv, NEW p \in Procs, AllocLast(p)
    PROVE  ChainInv' /\ Top \in Avail /\ Avail' = Avail \ {Top}
<1>1. /\ pc[p] \in {"idle", "allocwait"} /\ Goto(p, "allocread", Top) /\ ~flock
      /\ Len(sfree) = 1 /\ Top # NoBlk
      /\ sfree' = <<>> /\ group' = group /\ used' = used
  BY DEF AllocLast, AllocTurn, Unlocked
<1>2. Alone(p) /\ pc'[p] = "allocread" /\ blk'[p] = Top  BY <1>1, Goes
<1>3. (\A q \in Procs : pc[q] \notin Hand) /\ Known /\ TreeInv
  BY <1>1, NobodyHas DEF Known, ChainInv
<1>4. /\ Tree(group, sfree) /\ Avail = Reach(group, sfree)
      /\ group \in Groups /\ sfree \in Lists
  BY <1>3, RootOf
<1>5. PICK b \in Blocks : b = Top  BY <1>1, <1>4, ListFacts DEF Top
<1>6. sfree = <<b>>  BY <1>1, <1>4, <1>5 DEF Top, Lists
<1>7. /\ Avail = Reach(group, group[b]) \cup {b} /\ b \notin Reach(group, group[b])
      /\ Tree(group, group[b])
  BY <1>4, <1>6, LastChain
<1>8. \A q \in Procs \ {p} : pc'[q] \notin Hand  BY <1>2, <1>3 DEF Alone
<1>9. HandInv' /\ Known'  BY <1>1, <1>8 DEF HandInv, Known
<1>10. TreeInv' /\ Avail' = Avail \ {b}
 <2>1. PICK m \in Lists : m = group[b]  BY <1>4 DEF Groups
 <2>2. RootIs(m)' /\ Tree(group', m)  BY <1>1, <1>2, <1>5, <1>7, <2>1 DEF RootIs, Hand
 <2>3. TreeInv' /\ Avail' = Reach(group', m)  BY <1>9, <2>2, RootAfter
 <2> QED  BY <1>1, <1>7, <2>1, <2>3
<1>11. BlankInv'  BY <1>1, <1>2 DEF ChainInv, BlankInv, Alone
<1>12. Parts'
 <2>1. HeldBy(p) = {} /\ HeldBy(p)' = {b}  BY <1>1, <1>2, <1>5 DEF HeldBy
 <2>2. Avail \cap used = {} /\ b \in Avail  BY <1>7 DEF ChainInv, Parts
 <2> QED  BY <1>1, <1>2, <1>10, <2>1, <2>2, PartsMove DEF ChainInv
<1> QED  BY <1>5, <1>7, <1>9, <1>10, <1>11, <1>12 DEF ChainInv

\* The group becomes the stack
LEMMA AllocReadChain ==
    ASSUME IndInv, IndInv', ChainInv, NEW p \in Procs, AllocRead(p)
    PROVE  ChainInv' /\ Avail' = Avail
<1>1. /\ pc[p] = "allocread" /\ Goto(p, "allocgot", blk[p])
      /\ sfree' = group[blk[p]] /\ group' = group /\ used' = used
  BY DEF AllocRead, GroupOf
<1>2. Alone(p) /\ pc'[p] = "allocgot" /\ blk'[p] = blk[p]  BY <1>1, Goes
<1>3. Known /\ TreeInv /\ pc[p] \in Hand /\ Holding(p)  BY <1>1 DEF Known, ChainInv, Hand, Holding
<1>4. Tree(group, group[blk[p]]) /\ Avail = Reach(group, group[blk[p]])  BY <1>3, RootOf
<1>5. \A q \in Procs : pc'[q] \notin Hand  BY <1>2, <1>3, OneHand DEF Alone, Hand
<1>6. HandInv' /\ Known'  BY <1>5 DEF HandInv, Known
<1>7. TreeInv' /\ Avail' = Avail
 <2>1. blk[p] \in Blocks /\ group \in Groups  BY <1>1 DEF IndInv, TypeOK, BlkInv, Busy, Groups
 <2>2. PICK m \in Lists : m = group[blk[p]]  BY <2>1 DEF Groups
 <2>3. RootIs(m)' /\ Tree(group', m)  BY <1>1, <1>4, <1>5, <2>2 DEF RootIs
 <2>4. TreeInv' /\ Avail' = Reach(group', m)  BY <1>6, <2>3, RootAfter
 <2> QED  BY <1>1, <1>4, <2>2, <2>4
<1>8. BlankInv'  BY <1>1, <1>2 DEF ChainInv, BlankInv, Alone
<1>9. Parts'
 <2>1. HeldBy(p) = {blk[p]} /\ HeldBy(p)' = {blk[p]}  BY <1>1, <1>2 DEF HeldBy
 <2>2. Avail \cap used = {} /\ HeldBy(p) \cap (Avail \cup used) = {}  BY DEF ChainInv, Parts
 <2> QED  BY <1>1, <1>2, <1>7, <2>1, <2>2, PartsMove DEF ChainInv
<1> QED  BY <1>6, <1>7, <1>8, <1>9 DEF ChainInv

\* A block that is out of the chain gets other contents
LEMMA GroupChain ==
    ASSUME IndInv, IndInv', ChainInv, NEW p \in Procs, NEW b \in Blocks, HeldBy(p) = {b}, Alone(p),
           group' = [group EXCEPT ![b] = <<>>], sfree' = sfree,
           pc[p] \notin Hand, pc'[p] \notin Hand
    PROVE  TreeInv' /\ HandInv' /\ Avail' = Avail
<1>1. Known /\ TreeInv  BY DEF Known, ChainInv
<1>2. PICK l \in Lists : RootIs(l) /\ Tree(group, l) /\ NoZero(l) /\ Avail = Reach(group, l)
  BY <1>1, RootOf
<1>3. group \in Groups /\ (\A c \in Blocks : NoZero(group[c])) /\ group' \in Groups
  BY DEF IndInv, TypeOK, BlkInv, Groups
<1>4. \A c \in Blocks : c # b => group'[c] = group[c]  BY <1>3 DEF Groups
<1>5. b \notin Avail /\ \A q \in Procs \ {p} : pc[q] \in Busy => blk[q] # b  BY HeldApart
<1>6. \A c \in Reach(group, l) : group'[c] = group[c]  BY <1>2, <1>3, <1>4, <1>5, ReachFacts
<1>7. Tree(group', l) /\ Reach(group', l) = Reach(group, l)  BY <1>2, <1>3, <1>6, TreeSame
<1>8. \A q \in Procs : /\ pc'[q] \in Hand <=> pc[q] \in Hand
                       /\ pc[q] \in Hand => q # p /\ blk'[q] = blk[q]
  BY DEF Alone
<1>9. HandInv' /\ Known'  BY <1>8 DEF HandInv, Known, ChainInv
<1>10. RootIs(l)'
 <2>1. CASE \E q \in Procs : pc[q] \in Hand
  <3>1. PICK q \in Procs : pc[q] \in Hand /\ l = group[blk[q]]  BY <1>2, <2>1 DEF RootIs
  <3>2. blk[q] # b /\ blk[q] \in Blocks  BY <1>5, <1>8, <3>1 DEF Hand, Busy, IndInv, BlkInv
  <3> QED  BY <1>4, <1>8, <3>1, <3>2 DEF RootIs
 <2>2. CASE \A q \in Procs : pc[q] \notin Hand  BY <1>2, <1>8, <2>2 DEF RootIs
 <2> QED  BY <2>1, <2>2
<1>11. TreeInv' /\ Avail' = Reach(group', l)  BY <1>7, <1>9, <1>10, RootAfter
<1> QED  BY <1>2, <1>7, <1>9, <1>11

LEMMA AllocEndChain ==
    ASSUME IndInv, IndInv', ChainInv, NEW p \in Procs, AllocEnd(p)
    PROVE  ChainInv' /\ Avail' = Avail
<1>1. /\ pc[p] = "allocgot" /\ Goto(p, "idle", NoBlk)
      /\ sfree' = sfree /\ group' = [group EXCEPT ![blk[p]] = <<>>] /\ used' = used \cup {blk[p]}
  BY DEF AllocEnd
<1>2. Alone(p) /\ pc'[p] = "idle"  BY <1>1, Goes
<1>3. PICK b \in Blocks : b = blk[p]  BY <1>1 DEF IndInv, BlkInv, Busy
<1>4. /\ HeldBy(p) = {b} /\ HeldBy(p)' = {} /\ pc[p] \notin Hand /\ pc'[p] \notin Hand
  BY <1>1, <1>2, <1>3 DEF HeldBy, Hand
<1>5. TreeInv' /\ HandInv' /\ Avail' = Avail  BY <1>1, <1>2, <1>3, <1>4, GroupChain
<1>6. /\ b \notin Avail /\ b \notin used /\ Avail \cap used = {}
      /\ \A q \in Procs \ {p} : pc[q] \in Busy => blk[q] # b
  BY <1>4, HeldApart
<1>7. group \in [Blocks -> Lists] /\ used \subseteq Blocks  BY DEF IndInv, TypeOK
<1>8. BlankInv'
 <2>1. \A c \in used' : group'[c] = <<>>  BY <1>1, <1>3, <1>7 DEF ChainInv, BlankInv
 <2>2. ASSUME NEW q \in Procs, pc'[q] \in {"freewait", "freebuf"} PROVE group'[blk'[q]] = <<>>
  <3>1. q # p /\ pc[q] = pc'[q] /\ blk'[q] = blk[q]  BY <1>2, <2>2 DEF Alone
  <3>2. blk[q] \in Blocks /\ blk[q] # b  BY <1>6, <2>2, <3>1 DEF IndInv, BlkInv, Busy
  <3> QED  BY <1>1, <1>3, <1>7, <2>2, <3>1, <3>2 DEF ChainInv, BlankInv
 <2> QED  BY <2>1, <2>2 DEF BlankInv
<1>9. Parts'
 <2>1. used' = used \cup {b}  BY <1>1, <1>3
 <2> QED  BY <1>2, <1>4, <1>5, <1>6, <2>1, PartsMove DEF ChainInv
<1> QED  BY <1>5, <1>8, <1>9 DEF ChainInv

\* The 0 at the end of the chain is taken for a block: no block is free
LEMMA AllocFullChain ==
    ASSUME IndInv, IndInv', ChainInv, NEW p \in Procs, AllocFull(p)
    PROVE  ChainInv' /\ Avail = {} /\ Avail' = {}
<1>1. /\ pc[p] \in {"idle", "allocwait"} /\ Goto(p, "idle", NoBlk) /\ ~flock
      /\ Len(sfree) = 1 /\ Top = NoBlk
      /\ sfree' = <<>> /\ group' = group /\ used' = used
  BY DEF AllocFull, AllocTurn, Unlocked
<1>2. Alone(p) /\ pc'[p] = "idle"  BY <1>1, Goes
<1>3. (\A q \in Procs : pc[q] \notin Hand) /\ Known /\ TreeInv
  BY <1>1, NobodyHas DEF Known, ChainInv
<1>4. Avail = Reach(group, sfree) /\ group \in Groups /\ sfree \in Lists  BY <1>3, RootOf
<1>5. sfree = <<NoBlk>>  BY <1>1, <1>4 DEF Top, Lists
<1>6. Avail = {}  BY <1>4, <1>5, NothingReached
<1>7. \A q \in Procs : pc'[q] \notin Hand  BY <1>2, <1>3 DEF Alone, Hand
<1>8. HandInv' /\ Known'  BY <1>7 DEF HandInv, Known
<1>9. TreeInv' /\ Avail' = {}
 <2>1. Tree(group', <<>>) /\ Reach(group', <<>>) = {} /\ <<>> \in Lists
   BY <1>1, <1>4, NothingReached
 <2>2. RootIs(<<>>)'  BY <1>1, <1>7 DEF RootIs
 <2> QED  BY <1>8, <2>1, <2>2, RootAfter
<1>10. BlankInv'  BY <1>1, <1>2 DEF ChainInv, BlankInv, Alone
<1>11. Parts'
 <2>1. HeldBy(p) = {} /\ HeldBy(p)' = {}  BY <1>1, <1>2 DEF HeldBy
 <2> QED  BY <1>1, <1>2, <1>6, <1>9, <2>1, PartsMove DEF ChainInv
<1> QED  BY <1>6, <1>8, <1>9, <1>10, <1>11 DEF ChainInv

\* b goes onto the stack
LEMMA FreePushChain ==
    ASSUME IndInv, IndInv', ChainInv, NEW p \in Procs, NEW b \in Blocks, FreePush(p, b)
    PROVE  ChainInv' /\ Avail' = Avail \cup {b}
<1>1. /\ FreeTurn(p, b) /\ Goto(p, "idle", NoBlk) /\ ~flock /\ ~StackFull
      /\ sfree' = Append(Stack, b) /\ group' = group /\ used' = used \ {b}
  BY DEF FreePush, Unlocked
<1>2. Alone(p) /\ pc'[p] = "idle"  BY <1>1, Goes
<1>3. (\A q \in Procs : pc[q] \notin Hand) /\ Known /\ TreeInv
  BY <1>1, NobodyHas DEF Known, ChainInv
<1>4. /\ Tree(group, sfree) /\ Avail = Reach(group, sfree) /\ group \in Groups /\ sfree \in Lists
  BY <1>3, RootOf
<1>5. Stack \in Lists /\ Tree(group, Stack) /\ Reach(group, Stack) = Avail
  BY <1>4, NothingReached DEF Stack
<1>6. group[b] = <<>> /\ b \notin Avail /\ used \cup HeldBy(p) = (used \ {b}) \cup {b}
  BY <1>1, FreeTurnFacts
<1>7. PICK m \in Lists : m = Append(Stack, b)  BY <1>1, PushFacts DEF IndInv
<1>8. Len(m) = Len(Stack) + 1 /\ m[Len(m)] = b /\ \A i \in 1..Len(Stack) : m[i] = Stack[i]
  BY <1>5, <1>7 DEF Lists
<1>9. Reach(group, m) = Avail \cup {b} /\ Tree(group, m)
 <2>1. PICK l \in Lists : l = Stack  BY <1>5
 <2> QED  BY <1>4, <1>5, <1>6, <1>8, <2>1, PushChain
<1>10. \A q \in Procs : pc'[q] \notin Hand  BY <1>2, <1>3 DEF Alone, Hand
<1>11. HandInv' /\ Known'  BY <1>10 DEF HandInv, Known
<1>12. TreeInv' /\ Avail' = Avail \cup {b}
 <2>1. RootIs(m)' /\ Tree(group', m)  BY <1>1, <1>7, <1>9, <1>10 DEF RootIs
 <2>2. TreeInv' /\ Avail' = Reach(group', m)  BY <1>11, <2>1, RootAfter
 <2> QED  BY <1>1, <1>9, <2>2
<1>13. BlankInv'  BY <1>1, <1>2 DEF ChainInv, BlankInv, Alone
<1>14. Parts'
 <2>1. HeldBy(p)' = {}  BY <1>2 DEF HeldBy
 <2>2. Avail \cap used = {}  BY DEF ChainInv, Parts
 <2>3. Avail' \cup used' \cup HeldBy(p)' = Avail \cup used \cup HeldBy(p)
   BY <1>1, <1>6, <1>12, <2>1
 <2> QED  BY <1>1, <1>2, <1>12, <2>1, <2>2, <2>3, PartsMove DEF ChainInv
<1> QED  BY <1>11, <1>12, <1>13, <1>14 DEF ChainInv

\* The stack goes into the block of p
LEMMA FreeWriteChain ==
    ASSUME IndInv, IndInv', ChainInv, NEW p \in Procs, FreeWrite(p)
    PROVE  ChainInv' /\ Avail' = Avail
<1>1. /\ pc[p] = "freebuf" /\ Goto(p, "freewrite", blk[p])
      /\ sfree' = <<>> /\ group' = [group EXCEPT ![blk[p]] = sfree] /\ used' = used
  BY DEF FreeWrite
<1>2. Alone(p) /\ pc'[p] = "freewrite" /\ blk'[p] = blk[p]  BY <1>1, Goes
<1>3. PICK b \in Blocks : b = blk[p]  BY <1>1 DEF IndInv, BlkInv, Busy
<1>4. Known /\ TreeInv /\ Holding(p) /\ \A q \in Procs : pc[q] \notin Hand
  BY <1>1, OneHand DEF Known, ChainInv, Hand, Holding
<1>5. /\ Tree(group, sfree) /\ Avail = Reach(group, sfree) /\ NoZero(sfree)
      /\ group \in Groups /\ sfree \in Lists /\ \A c \in Blocks : NoZero(group[c])
  BY <1>4, RootOf
<1>6. HeldBy(p) = {b} /\ HeldBy(p)' = {b}  BY <1>1, <1>2, <1>3 DEF HeldBy
<1>7. /\ b \notin Avail /\ b \notin used /\ Avail \cap used = {}
      /\ \A q \in Procs \ {p} : pc[q] \in Busy => blk[q] # b
  BY <1>6, HeldApart
<1>8. group' \in Groups /\ group'[b] = sfree /\ \A c \in Blocks : c # b => group'[c] = group[c]
  BY <1>1, <1>3, <1>5 DEF Groups
<1>9. Tree(group', sfree) /\ Reach(group', sfree) = Avail
 <2>1. \A c \in Reach(group, sfree) : group'[c] = group[c]  BY <1>5, <1>7, <1>8, ReachFacts
 <2> QED  BY <1>5, <1>8, <2>1, TreeSame
<1>10. HandInv' /\ Known'  BY <1>1 DEF HandInv, Known
<1>11. TreeInv' /\ Avail' = Avail
 <2>1. PICK m \in Lists : m = sfree  BY <1>5
 <2>2. RootIs(m)' /\ Tree(group', m)  BY <1>2, <1>3, <1>8, <1>9, <2>1 DEF RootIs, Hand
 <2>3. TreeInv' /\ Avail' = Reach(group', m)  BY <1>10, <2>2, RootAfter
 <2> QED  BY <1>9, <2>1, <2>3
<1>12. BlankInv'
 <2>1. \A c \in used' : group'[c] = <<>>
  <3>1. used \subseteq Blocks  BY DEF IndInv, TypeOK
  <3> QED  BY <1>1, <1>7, <1>8, <3>1 DEF ChainInv, BlankInv
 <2>2. ASSUME NEW q \in Procs, pc'[q] \in {"freewait", "freebuf"} PROVE group'[blk'[q]] = <<>>
  <3>1. q # p /\ pc[q] = pc'[q] /\ blk'[q] = blk[q]  BY <1>2, <2>2 DEF Alone
  <3>2. blk[q] \in Blocks /\ blk[q] # b  BY <1>7, <2>2, <3>1 DEF IndInv, BlkInv, Busy
  <3> QED  BY <1>8, <2>2, <3>1, <3>2 DEF ChainInv, BlankInv
 <2> QED  BY <2>1, <2>2 DEF BlankInv
<1>13. Parts'  BY <1>1, <1>2, <1>6, <1>7, <1>11, PartsMove DEF ChainInv
<1> QED  BY <1>10, <1>11, <1>12, <1>13 DEF ChainInv

\* The block with the group is the new stack
LEMMA FreeEndChain ==
    ASSUME IndInv, IndInv', ChainInv, NEW p \in Procs, FreeEnd(p)
    PROVE  ChainInv' /\ Avail' = Avail \cup {blk[p]}
<1>1. /\ pc[p] = "freewrite" /\ Goto(p, "idle", NoBlk)
      /\ sfree' = <<blk[p]>> /\ group' = group /\ used' = used
  BY DEF FreeEnd
<1>2. Alone(p) /\ pc'[p] = "idle"  BY <1>1, Goes
<1>3. PICK b \in Blocks : b = blk[p]  BY <1>1 DEF IndInv, BlkInv, Busy
<1>4. Known /\ TreeInv /\ pc[p] \in Hand /\ Holding(p)  BY <1>1 DEF Known, ChainInv, Hand, Holding
<1>5. Tree(group, group[b]) /\ Avail = Reach(group, group[b]) /\ group \in Groups
  BY <1>3, <1>4, RootOf
<1>6. HeldBy(p) = {b} /\ HeldBy(p)' = {}  BY <1>1, <1>2, <1>3 DEF HeldBy
<1>7. b \notin Avail /\ b \notin used /\ Avail \cap used = {}  BY <1>6, HeldApart
<1>8. Tree(group, <<b>>) /\ Reach(group, <<b>>) = Avail \cup {b}  BY <1>5, <1>7, LastChain
<1>9. \A q \in Procs : pc'[q] \notin Hand  BY <1>2, <1>4, OneHand DEF Alone, Hand
<1>10. HandInv' /\ Known'  BY <1>9 DEF HandInv, Known
<1>11. TreeInv' /\ Avail' = Avail \cup {b}
 <2>1. RootIs(<<b>>)' /\ Tree(group', <<b>>) /\ <<b>> \in Lists
   BY <1>1, <1>3, <1>8, <1>9, OneEntry DEF RootIs
 <2>2. TreeInv' /\ Avail' = Reach(group', <<b>>)  BY <1>10, <2>1, RootAfter
 <2> QED  BY <1>1, <1>8, <2>2
<1>12. BlankInv'  BY <1>1, <1>2 DEF ChainInv, BlankInv, Alone
<1>13. Parts'  BY <1>1, <1>2, <1>6, <1>7, <1>11, PartsMove DEF ChainInv
<1> QED  BY <1>3, <1>10, <1>11, <1>12, <1>13 DEF ChainInv
-----------------------------------------------------------------------------
(* The superblock on disk.                                                 *)

\* s_fmod is clear only when the superblock is saved, or about to be, or somebody will set it
Settled == {"idle", "allocwait", "freewait", "upd"}
SavedInv == ~fmod /\ (\A p \in Procs : pc[p] \in Settled) => Entries(saved) = Entries(sfree)

LEMMA InitChain == Init => ChainInv /\ SavedInv
<1> SUFFICES ASSUME Init PROVE ChainInv /\ SavedInv  OBVIOUS
<1>1. /\ sfree = <<NoBlk>> /\ saved = sfree /\ used = Blocks
      /\ group = [b \in Blocks |-> <<>>] /\ \A p \in Procs : pc[p] = "idle"
  BY DEF Init
<1>2. HandInv /\ SavedInv /\ BlankInv  BY <1>1 DEF HandInv, Hand, SavedInv, BlankInv
<1>3. Known  BY <1>2, InitInd DEF Known
<1>4. RootIs(<<NoBlk>>) /\ group \in Groups  BY <1>1, ShortLists DEF RootIs, Hand, Groups
<1>5. <<NoBlk>> \in Lists /\ Reach(group, <<NoBlk>>) = {} /\ Tree(group, <<NoBlk>>)
  BY <1>4, NothingReached
<1>6. TreeInv /\ Avail = {}  BY <1>3, <1>4, <1>5, AvailFromRoot DEF FromRoot, TreeInv
<1>7. \A p \in Procs : HeldBy(p) = {}  BY <1>1 DEF HeldBy
<1>8. Parts  BY <1>1, <1>6, <1>7 DEF Parts
<1> QED  BY <1>2, <1>6, <1>8 DEF ChainInv

\* What p does while it is settled leaves what is saved, unless s_fmod is set
LEMMA SavedStill ==
    ASSUME SavedInv, NEW p \in Procs, Alone(p), pc[p] \in Settled,
           fmod' = fmod, saved' = saved, Entries(sfree)' = Entries(sfree)
    PROVE  SavedInv'
  BY DEF SavedInv, Alone

LEMMA NextSaved ==
    ASSUME IndInv, SavedInv, NEW p \in Procs, Alloc(p) \/ Free(p) \/ Sync(p)
    PROVE  SavedInv'
<1>1. ASSUME pc'[p] \notin Settled PROVE SavedInv'  BY <1>1 DEF SavedInv
<1>2. ASSUME fmod' = TRUE PROVE SavedInv'  BY <1>2 DEF SavedInv
<1>3. CASE AllocWait(p)
 <2>1. Alone(p) /\ pc[p] \in Settled  BY <1>3, Goes DEF AllocWait, AllocTurn, SleepFlock, Settled
 <2> QED  BY <1>3, <2>1, SavedStill DEF AllocWait, tableVars, diskVars
<1>4. CASE AllocTake(p) \/ AllocLast(p) \/ AllocRead(p)
 <2>1. \E l \in {"allocgot", "allocread"}, b \in {Top, blk[p]} : Goto(p, l, b)
   BY <1>4 DEF AllocTake, AllocLast, AllocRead
 <2>2. pc'[p] \in {"allocgot", "allocread"}  BY <2>1, Goes
 <2> QED  BY <1>1, <2>2 DEF Settled
<1>5. CASE AllocEnd(p)  BY <1>2, <1>5 DEF AllocEnd
<1>6. CASE AllocFull(p)
 <2>1. Alone(p) /\ pc[p] \in Settled  BY <1>6, Goes DEF AllocFull, AllocTurn, Settled
 <2>2. sfree = <<NoBlk>> /\ sfree' = <<>>  BY <1>6 DEF AllocFull, Top, IndInv, TypeOK, Lists
 <2>3. Entries(<<>>) = {} /\ Entries(<<NoBlk>>) = {}  BY DEF Entries
 <2>4. Entries(sfree)' = Entries(sfree)  BY <2>2, <2>3
 <2> QED  BY <1>6, <2>1, <2>4, SavedStill DEF AllocFull, diskVars
<1>7. CASE AllocBelow(p)  BY <1>7 DEF AllocBelow, tableVars, diskVars, procVars, SavedInv
<1>8. ASSUME NEW b \in Blocks, FreeWait(p, b) PROVE SavedInv'
 <2>1. Alone(p) /\ pc[p] \in Settled  BY <1>8, Goes DEF FreeWait, FreeTurn, SleepFlock, Settled
 <2>2. CASE pc[p] = "idle"
  <3>1. fmod' = TRUE  BY <1>8, <2>2 DEF FreeWait
  <3> QED  BY <1>2, <3>1
 <2>3. CASE pc[p] # "idle"
  <3>1. fmod' = fmod /\ saved' = saved /\ sfree' = sfree
    BY <1>8, <2>3 DEF FreeWait, diskVars, IndInv, TypeOK
  <3> QED  BY <2>1, <3>1, SavedStill
 <2> QED  BY <2>2, <2>3
<1>9. ASSUME NEW b \in Blocks, FreePush(p, b) PROVE SavedInv'  BY <1>2, <1>9 DEF FreePush
<1>10. ASSUME NEW b \in Blocks, FreeSpill(p, b) PROVE SavedInv'
 <2>1. pc'[p] = "freebuf"  BY <1>10, Goes DEF FreeSpill
 <2> QED  BY <1>1, <2>1 DEF Settled
<1>11. CASE FreeWrite(p)
 <2>1. pc'[p] = "freewrite"  BY <1>11, Goes DEF FreeWrite
 <2> QED  BY <1>1, <2>1 DEF Settled
<1>12. CASE FreeEnd(p)  BY <1>2, <1>12 DEF FreeEnd
<1>13. CASE Update(p)
 <2>1. pc'[p] = "updbuf"  BY <1>13, Goes DEF Update
 <2> QED  BY <1>1, <2>1 DEF Settled
<1>14. CASE UpdateSkip(p) \/ UpdateEnd(p)
 <2>1. Alone(p) /\ pc[p] \in Settled  BY <1>14, Goes DEF UpdateSkip, UpdateEnd, Settled
 <2>2. fmod' = fmod /\ saved' = saved /\ sfree' = sfree
   BY <1>14 DEF UpdateSkip, UpdateEnd, tableVars
 <2> QED  BY <2>1, <2>2, SavedStill
<1>15. CASE UpdateWrite(p)  BY <1>15 DEF UpdateWrite, tableVars, SavedInv
<1> QED  BY <1>3, <1>4, <1>5, <1>6, <1>7, <1>8, <1>9, <1>10, <1>11, <1>12, <1>13, <1>14,
<1>15 DEF Alloc, Free, Sync

LEMMA NextChain ==
    ASSUME IndInv, IndInv', ChainInv, NEW p \in Procs, Alloc(p) \/ Free(p) \/ Sync(p)
    PROVE  ChainInv'
  BY AllocWaitChain, AllocTakeChain, AllocLastChain, AllocReadChain, AllocEndChain,
     AllocFullChain, AllocBelowChain, FreeWaitChain, FreePushChain, FreeSpillChain,
     FreeWriteChain, FreeEndChain, UpdateChain DEF Alloc, Free, Sync

LEMMA ChainStill ==
    ASSUME ChainInv, SavedInv, UNCHANGED vars
    PROVE  ChainInv' /\ SavedInv'
<1>1. /\ sfree' = sfree /\ group' = group /\ used' = used /\ pc' = pc /\ blk' = blk
      /\ saved' = saved /\ fmod' = fmod
  BY DEF vars, tableVars, diskVars, procVars
<1>2. SavedInv' /\ HandInv' /\ BlankInv'  BY <1>1 DEF ChainInv, SavedInv, HandInv, BlankInv
<1>3. TreeInv'  BY <1>1 DEF ChainInv, TreeInv, RootIs
<1>4. Avail' = Avail /\ \A q \in Procs : HeldBy(q)' = HeldBy(q)
  BY <1>1 DEF Avail, InHand, Chained, Closed, HeldBy
<1>5. Parts'  BY <1>1, <1>4 DEF ChainInv, Parts
<1> QED  BY <1>2, <1>3, <1>5 DEF ChainInv

\* The chain of groups is always a tree whose lists have no block in common, and the
\* superblock on disk is as good as the one in memory whenever s_fmod says so.
THEOREM ChainKept == Spec => [](ChainInv /\ SavedInv)
<1>1. ASSUME IndInv, IndInv', ChainInv, SavedInv, [Next]_vars PROVE ChainInv' /\ SavedInv'
 <2>1. CASE UNCHANGED vars  BY <1>1, <2>1, ChainStill
 <2>2. ASSUME NEW p \in Procs, Alloc(p) \/ Free(p) \/ Sync(p) PROVE ChainInv' /\ SavedInv'
   BY <1>1, <2>2, NextChain, NextSaved
 <2> QED  BY <1>1, <2>1, <2>2 DEF Next, Undefined
<1> QED  BY <1>1, InitChain, Invariance, PTL DEF Spec

\* However the spills, the reads of groups and the waits for s_flock interleave, every
\* block is free, in a file or in the hands of one process, and none of two.
THEOREM NoBlockLost == Spec => []BlocksAccounted
<1>1. ASSUME IndInv, ChainInv, SavedInv PROVE BlocksAccounted
 <2>1. CleanIsSaved  BY <1>1 DEF SavedInv, CleanIsSaved, Settled
 <2>2. /\ Avail \subseteq Blocks /\ used \subseteq Blocks
       /\ \A p \in Procs : HeldBy(p) \subseteq Blocks
  <3>1. PICK l \in Lists : Avail = Reach(group, l)  BY <1>1, RootOf DEF Known, ChainInv
  <3>2. Avail \subseteq Blocks  BY <3>1 DEF Reach
  <3> QED  BY <1>1, <3>2 DEF IndInv, TypeOK, BlkInv, HeldBy, Busy
 <2> QED  BY <1>1, <2>1, <2>2 DEF ChainInv, Parts, BlocksAccounted
<1> QED  BY <1>1, Invariance, ChainKept, PTL
-----------------------------------------------------------------------------
(* The chain implements the set.                                           *)

SetVars == <<Avail, used, Taken, Given, full>>
SetStep == [FreeSet_!Next]_SetVars

TakenBy(p) == IF pc[p] \in {"allocread", "allocgot"} THEN blk[p] ELSE NoBlk
GivenBy(p) == IF pc[p] \in {"freewait", "freebuf", "freewrite"} THEN blk[p] ELSE NoBlk

LEMMA HandsOf ==
    ASSUME NEW p \in Procs, Alone(p)
    PROVE  /\ Taken[p] = TakenBy(p) /\ Given[p] = GivenBy(p)
           /\ Taken' = [Taken EXCEPT ![p] = TakenBy(p)']
           /\ Given' = [Given EXCEPT ![p] = GivenBy(p)']
           /\ TakenBy(p)' = TakenBy(p) => Taken' = Taken
           /\ GivenBy(p)' = GivenBy(p) => Given' = Given
<1>1. Taken = [q \in Procs |-> TakenBy(q)] /\ Given = [q \in Procs |-> GivenBy(q)]
  BY DEF Taken, Given, TakenBy, GivenBy
<1>2. Taken' = [q \in Procs |-> TakenBy(q)'] /\ Given' = [q \in Procs |-> GivenBy(q)']
  BY DEF Taken, Given, TakenBy, GivenBy
<1>3. \A q \in Procs \ {p} : TakenBy(q)' = TakenBy(q) /\ GivenBy(q)' = GivenBy(q)
  BY DEF Alone, TakenBy, GivenBy
<1> QED  BY <1>1, <1>2, <1>3

\* The states of p that matter to the set
LEMMA IdleHands ==
    ASSUME NEW p \in Procs, Alone(p), pc[p] \in {"idle", "allocwait"}
    PROVE  FreeSet_!Idle(p) /\ TakenBy(p) = NoBlk /\ GivenBy(p) = NoBlk
<1>1. TakenBy(p) = NoBlk /\ GivenBy(p) = NoBlk  BY DEF TakenBy, GivenBy
<1> QED  BY <1>1, HandsOf DEF FreeSet_!Idle

LEMMA SameSet ==
    ASSUME NEW p \in Procs, Alone(p), Avail' = Avail, used' = used, full' = full,
           TakenBy(p)' = TakenBy(p), GivenBy(p)' = GivenBy(p)
    PROVE  SetStep
  BY HandsOf DEF SetStep, SetVars

LEMMA TakeSet ==
    ASSUME IndInv, IndInv', ChainInv, NEW p \in Procs, AllocTake(p) \/ AllocLast(p)
    PROVE  SetStep
<1>1. PICK l \in {"allocgot", "allocread"} : Goto(p, l, Top)  BY DEF AllocTake, AllocLast
<1>2. pc[p] \in {"idle", "allocwait"} /\ used' = used /\ full' = [full EXCEPT ![p] = FALSE]
  BY DEF AllocTake, AllocLast, AllocTurn
<1>3. Alone(p) /\ pc'[p] = l /\ blk'[p] = Top  BY <1>1, Goes
<1>4. Top \in Avail /\ Avail' = Avail \ {Top}  BY AllocTakeChain, AllocLastChain
<1>5. TakenBy(p)' = Top /\ GivenBy(p)' = NoBlk  BY <1>3 DEF TakenBy, GivenBy
<1>6. FreeSet_!Idle(p) /\ GivenBy(p) = NoBlk  BY <1>2, <1>3, IdleHands
<1>7. Taken' = [Taken EXCEPT ![p] = Top] /\ Given' = Given  BY <1>3, <1>5, <1>6, HandsOf
<1>8. FreeSet_!Take(p)  BY <1>2, <1>4, <1>6, <1>7 DEF FreeSet_!Take
<1> QED  BY <1>8 DEF SetStep, FreeSet_!Next

LEMMA KeepSet ==
    ASSUME IndInv, IndInv', ChainInv, NEW p \in Procs, AllocEnd(p)
    PROVE  SetStep
<1>1. /\ pc[p] = "allocgot" /\ Goto(p, "idle", NoBlk)
      /\ used' = used \cup {blk[p]} /\ full' = full
  BY DEF AllocEnd
<1>2. Alone(p) /\ pc'[p] = "idle"  BY <1>1, Goes
<1>3. Avail' = Avail  BY AllocEndChain
<1>4. TakenBy(p) = blk[p] /\ TakenBy(p)' = NoBlk /\ GivenBy(p) = NoBlk /\ GivenBy(p)' = NoBlk
  BY <1>1, <1>2 DEF TakenBy, GivenBy
<1>5. blk[p] # NoBlk  BY <1>1, CapFact DEF IndInv, BlkInv, Busy
<1>6. Taken[p] = blk[p] /\ Taken' = [Taken EXCEPT ![p] = NoBlk] /\ Given' = Given
  BY <1>2, <1>4, HandsOf
<1>7. FreeSet_!Keep(p)  BY <1>1, <1>3, <1>5, <1>6 DEF FreeSet_!Keep
<1> QED  BY <1>7 DEF SetStep, FreeSet_!Next

LEMMA FailSet ==
    ASSUME IndInv, IndInv', ChainInv, NEW p \in Procs, AllocFull(p)
    PROVE  SetStep
<1>1. /\ pc[p] \in {"idle", "allocwait"} /\ Goto(p, "idle", NoBlk)
      /\ used' = used /\ full' = [full EXCEPT ![p] = TRUE]
  BY DEF AllocFull, AllocTurn
<1>2. Alone(p) /\ pc'[p] = "idle"  BY <1>1, Goes
<1>3. Avail = {} /\ Avail' = {}  BY AllocFullChain
<1>4. TakenBy(p)' = NoBlk /\ GivenBy(p)' = NoBlk  BY <1>2 DEF TakenBy, GivenBy
<1>5. FreeSet_!Idle(p) /\ TakenBy(p) = NoBlk /\ GivenBy(p) = NoBlk  BY <1>1, <1>2, IdleHands
<1>6. Taken' = Taken /\ Given' = Given  BY <1>2, <1>4, <1>5, HandsOf
<1>7. FreeSet_!Fail(p)  BY <1>1, <1>3, <1>5, <1>6 DEF FreeSet_!Fail
<1> QED  BY <1>7 DEF SetStep, FreeSet_!Next

\* The block leaves its file, unless it had left it before p slept
LEMMA DropSet ==
    ASSUME IndInv, IndInv', ChainInv, NEW p \in Procs, NEW b \in Blocks,
           FreeWait(p, b) \/ FreeSpill(p, b)
    PROVE  SetStep
<1>1. PICK l \in {"freewait", "freebuf"} : Goto(p, l, b)  BY DEF FreeWait, FreeSpill, SleepFlock
<1>2. FreeTurn(p, b) /\ used' = used \ {b} /\ full' = full  BY DEF FreeWait, FreeSpill
<1>3. Alone(p) /\ pc'[p] = l /\ blk'[p] = b  BY <1>1, Goes
<1>4. Avail' = Avail  BY FreeWaitChain, FreeSpillChain
<1>5. TakenBy(p)' = NoBlk /\ GivenBy(p)' = b  BY <1>3 DEF TakenBy, GivenBy
<1>6. CASE pc[p] = "idle"
 <2>1. b \in used  BY <1>2, <1>6, FreeTurnFacts
 <2>2. FreeSet_!Idle(p) /\ TakenBy(p) = NoBlk  BY <1>3, <1>6, IdleHands
 <2>3. Taken' = Taken /\ Given' = [Given EXCEPT ![p] = b]  BY <1>3, <1>5, <2>2, HandsOf
 <2>4. FreeSet_!Drop(p)  BY <1>2, <1>4, <2>1, <2>2, <2>3 DEF FreeSet_!Drop
 <2> QED  BY <2>4 DEF SetStep, FreeSet_!Next
<1>7. CASE pc[p] # "idle"
 <2>1. b = blk[p] /\ pc[p] = "freewait" /\ b \notin used  BY <1>2, <1>7, FreeTurnFacts
 <2>2. TakenBy(p) = NoBlk /\ GivenBy(p) = b  BY <2>1 DEF TakenBy, GivenBy
 <2>3. used' = used  BY <1>2, <2>1
 <2> QED  BY <1>2, <1>3, <1>4, <1>5, <2>2, <2>3, SameSet
<1> QED  BY <1>6, <1>7

LEMMA PushSet ==
    ASSUME IndInv, IndInv', ChainInv, NEW p \in Procs, NEW b \in Blocks, FreePush(p, b)
    PROVE  SetStep
<1>1. Goto(p, "idle", NoBlk) /\ FreeTurn(p, b) /\ used' = used \ {b} /\ full' = full
  BY DEF FreePush
<1>2. Alone(p) /\ pc'[p] = "idle"  BY <1>1, Goes
<1>3. Avail' = Avail \cup {b}  BY FreePushChain
<1>4. TakenBy(p)' = NoBlk /\ GivenBy(p)' = NoBlk  BY <1>2 DEF TakenBy, GivenBy
<1>5. CASE pc[p] = "idle"
 <2>1. b \in used  BY <1>1, <1>5, FreeTurnFacts
 <2>2. FreeSet_!Idle(p) /\ TakenBy(p) = NoBlk /\ GivenBy(p) = NoBlk  BY <1>2, <1>5, IdleHands
 <2>3. Taken' = Taken /\ Given' = Given  BY <1>2, <1>4, <2>2, HandsOf
 <2>4. FreeSet_!DropGive(p)  BY <1>1, <1>3, <2>1, <2>2, <2>3 DEF FreeSet_!DropGive
 <2> QED  BY <2>4 DEF SetStep, FreeSet_!Next
<1>6. CASE pc[p] # "idle"
 <2>1. b = blk[p] /\ pc[p] = "freewait" /\ b \notin used  BY <1>1, <1>6, FreeTurnFacts
 <2>2. TakenBy(p) = NoBlk /\ GivenBy(p) = b /\ b # NoBlk  BY <2>1, CapFact DEF TakenBy, GivenBy
 <2>3. Given[p] = b /\ Given' = [Given EXCEPT ![p] = NoBlk] /\ Taken' = Taken
   BY <1>2, <1>4, <2>2, HandsOf
 <2>4. used' = used  BY <1>1, <2>1
 <2>5. FreeSet_!Give(p)  BY <1>1, <1>3, <2>2, <2>3, <2>4 DEF FreeSet_!Give
 <2> QED  BY <2>5 DEF SetStep, FreeSet_!Next
<1> QED  BY <1>5, <1>6

LEMMA GiveSet ==
    ASSUME IndInv, IndInv', ChainInv, NEW p \in Procs, FreeEnd(p)
    PROVE  SetStep
<1>1. pc[p] = "freewrite" /\ Goto(p, "idle", NoBlk) /\ used' = used /\ full' = full  BY DEF FreeEnd
<1>2. Alone(p) /\ pc'[p] = "idle"  BY <1>1, Goes
<1>3. Avail' = Avail \cup {blk[p]}  BY FreeEndChain
<1>4. TakenBy(p)' = NoBlk /\ GivenBy(p)' = NoBlk /\ TakenBy(p) = NoBlk /\ GivenBy(p) = blk[p]
  BY <1>1, <1>2 DEF TakenBy, GivenBy
<1>5. blk[p] # NoBlk  BY <1>1, CapFact DEF IndInv, BlkInv, Busy
<1>6. Given[p] = blk[p] /\ Given' = [Given EXCEPT ![p] = NoBlk] /\ Taken' = Taken
  BY <1>2, <1>4, HandsOf
<1>7. FreeSet_!Give(p)  BY <1>1, <1>3, <1>5, <1>6 DEF FreeSet_!Give
<1> QED  BY <1>7 DEF SetStep, FreeSet_!Next

\* The other steps are none of the set
LEMMA StutterSet ==
    ASSUME IndInv, IndInv', ChainInv, NEW p \in Procs,
           \/ AllocWait(p) \/ AllocRead(p) \/ AllocBelow(p) \/ FreeWrite(p)
           \/ Update(p) \/ UpdateSkip(p) \/ UpdateWrite(p) \/ UpdateEnd(p)
    PROVE  SetStep
<1>1. Avail' = Avail
  BY AllocWaitChain, AllocReadChain, AllocBelowChain, FreeWriteChain, UpdateChain
<1>2. used' = used /\ full' = full
  BY DEF AllocWait, AllocRead, AllocBelow, FreeWrite, Update, UpdateSkip, UpdateWrite,
         UpdateEnd, procVars
<1>3. CASE AllocWait(p)
 <2>1. Alone(p) /\ pc'[p] = "allocwait" /\ pc[p] \in {"idle", "allocwait"}
   BY <1>3, Goes DEF AllocWait, AllocTurn, SleepFlock
 <2> QED  BY <1>1, <1>2, <2>1, SameSet DEF TakenBy, GivenBy
<1>4. CASE AllocRead(p) \/ FreeWrite(p)
 <2>1. \/ Goto(p, "allocgot", blk[p]) /\ pc[p] = "allocread"
       \/ Goto(p, "freewrite", blk[p]) /\ pc[p] = "freebuf"
   BY <1>4 DEF AllocRead, FreeWrite
 <2>2. /\ Alone(p) /\ blk'[p] = blk[p]
       /\ \/ pc'[p] = "allocgot" /\ pc[p] = "allocread"
          \/ pc'[p] = "freewrite" /\ pc[p] = "freebuf"
   BY <2>1, Goes
 <2> QED  BY <1>1, <1>2, <2>2, SameSet DEF TakenBy, GivenBy
<1>5. CASE AllocBelow(p)
 <2>1. Alone(p) /\ pc' = pc /\ blk' = blk  BY <1>5 DEF AllocBelow, procVars, Alone
 <2> QED  BY <1>1, <1>2, <2>1, SameSet DEF TakenBy, GivenBy
<1>6. CASE Update(p) \/ UpdateSkip(p) \/ UpdateWrite(p) \/ UpdateEnd(p)
 <2>1. PICK l \in {"updbuf", "upd", "idle"} : Goto(p, l, NoBlk)
   BY <1>6 DEF Update, UpdateSkip, UpdateWrite, UpdateEnd
 <2>2. pc[p] \in {"idle", "updbuf", "upd"}  BY <1>6 DEF Update, UpdateSkip, UpdateWrite, UpdateEnd
 <2>3. Alone(p) /\ pc'[p] = l  BY <2>1, Goes
 <2> QED  BY <1>1, <1>2, <2>2, <2>3, SameSet DEF TakenBy, GivenBy
<1> QED  BY <1>3, <1>4, <1>5, <1>6

\* Alloc and Free on the chain of groups are those of a set, for any processes and blocks
\* and any size of the stack: Alloc takes a free block, and fails only if there is none.
THEOREM ChainImplementsSet == Spec => ImplementsFreeSet
<1>1. Init => FreeSet_!Init
 <2> SUFFICES ASSUME Init PROVE FreeSet_!Init  OBVIOUS
 <2>1. ChainInv /\ IndInv /\ \A p \in Procs : pc[p] = "idle"  BY InitChain, InitInd DEF Init
 <2>2. Avail \subseteq Blocks /\ used = Blocks /\ Avail \cap used = {}
  <3>1. PICK l \in Lists : Avail = Reach(group, l)  BY <2>1, RootOf DEF Known, ChainInv
  <3> QED  BY <2>1, <3>1 DEF Reach, Init, ChainInv, Parts
 <2>3. Avail = {}  BY <2>2
 <2> QED  BY <2>1, <2>3 DEF Init, FreeSet_!Init, Taken, Given
<1>2. IndInv /\ IndInv' /\ ChainInv /\ SavedInv /\ [Next]_vars => SetStep
 <2> SUFFICES ASSUME IndInv, IndInv', ChainInv, SavedInv, [Next]_vars PROVE SetStep  OBVIOUS
 <2>1. CASE UNCHANGED vars
  <3>1. /\ sfree' = sfree /\ group' = group /\ used' = used /\ pc' = pc /\ blk' = blk
        /\ full' = full
    BY <2>1 DEF vars, tableVars, procVars
  <3>2. Avail' = Avail /\ Taken' = Taken /\ Given' = Given
    BY <3>1 DEF Avail, InHand, Chained, Closed, Taken, Given
  <3> QED  BY <3>1, <3>2 DEF SetStep, SetVars
 <2>2. ASSUME NEW p \in Procs, Alloc(p) \/ Free(p) \/ Sync(p) PROVE SetStep
   BY <2>2, TakeSet, KeepSet, FailSet, DropSet, PushSet, GiveSet, StutterSet
      DEF Alloc, Free, Sync
 <2> QED  BY <2>1, <2>2 DEF Next, Undefined
<1>3. SetStep => [FreeSet_!Next]_FreeSet_!fvars  BY DEF SetStep, SetVars, FreeSet_!fvars
<1> QED  BY <1>1, <1>2, <1>3, Invariance, ChainKept, PTL DEF Spec, ImplementsFreeSet, FreeSet_!Spec
==============================================================================
