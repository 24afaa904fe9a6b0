----------------------------- MODULE FreeBlocks ------------------------------
(***************************************************************************)
(* The free blocks of the file system (src/src/fs/FileSystem.cpp: Alloc,   *)
(* Free, and the superblock's part of Update).  The superblock in memory   *)
(* has a stack of up to s_free[100] blocks; the block at its bottom holds  *)
(* the next group of 100, and so on down to a 0.                           *)
(*                                                                         *)
(* Interrupts do not touch the superblock and the kernel is not            *)
(* preemptive, so a step of a process goes from one point where it may     *)
(* sleep (in the cache, or for s_flock) to the next.                       *)
(***************************************************************************)
EXTENDS Integers, Sequences, FiniteSets

CONSTANTS Procs,    \* the processes that allocate, free and sync
          Blocks,   \* the blocks of the data zone
          NoBlk,    \* block number 0, the end of the chain
          Cap       \* the 100 entries of s_free

ASSUME FreeBlocksAssumption ==
    /\ NoBlk \notin Blocks
    /\ IsFiniteSet(Blocks)
    /\ Cap \in Nat /\ Cap >= 2

PCs == {"idle", "allocwait", "allocread", "allocgot",
        "freewait", "freebuf", "freewrite", "updbuf", "upd"}
Lists == {l \in Seq(Blocks \cup {NoBlk}) : Len(l) <= Cap}

VARIABLES
    sfree,    \* s_free[0 .. s_nfree - 1], the top last
    flock,    \* s_flock
    fmod,     \* s_fmod
    group,    \* the s_nfree and s_free that a block contains, <<>> if it has other data
    saved,    \* sfree in the superblock on disk
    updlock,  \* updlock
    used,     \* the blocks of files
    wild,     \* Alloc has read s_free[-1]
    pc, blk,  \* where a process is, blkno
    asleep,   \* does it sleep for s_flock?
    full      \* ENOSPC

tableVars == <<sfree, flock, fmod, group>>
diskVars == <<saved, updlock>>
procVars == <<pc, blk, asleep, full>>
vars == <<tableVars, diskVars, used, wild, procVars>>

\* Files have all blocks: the superblock, in memory and on disk, has the 0 alone
Init ==
    /\ sfree = <<NoBlk>>
    /\ flock = FALSE
    /\ fmod = FALSE
    /\ group = [b \in Blocks |-> <<>>]
    /\ saved = sfree
    /\ updlock = FALSE
    /\ used = Blocks
    /\ wild = FALSE
    /\ pc = [p \in Procs |-> "idle"]
    /\ blk = [p \in Procs |-> NoBlk]
    /\ asleep = [p \in Procs |-> FALSE]
    /\ full = [p \in Procs |-> FALSE]
-----------------------------------------------------------------------------
(* Helpers.                                                                *)

Top == sfree[Len(sfree)]
Popped == SubSeq(sfree, 1, Len(sfree) - 1)
Goto(p, l, b) == /\ pc' = [pc EXCEPT ![p] = l]
                 /\ blk' = [blk EXCEPT ![p] = b]

UnlockedAlways == TRUE                                                \* a mutant
Unlocked == ~flock

UnlockSilently == flock' = FALSE /\ UNCHANGED asleep                  \* a mutant
\* s_flock = 0 and WakeUpAll(&s_flock)
Unlock == /\ flock' = FALSE
          /\ asleep' = [q \in Procs |-> FALSE]

\* A sleep on &s_flock; whoever wakes looks at the lock again
SleepFlock(p, l, b) == /\ flock
                       /\ Goto(p, l, b)
                       /\ asleep' = [asleep EXCEPT ![p] = TRUE]
-----------------------------------------------------------------------------
(* FileSystem::Alloc.                                                      *)

\* p calls Alloc, or was woken in it
AllocTurn(p) == ~asleep[p] /\ pc[p] \in {"idle", "allocwait"}

AllocWait(p) ==
    /\ AllocTurn(p)
    /\ SleepFlock(p, "allocwait", NoBlk)
    /\ UNCHANGED <<tableVars, diskVars, used, wild, full>>

\* The stack has more than the block that is taken
AllocTake(p) ==
    /\ AllocTurn(p) /\ Unlocked
    /\ Len(sfree) > 1
    /\ sfree' = Popped
    /\ Goto(p, "allocgot", Top)
    /\ full' = [full EXCEPT ![p] = FALSE]
    /\ UNCHANGED <<flock, fmod, group, diskVars, used, wild, asleep>>

\* The block that is taken has the next group: lock, and read it
AllocLast(p) ==
    /\ AllocTurn(p) /\ Unlocked
    /\ Len(sfree) = 1 /\ Top # NoBlk
    /\ sfree' = <<>>
    /\ flock' = TRUE
    /\ Goto(p, "allocread", Top)
    /\ full' = [full EXCEPT ![p] = FALSE]
    /\ UNCHANGED <<fmod, group, diskVars, used, wild, asleep>>

GroupOfAllButOne(b) == IF Len(group[b]) > 1 THEN Tail(group[b]) ELSE group[b]  \* a mutant
\* The group of free blocks that block b contains
GroupOf(b) == group[b]

AllocRead(p) ==
    /\ pc[p] = "allocread"
    /\ sfree' = GroupOf(blk[p])
    /\ Unlock
    /\ Goto(p, "allocgot", blk[p])
    /\ UNCHANGED <<fmod, group, diskVars, used, wild, full>>

\* GetBlk, ClrBuf; the caller puts the block into its file
AllocEnd(p) ==
    /\ pc[p] = "allocgot"
    /\ group' = [group EXCEPT ![blk[p]] = <<>>]
    /\ fmod' = TRUE
    /\ used' = used \cup {blk[p]}
    /\ Goto(p, "idle", NoBlk)
    /\ UNCHANGED <<sfree, flock, diskVars, wild, asleep, full>>

\* The 0 at the end of the chain
AllocFull(p) ==
    /\ AllocTurn(p) /\ Unlocked
    /\ Len(sfree) = 1 /\ Top = NoBlk
    /\ sfree' = <<>>
    /\ Goto(p, "idle", NoBlk)
    /\ full' = [full EXCEPT ![p] = TRUE]
    /\ UNCHANGED <<flock, fmod, group, diskVars, used, wild, asleep>>

\* After AllocFull s_nfree is 0, and Alloc reads s_free[-1]; BadBlock checks
\* nothing.  What follows is not defined: the model ends here.
AllocBelow(p) ==
    /\ AllocTurn(p) /\ Unlocked
    /\ sfree = <<>>
    /\ wild' = TRUE
    /\ UNCHANGED <<tableVars, diskVars, used, procVars>>
-----------------------------------------------------------------------------
(* FileSystem::Free of a block that ITrunc takes from a file.              *)

FreeTurn(p, b) == /\ ~asleep[p]
                  /\ \/ pc[p] = "idle" /\ b \in used
                     \/ pc[p] = "freewait" /\ b = blk[p]

FreeWait(p, b) ==
    /\ FreeTurn(p, b)
    /\ SleepFlock(p, "freewait", b)
    /\ used' = used \ {b}
    /\ fmod' = (fmod \/ pc[p] = "idle")
    /\ UNCHANGED <<sfree, flock, group, diskVars, wild, full>>

\* s_nfree = 0: b is the first free block
Stack == IF sfree = <<>> THEN <<NoBlk>> ELSE sfree

StackFull == Len(Stack) >= Cap

FreePush(p, b) ==
    /\ FreeTurn(p, b) /\ Unlocked
    /\ ~StackFull
    /\ sfree' = Append(Stack, b)
    /\ fmod' = TRUE
    /\ used' = used \ {b}
    /\ Goto(p, "idle", NoBlk)
    /\ UNCHANGED <<flock, group, diskVars, wild, asleep, full>>

\* The stack goes into b: lock, GetBlk
FreeSpill(p, b) ==
    /\ FreeTurn(p, b) /\ Unlocked
    /\ StackFull
    /\ flock' = TRUE
    /\ fmod' = (fmod \/ pc[p] = "idle")
    /\ used' = used \ {b}
    /\ Goto(p, "freebuf", b)
    /\ UNCHANGED <<sfree, group, diskVars, wild, asleep, full>>

\* Bwrite
FreeWrite(p) ==
    /\ pc[p] = "freebuf"
    /\ group' = [group EXCEPT ![blk[p]] = sfree]
    /\ sfree' = <<>>
    /\ Goto(p, "freewrite", blk[p])
    /\ UNCHANGED <<flock, fmod, diskVars, used, wild, asleep, full>>

\* b alone is the new stack
FreeEnd(p) ==
    /\ pc[p] = "freewrite"
    /\ sfree' = <<blk[p]>>
    /\ Unlock
    /\ fmod' = TRUE
    /\ Goto(p, "idle", NoBlk)
    /\ UNCHANGED <<group, diskVars, used, wild, full>>
-----------------------------------------------------------------------------
(* FileSystem::Update, as called by sync.  The inodes, the second half of  *)
(* the superblock and Bflush are the steps from "upd" to "idle".           *)

\* s_fmod is cleared first; then GetBlk may sleep
Update(p) ==
    /\ pc[p] = "idle" /\ ~updlock
    /\ updlock' = TRUE
    /\ fmod /\ ~flock
    /\ fmod' = FALSE
    /\ Goto(p, "updbuf", NoBlk)
    /\ UNCHANGED <<sfree, flock, group, saved, used, wild, asleep, full>>

\* Nothing changed, or locked (s_ilock, which is not modelled, among the locks)
UpdateSkip(p) ==
    /\ pc[p] = "idle" /\ ~updlock
    /\ updlock' = TRUE
    /\ Goto(p, "upd", NoBlk)
    /\ UNCHANGED <<tableVars, saved, used, wild, asleep, full>>

\* The superblock goes into the buffer, as it is by now
UpdateWrite(p) ==
    /\ pc[p] = "updbuf"
    /\ saved' = sfree
    /\ Goto(p, "upd", NoBlk)
    /\ UNCHANGED <<tableVars, updlock, used, wild, asleep, full>>

UpdateEnd(p) ==
    /\ pc[p] = "upd"
    /\ updlock' = FALSE
    /\ Goto(p, "idle", NoBlk)
    /\ UNCHANGED <<tableVars, saved, used, wild, asleep, full>>
-----------------------------------------------------------------------------
Alloc(p) == \/ AllocWait(p) \/ AllocTake(p) \/ AllocLast(p) \/ AllocRead(p)
            \/ AllocEnd(p) \/ AllocFull(p) \/ AllocBelow(p)

Free(p) == \/ \E b \in Blocks : FreeWait(p, b) \/ FreePush(p, b) \/ FreeSpill(p, b)
           \/ FreeWrite(p) \/ FreeEnd(p)

Sync(p) == Update(p) \/ UpdateSkip(p) \/ UpdateWrite(p) \/ UpdateEnd(p)

\* Nothing is known after s_free[-1] was read
Undefined == wild /\ UNCHANGED vars

Next == \/ ~wild /\ \E p \in Procs : Alloc(p) \/ Free(p) \/ Sync(p)
        \/ Undefined

Spec == Init /\ [][Next]_vars
-----------------------------------------------------------------------------
(* Properties.                                                             *)

\* The type of the state: the stack never has more than Cap entries.
TypeOK ==
    /\ sfree \in Lists
    /\ flock \in BOOLEAN /\ fmod \in BOOLEAN
    /\ group \in [Blocks -> Lists]
    /\ saved \in Lists
    /\ updlock \in BOOLEAN
    /\ used \subseteq Blocks
    /\ wild \in BOOLEAN
    /\ pc \in [Procs -> PCs]
    /\ blk \in [Procs -> Blocks \cup {NoBlk}]
    /\ asleep \in [Procs -> BOOLEAN]
    /\ full \in [Procs -> BOOLEAN]

\* The entries of a list, and the blocks that are reached from it over groups: those of
\* every set that has the list's entries and, with a block, those of its group
Entries(l) == {l[i] : i \in DOMAIN l} \ {NoBlk}
Closed(S) == \A b \in S : Entries(group[b]) \subseteq S
Chained(l) == {b \in Blocks : \A S \in SUBSET Blocks : Entries(l) \subseteq S /\ Closed(S) => b \in S}

\* The groups that are only reached through the block of a process: it has
\* written the stack to it, or is about to read it
InHand(p) == IF pc[p] \in {"allocread", "freewrite"} THEN Chained(group[blk[p]]) ELSE {}
Avail == Chained(sfree) \cup UNION {InHand(p) : p \in Procs}
HeldBy(p) == IF pc[p] \in {"allocread", "allocgot", "freewait", "freebuf", "freewrite"}
             THEN {blk[p]} ELSE {}

\* However the spills, the reads of groups and the waits for s_flock interleave, a
\* block is free, or in a file, or in the hands of one process: none of two, and
\* none is lost; and when s_fmod is clear and nobody is inside Alloc, Free or Update,
\* the superblock on disk has the free blocks of the one in memory, though Update
\* clears s_fmod, sleeps, and only then copies.
CleanIsSaved ==
    ~fmod /\ (\A p \in Procs : pc[p] \in {"idle", "upd"}) => Entries(saved) = Entries(sfree)
BlocksAccounted ==
    /\ CleanIsSaved
    /\ Avail \cup used \cup UNION {HeldBy(p) : p \in Procs} = Blocks
    /\ Avail \cap used = {}
    /\ \A p \in Procs : HeldBy(p) \cap (Avail \cup used) = {}
    /\ \A p, q \in Procs : p # q => HeldBy(p) \cap HeldBy(q) = {}

Holding(p) == pc[p] \in {"allocread", "freebuf", "freewrite"}

\* The state has its types, and one process has s_flock, and as long as anybody
\* sleeps for it: nobody waits for a lock that will not be given back.
OneHolder ==
    /\ flock <=> \E p \in Procs : Holding(p)
    /\ \A p, q \in Procs : Holding(p) /\ Holding(q) => p = q
    /\ \A p \in Procs : asleep[p] => flock
FlockHeld == TypeOK /\ OneHolder

\* Alloc and Free on the chain are those of a set: Alloc fails only if no block is
\* free.
Taken == [p \in Procs |-> IF pc[p] \in {"allocread", "allocgot"} THEN blk[p] ELSE NoBlk]
Given == [p \in Procs |-> IF pc[p] \in {"freewait", "freebuf", "freewrite"} THEN blk[p] ELSE NoBlk]
FreeSet_ == INSTANCE FreeSet WITH avail <- Avail, taken <- Taken, given <- Given
ImplementsFreeSet == FreeSet_!Spec
==============================================================================
