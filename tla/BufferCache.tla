----------------------------- MODULE BufferCache -----------------------------
(***************************************************************************)
(* The buffer cache of UNIX V6++ (src/src/dev/BufferManager.cpp) with the  *)
(* request queue of the disk (BlockDevice.cpp) and the disk interrupt      *)
(* (ATADriver.cpp).                                                        *)
(*                                                                         *)
(* The kernel is not preemptive: a process that runs in the kernel keeps   *)
(* the processor (cpu) until it sleeps or goes back to user mode.  The     *)
(* disk interrupt is the only other actor, and comes between any two steps *)
(* of a process.  What a process does between two points where an          *)
(* interrupt could change its course is one step.                          *)
(***************************************************************************)
EXTENDS Integers, Sequences, SequencesExt

CONSTANTS Procs,       \* the processes that do block I/O
          NoProc,      \* the idle processor
          NBuf,        \* BufferManager::NBUF
          Blks,        \* the block numbers of the one disk
          NoBlk,       \* b_dev = NODEV, and "no block to read ahead"
          OutOfRange,  \* the block numbers not below ATABlockDevice::NSECTOR
          Vals,        \* what a block may contain
          Blank,       \* what the disk contains at first
          MaxCalls,    \* bound: calls the processes make, together
          RetryMax,    \* the 10 retries of ATAHandler
          MaxErr       \* bound: transfers the disk reports as failed

ASSUME BufferCacheAssumption ==
    /\ NoProc \notin Procs
    /\ NoBlk \notin Blks
    /\ OutOfRange \subseteq Blks
    /\ Blank \in Vals
    /\ {NBuf, MaxCalls, MaxErr} \subseteq Nat
    /\ RetryMax \in Nat \ {0}

Bufs == 1..NBuf
NoBuf == 0
FreeChan == -1     \* the sleep channel &bFreeList; a buffer is its own channel

Flags == {"READ", "DONE", "ERROR", "BUSY", "WANTED", "ASYNC", "DELWRI"}
PCs == {"idle", "getblk", "got", "ra", "getra", "gotra", "iowait", "have",
        "wwait", "flush"}

VARIABLES
    tag,        \* b_dev and b_blkno: the block a buffer stands for
    flags,      \* b_flags
    data,       \* the 512 bytes at b_addr
    free,       \* the free list, from bFreeList.av_forw to bFreeList.av_back
    freeWanted, \* B_WANTED of bFreeList
    ioq,        \* the request queue, from d_actf to d_actl
    active,     \* d_active: the controller works on Head(ioq)
    errcnt,     \* d_errcnt
    inService,  \* the 8259A pair still holds IRQ14 in service: no EOI was sent
    disk,       \* what the sectors contain
    faults,     \* how many transfers failed so far
    cpu,        \* the process in the kernel
    wchan,      \* p_wchan of a sleeping process
    pc, op, blk, rablk,  \* where a process is, its call and the arguments
    bp, abp,    \* the buffers it got from GetBlk
    uerror,     \* u_error = EIO
    calls       \* how many calls were made

bufVars == <<tag, flags, data, free, freeWanted>>
devVars == <<ioq, active, errcnt, inService, disk, faults>>
procVars == <<cpu, wchan, pc, op, blk, rablk, bp, abp, uerror, calls>>
vars == <<bufVars, devVars, procVars>>
-----------------------------------------------------------------------------
(* BufferManager::Initialize releases the buffers one by one; none of them *)
(* stands for a block.                                                     *)
Init ==
    /\ tag = [b \in Bufs |-> NoBlk]
    /\ flags = [b \in Bufs |-> {}]
    /\ data = [b \in Bufs |-> Blank]
    /\ free = [i \in 1..NBuf |-> i]
    /\ freeWanted = FALSE
    /\ ioq = <<>>
    /\ active = FALSE
    /\ errcnt = 0
    /\ inService = FALSE
    /\ disk = [k \in Blks |-> Blank]
    /\ faults = 0
    /\ cpu = NoProc
    /\ wchan = [p \in Procs |-> NoBuf]
    /\ pc = [p \in Procs |-> "idle"]
    /\ op = [p \in Procs |-> "none"]
    /\ blk = [p \in Procs |-> NoBlk]
    /\ rablk = [p \in Procs |-> NoBlk]
    /\ bp = [p \in Procs |-> NoBuf]
    /\ abp = [p \in Procs |-> NoBuf]
    /\ uerror = [p \in Procs |-> FALSE]
    /\ calls = 0
-----------------------------------------------------------------------------
(* Helpers.  Each gives the next value of one part of the state.           *)

\* ProcessManager::WakeUpAll on every channel of chans
WakeUpAll(chans) == wchan' = [q \in Procs |-> IF wchan[q] \in chans THEN NoBuf
                                                              ELSE wchan[q]]

\* Process::Sleep at PRIBIO: no signal ends it, and the processor is given up
Sleep(p, chan) == /\ wchan' = [wchan EXCEPT ![p] = chan]
                  /\ cpu' = NoProc

\* InCore: is there a buffer for block k?
InCoreFree(k) == \E b \in Bufs : tag[b] = k /\ "BUSY" \notin flags[b]   \* a mutant
InCore(k) == \E b \in Bufs : tag[b] = k

\* NotAvail: the free list without b
UnlinkedHead(b) == Tail(free)                                        \* a mutant
Unlinked(b) == LET i == CHOOSE i \in DOMAIN free : free[i] = b
               IN  RemoveAt(free, i)

\* Whom Brelse wakes
BrelseWakesBuf(b, f) == {c \in {b} : "WANTED" \in f[c]}                \* a mutant
BrelseWakes(b, f) == {c \in {b} : "WANTED" \in f[c]}
                        \cup (IF freeWanted THEN {FreeChan} ELSE {})

\* Brelse of b, whose flags are f[b]; fr is the free list before
Brelse(b, f, fr) ==
    /\ WakeUpAll(BrelseWakes(b, f))
    /\ freeWanted' = FALSE
    \* Utility::SetMinor returns the new number, and Brelse drops it:
    \* b_dev does not change when B_ERROR is set
    /\ flags' = [f EXCEPT ![b] = f[b] \ {"WANTED", "BUSY", "ASYNC"}]
    /\ free' = Append(fr, b)

\* IODone of b, whose flags are f[b].  A mutant: every buffer is let go
IODoneReleases(b, f, fr) ==
    /\ WakeUpAll({b} \cup BrelseWakes(b, f))
    /\ freeWanted' = FALSE
    /\ flags' = [f EXCEPT ![b] = (f[b] \cup {"DONE"}) \ {"WANTED", "BUSY", "ASYNC"}]
    /\ free' = Append(fr, b)
IODone(b, f, fr) ==
    LET g == [f EXCEPT ![b] = f[b] \cup {"DONE"}]
    IN  IF "ASYNC" \in f[b]
        THEN Brelse(b, g, fr)
        ELSE /\ WakeUpAll({b})
             /\ flags' = [g EXCEPT ![b] = g[b] \ {"WANTED"}]
             /\ free' = fr
             /\ UNCHANGED freeWanted

\* ATABlockDevice::Strategy and Start
Strategy(b, f, fr) ==
    \/ /\ tag[b] \in OutOfRange
       /\ IODone(b, [f EXCEPT ![b] = f[b] \cup {"ERROR"}], fr)
       /\ UNCHANGED devVars
    \/ /\ tag[b] \notin OutOfRange
       /\ flags' = f
       /\ free' = fr
       /\ ioq' = Append(ioq, b)
       /\ active' = TRUE
       /\ UNCHANGED <<freeWanted, errcnt, inService, disk, faults, wchan>>

\* Bwrite of b up to its call of Strategy; x are the flags its caller adds.
\* Two mutants: B_ASYNC forgotten, B_READ kept
WriteFlagsSync(b, x) == [flags EXCEPT ![b] =
    (flags[b] \cup (x \ {"ASYNC"})) \ {"READ", "DONE", "ERROR", "DELWRI"}]
WriteFlagsRead(b, x) == [flags EXCEPT ![b] =
    (flags[b] \cup x) \ {"DONE", "ERROR", "DELWRI"}]
WriteFlags(b, x) == [flags EXCEPT ![b] =
    (flags[b] \cup x) \ {"READ", "DONE", "ERROR", "DELWRI"}]
-----------------------------------------------------------------------------
(* A process in the kernel.                                                *)

\* p is awake, and has the processor or may take it
Runs(p) == wchan[p] = NoBuf /\ cpu \in {p, NoProc}

\* p goes back to user mode, its call is over, and any process may be next
Return(p) == /\ pc' = [pc EXCEPT ![p] = "idle"]
             /\ op' = [op EXCEPT ![p] = "none"]
             /\ blk' = [blk EXCEPT ![p] = NoBlk]
             /\ rablk' = [rablk EXCEPT ![p] = NoBlk]
             /\ bp' = [bp EXCEPT ![p] = NoBuf]
             /\ uerror' = [uerror EXCEPT ![p] = FALSE]
             /\ cpu' = NoProc

GoTo(p, l) == /\ pc' = [pc EXCEPT ![p] = l]
              /\ cpu' = p

(* The calls.  "read" is Bread, "reada" is Breada, "new" is GetBlk for a   *)
(* block that is overwritten without being read, "flush" is Bflush.        *)
Call(p, o, k, r) ==
    /\ Runs(p) /\ pc[p] = "idle" /\ calls < MaxCalls
    /\ calls' = calls + 1
    /\ op' = [op EXCEPT ![p] = o]
    /\ blk' = [blk EXCEPT ![p] = k]
    /\ rablk' = [rablk EXCEPT ![p] = r]
    /\ uerror' = [uerror EXCEPT ![p] = FALSE]
    /\ GoTo(p, IF o = "flush" THEN "flush" ELSE "getblk")
    /\ UNCHANGED <<bufVars, devVars, wchan, bp, abp>>

CallRead(p) == \E k \in Blks : Call(p, "read", k, NoBlk)
CallNew(p) == \E k \in Blks : Call(p, "new", k, NoBlk)
\* Breada gives up the read-ahead when the block itself is in the cache:
\* what is left is Bread
CallReada(p) == \E k, r \in Blks :
    /\ k # r
    /\ IF InCore(k) THEN Call(p, "read", k, NoBlk) ELSE Call(p, "reada", k, r)
CallFlush(p) == Call(p, "flush", NoBlk, NoBlk)
-----------------------------------------------------------------------------
(* GetBlk, for the block itself and for the block read ahead.              *)

InGetBlk(p) == Runs(p) /\ pc[p] \in {"getblk", "getra"}
Target(p) == IF pc[p] = "getblk" THEN blk[p] ELSE rablk[p]

\* GetBlk returns b
Got(p, b) ==
    /\ IF pc[p] = "getblk" THEN /\ bp' = [bp EXCEPT ![p] = b]
                                /\ UNCHANGED abp
                           ELSE /\ abp' = [abp EXCEPT ![p] = b]
                                /\ UNCHANGED bp
    /\ GoTo(p, IF pc[p] = "getblk" THEN "got" ELSE "gotra")

\* The block is in the cache and nobody uses it
GetBlkHit(p) == \E b \in Bufs :
    /\ InGetBlk(p)
    /\ tag[b] = Target(p) /\ "BUSY" \notin flags[b]
    /\ free' = Unlinked(b)
    /\ flags' = [flags EXCEPT ![b] = @ \cup {"BUSY"}]
    /\ Got(p, b)
    /\ UNCHANGED <<tag, data, freeWanted, devVars, wchan, op, blk, rablk, uerror, calls>>

\* The block is in the cache and in use: wait for it, then search again
GetBlkBusy(p) == \E b \in Bufs :
    /\ InGetBlk(p)
    /\ tag[b] = Target(p) /\ "BUSY" \in flags[b]
    /\ flags' = [flags EXCEPT ![b] = @ \cup {"WANTED"}]
    /\ Sleep(p, b)
    /\ UNCHANGED <<tag, data, free, freeWanted, devVars, pc, op, blk, rablk, bp, abp,
                   uerror, calls>>

\* No buffer is free: wait for one, then search again
GetBlkNone(p) ==
    /\ InGetBlk(p)
    /\ ~InCore(Target(p)) /\ free = <<>>
    /\ freeWanted' = TRUE
    /\ Sleep(p, FreeChan)
    /\ UNCHANGED <<tag, flags, data, free, devVars, pc, op, blk, rablk, bp, abp,
                   uerror, calls>>

\* The first free buffer has a delayed write: start it, then search again
GetBlkFlush(p) ==
    /\ InGetBlk(p)
    /\ ~InCore(Target(p)) /\ free # <<>>
    /\ LET b == Head(free)
       IN  /\ "DELWRI" \in flags[b]
           /\ Strategy(b, WriteFlags(b, {"BUSY", "ASYNC"}), Tail(free))
    /\ cpu' = p
    /\ UNCHANGED <<tag, data, pc, op, blk, rablk, bp, abp, uerror, calls>>

\* The first free buffer is given the new block
GetBlkClaim(p) ==
    /\ InGetBlk(p)
    /\ ~InCore(Target(p)) /\ free # <<>>
    /\ LET b == Head(free)
       IN  /\ "DELWRI" \notin flags[b]
           /\ free' = Tail(free)
           /\ flags' = [flags EXCEPT ![b] = {"BUSY"}]
           /\ tag' = [tag EXCEPT ![b] = Target(p)]
           /\ Got(p, b)
    /\ UNCHANGED <<data, freeWanted, devVars, wchan, op, blk, rablk, uerror, calls>>
-----------------------------------------------------------------------------
(* Bread and Breada.                                                       *)

\* After GetBlk: the block is valid, or will be overwritten, or is read
Gotten(p) ==
    LET b == bp[p]
        valid == op[p] = "new" \/ "DONE" \in flags[b]
    IN  /\ Runs(p) /\ pc[p] = "got"
        /\ IF valid THEN UNCHANGED <<flags, free, freeWanted, devVars, wchan>>
                    ELSE Strategy(b, [flags EXCEPT ![b] = @ \cup {"READ"}], free)
        /\ GoTo(p, IF op[p] = "reada" THEN "ra" ELSE IF valid THEN "have" ELSE "iowait")
        /\ UNCHANGED <<tag, data, op, blk, rablk, bp, abp, uerror, calls>>

\* Breada looks for the second block while it holds the first
ReadAhead(p) ==
    /\ Runs(p) /\ pc[p] = "ra"
    /\ GoTo(p, IF InCore(rablk[p]) THEN "iowait" ELSE "getra")
    /\ UNCHANGED <<bufVars, devVars, wchan, op, blk, rablk, bp, abp, uerror, calls>>

\* The buffer for the read-ahead is let go at once, or by the interrupt
GottenAhead(p) ==
    LET b == abp[p]
    IN  /\ Runs(p) /\ pc[p] = "gotra"
        /\ IF "DONE" \in flags[b]
           THEN /\ Brelse(b, flags, free)
                /\ UNCHANGED devVars
           ELSE Strategy(b, [flags EXCEPT ![b] = @ \cup {"READ", "ASYNC"}], free)
        /\ abp' = [abp EXCEPT ![p] = NoBuf]
        /\ GoTo(p, "iowait")
        /\ UNCHANGED <<tag, data, op, blk, rablk, bp, uerror, calls>>

\* IOWait of a read, and GetError
IOWaitRead(p) ==
    /\ Runs(p) /\ pc[p] = "iowait"
    /\ IF "DONE" \in flags[bp[p]]
       THEN /\ GoTo(p, "have")
            /\ uerror' = [uerror EXCEPT ![p] = @ \/ "ERROR" \in flags[bp[p]]]
            /\ UNCHANGED wchan
       ELSE /\ Sleep(p, bp[p])
            /\ UNCHANGED <<pc, uerror>>
    /\ UNCHANGED <<bufVars, devVars, op, blk, rablk, bp, abp, calls>>
-----------------------------------------------------------------------------
(* What the caller does with the buffer: it lets it go, or changes it and  *)
(* writes it in one of three ways, whether or not the read failed (IUpdate *)
(* for one does not look at u_error).                                      *)

Has(p) == Runs(p) /\ pc[p] = "have"
Changed(p, v) == /\ Has(p) /\ v # data[bp[p]]
                 /\ data' = [data EXCEPT ![bp[p]] = v]

Release(p) ==
    /\ Has(p)
    /\ Brelse(bp[p], flags, free)
    /\ Return(p)
    /\ UNCHANGED <<tag, data, devVars, abp, calls>>

\* Bwrite up to IOWait
Bwrite(p) == \E v \in Vals :
    /\ Changed(p, v)
    /\ Strategy(bp[p], WriteFlags(bp[p], {}), free)
    /\ GoTo(p, "wwait")
    /\ UNCHANGED <<tag, op, blk, rablk, bp, abp, uerror, calls>>

\* IOWait of a synchronous write, and Brelse; GetError tells the caller, whose
\* call ends here
IOWaitWrite(p) ==
    /\ Runs(p) /\ pc[p] = "wwait"
    /\ IF "DONE" \in flags[bp[p]]
       THEN /\ Brelse(bp[p], flags, free)
            /\ Return(p)
       ELSE /\ Sleep(p, bp[p])
            /\ UNCHANGED <<flags, free, freeWanted, pc, op, blk, rablk, bp, uerror>>
    /\ UNCHANGED <<tag, data, devVars, abp, calls>>

Bawrite(p) == \E v \in Vals :
    /\ Changed(p, v)
    /\ Strategy(bp[p], WriteFlags(bp[p], {"ASYNC"}), free)
    /\ Return(p)
    /\ UNCHANGED <<tag, abp, calls>>

Bdwrite(p) == \E v \in Vals :
    /\ Changed(p, v)
    /\ Brelse(bp[p], [flags EXCEPT ![bp[p]] = @ \cup {"DELWRI", "DONE"}], free)
    /\ Return(p)
    /\ UNCHANGED <<tag, devVars, abp, calls>>
-----------------------------------------------------------------------------
(* Bflush: every turn of the loop starts the first delayed write.          *)

DelayedAt(i) == /\ "DELWRI" \in flags[free[i]]
                /\ \A j \in 1..(i - 1) : "DELWRI" \notin flags[free[j]]

BflushOne(p) == \E i \in DOMAIN free :
    /\ Runs(p) /\ pc[p] = "flush"
    /\ DelayedAt(i)
    /\ Strategy(free[i], WriteFlags(free[i], {"BUSY", "ASYNC"}), RemoveAt(free, i))
    /\ cpu' = p
    /\ UNCHANGED <<tag, data, pc, op, blk, rablk, bp, abp, uerror, calls>>

BflushEnd(p) ==
    /\ Runs(p) /\ pc[p] = "flush"
    /\ \A i \in DOMAIN free : "DELWRI" \notin flags[free[i]]
    /\ Return(p)
    /\ UNCHANGED <<bufVars, devVars, wchan, abp, calls>>
-----------------------------------------------------------------------------
(* The disk finishes a transfer, and ATAHandler runs.  The interrupt comes *)
(* only if the 8259A pair got an EOI for the previous one.                 *)

Interrupt == active /\ ~inService

DiskOk ==
    LET b == Head(ioq)
    IN  /\ Interrupt
        /\ IF "READ" \in flags[b]
           THEN /\ data' = [data EXCEPT ![b] = disk[tag[b]]]
                /\ UNCHANGED disk
           ELSE /\ disk' = [disk EXCEPT ![tag[b]] = data[b]]
                /\ UNCHANGED data
        /\ errcnt' = 0
        /\ ioq' = Tail(ioq)
        /\ IODone(b, flags, free)
        /\ active' = (Tail(ioq) # <<>>)
        /\ UNCHANGED <<tag, inService, faults, cpu, pc, op, blk, rablk, bp, abp,
                       uerror, calls>>

DiskFault ==
    LET b == Head(ioq)
    IN  /\ Interrupt /\ faults < MaxErr
        /\ faults' = faults + 1
        /\ IF errcnt < RetryMax
           THEN \* started again, but the handler returns before the EOI
                /\ errcnt' = errcnt + 1
                /\ inService' = TRUE
                /\ UNCHANGED <<ioq, active, flags, free, freeWanted, wchan>>
           ELSE /\ errcnt' = 0
                /\ ioq' = Tail(ioq)
                /\ IODone(b, [flags EXCEPT ![b] = @ \cup {"ERROR"}], free)
                /\ active' = (Tail(ioq) # <<>>)
                /\ UNCHANGED inService
        /\ UNCHANGED <<tag, data, disk, cpu, pc, op, blk, rablk, bp, abp, uerror, calls>>
-----------------------------------------------------------------------------
Step(p) ==
    \/ CallRead(p) \/ CallNew(p) \/ CallReada(p) \/ CallFlush(p)
    \/ GetBlkHit(p) \/ GetBlkBusy(p) \/ GetBlkNone(p)
    \/ GetBlkFlush(p) \/ GetBlkClaim(p)
    \/ Gotten(p) \/ ReadAhead(p) \/ GottenAhead(p) \/ IOWaitRead(p)
    \/ Release(p) \/ Bwrite(p) \/ IOWaitWrite(p) \/ Bawrite(p) \/ Bdwrite(p)
    \/ BflushOne(p) \/ BflushEnd(p)

\* All calls were made and are over
Finished == /\ \A p \in Procs : pc[p] = "idle"
            /\ calls = MaxCalls /\ ~active
            /\ UNCHANGED vars

\* After a fault no disk interrupt comes, and everybody waits for one
Hung == /\ inService /\ cpu = NoProc
        /\ \A p \in Procs : wchan[p] # NoBuf \/ (pc[p] = "idle" /\ calls = MaxCalls)
        /\ UNCHANGED vars

\* Every buffer is kept by a Breada that asks for a second one
Starved == \A b \in Bufs : \E p \in Procs : pc[p] = "getra" /\ bp[p] = b

\* The cache is starved, and everybody waits for a buffer
Stuck == /\ Starved /\ cpu = NoProc /\ ~active
         /\ \A p \in Procs : wchan[p] # NoBuf \/ (pc[p] = "idle" /\ calls = MaxCalls)
         /\ UNCHANGED vars

Next == (\E p \in Procs : Step(p)) \/ DiskOk \/ DiskFault \/ Finished \/ Hung \/ Stuck

Spec == Init /\ [][Next]_vars

(* The disk answers, and a process that may run is some day run: Swtch     *)
(* picks the ready process of best priority, and priorities age.           *)
Fairness == WF_vars(DiskOk) /\ \A p \in Procs : WF_vars(Step(p))
FairSpec == Spec /\ Fairness
-----------------------------------------------------------------------------
(* Properties.                                                             *)

TypeOK ==
    /\ tag \in [Bufs -> Blks \cup {NoBlk}]
    /\ flags \in [Bufs -> SUBSET Flags]
    /\ data \in [Bufs -> Vals]
    /\ free \in Seq(Bufs)
    /\ freeWanted \in BOOLEAN
    /\ ioq \in Seq(Bufs)
    /\ active \in BOOLEAN
    /\ errcnt \in Nat
    /\ inService \in BOOLEAN
    /\ disk \in [Blks -> Vals]
    /\ faults \in Nat
    /\ cpu \in Procs \cup {NoProc}
    /\ wchan \in [Procs -> Bufs \cup {NoBuf, FreeChan}]
    /\ pc \in [Procs -> PCs]
    /\ op \in [Procs -> {"none", "read", "new", "reada", "flush"}]
    /\ blk \in [Procs -> Blks \cup {NoBlk}]
    /\ rablk \in [Procs -> Blks \cup {NoBlk}]
    /\ bp \in [Procs -> Bufs \cup {NoBuf}]
    /\ abp \in [Procs -> Bufs \cup {NoBuf}]
    /\ uerror \in [Procs -> BOOLEAN]
    /\ calls \in Nat

\* A block has one buffer at most, however often GetBlk slept and searched again
OneBufferPerBlock == \A b, c \in Bufs :
    tag[b] = tag[c] /\ tag[b] # NoBlk => b = c

\* The free list, which processes and the interrupt change, holds exactly the
\* buffers that are not B_BUSY, each once
FreeListExact ==
    /\ IsInjective(free)
    /\ ToSet(free) = {b \in Bufs : "BUSY" \notin flags[b]}

\* Process p got b from GetBlk and did not let it go
Keeps(p, b) == b \in {bp[p], abp[p]}
InFlight(b) == b \in ToSet(ioq)

\* A busy buffer has one keeper: one process, or the request queue when the
\* request is asynchronous, and nobody keeps a free buffer.
OneKeeper ==
    /\ \A p, q \in Procs, b \in Bufs : Keeps(p, b) /\ Keeps(q, b) => p = q
    /\ \A b \in Bufs : "BUSY" \in flags[b] <=>
          \/ \E p \in Procs : Keeps(p, b)
          \/ InFlight(b) /\ "ASYNC" \in flags[b]
    /\ \A p \in Procs, b \in Bufs : Keeps(p, b) => "ASYNC" \notin flags[b]

\* Whoever sleeps is going to be woken: the flag that Brelse looks at is set, or
\* the transfer that IODone ends is still to come
NoLostWakeup == \A p \in Procs :
    /\ wchan[p] = FreeChan => freeWanted /\ free = <<>>
    /\ wchan[p] \in Bufs =>
          \/ pc[p] \in {"getblk", "getra"} /\ {"BUSY", "WANTED"} \subseteq flags[wchan[p]]
          \/ pc[p] \in {"iowait", "wwait"} /\ bp[p] = wchan[p] /\ InFlight(wchan[p])
                /\ "DONE" \notin flags[wchan[p]]

\* Every call of the cache ends, unless the disk reports a fault or the cache is
\* starved: Breada keeps its first buffer while it sleeps for a second, and when
\* every buffer is kept so, nobody is left to let one go
EveryCallReturns == \A p \in Procs :
    pc[p] # "idle" ~> pc[p] = "idle" \/ faults > 0 \/ Starved

\* A starved cache stays starved: the interrupt still ends the reads of the first
\* blocks, but no process gets a buffer or lets one go
StarvedForGood == [][Starved => Starved']_vars
-----------------------------------------------------------------------------
(* The cache implements BlockStore, for the blocks the disk has.           *)

CONSTANT NoVal

Sound == Blks \ OutOfRange

\* The contents of b are those of its block: read, written or being written
Valid(b) == "DONE" \in flags[b] \/ (InFlight(b) /\ "READ" \notin flags[b])

StoreOf(k) == IF \E b \in Bufs : tag[b] = k /\ Valid(b)
              THEN data[CHOOSE b \in Bufs : tag[b] = k]
              ELSE disk[k]

HolderOf(k) == IF \E p \in Procs : pc[p] = "have" /\ blk[p] = k
               THEN CHOOSE p \in Procs : pc[p] = "have" /\ blk[p] = k
               ELSE NoProc

SeenBy(p) == IF pc[p] = "have" /\ op[p] # "new" /\ blk[p] \in Sound
             THEN data[bp[p]]
             ELSE NoVal

Store == INSTANCE BlockStore WITH
    Blks   <- Sound,
    store  <- [k \in Sound |-> StoreOf(k)],
    holder <- [k \in Sound |-> HolderOf(k)],
    seen   <- [p \in Procs |-> SeenBy(p)]

\* Whoever reads a block sees the last write to it, whether that write was
\* synchronous, asynchronous or delayed, and has the block alone
ImplementsBlockStore == Store!Spec
==============================================================================
