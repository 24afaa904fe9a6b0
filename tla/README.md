# UNIX V6++ in TLA+

UNIX V6++ is a teaching kernel: UNIX V6 rewritten in C++ for the PC (`src/src`),
with a small C library (`src/lib`), a shell (`src/shell`) and user programs
(`src/programs`).  This directory holds TLA+ models of it, the TLC
configurations that check them, and proofs for TLAPS.

Modelled are the buffer cache with the disk driver, the process table (fork, exit, wait, exec,
kill, signals, sleep), the free blocks of the file system, the table of inodes with the calls that
use it, open files and pipes, images in memory and on the swap area with the scheduler that moves
them, the terminal's input, the debugger (the stub in the kernel, those of the boot stages, and what
it shows of the disk), and the shell.  All are model-checked; what is proved for every size is in
section 13.  The plan for the rest is in section 16.

## 1. Inventory

The kernel runs on one processor and is not preemptive: a process in the kernel
keeps the processor until it calls `Process::Sleep` (or exits), or goes back to
user mode with `RunRun > 0`.  Interrupts (disk, clock, keyboard) come between any
two instructions of a process that has not closed them (`CLI`), never inside
each other except where a handler opens them again.  A process that waits sleeps
on a channel (an address), and `WakeUpAll` makes every sleeper of the channel
ready; a sleeper must look again at what it waited for.  So the hard behaviours
are: state read before a sleep and used after it, wake-ups that reach nobody,
what an interrupt does between two steps of a process, and locks held over a
sleep that a signal ends.

| Part | State | Operations | Hard part | What makes it correct |
|---|---|---|---|---|
| Buffer cache (`dev/BufferManager.cpp`) | `m_Buf[15]`: block, flags, data; free list; device queue | `GetBlk`, `Bread`, `Breada`, `Brelse`, `Bwrite`, `Bawrite`, `Bdwrite`, `Bflush`, `IOWait`, `IODone`, `Swap` | processes sleep for buffers and search again; buffers are released by the interrupt | one buffer per block; list and flags agree; one keeper per buffer; readers see the last write; no sleeper forgotten |
| Disk driver (`dev/BlockDevice.cpp`, `dev/ATADriver.cpp`) | request queue `d_actf..d_actl`, `d_active`, `d_errcnt` | `Strategy`, `Start`, `ATAHandler` | retries from the interrupt, EOI of the 8259A pair | every request is done, errors are told |
| Inodes in memory (`fs/OpenFileManager.cpp`, `fs/INode.cpp`) | `m_Inode[]`: number, count, `ILOCK`, `IWANT` | `IGet`, `IPut`, `NFlock`/`NFrele`, `Plock`/`Prele`, `ReadI`, `WriteI`, `Bmap`, `ITrunc`, `IUpdate` | locks over sleeps, on which channel, and signals | one entry per inode; who waits for a lock gets it; nobody leaves with the lock |
| File system on disk (`fs/FileSystem.cpp`) | superblock: `s_free`, `s_inode`, locks `s_flock`, `s_ilock`, `s_fmod` | `Alloc`, `Free`, `IAlloc`, `IFree`, `Update` | stacks that spill to disk while others wait; `sync` in two writes | a block is free or used, never both; no underflow |
| Open files, pipes, names (`fs/FileManager.cpp`, `fs/File.cpp`) | `File` table with `f_count`, descriptors, pipe offsets | `Open1`, `Close`, `Dup`, `Pipe`, `ReadP`, `WriteP`, `NameI` | counts shared by fork; error paths; reader and writer wake each other | counts equal references; bytes of a pipe in order; no sleeping pair |
| Processes and signals (`proc/Process.cpp`, `proc/ProcessManager.cpp`) | `process[100]`: `p_stat`, `p_pid`, `p_ppid`, `p_sig`, `p_wchan`; `u_signal` | `Fork`, `Exit`, `Wait`, `Exec`, `Kill`, `Ssig`, `PSignal`, `PSig`, `Sleep` | exit and wait sleep in the middle; signals from interrupts | no zombie forgotten, a kill kills, slots reused only when free |
| Scheduling and swapping (`ProcessManager.cpp`, `Text.cpp`) | `RunRun`, `CurPri`, `RunIn`, `RunOut`, `SLOAD`, `SLOCK`, shared text counts | `Swtch`, `Select`, `Sched`, `XSwap`, `Expand`, `Swap` | process 0 and the others sleep for each other; images move | memory and blocks have one holder; text is in memory while used; nobody sleeps for ever |
| Memory and swap maps (`mm/`) | arrays of (address, size) | `Alloc`, `Free` | merging with neighbours; sizes that are no multiple of a page | exactly the free units, merged |
| Terminal (`tty/`) | three rings, `t_delct` | `TTyInput` (interrupt), `Canon`, `TTRead`, `TTWrite`, `FlushTTy` | interrupt puts, process takes; delimiters and their count | count equals delimiters; lines in order |
| Clock (`interrupt/TimeInterrupt.cpp`) | `time`, `tout`, `lbolt` | `Clock`, `Sys_Sslep` | one alarm for all sleepers | everybody is woken in his second |
| Debugger stub (`debug/gdb`) | breakpoints, pending resume, range step, registers and trap frames | packets of GDB over COM1, `debugger_enter`, the serial interrupt | 0x03 and damaged bytes at any moment; several writers of one int3 | the program is never left changed; a breakpoint stops; every command is answered |
| Boot and its stubs (`boot/`, `main0`) | registers in a shadow, breakpoints, the kernel being loaded | the packets, `greatstart`, the loader | written in assembly; cut packets; hand-over to the kernel's stub | what it says is so; the program goes on as asked |
| Views of the disk (`debug/fs`, `debug/json`) | trace ring; nothing else of its own | block maps, directories, documents in chunks | raw reads beside a cache; documents rebuilt for every chunk | agrees with the kernel when nothing waits; a document arrives whole |
| Shell (`shell/`) | a tree of commands, an array of pipe ends per pipeline | parse, `fork`, `pipe`, `dup`, `exec`, `wait` | brackets and marks counted by position; ends inherited by children; `wait` returns for any child | the tree means what was typed; each program has the right ends; `;` waits |

Not modelled: layouts of the hardware (page entries, descriptors, controllers' registers), binary
formats (`pe/`, `elf/` but for `Relocate`), straight-line initialisation and drawing, the kernel
library, and the programs and the C library, which are clients of the system calls.

How the parts interact.  System calls come through `SystemCall::Trap`, which looks
for signals before and after the call.  Files call inodes, inodes call the file
system and the cache, the cache calls the driver through `Strategy`; the driver's
interrupt calls back `IODone`.  Everything that waits calls `Process::Sleep`,
everything that ends a wait calls `WakeUpAll`.  `Exit` and `Wait` use the cache
to hand over the user structure through the swap area; `Sched` and the growing images share
the swap buffer and its interrupt.  The debugger's stub is entered from the traps of any of these,
reads and writes their code and memory, and its views read the disk past the cache.

## 2. What is modelled: the buffer cache and the disk

`BufferCache.tla` models `BufferManager.cpp` except `Swap` (section 6) and `ClrBuf`, with the request queue of
`BlockDevice.cpp` and the interrupt handler of `ATADriver.cpp`.

| In the model | In the code |
|---|---|
| `tag[b]` | `b_dev`, `b_blkno`, and with them the device queue: a buffer is on the queue of its device as long as it has a block |
| `flags[b]`, `data[b]` | `b_flags`, the 512 bytes at `b_addr` |
| `free`, `freeWanted` | the list `bFreeList.av_forw .. av_back`, `B_WANTED` of `bFreeList` |
| `ioq`, `active`, `errcnt` | `d_actf .. d_actl`, `d_active`, `d_errcnt` |
| `inService` | the 8259A pair waits for an EOI of IRQ14 |
| `disk` | the sectors |
| `cpu`, `wchan[p]` | the process in the kernel, `p_wchan` |
| `pc`, `op`, `blk`, `rablk`, `bp`, `abp`, `uerror` | where a process is in the code, its call and local variables, `u_error = EIO` |

What a process does between two points where an interrupt can matter is one
action: a search of the device queue together with what is done with the buffer
found (the code closes interrupts there, and the queue is never changed by the
interrupt), a release with its wake-ups, a request with what `Start` does.
`cpu` keeps other processes out between the actions of one process until it
sleeps or its call is over; the interrupt (`DiskOk`, `DiskFault`) comes between
any two actions.  `Brelse`, `IODone` and `Strategy` are operators that actions
of processes and of the interrupt share, as the functions are shared in the code.

The callers (`Inode::ReadI`, `WriteI`, `FileSystem`) appear as the calls they
make: `CallRead`, `CallReada`, `CallNew` (a block that is wholly overwritten, so
`GetBlk` without reading) and `CallFlush`, and then as what they do with the
buffer: `Release`, or a change followed by one of the three writes.  A process
holds one block at a time.  `Release` after `CallNew` is a user copy that failed.
Blocks not below `NSECTOR` (`OutOfRange`) make `Strategy` fail at once.

`BlockStore.tla` is the specification the cache implements: blocks are cells, a
process takes a cell alone, may be shown what it contains, and puts it back as
it was or with a new value.  The refinement mapping takes as contents of a block
its buffer, if that was read, written or is being written, else its sectors.

### Runs

| Run | Instance | What it shows |
|---|---|---|
| `cache` | 2 processes, 2 buffers, 4 blocks (one out of range), 3 calls, 2 retries, 1 accident, fairness | the properties below |

The properties:

- `OneBufferPerBlock`: though `GetBlk` sleeps and searches again, no block gets two buffers.
- `FreeListExact`: the free list, changed by processes and by the interrupt, is
  exactly the buffers that are not busy, each once.
- `OneKeeper`: a busy buffer is kept by one process or by one asynchronous
  request; nothing is released twice, nothing stays busy with nobody.
- `NoLostWakeup`: whoever sleeps is going to be woken: the flag that `Brelse` looks
  at is set, or the transfer he waits for is still to be done.
- `ImplementsBlockStore`: a reader sees the last write to the block, and has the block alone.
  So a buffer is reused only when its sectors are up to date.
- `EveryCallReturns`: under fairness every call ends, unless the disk reports a fault or the cache is `Starved`: every
  buffer is kept by a `Breada` that asks for a second one.
- `StarvedForGood`: nobody gets out of that: the disk still ends the reads of the first blocks, but a starved cache
  stays starved.

`Starved` is a deadlock of the code: `Breada` (line 288) keeps its first buffer while `GetBlk` sleeps for another, so as many
processes in it as there are buffers, each with one, wait for each other (14.15).  The code has 15 buffers
and 100 processes.  `Bmap` asks for a buffer in `Alloc` while it keeps that of an index block
(`INode.cpp:355, 389`), which has the same shape; in this module the callers hold one buffer at a time, so that `Starved` speaks of `Breada` alone.

Bounds.  What matters is how many buffers there are for the processes.  As many as processes is the instance
in which the cache can starve, and it does in three calls: one process writes asynchronously, and while that buffer is under way
both are in `Breada`, one with the other buffer and asking for a second, one that gets the
buffer the disk gives back.  Two of each are enough for the circle; more of both would add a longer one, and with more buffers
than processes there is none (`EnoughBuffers`, section 13), so that there the exception of `EveryCallReturns` is void.  The
safety properties and the refinement are proved for every number of buffers, and
so is `TypeOK`, which no run repeats.
Two buffers are fewer than the blocks, so buffers are reused.  Three calls are
enough for: a delayed write, its eviction by another process, and a read that
must find it; one fault is enough to lose the interrupt, or with `RetryMax = 2` to
use a retry.  An accident is a fault or a block the disk does not have, one of them
once.  Processes and sound blocks are interchangeable, but TLC's symmetry is unsound for the
liveness property, so `MCBufferCache` keeps by hand one behaviour of those that differ by a permutation:
`First` calls first, blocks are first named in a fixed order.  `EveryCallReturns` is stated of disks that report
no fault: after a fault that is retried the model may stop (`Hung`), which is
what the code does, see 14.3.  `Stuck` is a starved cache in which all wait, `Finished` the end of the bounded run.  With
these three stuttering steps deadlock is checked: nothing else may stop.

Fairness.  `WF(DiskOk)`: a disk that works answers.  `WF(Step(p))`: a ready process
is some day run; `Select` takes the best priority, and priorities of waiting
processes age (`Clock`), while the kernel itself never keeps the processor for ever.

## 3. What is modelled: processes and signals

`Processes.tla` models the process table as `Process.cpp` and `ProcessManager.cpp` work
on it.  Slot 0 is left out: `Sched` is process 0, which never calls `wait` and gets no
signal of the terminal.  Slot 1 is the shell that `main` starts; it calls everything
but `exit`, and a signal can kill it.

| In the model | In the code |
|---|---|
| `stat`, `pid`, `ppid`, `sig`, `tty`, `chan`, `addr` | `p_stat`, `p_pid`, `p_ppid`, `p_sig`, `p_ttyp`, `p_wchan`, `p_addr` |
| `handler[p]` | `u_signal` for SIGINT and SIGKILL: default, ignored, or a function |
| `found[p]`, `got[p]`, `ublk[p]` | `i` of `Wait`, `signal` of `PSig`, `blkno` of `Exit`: local variables kept over a sleep or an interrupt |
| `cpu` | the process in the kernel; 0 when `Swtch` may choose any |
| `exeCnt`, `nextPid`, `swap` | `ExeCnt`, `m_NextUniquePid`, the free blocks of the swap map |
| `pc[p]` | where the process is: `user`, asleep inside a call (`waiting`, `paused`, `reap`, `gate`, `exec`, `dying`), at the end of `Trap` (`trapend`), in `PSig` (`psig`, `psigread`), or `dead` |

| Action | Code |
|---|---|
| `SeesSignal`, `TrapEnd` | the two looks for signals of `SystemCall::Trap`, and that of `Time::Clock` |
| `PSigRead`, `PSigHandle` | `PSig`: reads `p_sig`, then clears it and calls the handler or `Exit` |
| `Fork`, `ForkFail` | `Fork`, `NewProc`, `Clone` |
| `Exit` (`ExitBegin`), `ExitEnd` | `Process::Exit` before and after the write of the user structure to the swap area |
| `WaitTake`, `WaitEnd`, `WaitNone`, `WaitFail` | `Wait`: a dead child and, after `Bread`, its block; no dead child; no child |
| `Pause`, `SleepSet`, `Resumed` | `Process::Sleep` with a low priority: the test, the sleep proper, the way out |
| `ExecWait`, `ExecBegin`, `ExecLeave`, `ExecBad` | `Exec`: the gate of `ExeCnt`, the reading, the end, the early returns that skip the end |
| `Kill`, `Ssig` | the calls |
| `CtrlC`, `IoDone`, `TickDone` | the interrupts of keyboard, disk and clock |

A step ends where an interrupt could change what follows; so `Sleep` is two steps
(the test for a signal is made with interrupts open), `PSig` is two, and `Wait`
loses the processor in `Bread` or does not, as the block is in the cache or not.
A process number is given up to `MaxPid`, Ctrl-C comes `MaxInts` times and `kill` is
called `MaxKills` times: these three are the bounds.  Left out: the memory images
(section 6), `nice`, the user ids
(everybody is root), and the files that `Exit` closes.

### Runs

| Run | Instance | What it shows |
|---|---|---|
| `process` | 3 slots, 1 place in exec, 3 numbers, 1 kill of either signal | the safety properties |
| `process_live` | 2 slots, 1 Ctrl-C, 1 kill, fairness | `KilledDies` |

The properties:

- `FamilyTree`: no two processes have the same number, and as long as the shell lives
  everybody has a parent that lives: no zombie is left that nobody can take.
- `WaiterHasChild`: whoever sleeps in `Wait` has a child that lives and will wake him, and
  no dead one, so the wake-up of `Exit` fell neither before his sleep nor was it sent
  to the wrong slot.  The shell is excepted from the second part: for dead orphans it
  is given it is not woken.
- `NoSleepThroughKill`: nobody sleeps in a low priority sleep with SIGKILL pending.  With
  Ctrl-C in its place this is false (14.4).
- `ReapedByParent` (an action property): a slot changes hands only when the parent of its
  dead process takes it.
- `KilledDies`: under fairness a process that is sent SIGKILL dies, wherever it sleeps,
  unless it waits at the gate of `Exec`: that wait is not ended by a signal, and a
  program that is not executable leaves `ExeCnt` one too high for ever (`ExecBad`).

The type invariant, with what `p_stat`, `p_pid`, `p_wchan` and `pc` have to do with each other, is
part of `FamilyTree`.

Bounds.  Three slots are a shell, a child and a grandchild: enough for orphans, for a
parent that dies before its child, for a process that takes the slot of a dead one
while somebody else still uses it.  One place in exec and three
processes close the gate with two behind it.  `kill` sends SIGINT as well as
SIGKILL; Ctrl-C, which is a SIGINT from the interrupt, comes in the run with two slots, and
the theorems of section 13 have any number of both.

Deadlock is not checked in these runs: the system may really stop, for `kill(0)` sends
its signal to everybody, the shell included.

Fairness.  `WF(IoDone)`: transfers end.  `SF(KernelStep(p))` and `SF(SeesSignal(p))`: a
process that is ready again and again is run again and again.  The guard of each has
`cpu \in {NoSlot, p}`, which other processes make false and true; `Select` takes the
best priority and starts its search behind the one it took last, those in the kernel
have better priorities than any in user mode, and `p_cpu` worsens the priorities of the
busy ones each second.  Nothing is assumed of calls, of Ctrl-C, or of `TickDone`
(input may never come).

## 4. What is modelled: the free blocks

`FreeBlocks.tla` models `FileSystem::Alloc`, `Free`, and what `Update` (sync) does with the
superblock.

| In the model | In the code |
|---|---|
| `sfree` | `s_free[0 .. s_nfree - 1]`, the top last; `NoBlk` is the 0 that ends the chain |
| `flock`, `fmod`, `updlock` | `s_flock`, `s_fmod`, `updlock` |
| `group[b]` | the list of free blocks that block `b` contains |
| `saved` | the superblock on disk |
| `used` | the blocks of files; outside of these functions, so a set |
| `pc`, `blk`, `asleep`, `full` | where each process is, its block, whether it sleeps on `&s_flock`, whether its last `Alloc` failed |
| `wild` | `s_free[-1]` was read |

| Action | Code |
|---|---|
| `AllocWait`, `FreeWait` | the loops that sleep for `s_flock` |
| `AllocTake`, `AllocLast`, `AllocFull` | the three outcomes of the pop: a block, the last one of the group (locks and reads the next group), the 0 of the end (`ENOSPC`) |
| `AllocRead`, `AllocEnd` | after `Bread`: the group, the unlock; after `GetBlk`: the cleared block |
| `AllocBelow` | the pop with `s_nfree = 0`, see below |
| `FreePush`, `FreeSpill`, `FreeWrite`, `FreeEnd` | `Free` with room; with a full stack: lock, `GetBlk`; the stack written into the block; the unlock and the block as the only entry |
| `Update`, `UpdateSkip`, `UpdateWrite`, `UpdateEnd` | `s_fmod` cleared before `GetBlk`; the superblock not due; the copy; the rest of sync |

`FreeSet.tla` is what the functions promise: a set of free blocks, a process that takes
or gives one at a time, and `Alloc` that fails only if no block is free.  The refinement
mapping takes as the set every block that is reached from `sfree` through the groups.

Left out: `s_ilock`, which only adds to the reasons for `UpdateSkip` (so that is always
possible), the second half of the superblock, read errors, and mounts.  After `ENOSPC`
`s_nfree` is 0 and the next `Alloc` reads `s_free[-1]`; `BadBlock` (`FileSystem.cpp:502-505`)
accepts everything.  What follows is not defined, so the model ends there (`Undefined`
repeats the state).

| Run | Instance | What it shows |
|---|---|---|
| `free_blocks` | 3 processes, 4 blocks, a stack of 2 | the properties below |

- `BlocksAccounted`: a block is free, or in a file, or in the hands of one process; none
  of two, none lost, however spills, reads of groups and waits interleave; and when `s_fmod` is
  clear and nobody is inside, the superblock on disk has the free blocks of the one in memory,
  though `Update` clears the flag, sleeps and then copies.
- `FlockHeld`: `s_flock` has one holder as long as it is set or anybody sleeps for it.
- `ImplementsFreeSet`: the refinement.

That the stack never has more than its entries is in the type invariant, a part of `FlockHeld`.

The comment at `FileSystem.cpp:426-431` says that `s_fmod` is set early so that no half
changed superblock is saved; that is not what the flag does.  `s_flock` is looked at before
the sleep, so a half changed one can be saved, and the flag brings a later save.

Bounds.  At the start all blocks are in files.  With a stack of two, four blocks make
groups inside groups; three processes are one that holds the lock and two that wait.
Deadlock is checked.

## 5. What is modelled: inodes

`Inodes.tla` models the table of inodes in memory (`OpenFileManager.cpp`, the locks and
`IUpdate` of `INode.cpp`), the numbers of free inodes (`IAlloc` and `IFree`), and the calls that use them:
open, creat, unlink, chmod and chown, stat, close, read and write, fstat, sync (`FileManager.cpp`).

| In the model | In the code |
|---|---|
| `inode[i]` | `m_Inode[i]`: `i_number`, `i_count`, `ILOCK`, `IWANT`, `IUPD` or `IACC` (`dirty`), whether `i_mode` is not 0, `i_nlink` |
| `disk[n]` | `d_mode` (0 or not) and `d_nlink` of inode `n` on disk |
| `dir` | the entries of the directory: name and `m_ino` |
| `stk`, `ilock`, `updlock` | `s_inode[0 .. s_ninode - 1]`, `s_ilock`, `updlock` |
| `u[p]` | where the process is, its call, and its local variables: `num` and `ip` of the inode it works on, `at` of the directory entry it is going to write (and so holds the directory for, through `u_pdir` or `pDeleteInode`), `fd` its open file; `ret` is where `IGet` or `IPut` returns to |
| `chan[p]` | `p_wchan`: an inode, `&s_ilock`, or the address of a local variable |
| `cpu` | the process in the kernel; `NoProc` where it may sleep |
| `wild` | `s_inode[-1]` was read, or inode -1 on disk |

| Action | Code |
|---|---|
| `IGetWait`, `IGetHit`, `IGetFull`, `IGetClaim`, `IGetLoad` | `IGet`: locked, found, `ENFILE`, a free slot, and after `Bread` its contents |
| `IPutShared`, `IPutLast`, `IPutFree`, `IUpdate`, `IUpdateWrite`, `IPutEnd` | `IPut`: others hold it; the lock; after `ITrunc` the number is given back; the inode is read, changed and written on disk; the slot is free |
| `CallName`, `NameFound`, `NameMissing`, `NameNew` | `NameI` on one directory, and what each call does with what it returns |
| `OpenDenied`, `OpenFile`, `CreatTrunc`, `Opened` | `Open1`: refused; `ITrunc` for creat; the unlock and the file, or no file is free |
| `IAllocWait`, `IAllocBegin`, `IAllocSearch`, `IAllocPop`, `IAllocUsed`, `MakNode`, `WriteDir` | `IAlloc` and its caller: the wait for `s_ilock`, the search on disk, the number from the table, an inode that turns out to be in use, the new inode, the new entry |
| `UnLink`, `UnLinkEnd` | `UnLink` before and after the write of the entry |
| `NotOwner`, `ChMod` | `Owner`, `ChMod` and `ChOwn` |
| `Stat`, `StatWrite`, `FStat`, `FStatWrite` | `Stat1` with its `IUpdate`, of a name (the inode locked by `NameI`) and of an open file (whoever has it locked) |
| `Close`, `Rdwr`, `NFlockWait`, `NFlock`, `NFrele` | the calls on an open file |
| `Sync`, `SyncSkip`, `SyncLock`, `SyncWrite`, `SyncUnlock`, `SyncEnd` | `UpdateInodeTable`, slot by slot |

A step ends where the process may sleep for a buffer.  All inodes are in one sector and
all names in one directory, which is held by `rootDirInode` and every `u_cdir`.  A process
has at most one open file.  Left out: the blocks of files (`Bmap`, `WriteI` and `ITrunc` are in section 10; that the
directory cannot grow for want of a block), link, mknod, chdir, exec and pipe (section 11), which use
the same functions, mount points, and read errors.

| Run | Instance | What it shows |
|---|---|---|
| `inodes` | 2 processes, 3 slots, 3 inodes of files, 3 names, 3 calls with names, 1 sync | the properties below |

- `OneEntryPerInode`: no inode is in two slots, though `IGet` and `IPut` sleep with a slot half
  made or half given back.
- `CountExact`: `i_count` is the number of references on every path through the calls.  Only the
  directory is counted too often: creat that gets no inode never puts `u_pdir`
  (`FileManager.cpp:793-797`), which also leaves it locked for good.
- `FilesAllocated`: an open file has its inode, and the inode is in use; a name leads to an inode in use, in
  memory or on disk; a number in `s_inode` is there once, is in no directory entry, and in memory
  it is not in use; `IAlloc` never takes a number from an empty table.
- `TypeOK`: the type invariant; counts are never negative.

`FilesAllocated` is stated of behaviours without sync (`Quiet`), and TLC finds it
false with it.  `UpdateInodeTable` locks slots without a reference, and `IPut` sets `ILOCK` without
looking: a slot can be given back while sync sleeps on it, sync then unlocks it under the next
owner, a slot in use can lose its number, and number -1 gets into `s_inode` and the
directory.  What stays true with sync is `OneEntryPerInode` and `CountExact`.

Two things that one might expect are false also without sync, and are not stated:

- that the lock of an inode excludes others.  `IPut` of an inode with other references ends
  with `Prele` (line 237), so a close unlocks the inode under somebody who reads or writes
  it, and unlink unlocks the directory under somebody who searches it;
- that a name is in the directory once, for the same reason: two creat can search the directory at
  the same time.

Bounds.  Two slots for three inodes fill the table (`ENFILE`, and `Panic` in unlink);
three calls are an open, an unlink of the same file, and a creat that needs a number
again; one entry in `s_inode` makes every second creat search the disk.  Deadlock is not
checked: a process that meets a locked inode in `IGet` sleeps for ever (14.6), and the
directory can stay locked.

## 6. What is modelled: images, memory and swapping

`Swapping.tla` models where the images of processes live: `Allocator` and its two users
(`PageManager`, `SwapperManager`), shared texts (`Text`), `Process::Expand`, `SBreak` and `SStack`,
`XSwap`, `Sched`, `BufferManager::Swap`, the page tables a process is given
(`MemoryDescriptor`), and `NewProc`, `Exec`, `Exit` and `Wait` as far as they move images.

| In the model | In the code |
|---|---|
| `mmap`, `smap` | `PageManager::map` of the user pages, `SwapperManager::map`: free nodes in the order of addresses |
| `proc[p]` | where the process is; `p_addr`, `p_size`, `p_textp`, `SLOAD` (`load`), the sizes of its `MemoryDescriptor`, and `held`, the memory or blocks that are really behind `p_addr` |
| `text[t]` | `x_iptr`, `x_count`, `x_ccount`, `x_size`, `x_caddr`, `x_daddr`; `good`: the memory contains the text of the file; `saved`: the swap area does |
| `swb`, `tx`, `sleepers` | `SwBuf`: its owner (`B_BUSY`), `B_WANTED`, `B_DONE`; where each actor is in `Swap`; who sleeps on `&SwBuf` |
| `sch`, `runout` | where `Sched` is, `pSelected`, `desAddress`; `RunOut` |

| Action | Code |
|---|---|
| `Fork`, `ForkSwapped` | `NewProc` with memory for the child, or with the child swapped out at once |
| `Brk`, `GrowStack`, `ExpandSwapped` | `SBreak` and `SStack`, by way of `Expand`: in place, moved, or swapped out to grow |
| `Exec`, `Fill`, `Join`, `TextSaved` | `Exec` up to the page tables; `Relocate` of the first process that uses a text and of one that shares it; the copy on the swap area |
| `Exit`, `Die`, `Wait`, `Reap`, `Reaped` | the text is given back and the user structure written; the image is given back; `Wait` asleep, before and after `Bread` |
| `SchedSleeps`, `SchedIn`, `SchedNoRoom`, `SchedTextIn`, `SchedDataIn` | `Sched`: nobody to bring in; room for one; no room: a victim, or sleep on `RunIn`; the two transfers |
| `SwapRetry`, `SwapIODone`, `Tick` | a waiter for `SwBuf` that was woken; the interrupt; the clock, which wakes `RunIn` |

Sizes are in half pages, for the code confuses sizes in bytes with whole pages; the map of memory
counts pages, that of the swap area half pages.  A step ends where its actor may sleep.
Priorities, `p_time` and the ages in `Sched` are any choice.

In nine situations the code goes on with memory or an address that is not what it takes it for, or
panics.  `fault` names the first of them and the model stops there, because what happens
after is arbitrary; all of them are reached in the run:

| `fault` | Where | What |
|---|---|---|
| `panic` | `ProcessManager.cpp:836-859` | no room on the swap area |
| `nocore` | `ProcessManager.cpp:654-655` | `Exec` does not look whether there was memory for the text, or blocks for its copy |
| `textless` | `ProcessManager.cpp:659-662` | `text[]` is full: the process takes `p_textp`, which is NULL |
| `stale` | `ProcessManager.cpp:624-630` | `Exec` shares a text that is out of memory without bringing it in |
| `early` | `ProcessManager.cpp:624-630` | `Exec` shares a text whose first user has not read it yet |
| `unaligned` | `ProcessManager.cpp:338` | `Sched` adds the size of a text that is no multiple of a page to an address |
| `astray` | `Process.cpp:341-347, 381-400` | the stack is copied as if the data ended on a page |
| `reused` | `ProcessManager.cpp:387-388` | `Wait` frees the swap block it finds in the slot after `Bread` slept |
| `victim` | `ProcessManager.cpp:277, 314` | `Sched` swaps out the process it was going to bring in |

| Run | Instance | What it shows |
|---|---|---|
| `swapping` | 3 slots, 2 texts, 3 programs (whole pages, an uneven text, more data), 8 pages, 18 swap blocks, 5 calls | the properties below |
| `swap_victim` | the same | the disagreement of section 14.1 |

- `StoreOwned`: every page and every block has exactly one holder (a free node, an image, a text, a
  transfer, a dead process's user structure) through every move, growth and swap; the
  free nodes stay in order and merged; a process in user mode sees only its own pages.
- `TextsRight`: `x_count` and `x_ccount` count the users and those in memory; whoever runs, runs the
  text of its file; a text that is out of memory is on the swap area.
- `NobodyForgotten`: whoever sleeps for the swap buffer will be woken by the interrupt or by its
  owner; `Sched` asleep on `RunOut` has nobody to bring in, asleep on `RunIn` it has.

The type invariant is a part of `StoreOwned`.

Bounds.  Memory has room for two images and one text, so the third has to leave; two texts for three
programs fill `text[]`; five calls are two forks, two execs and one growth, or the like.  Deadlock
is not checked: the model stops at a fault.  No fairness is used: `NobodyForgotten` is an invariant.

## 7. What is modelled: the terminal

`Terminal.tla` models the input half of `tty/`: the keyboard's handler, which turns scan codes into
characters and puts them into the raw ring, and the processes that read.

| In the model | In the code |
|---|---|
| `raw`, `can`, `delct` | `t_rawq`, `t_canq` (`Size` for 512), `t_delct` |
| `inode` | `ILOCK` and `IWANT` of the terminal's inode |
| `u[p]` | where the process is, its read, `Canonb`, the value of `t_delct` it has loaded, whether it has a file of its own on the terminal |
| `kb`, `held` | `pre_state` and `Mode` of the keyboard; the keys that are down |
| `hist` | what was typed and what was read, and which accidents happened: an overfull ring (raw or cooked), a flush, a line cut in two, a lock that was broken |

| Action | Code |
|---|---|
| `Press`, `Lift` | `KeyboardHandler`, `HandleScanCode`, `ScanCodeTranslate`, `TTyInput`, Ctrl-C with `FlushTTy` and SIGINT |
| `Read`, `NFlockWait`, `NFlock`, `NFrele` | `Rdwr` and the lock of the inode; `TTRead` |
| `CanonTest`, `CanonAgain`, `CanonSleep`, `Abort` | `Canon`'s wait: with interrupts closed on the first turn, open on the second; `Sleep` and the signal that ends it |
| `TakeRead`, `TakeNext`, `DelctLoad`, `DelctStore`, `PutCooked` | the loop over the raw ring: a character is read from the ring and the tail moved, `t_delct--` loads and stores (the kernel is compiled without optimisation), a character goes to the cooked ring |
| `PassRead`, `PassNext` | `PassC`, from the cooked ring to the program |
| `Write`, `Close`, `Exit` | `Rdwr` of a write, which waits for the lock; `CloseF` and `IPut`, whose `Prele` breaks a lock |

| Run | Instance | What it shows |
|---|---|---|
| `terminal` | the shell and one program, a ring of 8, lines of 3, 6 keys (enter, backspace, c, g, right Ctrl, Pause), 4 keys pressed, 2 reads | the properties below |

- `InputConserved`: what was read, what is in the rings and what a reader has in hand are together
  what was typed, in order and with erasures done, but for the one character a read drops that wants
  less than the line; and `t_delct` never counts more delimiters than there are, and fewer only by Ctrl-G's and
  by counts lost in `t_delct--`.  A flush and an overfull ring, which lose characters, are excepted.
- `NoMissedWake`: nobody sleeps for a line while one is counted, though look and sleep are apart.
- `LockHeld`: one process at a time is in the driver, and whoever waits for the inode waits for somebody
  inside: until a close of another file unlocks it, or a signal takes a reader out with the lock.
- `NoFalseEnd` (an action property): a read returns 0 only after Ctrl-D, Ctrl-G, a line that was too long,
  Ctrl-C, or an overfull ring.

The type invariant is a part of `LockHeld`.

Bounds.  The ring of 8 is full after four keys of two characters (enter puts the newline and the
delimiter); a line of 3 is cut in two.  Left out: the echo and the output ring, RAW and CRMOD, which are
never set.  Deadlock is not checked: keys need not come, and a reader can leave the inode locked.

## 8. What is modelled: the debugger's stub

`GdbStub.tla` models `debug/gdb`: the stub inside the kernel that speaks GDB's remote protocol over COM1.

| In the model | In the code |
|---|---|
| `dbg` | the breakpoint table and `g_pending_resume_*`, the range step, the register copy, the frame it is bound to, `connected`, `running` |
| `text`, `prog`, `frames` | the code bytes (an instruction or an int3), `eip` and TF of the program, the trap frames on the stack |
| `rx`, `line`, `back` | the local variables of `serial_recv_packet`; bytes to the stub and answers to the client |
| `client` | the client (external): what it waits for and its last command |

| Action | Code |
|---|---|
| `Receive`, `Timeout` | one byte through `serial_recv_packet`, and with the last one the whole command: `debugger_main` and the handler of each packet |
| `Execute` | one instruction of the program and the trap it causes: `debugger_enter`, `debugger_handle_breakpoint_trap`, `debugger_handle_debug_trap` |
| `gdb_prepare_range_step_resume`, `gdb_range_step_should_stop`, `gdb_consume_range_step_breakpoint` | the functions of these names, as operators of the actions above |
| `StepOutside` | the same in the stub or in the interrupt handler, when their frame was resumed with the trap flag, or when the program is stepped inside `kernel_debug_checkpoint` |
| `SerialInterrupt` | the interrupt of COM1, while the target runs |
| `Send`, `Break`, `Listen`, `Silence`, `Damage` | the client and the line: a command, 0x03, an answer, a time-out after which the client sends the packet again or gives up (a command to resume: it waits for the stop), a byte or an answer lost or changed |

| Run | Instance | What it shows |
|---|---|---|
| `debugger` | 4 addresses (one below the kernel, a call, a procedure that loops or goes on into a checkpoint), 2 breakpoints, 4 commands, 1 fault of the line, one 0x03, fairness | the properties below |

- `Int3Owned`: every int3 in the code belongs to exactly one breakpoint or to the range step, which
  keeps the instruction under it.  So what is written back is the program.  It holds while the line damages at most
  one thing: packets have no numbers, so after more the stub may take a command again that the client has long left
  behind, and an `M` then overwrites an int3.
- `NoRunThrough` (an action property): the program does not run through an address with a breakpoint but as the
  first instruction after a stop there.
- `ClientServed` (liveness): on a line that damages nothing every command is acknowledged and answered, but an X packet
  with 0x03 in its payload; and a 0x03 sent to a running target brings a stop.

The type invariant is a part of `Int3Owned`.  A 0x03 throws away the packet that is under way, whether the
target then stops or goes on by itself (`kept` of `Trap`): `serial_recv_packet` starts again.

Fairness.  `WF` of `Receive`, `SerialInterrupt`, `StepOutside`, `Execute`: the stub polls and the processor
runs; `WF(Listen)`: the client reads its answers.  Nothing is assumed of the client's commands.

Bounds.  Two breakpoints fill the table and can both be on one loop; up to four frames are nested by the 0x03 and by those in X packets; a fault costs two commands (`Spent`), for it is followed by the retransmission.  `Careful`
is GDB's default behaviour: it takes its breakpoints out when the target stops, before it writes memory or
jumps.  Deadlock is not checked: the client may have nothing more to say.

## 9. What is modelled: debugging before the kernel

`EarlyGdb.tla` models `boot/boot.asm` and `boot/sector2.asm` built with `EARLY_BOOT_GDB`: the boot sector's stub, the
loader, the stub in assembly that `greatstart` calls, and the hand-over to the breakpoint table of section 8
at the first checkpoint of `main0`.

| In the model | In the code |
|---|---|
| `stage`, `sector` | how far the start is, the sectors `_load_kernel` has read |
| `mem` | the kernel's code, byte by byte |
| `sh`, `cpu` | `reg_shadow`; the frame of the stub, with which the program goes on |
| `bp`, `tmp` | `bp_used`, `bp_addr`, `bp_orig`; the temporary breakpoint |
| `table`, `left` | the kernel stub's breakpoints; the int3 the early stub leaves behind |
| `gdb` | the client (external): registers, bytes and breakpoints as it was told |

Each packet is an action named after the routine that handles it (`handle_query`, `send_regs32`, `WriteReg`,
`WriteMem`, `handle_set_sw_break`, `Step`, `Continue`, `Probe` for `vCont?`, ...); the stub does nothing else
until it has answered.  `BootAnswer`, `BootResume`, `Load` and `Greatstart` are the start, `initBss`,
`AddBreakpoint` and `RemoveBreakpoint` (`gdb_add_breakpoint`, `gdb_remove_breakpoint`) what the kernel does afterwards.

| Run | Instance | What it shows |
|---|---|---|
| `early_debugger` | an image of 4 bytes in 2 sectors (a call over a byte, an indirect call, a two-byte instruction), 2 slots, writes of up to 3 bytes of which 1 fits, 4 commands for each stub | the properties below |

- `AnswersTrue`: what the stub has told GDB is so: registers, bytes taken with OK, breakpoints, each with
  the byte under it; and after the hand-over every int3 in the code is the kernel stub's or one left behind,
  so that the kernel's stub undoes what it did and nothing else.  Only the bytes of a write that did not fit
  the buffer are excepted (`torn`).
- `ResumesAsAsked` (an action property): the program goes on when it was asked to, at the address last shown or named, with
  the registers shown and without trap flag; but `vCont?` resumes too, and `vCont;c` goes to a garbled address.
- `TypeOK`: the type invariant.

Bounds.  Addresses have two aliases (with and without 0xC0000000), which `normalize_debug_addr` is about; one
address has ':' as its low byte.  Deadlock is not checked: the client may stop sending.

## 10. What is modelled: the debugger's view of the disk

`DiskInspect.tla` models how the debugger shows the file system (`debug/fs`, `debug/json`, and the part of
`tools/vscode/src/extension.js` that fetches documents), beside what the kernel does to the same disk.

| In the model | In the code |
|---|---|
| `k` | the kernel: inodes in memory (`core`), those with `IUPD`, blocks as the cache has them (`store`), delayed writes, free sectors |
| `disk`, `table` | the sectors and the inodes on disk, which is all the debugger sees |
| `ring`, `events` | `g_trace_lines`, `g_trace_next`, `g_trace_count` |
| `xfer` | a document on its way: `qXfer` in chunks, or the monitor command |

| Operator | Code |
|---|---|
| `TraceArray`, `FilesystemObject`, `DirectoryObject`, `FileObject`, `InodeObject`, `BlockObject` | the documents of `debug_json.cpp`, as the sequences of what they contain; `Annexes` and `Body` choose one by its annex |
| `ViewDiskBlock`, `ViewInode`, `ListDirectory`, `TraceDirectory`, `Queries`, `HandleQuery` | the monitor commands of `FSDebugger.cpp` that read the disk, and the packets that lead to them |

Both block maps are there, `Bmap` with `WriteI` and `ITrunc` for the kernel, `MapDiskInodeBlock` for the
debugger, and both searches of a path, `NameI` and `LookupPath`.  The actions `Create`, `Write`, `Truncate`,
`Enter` (link), `Unlink` are system calls as one step, for the debugger stops the processor between them;
`IUpdate`, `Flush` and `Reuse` say when things reach the disk; `Request`, `Receive`, `Monitor`, `Forget` are the
client.  A transfer during which the kernel moves is given up.

| Run | Instance | What it shows |
|---|---|---|
| `disk_inspect` | 2 inodes, 5 sectors of 2 words, 1 direct block, a ring of 3, documents of up to 4, a preview of 3, chunks of 2, 2 operations, files written at 0, 4 and 22 | the properties below |

- `RawViewAgrees`: when nothing waits to be written, debugger and kernel agree on where every block of every file
  is, on what every path names (but '\', which splits paths in documents only) and on what is in a file; whichever
  sector cannot be read, the debugger has no answer or the beginning of one, never another one.
- `TransferExact`: a document fetched while the target stood still is the document: chunks neither overlap nor leave a gap,
  and a trace is the last events in order, whatever has gone round the ring.

The type invariant is a part of `TransferExact`.

Bounds.  The offsets 0, 4 and 22 need a direct block, a block of one level and one of two levels; two
operations are a creation and a write, or a write and its truncation; a document is shorter than, equal to and longer than
a chunk, and one that does not fit becomes the error document.  Deadlock is not checked: the bound ends the run.

## 11. What is modelled: open files and pipes

`OpenFiles.tla` models descriptors, the table of `File` structures that processes share after `fork` and `dup`,
pipes, and read, write, seek and close of what is open (`FileManager.cpp`, `OpenFileManager.cpp`, `File.cpp`, the
locks and `ReadI`/`WriteI` of `INode.cpp`).

| In the model | In the code |
|---|---|
| `fds[p]`, `file[f]` | `u_ofiles`; `f_count`, `f_flag`, `f_inode`, `f_offset` |
| `inode[i]` | `i_count`, `ILOCK`, `IWANT`, `i_size`, `IREAD` and `IWRITE` (`rd`, `wr`), and the blocks |
| `u[p]` | where the process is in the code, its call, and its local variables |
| `sig`, `cpu` | the processes with a signal, the process in the kernel |
| `hist[i]` | what was read in order, how much was written, whether a seek or a broken lock has happened |

| Action | Code |
|---|---|
| `Rdwr`, `Plock`, `NFlock`, `ReadP`, `WriteP` | a read or write up to the transfer: the two kinds of lock, an empty and a full pipe, `EPIPE` with SIGPIPE |
| `IoStart`, `IoMove`, `IoFull`, `IoEnd` | `ReadI` and `WriteI` block by block; a disk without a free block; the offset, the unlock and the wake-ups |
| `Sys_Pipe`, `Sys_Dup`, `Sys_Seek`, `Sys_Close` (`CloseF`), `IPut` | the calls; `Pipe` that runs out of descriptors or Files half way; the `IPut` that sleeps, and after which `f_count` goes down |
| `Sys_Fork`, `Sys_Kill`, `Signal`, `Sys_Rexit`, `ExitClose`, `ExitEnd` | the parts of these calls that concern files and sleeps |

The unit of data is a block, and the k-th unit written to an inode is k, so that order and loss can be seen.
Left out: open and creat (section 5), blocks of a pipe's inode on disk, and the update of access times.
The properties are checked in the run `shell` of section 12, whose programs make any of these calls:

- `CountsExact`: `f_count` is the number of descriptors that lead to a File, and `i_count` the number of Files of an inode,
  with one more while the last descriptor is already gone and `CloseF` sleeps in `IPut`.
- `InOrder`: what is read is what was written, once each and in order, and what is not yet read is all there, though
  processes share one offset; except after a seek, or a close that unlocked the inode under a transfer.
- `NobodyStranded`: a reader sleeps before an empty pipe that can still be written, a writer before a full one that can still be read,
  each with the flag that wakes him; and for a lock one sleeps only while somebody has it.  So no wake-up is missed; it
  does not say that the other end is ever used, and 14.12 is a case where it is not.

## 12. What is modelled: the shell

`Shell.tla` models `shell/CommandTree.c` and `ExecuteCommand.c` on top of `OpenFiles`: a line of tokens is parsed into
a tree, the tree is turned into the script of system calls that `ExecuteCommand` makes, and the script runs, with the
children it forks and the programs they become.  Every word is a program: `cd`, which `ExecuteTCOM` does in the shell itself, without
a fork, a redirection or a wait (lines 81-100), is left out, and no property depends on it.

| In the model | In the code |
|---|---|
| `Tokens`, `Meant`, `Before` | what is typed and what it means: the grammar, which the code has nowhere |
| `AnalizeCommand`, `CreateSimpleNode`, `CreateCurveNode`, `Redirections` | the functions of `CommandTree.c` |
| `ExecuteCommand`, `OutputRedirect` | those of `ExecuteCommand.c`, as scripts |
| `sh[p]` | what is left of a process's script; its arrays `pipes`; its children; `lost`: a `pipe()` above it failed |
| `ReadLine`, `MakePipe`, `ForkChild`, `WaitChild`, `Redirect`, `Exec`, `Leave` | `main1` and the calls of the script |
| `Program`, `Kernel` | a program makes any call; the kernel goes on with one |

| Run | Instance | What it shows |
|---|---|---|
| `shell` | 4 processes, 3 pipes of 1 block, 6 Files, 6 descriptors, 6 lines of two to four words, up to 3 calls of programs, 1 full disk | the properties of section 11 and those below |

- `ParsedRight`: the tree of a line means what was typed, for 6 lines that are run and some 950 more with
  brackets and redirections, as far as the grammar goes (14.14 names what it takes amiss).
- `Wired`: each program starts with the ends of the right pipes as its input and output, whatever else it has
  inherited, unless a `pipe()` above it failed.
- `InTurn`: a word before a semicolon has ended when one behind it starts, though `wait` returns for any child.

Bounds.  Four words need three pipes and more processes than there are, so `fork` fails in the middle of a pipeline; six
Files are used up by the third pipe, so `pipe` fails; writes of two blocks fill a pipe of one.  The symmetry of
processes and pipes is sound, the run has no liveness.  Deadlock is not checked: 14.12 and 14.13 are hangs of the code.

## 13. What is proved

Out of the prover's reach, and so left to TLC: liveness under fairness, ENABLED, induction over trees and the
like (the library's theorems for it take an operator as a parameter), and modules with RECURSIVE operators.
Induction over one number is had from the least element of a set (`Lowest`, `FromZero` in `TerminalProofs.tla`).  The theorems assume of the constants what the `ASSUME` of
each module says, and nothing else but what a theorem states as its own hypothesis.

### The cache

`BufferCacheProofs.tla` proves, for any set of processes, any number of buffers and
blocks, any bounds, and from `BufferCacheAssumption` alone:

- `TypeCorrect`: `Spec => []TypeOK`
- `BlocksHaveOneBuffer`: `Spec => []OneBufferPerBlock`
- `FreeListIsExact`: `Spec => []FreeListExact`
- `BuffersHaveOneKeeper`: `Spec => []OneKeeper`
- `SleepersAreWoken`: `Spec => []NoLostWakeup`
- `CacheImplementsStore`: `Spec => ImplementsBlockStore`
- `StarvationStays`: `Spec => StarvedForGood`
- `EnoughBuffers`: fewer processes than buffers cannot starve the cache

They follow from `Invariance`: `Spec => []IndInv`.  None of the safety
invariants is inductive alone.  That a process may release its buffer needs that
the buffer is busy and not on the free list (`OneKeeper`, `FreeListExact`), that
it is kept by nobody else, and that the request queue does not still hold it
unless the process waits for it; that the interrupt may release the head of the
queue needs that the queue has no buffer twice, that its buffers are busy, and
that an asynchronous one has no process.  `IndInv` adds these facts about the
queue and about what a process at each `pc` has in `bp` and `abp`.  There is one
lemma per action, and lemmas for the shared operators (`BrelseEffect`,
`IODoneEffect`, `StrategyEffect`) that say once what each can do to the lists.
The first part of the module has the facts on sequences: what `RemoveAt`, `Append` and `Tail` do
to the set of elements and to injectivity.

`SleepersAreWoken` needs no more than `IndInv`: the lists are exact, so a sleeper who waits for a
buffer waits for one that is busy, and its keeper looks at the flag.

The refinement rests on `IndInv` and `ContentInv`, four facts about contents: a process has the buffer of
the block it asked for (`TagInv`), what is to be written later is valid (`DelayedInv`), a
valid buffer without a delayed write equals its sectors, so it may be given to another block (`CleanInv`), and no
transfer is given up (`RetryInv`).  The last is true of the code for a bad reason: after a failed transfer the
interrupt does not come back (14.3), so `IODone` never sees a transfer that has failed ten times.  It
needs `RetryMax > 0`, which `BufferCacheAssumption` states (the code has 10).  So the theorem says nothing of
what readers would get if the retries ended.  `StoreValue` and `HolderValue` turn the mapping, which is
written with CHOOSE, into what it is for one block; then there is one lemma per action, which is an `Acquire`, a
`Release` or an `Update` of the store, or a stuttering step.

`StarvationStays` needs of `IndInv` that kept buffers are busy and busy ones not on the free list: in a starved
cache the list is empty and `GetBlk` finds every buffer busy, so a `Breada` that asks can only sleep again,
however often it is woken (`AsksInVain`), for any number of buffers and processes.

Only model-checked: `EveryCallReturns` (liveness).

### The process table

`ProcessesProofs.tla` proves, for any number of slots, any `NEXEC` and all bounds, from
`ProcessesAssumption` alone: `TypeCorrect`, `FamilyKept` (`FamilyTree`), `WaitersHaveChildren`
(`WaiterHasChild`), `KillNotSleptThrough` (`NoSleepThroughKill`), `ExecLimit` (`ExecBound`: at most
`NEXEC` processes are in `Exec`, and `ExeCnt` never counts too few) and
`OnlyParentsReap` (`ReapedByParent`).  The inductive invariant `IndInv` is, with why each
part is needed:

- `Types`, `StatInv`: what `p_stat`, `p_pid`, `p_wchan` and `pc` say of each other; that a free
  slot has no number is what makes `FamilyTree` survive the reuse of slots.
- `LocalInv`: `Wait` and `PSig` find in `found` and `got` what they left there.
- `SignalInv`: who has passed the test of `Sleep` and not yet slept has the processor and
  no SIGKILL.  So no other process can send him one, and the interrupts send only
  SIGINT: this is why `NoSleepThroughKill` holds though the test and the sleep are apart.
  It needs that only the dying ignore SIGKILL, which `Ssig` sees to.
- `FamilyInv`: numbers are below the next one, free slots have no parent, slot 1 is
  always process 1, so what `Exit` gives away has a parent.
- `WaitInv`: `WaiterHasChild` from the moment `Wait` has looked at its children; the one who
  looked has the processor, so no child can die in between.  That a dying child wakes
  him uses that numbers are unique: the first slot with the parent's number is his.
- `ExecBound`, with cardinalities of the set of processes in `Exec`.

The actions that do most (`PSigHandle`, `Fork`, `ExitEnd`, `WaitTake`) have a lemma that says
slot by slot what they do; each part of `IndInv` then has one lemma with a case per action.
Only model-checked: `KilledDies`.

### The free blocks

`FreeBlocksProofs.tla` proves, for any processes and blocks and any size of the stack of at
least 2, `TypeCorrect` and `LockHasHolder` (`FlockHeld`).  The inductive invariant `IndInv` adds to these
that the 0 is only at the bottom of a list, so that what is popped above it is a block, that
a process in the middle of a call has a block (`BlkInv`), and that only those at the two waits
sleep (`SleepInv`).

`NoBlockLost` proves `BlocksAccounted`, and `ChainImplementsSet` that the chain implements `FreeSet`.  `Chained` takes the
blocks reached from a list to be those of every set that is closed under "with a block, those of its group", so that no
recursion over the chain is needed: what is reached is the least such set (`ReachFacts`).  `ChainInv` says

- that the lists of the chain form a tree (`Tree`): no two have a block in common, none has one twice, no block is reached
  from its own group, and only the block at the bottom of a list contains a group;
- where its root is (`RootIs`): in `s_free`, or, between the two sleeps of a spill or while a group is read, in the block
  that the holder of `s_flock` has in its hands, and then `s_free` is empty (`HandInv`).  That there is one such holder
  is `OneHolder`: this is where the lock is needed;
- that what can be freed contains no group (`BlankInv`), for `Alloc` clears what it hands out: a block with an old group that
  came back onto the stack would bring the blocks of that group along;
- that every block is in one place (`Parts`).

What a pop, a push, a spill and the read of a group do to a tree is said once, for any groups and lists (`PopChain`, `PushChain`,
`LastChain`), and a block out of the chain may get any contents (`TreeSame`).  `SavedInv` is what makes `CleanIsSaved` inductive:
`s_fmod` is clear only if the superblock is saved, or `Update` is about to save it, or somebody who has changed it is
still on the way to setting `s_fmod`.

### The inodes

`InodesProofs.tla` proves, for any processes and names and any sizes and bounds, from
`InodesAssumption` alone, `TypeCorrect`, `OneEntry` (`OneEntryPerInode`), `CountsExact` (`CountExact`)
and `DirectoryStays` (the directory keeps its slot and at least two references).  The properties
need each other: `IGetClaim` keeps `OneEntryPerInode` because a slot in use has a count that is
not 0, and counts stay at the references only if each `IPut` gives back one that was there.
The inductive invariant `IndInv` adds

- `LocalInv`: what a process has in its local variables at each place, for instance that `u_pdir` is
  set all the way from `NameNew` to `WriteDir`, through `IGet` and `IPut` of numbers that turn out to
  be in use; `creat` counts on that reference.
- `RootInv`: the directory is in its slot, so that no `IPut` of a file is one of the directory.

`Own(r, i)` is what one process contributes to the references of slot `i`, and `RefsStep` says that
a step changes `Refs` by the change of `Own`.  After it no action needs a cardinality.
That a slot whose inode is not loaded is in no other slot uses a least slot, hence the
well-foundedness of the naturals (`Least`, `NotLoaded`).

A process inside a call on an open file (`nflock`, `io`, `fstat`) has its descriptor and holds no other reference, so
what `FStat` writes to disk without the lock changes no count.  `CountExact` is proved with `sync` too: `UpdateInodeTable` breaks the locks, not the counts.

`FilesFit` proves `FilesAllocated`, which like the property is about behaviours without `sync` (`FilesQuiet`: `Quiet` implies
`FilesInv`).  `FilesInv` rests on `IndInv` and on one idea: of every number, `UsedFiles` and `LinkedFiles` say whether the file is
in use and whether it has a link, from the slot when the inode is in one and is not being read, and from the disk
otherwise.  Then

- `SlotsOK` says that a slot that is not dirty agrees with the disk, so that reading an inode and giving one back change
  neither set; what a step must leave alone for that is said once for all steps (`KeepAll`, `KeepTable`, `KeepSlot`).
  Only `creat`, the last `IPut` of a file without links, and `unlink` change the sets, the first two with the
  inode alone and locked (`HoldOK`).
- `CtlOK` says that nobody gets between `NameI` or the pop of `s_inode` and `IGet`, for neither sleeps; it is what keeps
  the number that was found or popped meaningful (`FileOK`).  The caller that sleeps in `IGet` on the address of its local
  variable is the exception (`Stuck`): what it has found may be gone, but it is never woken.
- `DirOK` and `StkOK` have the two sets in the directory and in `s_inode`: every name leads to a file in use that has a link,
  by itself; and what is free is not in use and in the stack once.

### Open files and pipes

`OpenFilesProofs.tla` proves, for any processes, pipes, sizes of the tables and bounds, from `OpenFilesAssumption`
alone: `CountsAreExact` (`CountsExact`), `NobodyIsStranded` (`NobodyStranded`) and `PipesAreExclusive` (a pipe with both
its ends has one process inside at a time, and never more than `PIPSIZ` in it).  The argument of `IndInv`:

- `CallOK`: who is in a call has a descriptor for its File.  So the File's count is at least 1 without the closer, no close
  of another process is the last one, and what a sleeping call has in its local variables stays right.
- `PutOK`: who sleeps in `IPut` has the last reference, so nobody else can be inside.
- `FileInv`: a pipe has at most one File to read and one to write; so with count 2 it has both, and a close that
  takes the count down from 2 is the only one that can unlock it under somebody.
- `InoInv`: a lock has a holder (`LockOK`), the lock of a pipe with both ends was never broken (`AloneOK`), and the
  flags are set as long as anybody sleeps in the pipe (`ReadersOK`, `WritersOK`).  `NobodyStranded` needs `AloneOK`: were two
  processes inside, the second could empty or fill what the first had looked at.

What a step does to other processes and to other inodes is said once for all steps (`OtherProc`, `OtherInode`); the counts
change by one element of a set, which is said once too.

The second part of the module proves `BytesStayInOrder` (`InOrder`), with `FlowInv` on top of `IndInv`:

- `GivenOK`: the input and the output of the two given files keep the one File each that `First` began with.
- `Fresh`: who waits for the lock of a file has not yet moved anything, so what it transfers starts at the offset it
  finds when it has the lock, and not at the one it saw before it slept.
- `Flow(i)`, unless a close has given back somebody's lock (`hist.broken`): one process at a time is in the transfer, and it has
  the lock (`Alone`).  Unless somebody has moved an offset as well (`hist.sought`), `Whole`: what was read is 1, 2, 3, ...
  (`Got`), and what lies from the cursor to the end goes on from there, up to what was sent (`Rest`).  The cursor is the offset of
  the File to read between two calls and that of the call while a reader is inside; a File to write has its offset at the end,
  but for a pipe's, whose end is the size (`OffsetOK`, `MoverOK`).  The two differ because the code writes `f_offset` back at the
  end of a call only, and so two calls that share a File must not start at the same offset: what `NFlock` and `Plock` are for.

No induction over data is needed: the unit k of the model is the k-th written, so `Got` and `Rest` say of each place what is in
it, and a step adds one at the end (`RestGrows`), takes one at the cursor (`RestShrinks`) or starts an empty pipe again (`RestEmpty`).
A step is looked at by `View(p, i)`, the inode it works on as `p` sees it; the other inodes are as they were (`Undisturbed`).

### The terminal

`TerminalProofs.tla` proves, for any processes, keys, sizes of the rings and of `Canonb`, and any bounds, from
`TerminalAssumption` alone: `TypeCorrect`, `DriverIsLocked` (`LockHeld`), `NoWakeIsMissed` (`NoMissedWake`),
`NothingTypedIsLost` (`InputConserved`) and `EndOfFileIsMeant` (`NoFalseEnd`).

- `IndInv` has exclusion and waking in terms of single processes (`LockInv`, `WakeInv`), for a cardinality of
  `Inside` says less than that two processes inside are one.  `NoMissedWake` needs `LockHeld`: a reader woken for a line
  finds it because nobody else is inside to take it, and that in turn needs that a lock is broken only when
  `hist.broken` says so.  `BoundsInv` is what keeps `Canonb` from running over: `Canon` may put one character more
  than it has tested for.
- `LineInv` is about the characters.  A reader that has begun a line keeps the processor (`CtlInv`), so the line in hand is
  that of whoever has it (`Me`), even when a lock was broken.  `DataOK` says that cooking all that was typed gives what was read,
  what is in the cooked ring and the line that has ended, and then what cooking the raw ring gives behind the line in
  `Canonb`.  The keyboard makes both inputs one character longer at the end (`CookAppend`), the reader makes one of
  them shorter at the front (`CookTail`): the two lemmas are proved by induction over the places of the input, and are why what
  is typed while a line is cooked does not disturb it.  `HandOK` says that what `GetChar` has loaded is still at the tail when
  it moves the tail; that fails after a flush, which is why Ctrl-C is excepted.
- `CountOK` relates `t_delct` to the delimiters in the raw ring and the one in hand: `t_delct--` may undo what the interrupt
  added between its load and its store, so the count can only be too low, and who is past the wait has a whole line.
- `LineOK` holds as long as no Ctrl-D and no Ctrl-G came and no line was cut: every delimiter in the raw ring
  is behind a newline, so that a line that ends has at least that character, and its reader leaves with less to read.

`InputConserved` excepts an overfull ring.  `LineHasRoom` says which: as `CANBSIZ - 2` is less than `TTY_BUF_SIZE`, the cooked ring
always has room for the line that is put there, though nobody looks (`RoomInv`: `Canon` is called with the ring empty), unless
Ctrl-C empties it in the middle of a `GetChar` or a lock is broken, so that two readers bring their lines at once.
The raw ring takes any number of lines, and can run over.

### Images, memory and swapping

`SwappingProofs.tla` proves, for any number of slots and texts, any programs and files, any memory and swap
area and all bounds, `StoreStaysOwned` (`StoreOwned`), `TextsStayRight` (`TextsRight`) and `ForgetsNobody`
(`NobodyForgotten`), all from `SwappingInv`: `Spec => []IInv`.  `IInv` is in a module of its own, `SwappingInvariant.tla`.  Beside `SwappingAssumption` it uses `FirstImageFits`: memory can
hold the image that process 1 starts with (`Init` allocates it without looking, as the code does).

The three properties need each other.  That a page given back was not somebody else's needs that the counters of the texts
are exact, for the last user frees the text; that these are exact needs that a slot is in memory exactly when its
flags and its place in the code say so; and that the copy on the swap area may be relied upon when the
last process in memory leaves needs to know who still has to write it.  `IInv` is the conjunction `Consistent` of

- `Tables`: memory and the swap area are divided among owners and the free nodes (`Held`).  The owners of pages
  (`MemOwner`) are the slots, the texts and, as number 0, the image that `Sched` brings in; those of blocks (`SwapOwner`) the
  slots and the copies of texts.  `x_count` and `x_ccount` are the sizes of the sets of users (`Counted`).  What `Sched` has
  selected is out and has a place to go to (`SelOk`).
- `SlotsOk`: a slot is empty, dead, in memory, being written out, being born as a copy, or out (`SlotOk`), and in each of
  these it is known what is behind `p_addr`; two children are not born from one parent at a time (`Births`).
- `Goods`: who has left the start of its program has a text that was read or saved, a saved text in memory is right, and a text
  not yet saved has a user that is going to save it, and which is in memory or alone.
- `Locks`, `BufferOk`, `SchedOk`: who is in `Swap` is locked; the swap buffer has at most one owner, who sleeps until the transfer
  is done, and who sleeps for the buffer has somebody to wake him; why `Sched` sleeps.

TLC finds `IInv` to hold in all 303591 states of the instance of `MCSwapping`: let that module extend `SwappingInvariant` and
name `IInv` in the `.cfg` (it implies the three invariants of the run, so the run does not check it again).

The argument goes through three layers.  `AllocRight` and `FreeRight` say what the two functions of `Allocator` do to the set of free
cells (`CellsOf`) and that they keep the nodes in order and merged; they go over the cases of a node before, a node
after, both or neither.  Above these are a dozen exchanges between owners, each proved once to keep `Held`
(`ShrinkImage`, `MoveImage`, `GiveImage`, `DropImage`, `TakeBlock`, `DropBlock`, `MakeText`, `TextCame`, `DataCame`,
`TakeOver`, ...), with lemmas of what it does to the counters and to `Goods`.  Every action is then a sequence of one to three
exchanges: `Exec`, for instance, leaves its text (which may drop memory, copy and slot of the text), shrinks its image, joins
or makes another text and grows again.

The steps to a `fault` are in the theorem like all others: the invariant holds in the state in which the model stops.
What it does not say is what the code would do from there.

### Debugging before the kernel

The first part of `DebuggersProofs.tla` proves, for any image, sector length, number of slots and length of the packet buffer, from
`ConfigOK` alone: `TypeCorrect`, `ToldTheTruth` (`AnswersTrue`) and `LeavesAsAsked` (`ResumesAsAsked`).  The inductive
invariant says of each stage what the next one relies on: what has been loaded is the image (`LoadInv`), nothing
is the client's before the stub runs (`FreshInv`), slots and bytes agree with what the client was told
(`SlotInv`, `ByteInv`), and on the way to the kernel, when nobody keeps a table of the int3s, each byte is still
an int3 or the client's (`BridgeInv`); from there `KernelInv` follows at the first checkpoint.
`AnswersTrue` alone is not inductive: that taking out a breakpoint restores the byte GDB knows needs that two slots never
have one address, and that no slot hides an int3.

### The debugger's stub

The second part of `DebuggersProofs.tla` proves of `GdbStub`, for any program, any flow of control, any sizes of table, buffer and
stack of frames, and any number of commands and interrupts: `Int3sOwned` (`Int3Owned`) and `NeverRunsThrough` (`NoRunThrough`).
Both assume `Careful`, the client with GDB's defaults; without it `Int3Owned` is false, for an `M` packet writes over an int3.
`Int3sOwned` assumes `MaxFaults = 0`; `NoRunThrough` speaks of the time before the first damage by itself.  With one
damaged byte or answer `Int3Owned` is only checked.

The inductive invariant `StubInv` (`StubInvariance`) has five parts.
`MachineInv`: the memory of the stub is `Good` (slots that are on have different addresses and keep an instruction,
the end of a range has no slot, and an int3 is in the code exactly where one of them has put it), and the frames are
bound as the registers say.  `WireType`, `WireInv`: at most one packet with a `$` is on the line, it is the client's last command,
and nobody has yet judged it.  `TurnInv`: the client believes the target stopped only while there is a frame.
`TidyInv`: what a `Tidy` client found when it sent `Z` or `M` is still so when the stub takes the packet, after whatever
nested traps the 0x03 on the line have caused.  This last part is why the line and the parser are in the invariant at all.

`NoRunThrough` needs two more.  `PutBackInv`: the only slot out of the code is the one in `g_pending_resume_*`, and while there is one, its address is
that of the program's one frame or of the program about to be stepped, with TF set.  `HeldInv`: when `P` or a range step arrives, nothing
is taken out, for the client sent it so and nothing has run since.

The proof corrected the model twice, each time in a state that a small run does not reach: a step inside `kernel_debug_checkpoint`
traps in the stub's own code before the checkpoint has entered the debugger, and a client that gives up a command to resume
waits for a stop, it does not take the target for stopped.

## 14. Where the code and its comments disagree

A run shows the first; the others were found on the way, some by runs of earlier versions of
these models, and the modules have them in as the code has them.

1. `ProcessManager.cpp:265` says that `Sched` swaps a process in memory out to make room.
   The first search ends in `goto found1` (line 277) without setting `pSelected`: the process that is
   swapped out is the one that is to be brought in, and is not in memory.  Run `swap_victim`.
2. `BufferManager.cpp:155` says that `Brelse` changes the device number of a buffer in
   error, so that no later process takes its wrong data for the block.  It calls
   `Utility::SetMinor` and drops the result, so nothing changes: a second reader gets the
   buffer without `EIO`.
3. `ATADriver.cpp:28-34` starts a failed transfer again and returns before the
   EOI of line 42-44.  The 8259A is in normal EOI mode, so no further disk interrupt
   comes and the up to ten retries are never seen to end (`Hung`).
4. `Process.cpp:78-79` says that a process with a signal that it does not ignore gives
   `Sleep` up before it sleeps.  The test is made (line 81) before interrupts are closed
   (line 91): a Ctrl-C in between finds the process ready, wakes nobody, and the process
   sleeps with SIGINT pending.
5. `ProcessManager.cpp:380-389`: `Wait` gives the slot of the dead child back, sleeps in
   `Bread`, and then frees the swap block that it finds in the slot.  A fork in between
   has put a memory address there: it goes to the swap map, and the block of the
   child is lost (`reused` of section 6).
6. `OpenFileManager.cpp:228` says of `Prele` that it wakes the processes that wait for the
   inode.  `IGet` sleeps on `&pInode` (line 120), the address of its local variable, and
   `Prele` wakes the address of the inode: who waits in `IGet` sleeps for ever.
7. `TTy.cpp`, at `TTRead`, says that sleepers sleep because the cooked ring is empty and the raw ring has no
   delimiter.  Ctrl-G puts a delimiter that is not counted (line 164), and `t_delct--` (line 237) can lose a count to
   the interrupt: a reader then sleeps with a line in the ring, or reads 0.
8. `debugger_main.cpp:169-171` says that a polled 0x03 re-enters the debugger.  With a breakpoint to be put back, or a range
   step under way, `debugger_handle_debug_trap` takes the nested `int $1` for the end of that step and lets the target run.
9. `boot/sector2.asm:1384-1412, 1520-1530`: the early stub announces `vContSupported+` and takes the question `vCont?` for a
   command to resume; `vCont;c` reads the letters `Cont;c` as an address (line 1246).
10. `FileManager.cpp:442` says that the lock of a pipe, and by now that of other files, keeps processes apart.  `IPut` of an inode
    that others hold (`OpenFileManager.cpp:237`) ends with `Prele`: closing one end of a pipe, or one of several Files of an
    inode, unlocks it in the middle of another's transfer (`hist.broken` of `InOrder`).
11. The early stub announces `PacketSize=1000` and keeps 255 bytes of a packet (`sector2.asm:187-203`); it says OK to a change of `esp`
    and of the segments, which it never applies, and to registers that do not exist; no checksum is looked at.
12. The shell never closes its own ends of a pipe (`ExecuteCommand.c:26-52`): the readers of its pipes are never told the end,
    every pipeline costs it two descriptors, and the result of `pipe()` (line 29) is not looked at, so that a later pipeline uses
    what the array happens to contain.
13. `ExecuteTFIL` waits for the left command before it starts the right one (line 43, 106): a left command that writes more than
    `PIPSIZ` hangs.  The last command of a pipeline is never waited for (it has `FAND`), the middle one keeps the write end of its own
    input, and `ExecuteTPAR` waits for any one child (line 64).
14. The parser takes `> f x` for arguments (a redirection to be seen has to be last), drops a `&` after brackets, and after stray
    marks at the beginning of a line takes a token of an earlier line for the command.
15. The comment of `Breada` (`BufferManager.cpp:294-298`) is careful that nobody keeps a buffer of a read-ahead for long, but line 288 sleeps for
    that buffer while it keeps the first (`Starved`, run `cache`): fifteen such processes stop all input and output of blocks.

### Hazards that no property covers

The list `hazards` of `PROJECT.json` is kept to what is most worth checking.  Known beside it:

- cache: `Bmap` asks for a second buffer while it holds that of an index block; a crash between the two halves of `Update`'s superblock.
- inodes: `rablock` is one variable for all inodes (`INode.cpp:404`); `ITrunc` sets `i_nlink` to 1 (line 622); `Link` clears `ILOCK`
  without waking (`FileManager.cpp:1014`); `FAlloc`, `Open1` and `Pipe` undo part of what they took.
- pipes: `CloseF` wakes the other side before the counts go down.
- processes: a child can be born with a signal pending (`Clone`); alarms wake sleepers only in the second in which time equals `tout`.
- terminal: a read shorter than its line loses a character (`TTy.cpp:91`); the output ring is shared by `PutChar` and `TTStart` with interrupts open.
- debugger: a `G` packet is parsed with the bytes of a register in the other order than `g` has sent them (GDB uses `P`); after a damaged packet the stub takes itself for unconnected and answers the retransmission as a query (`debugger_main.cpp:150, 237`); a lost '+' executes a command
  twice; detach leaves breakpoints in; `ListAllInodes` reads one inode too many (`FSDebugger.cpp:462`); a block device
  passes for a directory (`debug_json.cpp:547`), and a directory's blocks that cannot be read are left out with `ok: true`.

## 15. What is not modelled

Section 1 names the parts that are left out for good.  In the parts that are modelled: which ready process runs
(any), the contents of images and of the blocks of named files, the output of the terminal, the alarms, the kernel's
heap, the layouts of page tables and of the hardware's registers, and text that is only printed.  A process number
does not wrap round in the model, nor does it in practice (`int`).

## 16. Plan

The twelve runs and their properties are what the project can check in reasonable time, so what comes next
is first of all proofs:

1. `RawViewAgrees` and `TransferExact`, by induction over the bytes of a transfer as in `TerminalProofs.tla`; `Int3Owned` with one
   damaged byte, where a command may be taken twice.  The shell (`ParsedRight`, `Wired`, `InTurn`) stays with TLC: its tree is recursive.
2. **Clock** (one alarm for all sleepers), and the kernel's heap as an algorithm, in place of a run that a theorem has
   made unnecessary.
