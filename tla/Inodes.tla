------------------------------- MODULE Inodes --------------------------------
(***************************************************************************)
(* The table of inodes in memory (src/src/fs/OpenFileManager.cpp,          *)
(* INode.cpp), the numbers of free inodes (IAlloc, IFree of FileSystem.cpp) *)
(* and the system calls on names and open files that use them              *)
(* (FileManager.cpp): open, creat, unlink, chmod and chown, stat, read and *)
(* write, fstat, close, sync.                                              *)
(*                                                                         *)
(* The kernel is not preemptive: cpu is the process in the kernel, NoProc  *)
(* at the points where a process may sleep and another may come.  All      *)
(* names are in one directory, and all inodes in one sector of the disk.   *)
(***************************************************************************)
EXTENDS Integers, Sequences, FiniteSets

CONSTANTS Procs,
          NoProc,
          Names,
          NoName,
          NInode,     \* the slots of m_Inode
          NEntry,     \* bound: entries of the directory
          Last,       \* the inodes of files are 2 .. Last
          NFile,      \* bound: files at the start
          Cap,        \* the 100 entries of s_inode
          MaxCalls,   \* bound: calls of open, creat, unlink, chmod and stat
          MaxSyncs    \* bound: calls of sync

ASSUME InodesAssumption ==
    /\ NoProc \notin Procs /\ NoName \notin Names
    /\ IsFiniteSet(Procs) /\ Procs # {}
    /\ NInode \in Nat /\ NInode >= 2
    /\ {NEntry, NFile, MaxCalls, MaxSyncs} \subseteq Nat
    /\ Last \in Nat /\ Last >= 2
    /\ NFile <= NEntry /\ NFile < Last
    /\ Cap \in Nat /\ Cap >= 1

Slots == 1..NInode
Entries == 1..NEntry
Files == 2..Last
Root == 1               \* the number of the directory, and its slot
NoNum == -1             \* i_number of a slot that was given back
NoSlot == 0
NoEntry == 0
Awake == 0              \* channels that are not inodes: none,
ILockChan == -1         \* &s_ilock,
LocalChan == -2         \* and the address of a local variable

Calls == {"open", "creat", "unlink", "chmod", "stat"}
PCs == {"idle", "iget", "load", "search", "file", "trunc", "opened",
        "ialloc", "isearch", "pop", "new", "writedir", "clear", "stat", "io", "nflock", "fstat",
        "iput", "itrunc", "iupdate", "iwrite", "iputend",
        "sync", "syncread", "syncwrite", "panic"}

VARIABLES
    inode,   \* m_Inode: i_number, i_count, ILOCK, IWANT, IUPD or IACC, i_mode # 0, i_nlink
    disk,    \* the inodes on disk: d_mode # 0, d_nlink
    dir,     \* the entries of the directory: name, and m_ino, 0 if free
    stk,     \* s_inode[0 .. s_ninode - 1], the top last
    ilock,   \* s_ilock
    u,       \* the local variables of each process, and where it is
    chan,    \* p_wchan: a slot, ILockChan, LocalChan, or Awake
    cpu,     \* the process in the kernel
    updlock, \* updlock
    wild,    \* what was read or written lies outside of the structures
    calls, syncs   \* bounds

vars == <<inode, disk, dir, stk, ilock, u, chan, cpu, updlock, wild, calls, syncs>>

FreeSlot == [num |-> NoNum, count |-> 0, lock |-> FALSE, want |-> FALSE,
             dirty |-> FALSE, mode |-> FALSE, nlink |-> 0]
FreeEntry == [name |-> NoName, ino |-> 0]
Idle == [pc |-> "idle", op |-> "none", name |-> NoName, at |-> NoEntry,
         num |-> 0, ip |-> NoSlot, ret |-> "idle", fd |-> NoSlot]

\* The first inodes of files have the first entries of the directory; the table of free
\* numbers may be empty or not.  The directory is held by rootDirInode and as u_cdir by
\* every process.
Init ==
    /\ inode = [i \in Slots |->
                  IF i = Root THEN [FreeSlot EXCEPT !.num = Root, !.mode = TRUE, !.nlink = 1,
                                                    !.count = Cardinality(Procs) + 1]
                              ELSE FreeSlot]
    /\ \E k \in 1..NFile, name \in [Entries -> Names] :
          /\ \A e, f \in 1..k : e # f => name[e] # name[f]
          /\ disk = [n \in {Root} \cup Files |-> [mode |-> n <= k + 1, nlink |-> 1]]
          /\ dir = [e \in Entries |-> IF e <= k THEN [name |-> name[e], ino |-> e + 1]
                                               ELSE FreeEntry]
          /\ stk \in {<<>>} \cup {<<n>> : n \in (k + 2)..Last}
    /\ ilock = FALSE
    /\ u = [p \in Procs |-> Idle]
    /\ chan = [p \in Procs |-> Awake]
    /\ cpu = NoProc
    /\ updlock = FALSE
    /\ wild = FALSE
    /\ calls = 0
    /\ syncs = 0
-----------------------------------------------------------------------------
(* Steps of a process.                                                     *)

\* p has the processor, or can have it, and is at l.  What happens after something
\* out of bounds was read or written is not modelled.
At(p, l) == ~wild /\ cpu \in {NoProc, p} /\ chan[p] = Awake /\ u[p].pc = l

Go(p, r) == u' = [u EXCEPT ![p] = r] /\ cpu' = p
\* ... and then p may sleep for a buffer
GoSleepy(p, r) == u' = [u EXCEPT ![p] = r] /\ cpu' = NoProc
Return(p) == GoSleepy(p, [Idle EXCEPT !.fd = u[p].fd])

Pc(p, l) == [u[p] EXCEPT !.pc = l]

\* Process::Sleep on c
SleepOn(p, c) == /\ chan' = [chan EXCEPT ![p] = c]
                 /\ cpu' = NoProc
                 /\ UNCHANGED u

\* WakeUpAll(c)
WakeUpAll(c) == chan' = [q \in Procs |-> IF chan[q] = c THEN Awake ELSE chan[q]]
-----------------------------------------------------------------------------
(* Locks and references.                                                   *)

\* The slot's record without its lock, as Prele and NFrele leave it
Unlocked(r) == [r EXCEPT !.lock = FALSE, !.want = FALSE]
PreleWakes(i) == IF inode[i].want THEN WakeUpAll(i) ELSE UNCHANGED chan

\* IPut of a slot with other references
PutRec(r) == [Unlocked(r) EXCEPT !.count = @ - 1]

MatchesUnlocked(i, n) == /\ inode[i].num = n /\ inode[i].count # 0      \* a mutant
                         /\ ~inode[i].lock
Matches(i, n) == inode[i].num = n /\ inode[i].count # 0
\* InodeTable::IsLoaded: the slot of inode n, if it has one
IsLoaded(n) == {i \in Slots : Matches(i, n) /\ \A j \in 1..(i - 1) : ~Matches(j, n)}
\* InodeTable::GetFreeInode
FreeInode == {i \in Slots : inode[i].count = 0 /\ \A j \in 1..(i - 1) : inode[j].count # 0}
-----------------------------------------------------------------------------
(* InodeTable::IGet of u[p].num, on the way to u[p].ret.                   *)

\* The lock's holder wakes those who sleep on the inode; this is a sleep on the
\* local variable that points to it
IGetWait(p) ==
    /\ At(p, "iget")
    /\ \E i \in IsLoaded(u[p].num) :
          /\ inode[i].lock
          /\ inode' = [inode EXCEPT ![i].want = TRUE]
          /\ SleepOn(p, LocalChan)
    /\ UNCHANGED <<disk, dir, stk, ilock, updlock, wild, calls, syncs>>

HitUncounted(r) == [r EXCEPT !.lock = TRUE]                             \* a mutant
Hit(r) == [r EXCEPT !.lock = TRUE, !.count = @ + 1]

\* The directory is searched next, which reads blocks
IGetHit(p) ==
    /\ At(p, "iget")
    /\ \E i \in IsLoaded(u[p].num) :
          /\ ~inode[i].lock
          /\ inode' = [inode EXCEPT ![i] = Hit(@)]
          /\ LET r == [u[p] EXCEPT !.pc = u[p].ret, !.ip = i]
             IN IF u[p].ret = "search" THEN GoSleepy(p, r) ELSE Go(p, r)
    /\ UNCHANGED <<disk, dir, stk, ilock, chan, updlock, wild, calls, syncs>>

\* ENFILE.  A call from IAlloc leaves the directory as NameI locked it for MakNode;
\* unlink stops the system (Panic).
IGetFull(p) ==
    /\ At(p, "iget")
    /\ IsLoaded(u[p].num) = {} /\ FreeInode = {}
    /\ IF u[p].op = "unlink" THEN Go(p, Pc(p, "panic")) ELSE Return(p)
    /\ UNCHANGED <<inode, disk, dir, stk, ilock, chan, updlock, wild, calls, syncs>>

IGetClaim(p) ==
    /\ At(p, "iget")
    /\ IsLoaded(u[p].num) = {}
    /\ \E i \in FreeInode :
          /\ inode' = [inode EXCEPT ![i].num = u[p].num, ![i].lock = TRUE,
                                    ![i].want = FALSE, ![i].dirty = FALSE,
                                    ![i].count = @ + 1]
          /\ GoSleepy(p, [u[p] EXCEPT !.pc = "load", !.ip = i])
    /\ UNCHANGED <<disk, dir, stk, ilock, chan, updlock, wild, calls, syncs>>

\* ICopy; number -1 lies before the buffer
IGetLoad(p) ==
    /\ At(p, "load")
    /\ wild' = (u[p].num = NoNum)
    /\ IF u[p].num = NoNum THEN UNCHANGED inode
       ELSE LET d == disk[u[p].num]
            IN inode' = [inode EXCEPT ![u[p].ip].mode = d.mode, ![u[p].ip].nlink = d.nlink]
    /\ Go(p, Pc(p, u[p].ret))
    /\ UNCHANGED <<disk, dir, stk, ilock, chan, updlock, calls, syncs>>
-----------------------------------------------------------------------------
(* InodeTable::IPut of slot u[p].ip, on the way to u[p].ret.  A call that  *)
(* is over returns.                                                        *)

Put(p, i, ret) == Go(p, [u[p] EXCEPT !.pc = "iput", !.ip = i, !.ret = ret])
AfterPut(p) == IF u[p].ret = "idle" THEN Return(p)
                                     ELSE Go(p, [u[p] EXCEPT !.pc = u[p].ret, !.ip = NoSlot])

LastRef(i) == inode[i].count = 1

IPutShared(p) ==
    /\ At(p, "iput")
    /\ LET i == u[p].ip IN /\ ~LastRef(i)
                           /\ inode' = [inode EXCEPT ![i] = PutRec(@)]
                           /\ PreleWakes(i)
    /\ AfterPut(p)
    /\ UNCHANGED <<disk, dir, stk, ilock, updlock, wild, calls, syncs>>

\* The lock is taken whether or not it was free.  ITrunc reads and frees blocks.
IPutLast(p) ==
    /\ At(p, "iput")
    /\ LET i == u[p].ip IN /\ LastRef(i)
                           /\ inode' = [inode EXCEPT ![i].lock = TRUE]
                           /\ IF inode[i].nlink <= 0 THEN GoSleepy(p, Pc(p, "itrunc"))
                                                     ELSE Go(p, Pc(p, "iupdate"))
    /\ UNCHANGED <<disk, dir, stk, ilock, chan, updlock, wild, calls, syncs>>

StackFullLate == Len(stk) > Cap                                         \* a mutant
StackFull == Len(stk) >= Cap
\* FileSystem::IFree of n
IFree(n) == stk' = IF ilock \/ StackFull THEN stk ELSE Append(stk, n)

IPutFree(p) ==
    /\ At(p, "itrunc")
    /\ inode' = [inode EXCEPT ![u[p].ip].mode = FALSE, ![u[p].ip].nlink = 1,
                              ![u[p].ip].dirty = TRUE]
    /\ IFree(inode[u[p].ip].num)
    /\ Go(p, Pc(p, "iupdate"))
    /\ UNCHANGED <<disk, dir, ilock, chan, updlock, wild, calls, syncs>>

\* Inode::IUpdate, until it has the buffer with the inode
IUpdate(p) ==
    /\ At(p, "iupdate")
    /\ IF inode[u[p].ip].dirty THEN GoSleepy(p, Pc(p, "iwrite"))
                               ELSE Go(p, Pc(p, "iputend"))
    /\ UNCHANGED <<inode, disk, dir, stk, ilock, chan, updlock, wild, calls, syncs>>

\* The inode as it is by now, at the place of its number by now; number -1 lies
\* before the buffer
Copied(i) ==
    LET r == inode[i]
    IN  /\ disk' = IF r.num = NoNum THEN disk
                   ELSE [disk EXCEPT ![r.num] = [mode |-> r.mode, nlink |-> r.nlink]]
        /\ wild' = (r.num = NoNum)

IUpdateWrite(p) ==
    /\ At(p, "iwrite")
    /\ Copied(u[p].ip)
    /\ GoSleepy(p, Pc(p, "iputend"))
    /\ UNCHANGED <<inode, dir, stk, ilock, chan, updlock, calls, syncs>>

IPutEnd(p) ==
    /\ At(p, "iputend")
    /\ LET i == u[p].ip
       IN /\ inode' = [inode EXCEPT ![i] = [PutRec(@) EXCEPT !.num = NoNum, !.dirty = FALSE]]
          /\ PreleWakes(i)
    /\ AfterPut(p)
    /\ UNCHANGED <<disk, dir, stk, ilock, updlock, wild, calls, syncs>>
-----------------------------------------------------------------------------
(* FileManager::NameI, and what the calls do with the inode it finds.      *)

CallName(p) ==
    /\ At(p, "idle")
    /\ calls < MaxCalls /\ calls' = calls + 1
    /\ \E o \in Calls, n \in Names :
          /\ o \in {"open", "creat"} => u[p].fd = NoSlot
          /\ Go(p, [u[p] EXCEPT !.pc = "iget", !.op = o, !.name = n, !.num = Root,
                             !.ret = "search"])
    /\ UNCHANGED <<inode, disk, dir, stk, ilock, chan, updlock, wild, syncs>>

Named(n) == {e \in Entries : dir[e].ino # 0 /\ dir[e].name = n}
FirstFree == {e \in Entries : dir[e].ino = 0 /\ \A f \in 1..(e - 1) : dir[f].ino # 0}

\* The last component is found.  open and creat put the directory, unlink unlocks
\* it and keeps the reference; then IGet.
NameFound(p) ==
    /\ At(p, "search")
    /\ \E e \in Named(u[p].name) :
          /\ inode' = [inode EXCEPT ![Root] = IF u[p].op = "unlink" THEN Unlocked(@) ELSE PutRec(@)]
          /\ Go(p, [u[p] EXCEPT !.pc = "iget", !.num = dir[e].ino, !.ret = "file",
                                !.ip = NoSlot,
                                !.at = IF u[p].op = "unlink" THEN e ELSE NoEntry])
    /\ PreleWakes(Root)
    /\ UNCHANGED <<disk, dir, stk, ilock, updlock, wild, calls, syncs>>

NameMissing(p) ==
    /\ At(p, "search") /\ u[p].op # "creat"
    /\ Named(u[p].name) = {}
    /\ Put(p, u[p].ip, "idle")
    /\ UNCHANGED <<inode, disk, dir, stk, ilock, chan, updlock, wild, calls, syncs>>

\* creat of a new name: the directory stays locked (u_pdir); MakNode
NameNew(p) ==
    /\ At(p, "search") /\ u[p].op = "creat"
    /\ Named(u[p].name) = {}
    /\ \E e \in FirstFree : Go(p, [u[p] EXCEPT !.pc = "ialloc", !.at = e, !.ip = NoSlot])
    /\ UNCHANGED <<inode, disk, dir, stk, ilock, chan, updlock, wild, calls, syncs>>

\* No permission, or creat of a directory
OpenDenied(p) ==
    /\ At(p, "file") /\ u[p].op \in {"open", "creat"}
    /\ Put(p, u[p].ip, "idle")
    /\ UNCHANGED <<inode, disk, dir, stk, ilock, chan, updlock, wild, calls, syncs>>

OpenFile(p) ==
    /\ At(p, "file") /\ u[p].op \in {"open", "creat"}
    /\ IF u[p].op = "open" THEN Go(p, Pc(p, "opened")) ELSE GoSleepy(p, Pc(p, "trunc"))
    /\ UNCHANGED <<inode, disk, dir, stk, ilock, chan, updlock, wild, calls, syncs>>

\* ITrunc sets i_nlink to 1
CreatTrunc(p) ==
    /\ At(p, "trunc")
    /\ inode' = [inode EXCEPT ![u[p].ip].nlink = 1, ![u[p].ip].dirty = TRUE]
    /\ Go(p, Pc(p, "opened"))
    /\ UNCHANGED <<disk, dir, stk, ilock, chan, updlock, wild, calls, syncs>>

\* The rest of Open1: Prele and a File, or none is free
Opened(p) ==
    /\ At(p, "opened")
    /\ inode' = [inode EXCEPT ![u[p].ip] = Unlocked(@)]
    /\ PreleWakes(u[p].ip)
    /\ \/ GoSleepy(p, [Idle EXCEPT !.fd = u[p].ip])
       \/ Put(p, u[p].ip, "idle")
    /\ UNCHANGED <<disk, dir, stk, ilock, updlock, wild, calls, syncs>>
-----------------------------------------------------------------------------
(* FileSystem::IAlloc and MakNode.                                         *)

IAllocWait(p) ==
    /\ At(p, "ialloc") /\ ilock
    /\ SleepOn(p, ILockChan)
    /\ UNCHANGED <<inode, disk, dir, stk, ilock, updlock, wild, calls, syncs>>

IAllocBegin(p) ==
    /\ At(p, "ialloc") /\ ~ilock
    /\ ilock' = (stk = <<>>)
    /\ IF stk = <<>> THEN GoSleepy(p, Pc(p, "isearch")) ELSE Go(p, Pc(p, "pop"))
    /\ UNCHANGED <<inode, disk, dir, stk, chan, updlock, wild, calls, syncs>>

FreeOnDiskOnly(n) == ~disk[n].mode                                      \* a mutant
FreeOnDisk(n) == ~disk[n].mode /\ IsLoaded(n) = {}

NothingFound(found) == found = <<>>

\* The lowest numbers of S in ascending order, up to the size of the table
Lowest(S) ==
    {s \in UNION {[1..k -> S] : k \in 0..Cap} :
        /\ \A i, j \in DOMAIN s : i < j => s[i] < s[j]
        /\ \A n \in S : \/ \E i \in DOMAIN s : s[i] = n
                        \/ Len(s) = Cap /\ \A i \in DOMAIN s : s[i] < n}

\* The table was empty and stays so during the search, as it is locked.  No inode is
\* free: ENOSPC, and nobody puts the directory.
IAllocSearch(p) ==
    /\ At(p, "isearch")
    /\ \E found \in Lowest({n \in Files : FreeOnDisk(n)}) :
          /\ stk' = found
          /\ IF NothingFound(found) THEN Return(p) ELSE Go(p, Pc(p, "pop"))
    /\ ilock' = FALSE
    /\ WakeUpAll(ILockChan)
    /\ UNCHANGED <<inode, disk, dir, updlock, wild, calls, syncs>>

\* Nothing is tested here: when the table is empty, s_inode[-1] is read
IAllocPop(p) ==
    /\ At(p, "pop")
    /\ wild' = (stk = <<>>)
    /\ IF stk = <<>> THEN UNCHANGED <<stk, u, cpu>>
       ELSE /\ stk' = SubSeq(stk, 1, Len(stk) - 1)
            /\ Go(p, [u[p] EXCEPT !.pc = "iget", !.num = stk[Len(stk)], !.ret = "new",
                                  !.ip = NoSlot])
    /\ UNCHANGED <<inode, disk, dir, ilock, chan, updlock, calls, syncs>>

\* The inode is in use: the next one
IAllocUsed(p) ==
    /\ At(p, "new") /\ inode[u[p].ip].mode
    /\ Put(p, u[p].ip, "pop")
    /\ UNCHANGED <<inode, disk, dir, stk, ilock, chan, updlock, wild, calls, syncs>>

\* Clean, and MakNode's entries; WriteI of the directory comes next
MakNode(p) ==
    /\ At(p, "new") /\ ~inode[u[p].ip].mode
    /\ inode' = [inode EXCEPT ![u[p].ip].mode = TRUE, ![u[p].ip].nlink = 1,
                              ![u[p].ip].dirty = TRUE]
    /\ GoSleepy(p, Pc(p, "writedir"))
    /\ UNCHANGED <<disk, dir, stk, ilock, chan, updlock, wild, calls, syncs>>

WriteDir(p) ==
    /\ At(p, "writedir")
    /\ dir' = [dir EXCEPT ![u[p].at] = [name |-> u[p].name, ino |-> inode[u[p].ip].num]]
    /\ inode' = [inode EXCEPT ![Root] = [PutRec(@) EXCEPT !.dirty = TRUE]]
    /\ PreleWakes(Root)
    /\ Go(p, [u[p] EXCEPT !.pc = "opened", !.at = NoEntry])
    /\ UNCHANGED <<disk, stk, ilock, updlock, wild, calls, syncs>>
-----------------------------------------------------------------------------
(* The rest of unlink; open files.                                         *)

UnLink(p) ==
    /\ At(p, "file") /\ u[p].op = "unlink"
    /\ GoSleepy(p, Pc(p, "clear"))
    /\ UNCHANGED <<inode, disk, dir, stk, ilock, chan, updlock, wild, calls, syncs>>

Cleared(e) == [dir EXCEPT ![e] = FreeEntry]

\* IPut of the directory unlocks it, whoever has it locked by now
UnLinkEnd(p) ==
    /\ At(p, "clear")
    /\ dir' = Cleared(u[p].at)
    /\ inode' = [inode EXCEPT ![u[p].ip].nlink = @ - 1, ![u[p].ip].dirty = TRUE,
                              ![Root] = [PutRec(@) EXCEPT !.dirty = TRUE]]
    /\ PreleWakes(Root)
    /\ Go(p, [u[p] EXCEPT !.pc = "iput", !.ret = "idle", !.at = NoEntry])
    /\ UNCHANGED <<disk, stk, ilock, updlock, wild, calls, syncs>>

\* Owner: neither the file's owner nor the super-user
NotOwner(p) ==
    /\ At(p, "file") /\ u[p].op = "chmod"
    /\ Put(p, u[p].ip, "idle")
    /\ UNCHANGED <<inode, disk, dir, stk, ilock, chan, updlock, wild, calls, syncs>>

\* ChMod and ChOwn set IUPD
ChMod(p) ==
    /\ At(p, "file") /\ u[p].op = "chmod"
    /\ inode' = [inode EXCEPT ![u[p].ip].dirty = TRUE]
    /\ Put(p, u[p].ip, "idle")
    /\ UNCHANGED <<disk, dir, stk, ilock, chan, updlock, wild, calls, syncs>>

\* Stat1: IUpdate, then the inode is read back from the disk, which may sleep
StatRead(p) == GoSleepy(p, [u[p] EXCEPT !.pc = "iput", !.ret = "idle"])

Stat(p) ==
    /\ At(p, "file") /\ u[p].op = "stat"
    /\ IF inode[u[p].ip].dirty THEN GoSleepy(p, Pc(p, "stat")) ELSE StatRead(p)
    /\ UNCHANGED <<inode, disk, dir, stk, ilock, chan, updlock, wild, calls, syncs>>

StatWrite(p) ==
    /\ At(p, "stat")
    /\ Copied(u[p].ip)
    /\ StatRead(p)
    /\ UNCHANGED <<inode, dir, stk, ilock, chan, updlock, calls, syncs>>

\* The same of an open file, whose inode is not locked for it
FStat(p) ==
    /\ At(p, "idle") /\ u[p].fd # NoSlot
    /\ inode[u[p].fd].dirty
    /\ GoSleepy(p, Pc(p, "fstat"))
    /\ UNCHANGED <<inode, disk, dir, stk, ilock, chan, updlock, wild, calls, syncs>>

FStatWrite(p) ==
    /\ At(p, "fstat")
    /\ Copied(u[p].fd)
    /\ Return(p)
    /\ UNCHANGED <<inode, dir, stk, ilock, chan, updlock, calls, syncs>>

\* FileManager::Close of the only descriptor of the file
Close(p) ==
    /\ At(p, "idle") /\ u[p].fd # NoSlot
    /\ Go(p, [u[p] EXCEPT !.pc = "iput", !.ip = u[p].fd, !.ret = "idle", !.fd = NoSlot])
    /\ UNCHANGED <<inode, disk, dir, stk, ilock, chan, updlock, wild, calls, syncs>>

\* Rdwr
Rdwr(p) ==
    /\ At(p, "idle") /\ u[p].fd # NoSlot
    /\ Go(p, Pc(p, "nflock"))
    /\ UNCHANGED <<inode, disk, dir, stk, ilock, chan, updlock, wild, calls, syncs>>

NFlockWait(p) ==
    /\ At(p, "nflock") /\ inode[u[p].fd].lock
    /\ inode' = [inode EXCEPT ![u[p].fd].want = TRUE]
    /\ SleepOn(p, u[p].fd)
    /\ UNCHANGED <<disk, dir, stk, ilock, updlock, wild, calls, syncs>>

\* ReadI or WriteI
NFlock(p) ==
    /\ At(p, "nflock") /\ ~inode[u[p].fd].lock
    /\ inode' = [inode EXCEPT ![u[p].fd].lock = TRUE, ![u[p].fd].dirty = TRUE]
    /\ GoSleepy(p, Pc(p, "io"))
    /\ UNCHANGED <<disk, dir, stk, ilock, chan, updlock, wild, calls, syncs>>

NFrele(p) ==
    /\ At(p, "io")
    /\ inode' = [inode EXCEPT ![u[p].fd] = Unlocked(@)]
    /\ PreleWakes(u[p].fd)
    /\ Return(p)
    /\ UNCHANGED <<disk, dir, stk, ilock, updlock, wild, calls, syncs>>
-----------------------------------------------------------------------------
(* InodeTable::UpdateInodeTable, slot by slot.                             *)

Sync(p) ==
    /\ At(p, "idle") /\ ~updlock
    /\ syncs < MaxSyncs /\ syncs' = syncs + 1
    /\ updlock' = TRUE
    /\ Go(p, [u[p] EXCEPT !.pc = "sync", !.op = "sync", !.ip = 1])
    /\ UNCHANGED <<inode, disk, dir, stk, ilock, chan, wild, calls>>

NextSlot(p) == [u[p] EXCEPT !.pc = "sync", !.ip = @ + 1]

SyncSkip(p) ==
    /\ At(p, "sync") /\ u[p].ip \in Slots
    /\ LET r == inode[u[p].ip] IN r.lock \/ r.count = 0 \/ ~r.dirty
    /\ Go(p, NextSlot(p))
    /\ UNCHANGED <<inode, disk, dir, stk, ilock, chan, updlock, wild, calls, syncs>>

\* The lock is taken without a reference
SyncLock(p) ==
    /\ At(p, "sync") /\ u[p].ip \in Slots
    /\ LET r == inode[u[p].ip] IN ~r.lock /\ r.count # 0 /\ r.dirty
    /\ inode' = [inode EXCEPT ![u[p].ip].lock = TRUE]
    /\ GoSleepy(p, Pc(p, "syncread"))
    /\ UNCHANGED <<disk, dir, stk, ilock, chan, updlock, wild, calls, syncs>>

SyncWrite(p) ==
    /\ At(p, "syncread")
    /\ Copied(u[p].ip)
    /\ GoSleepy(p, Pc(p, "syncwrite"))
    /\ UNCHANGED <<inode, dir, stk, ilock, chan, updlock, calls, syncs>>

SyncUnlock(p) ==
    /\ At(p, "syncwrite")
    /\ inode' = [inode EXCEPT ![u[p].ip] = Unlocked(@)]
    /\ PreleWakes(u[p].ip)
    /\ Go(p, NextSlot(p))
    /\ UNCHANGED <<disk, dir, stk, ilock, updlock, wild, calls, syncs>>

SyncEnd(p) ==
    /\ At(p, "sync") /\ u[p].ip \notin Slots
    /\ updlock' = FALSE
    /\ Return(p)
    /\ UNCHANGED <<inode, disk, dir, stk, ilock, chan, wild, calls, syncs>>
-----------------------------------------------------------------------------
IGet(p) == IGetWait(p) \/ IGetHit(p) \/ IGetFull(p) \/ IGetClaim(p) \/ IGetLoad(p)

IPut(p) == \/ IPutShared(p) \/ IPutLast(p) \/ IPutFree(p) \/ IUpdate(p)
           \/ IUpdateWrite(p) \/ IPutEnd(p)

Name(p) == \/ CallName(p) \/ NameFound(p) \/ NameMissing(p) \/ NameNew(p)
           \/ OpenDenied(p) \/ OpenFile(p) \/ CreatTrunc(p) \/ Opened(p)
           \/ UnLink(p) \/ UnLinkEnd(p) \/ NotOwner(p) \/ ChMod(p) \/ Stat(p) \/ StatWrite(p)

IAlloc(p) == \/ IAllocWait(p) \/ IAllocBegin(p) \/ IAllocSearch(p) \/ IAllocPop(p)
             \/ IAllocUsed(p) \/ MakNode(p) \/ WriteDir(p)

ReadWrite(p) == \/ Close(p) \/ Rdwr(p) \/ NFlockWait(p) \/ NFlock(p) \/ NFrele(p)
                \/ FStat(p) \/ FStatWrite(p)

UpdateInodeTable(p) == \/ Sync(p) \/ SyncSkip(p) \/ SyncLock(p) \/ SyncWrite(p)
                       \/ SyncUnlock(p) \/ SyncEnd(p)

Next == \E p \in Procs : \/ IGet(p) \/ IPut(p) \/ Name(p) \/ IAlloc(p)
                         \/ ReadWrite(p) \/ UpdateInodeTable(p)

Spec == Init /\ [][Next]_vars
-----------------------------------------------------------------------------
(* Properties.                                                             *)

\* The type invariant; s_inode never has more than its entries
\* (FileSystem.cpp:319-328).
TypeOK ==
    /\ inode \in [Slots -> [num : {NoNum, Root} \cup Files, count : Nat, lock : BOOLEAN,
                            want : BOOLEAN, dirty : BOOLEAN, mode : BOOLEAN, nlink : Int]]
    /\ disk \in [{Root} \cup Files -> [mode : BOOLEAN, nlink : Int]]
    /\ dir \in [Entries -> [name : Names \cup {NoName}, ino : {NoNum, 0} \cup Files]]
    /\ stk \in Seq({NoNum} \cup Files) /\ Len(stk) <= Cap
    /\ {ilock, updlock, wild} \subseteq BOOLEAN
    /\ u \in [Procs -> [pc : PCs, op : Calls \cup {"none", "sync"}, name : Names \cup {NoName},
                        at : Entries \cup {NoEntry}, num : {NoNum, 0, Root} \cup Files,
                        ip : 0..(NInode + 1), ret : PCs, fd : Slots \cup {NoSlot}]]
    /\ chan \in [Procs -> Slots \cup {Awake, LocalChan, ILockChan}]
    /\ cpu \in Procs \cup {NoProc}
    /\ calls \in 0..MaxCalls /\ syncs \in 0..MaxSyncs

\* No inode is in two slots, though IGet and IPut sleep with a slot half made or
\* half given back (OpenFileManager.cpp:167-190, 208-238).
OneEntryPerInode ==
    \A i, j \in Slots :
        /\ i # j /\ inode[i].count # 0 /\ inode[j].count # 0
        /\ inode[i].num # NoNum
        => inode[i].num # inode[j].num

\* The references to slot i: of open files, of the inodes that calls work on, and of
\* u_pdir or pDeleteInode; rootDirInode and each u_cdir
Refs(i) ==
    Cardinality({p \in Procs : u[p].fd = i})
    + Cardinality({p \in Procs : u[p].ip = i /\ u[p].op # "sync"})
    + IF i = Root THEN Cardinality({p \in Procs : u[p].at # NoEntry}) + Cardinality(Procs) + 1
                  ELSE 0

\* i_count is the number of references, on every path through the calls.  Only the
\* directory may be counted too often: creat leaves it when it gets no inode
\* (FileManager.cpp:793-797).
CountExact ==
    \A i \in Slots : inode[i].count = Refs(i) \/ (i = Root /\ inode[i].count > Refs(i))

\* UpdateInodeTable locks slots it has no reference to, and IPut takes the lock without
\* looking: the slot can be given back under the one or unlocked under the other, and
\* FilesAllocated fails.  It is stated of runs without sync.
Quiet == syncs = 0

\* Whatever others unlink, create and close: an open file has its inode, and the inode
\* is in use;
OpenKept == \A p \in Procs : u[p].fd # NoSlot =>
    LET r == inode[u[p].fd] IN r.num \in Files /\ r.mode

\* the numbers in s_inode are different, no directory entry has one, and in memory none
\* is in use: no number is given out twice (IAlloc reads the disk, which is behind the
\* table: FileSystem.cpp:237-252);
FreeNumbersFree ==
    /\ \A k, l \in 1..Len(stk) : k # l => stk[k] # stk[l]
    /\ \A k \in 1..Len(stk) : /\ \A e \in Entries : dir[e].ino # stk[k]
                              /\ \A i \in IsLoaded(stk[k]) : ~inode[i].mode

\* and a name leads to an inode in use: in memory, or, when it is in no slot or just
\* being read, on disk (unlink clears the entry long before the inode is freed).
EntryAllocated ==
    \A e \in Entries : dir[e].ino # 0 =>
        LET n == dir[e].ino
            loading == \E p \in Procs : u[p].pc = "load" /\ u[p].num = n
        IN IF IsLoaded(n) = {} \/ loading THEN disk[n].mode
           ELSE \A i \in IsLoaded(n) : inode[i].mode

\* The three together: files, names, the free numbers and the disk fit at every moment
\* of every interleaving of open, creat and unlink, and IAlloc never takes from an empty
\* table (IPut: OpenFileManager.cpp:204-239, IAlloc: FileSystem.cpp:200-290).
FilesAllocated == Quiet => OpenKept /\ FreeNumbersFree /\ EntryAllocated /\ ~wild
==============================================================================
