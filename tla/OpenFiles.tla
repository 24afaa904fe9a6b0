------------------------------ MODULE OpenFiles ------------------------------
(* Descriptors, open files and pipes of UNIX V6++ (fs/FileManager.cpp,     *)
(* OpenFileManager.cpp, File.cpp, INode.cpp): processes that share File     *)
(* structures after fork and dup, read and write pipes and files that are   *)
(* open, and close them or die.  The kernel is not preempted: what a        *)
(* process does until it sleeps or returns is done alone (cpu).             *)
EXTENDS Integers, Sequences, FiniteSets

CONSTANTS
    Procs, First, NoProc,  \* First has the files of Given open when the model starts
    Pipes,                 \* inodes that IAlloc gives to pipes
    Input, Output,         \* inodes of two files, open in First as 0 and 1
    NFile,                 \* OpenFileTable::NFILE
    NOfile,                \* OpenFiles::NOFILES
    PipSiz,                \* Inode::PIPSIZ, in blocks
    Blocks,                \* no file gets longer than this, in blocks
    Sizes,                 \* what a read or a write asks for, in blocks
    MaxFaults              \* bound: writes for which the disk has no block

ASSUME OpenFilesAssumption ==
    /\ First \in Procs /\ NoProc \notin Procs /\ IsFiniteSet(Procs)
    /\ Input # Output /\ {Input, Output} \cap Pipes = {}
    /\ {NFile, NOfile, PipSiz, Blocks, MaxFaults} \subseteq Nat
    /\ NFile >= 2 /\ NOfile >= 2 /\ PipSiz \in 1 .. Blocks
    /\ Sizes \subseteq Nat

Given == {Input, Output}
Inos  == Pipes \cup Given
Fds   == 0 .. NOfile - 1
Files == 1 .. NFile

VARIABLES
    fds,    \* u_ofiles of each process: a slot of the file table, 0 for NULL
    file,   \* the open file table: f_count, f_flag, f_inode, f_offset
    inode,  \* i_count, ILOCK, IWANT, i_size, IREAD and IWRITE of i_mode, the blocks
    u,      \* where each process is in the code, its system call
    sig,    \* processes with p_sig set
    cpu,    \* the process in the kernel
    faults, \* full disks so far
    hist    \* of each inode: units read, in order; how many were written; accidents

vars == <<fds, file, inode, u, sig, cpu, faults, hist>>

\* The k-th unit that is written to an inode is k; 0 is an unwritten block
NoFile == [count |-> 0, flag |-> {}, ino |-> Input, off |-> 0]
Empty  == [count |-> 0, lock |-> FALSE, want |-> FALSE, size |-> 0, rd |-> FALSE, wr |-> FALSE,
           data |-> [k \in 0 .. Blocks - 1 |-> 0]]
Clean  == [got |-> <<>>, sent |-> 0, sought |-> FALSE, broken |-> FALSE]
Idle   == [pc |-> "none", fd |-> 0, f |-> 0, ino |-> Input, mode |-> "r", count |-> 0, left |-> 0,
           off |-> 0, err |-> "none", dying |-> FALSE]

Init ==
    /\ fds = [p \in Procs |-> [d \in Fds |-> IF p = First /\ d < 2 THEN d + 1 ELSE 0]]
    /\ file = [f \in Files |->
                 IF f = 1 THEN [count |-> 1, flag |-> {"r"}, ino |-> Input, off |-> 0]
                 ELSE IF f = 2 THEN [count |-> 1, flag |-> {"w"}, ino |-> Output, off |-> 0]
                 ELSE NoFile]
    /\ inode = [i \in Inos |->
                  IF i = Input
                  THEN [Empty EXCEPT !.count = 1, !.size = Blocks,
                                     !.data = [k \in 0 .. Blocks - 1 |-> k + 1]]
                  ELSE IF i = Output THEN [Empty EXCEPT !.count = 1] ELSE Empty]
    /\ u = [p \in Procs |-> IF p = First THEN [Idle EXCEPT !.pc = "user"] ELSE Idle]
    /\ sig = {} /\ cpu = NoProc
    /\ faults = 0
    /\ hist = [i \in Inos |-> IF i = Input THEN [Clean EXCEPT !.sent = Blocks] ELSE Clean]
-----------------------------------------------------------------------------
(* Sleeping, waking and returning.                                         *)

\* Who sleeps on what: pInode + 2 (readers), pInode + 1 (writers), pInode (its lock)
Reading(i) == {p \in Procs : u[p].pc = "rsleep" /\ u[p].ino = i}
Writing(i) == {p \in Procs : u[p].pc = "wsleep" /\ u[p].ino = i}
Locking(i) == {p \in Procs : u[p].pc \in {"rlockw", "wlockw", "flockw"} /\ u[p].ino = i}

\* WakeUpAll: where a process goes on that is woken (from Sleep at PPIPE, where
\* it looks for signals, or from NFlock's at PRIBIO, where it does not)
Resume(pc) == IF pc \in {"rsleep", "rlockw"} THEN "rwoken"
              ELSE IF pc \in {"wsleep", "wlockw"} THEN "wwoken"
              ELSE "flock"
Breakable == {"rsleep", "wsleep", "rlockw", "wlockw"}
Woken(S) == [q \in Procs |-> IF q \in S THEN [u[q] EXCEPT !.pc = Resume(@)] ELSE u[q]]

\* Of each inode: its lock given back, by Prele or NFrele
Freed(r) == [r EXCEPT !.lock = FALSE, !.want = FALSE]
Waiters(i) == IF inode[i].want THEN Locking(i) ELSE {}

\* The call ends: Trap puts u_error into EAX and the process goes back
Back(err) == [Idle EXCEPT !.pc = "user", !.err = err]
Done(p, err, w) == u' = [w EXCEPT ![p] = Back(err)] /\ cpu' = NoProc

Dying == [Idle EXCEPT !.pc = "exit", !.dying = TRUE]

\* Process::Sleep at a priority above 0: a signal ends the call at once (aRetU)
Sleep(p, pc, w) ==
    /\ u' = [w EXCEPT ![p] = IF p \in sig THEN Back("EINTR") ELSE [u[p] EXCEPT !.pc = pc]]
    /\ cpu' = NoProc

Mine(p) == cpu \in {p, NoProc}
CanCall(p) == u[p].pc = "user" /\ cpu = NoProc /\ p \notin sig

\* OpenFiles::GetF, with what it says of descriptors out of range
Asked == 0 .. NOfile
GetF(p, d) == IF d \in Fds THEN fds[p][d] ELSE 0
IsPipe(f) == "pipe" \in file[f].flag

\* OpenFiles::AllocFreeSlot and the search of FAlloc
FreeFds(p) == {d \in Fds : fds[p][d] = 0}
FreeFiles == {f \in Files : file[f].count = 0}
Least(S) == CHOOSE x \in S : \A y \in S : x <= y
-----------------------------------------------------------------------------
(* Reads and writes.                                                       *)

\* FileManager::Rdwr as far as the first lock: the call is recorded in u.
\* (Call says that calls leave faults alone.)
Rdwr(p, mode, d, k) ==
    LET f == GetF(p, d) IN
    /\ CanCall(p)
    /\ IF f = 0 THEN Done(p, "EBADF", u)
       ELSE IF mode \notin file[f].flag THEN Done(p, "EACCES", u)
       ELSE /\ u' = [u EXCEPT ![p] =
                  [@ EXCEPT !.pc = IF ~IsPipe(f) THEN "flock" ELSE IF mode = "r" THEN "rlock" ELSE "wlock",
                            !.f = f, !.ino = file[f].ino, !.mode = mode, !.count = k, !.left = k,
                            !.err = "none"]]
            /\ cpu' = p
    /\ UNCHANGED <<fds, file, inode, sig, hist>>

Sys_Read(p, d, k)  == Rdwr(p, "r", d, k)
Sys_Write(p, d, k) == Rdwr(p, "w", d, k)

\* Mutant: the lock of an inode stops nobody.
LockedNever(i) == FALSE
Locked(i) == inode[i].lock

\* Inode::Plock, and the end of the sleep in it or in ReadP and WriteP
Plock(p) ==
    LET i == u[p].ino IN
    /\ u[p].pc \in {"rlock", "rwoken", "wlock", "wwoken"} /\ Mine(p)
    /\ IF u[p].pc \in {"rwoken", "wwoken"} /\ p \in sig
       THEN Done(p, "EINTR", u) /\ UNCHANGED inode
       ELSE IF Locked(i)
       THEN /\ inode' = [inode EXCEPT ![i].want = TRUE]
            /\ Sleep(p, IF u[p].mode = "r" THEN "rlockw" ELSE "wlockw", u)
       ELSE /\ inode' = [inode EXCEPT ![i].lock = TRUE]
            /\ u' = [u EXCEPT ![p].pc = IF u[p].mode = "r" THEN "readp" ELSE "writep"]
            /\ cpu' = p
    /\ UNCHANGED <<fds, file, sig, faults, hist>>

\* FileManager::ReadP, with the pipe locked: an empty pipe is started again at
\* 0 and writers are woken; the reader sleeps, unless one side is closed
ReadP(p) ==
    LET i == u[p].ino
        f == u[p].f
        empty == file[f].off = inode[i].size
        drained == empty /\ file[f].off # 0
        woken == Waiters(i) \cup (IF drained /\ inode[i].wr THEN Writing(i) ELSE {})
        sleeps == inode[i].count >= 2
        reset == IF drained THEN [Freed(inode[i]) EXCEPT !.size = 0, !.wr = FALSE] ELSE Freed(inode[i])
    IN
    /\ u[p].pc = "readp" /\ Mine(p)
    /\ IF ~empty
       THEN /\ u' = [u EXCEPT ![p] = [@ EXCEPT !.pc = "io", !.off = file[f].off]]
            /\ cpu' = p
            /\ UNCHANGED <<file, inode>>
       ELSE /\ file' = IF drained THEN [file EXCEPT ![f].off = 0] ELSE file
            /\ inode' = [inode EXCEPT ![i] = IF sleeps THEN [reset EXCEPT !.rd = TRUE] ELSE reset]
            /\ IF sleeps THEN Sleep(p, "rsleep", Woken(woken)) ELSE Done(p, "none", Woken(woken))
    /\ UNCHANGED <<fds, sig, faults, hist>>

\* FileManager::WriteP, with the pipe locked, as far as WriteI: the end, a
\* pipe nobody reads (SIGPIPE), a full pipe, or one more piece
WriteP(p) ==
    LET i == u[p].ino
        unlocked == [inode EXCEPT ![i] = Freed(@)]
        room == PipSiz - inode[i].size
        piece == IF u[p].count <= room THEN u[p].count ELSE room
    IN
    /\ u[p].pc = "writep" /\ Mine(p)
    /\ IF u[p].count = 0
       THEN inode' = unlocked /\ Done(p, u[p].err, Woken(Waiters(i))) /\ UNCHANGED sig
       ELSE IF inode[i].count < 2
       THEN inode' = unlocked /\ Done(p, "EPIPE", Woken(Waiters(i))) /\ sig' = sig \cup {p}
       ELSE IF room = 0
       THEN /\ inode' = [unlocked EXCEPT ![i].wr = TRUE]
            /\ Sleep(p, "wsleep", Woken(Waiters(i)))
            /\ UNCHANGED sig
       ELSE /\ u' = [u EXCEPT ![p] = [@ EXCEPT !.pc = "io", !.off = inode[i].size, !.left = piece,
                                               !.count = u[p].count - piece]]
            /\ cpu' = p
            /\ UNCHANGED <<inode, sig>>
    /\ UNCHANGED <<fds, file, faults, hist>>

\* Inode::NFlock for what is not a pipe; Rdwr then takes the offset of the File
NFlock(p) ==
    LET i == u[p].ino IN
    /\ u[p].pc = "flock" /\ Mine(p)
    /\ IF Locked(i)
       THEN /\ inode' = [inode EXCEPT ![i].want = TRUE]
            /\ u' = [u EXCEPT ![p].pc = "flockw"]
            /\ cpu' = NoProc
       ELSE /\ inode' = [inode EXCEPT ![i].lock = TRUE]
            /\ u' = [u EXCEPT ![p] = [@ EXCEPT !.pc = "io", !.off = file[u[p].f].off]]
            /\ cpu' = p
    /\ UNCHANGED <<fds, file, sig, faults, hist>>

\* Inode::ReadI and WriteI, one block: what is there to read is looked at (or a
\* block is allocated), and then Bread, GetBlk or Alloc may sleep
More(p) == u[p].err = "none" /\ u[p].left > 0
Block(p) == IF u[p].off < Blocks THEN inode[u[p].ino].data[u[p].off] ELSE 0
AtEnd(p) == u[p].off >= inode[u[p].ino].size \/ Block(p) = 0
IoStart(p) ==
    /\ u[p].pc = "io" /\ Mine(p) /\ More(p)
    /\ IF u[p].mode = "r" THEN ~AtEnd(p) ELSE u[p].off < Blocks
    /\ u' = [u EXCEPT ![p].pc = "move"]
    /\ cpu' \in {p, NoProc}
    /\ UNCHANGED <<fds, file, inode, sig, faults, hist>>

\* IOMove, and the offset, the rest and the size after it
IoMove(p) ==
    LET i == u[p].ino
        k == u[p].off
    IN
    /\ u[p].pc = "move" /\ Mine(p)
    /\ IF u[p].mode = "r"
       THEN /\ hist' = [hist EXCEPT ![i].got = Append(@, inode[i].data[k])]
            /\ UNCHANGED inode
       ELSE /\ inode' = [inode EXCEPT ![i] = [@ EXCEPT !.data[k] = hist[i].sent + 1,
                     !.size = IF inode[i].size < k + 1 THEN k + 1 ELSE inode[i].size]]
            /\ hist' = [hist EXCEPT ![i].sent = @ + 1]
    /\ u' = [u EXCEPT ![p] = [@ EXCEPT !.pc = "io", !.off = k + 1, !.left = u[p].left - 1]]
    /\ cpu' = p
    /\ UNCHANGED <<fds, file, sig, faults>>

\* Bmap finds no free block: WriteI returns, and WriteP goes on without an effect
\* until all is counted as written
IoFull(p) ==
    /\ u[p].pc = "io" /\ Mine(p) /\ More(p) /\ u[p].mode = "w"
    /\ Block(p) = 0
    /\ u[p].off < Blocks => faults < MaxFaults
    /\ u' = [u EXCEPT ![p].err = "ENOSPC"]
    /\ faults' = faults + (IF u[p].off < Blocks THEN 1 ELSE 0)
    /\ cpu' = p
    /\ UNCHANGED <<fds, file, inode, sig, hist>>

\* WriteP has written and finds IREAD set.  Mutant: it looks for IWANT.
HeardWant(p) == u[p].mode = "w" /\ IsPipe(u[p].f) /\ inode[u[p].ino].want
Heard(p) == u[p].mode = "w" /\ IsPipe(u[p].f) /\ inode[u[p].ino].rd

\* The rest of ReadP, WriteP and Rdwr: offset, unlock, readers woken
IoEnd(p) ==
    LET i == u[p].ino
        f == u[p].f
        after == Woken(Waiters(i) \cup (IF Heard(p) THEN Reading(i) ELSE {}))
        moved == IF IsPipe(f) THEN u[p].off ELSE file[f].off + u[p].count - u[p].left
    IN
    /\ u[p].pc = "io" /\ Mine(p)
    /\ ~More(p) \/ (u[p].mode = "r" /\ AtEnd(p))
    /\ inode' = [inode EXCEPT ![i] = IF Heard(p) THEN [Freed(@) EXCEPT !.rd = FALSE] ELSE Freed(@)]
    /\ IF u[p].mode = "w" /\ IsPipe(f)
       THEN /\ u' = [after EXCEPT ![p] = [u[p] EXCEPT !.pc = "wlock"]]
            /\ cpu' = p
            /\ UNCHANGED file
       ELSE /\ file' = [file EXCEPT ![f].off = moved]
            /\ Done(p, u[p].err, after)
    /\ UNCHANGED <<fds, sig, faults, hist>>
-----------------------------------------------------------------------------
(* Descriptors.                                                            *)

\* FileManager::Pipe from where IAlloc has an inode: two descriptors, two Files,
\* or what was taken is given back and the inode is put
Sys_Pipe(p) ==
    /\ CanCall(p)
    /\ \/ /\ \A i \in Pipes : inode[i].count > 0
          /\ Done(p, "ENFILE", u)
          /\ UNCHANGED <<fds, file, inode, hist>>
       \/ \E i \in Pipes :
          LET d == Least(FreeFds(p))
              e == Least(FreeFds(p) \ {d})
              r == Least(FreeFiles)
              w == Least(FreeFiles \ {r})
              taken == FreeFds(p) # {} /\ FreeFiles # {}
          IN
          /\ inode[i].count = 0
          /\ IF taken /\ FreeFds(p) # {d} /\ FreeFiles # {r}
             THEN /\ fds' = [fds EXCEPT ![p] = [@ EXCEPT ![d] = r, ![e] = w]]
                  /\ file' = [file EXCEPT
                        ![r] = [count |-> 1, flag |-> {"r", "pipe"}, ino |-> i, off |-> 0],
                        ![w] = [count |-> 1, flag |-> {"w", "pipe"}, ino |-> i, off |-> 0]]
                  /\ inode' = [inode EXCEPT ![i] = [Empty EXCEPT !.count = 2]]
                  /\ hist' = [hist EXCEPT ![i] = Clean]
                  /\ Done(p, "none", u)
             ELSE /\ inode' = [inode EXCEPT ![i] = [Empty EXCEPT !.count = 1, !.lock = TRUE]]
                  /\ u' = [u EXCEPT ![p] = [@ EXCEPT !.pc = "iput", !.f = 0, !.ino = i, !.err =
                              IF FreeFds(p) = {} \/ (taken /\ FreeFds(p) = {d}) THEN "EMFILE" ELSE "ENFILE"]]
                  /\ cpu' \in {p, NoProc}
                  /\ UNCHANGED <<fds, file, hist>>
    /\ UNCHANGED sig

\* Mutant: dup does not count the descriptor.
DupUncounted(p, d) ==
    /\ CanCall(p) /\ GetF(p, d) # 0 /\ FreeFds(p) # {}
    /\ fds' = [fds EXCEPT ![p][Least(FreeFds(p))] = GetF(p, d)]
    /\ Done(p, "none", u)
    /\ UNCHANGED <<file, inode, sig, hist>>

\* FileManager::Dup
Sys_Dup(p, d) ==
    LET f == GetF(p, d) IN
    /\ CanCall(p)
    /\ IF f = 0 \/ FreeFds(p) = {}
       THEN Done(p, IF f = 0 THEN "EBADF" ELSE "EMFILE", u) /\ UNCHANGED <<fds, file>>
       ELSE /\ fds' = [fds EXCEPT ![p][Least(FreeFds(p))] = f]
            /\ file' = [file EXCEPT ![f].count = @ + 1]
            /\ Done(p, "none", u)
    /\ UNCHANGED <<inode, sig, hist>>

\* FileManager::Seek, which takes no lock
Sys_Seek(p, d, k, whence) ==
    LET f == GetF(p, d)
        to == k + (IF whence = 1 THEN file[f].off ELSE IF whence = 2 THEN inode[file[f].ino].size ELSE 0)
    IN
    /\ CanCall(p)
    /\ IF f = 0 \/ IsPipe(f)
       THEN Done(p, IF f = 0 THEN "EBADF" ELSE "ESPIPE", u) /\ UNCHANGED <<file, hist>>
       ELSE /\ to <= Blocks
            /\ file' = [file EXCEPT ![f].off = to]
            /\ hist' = [hist EXCEPT ![file[f].ino].sought = TRUE]
            /\ Done(p, "none", u)
    /\ UNCHANGED <<fds, inode, sig>>

\* OpenFileTable::CloseF with the IPut of the last descriptor.  A pipe's sleepers
\* are woken.  IPut of the last end gets the inode off the disk and sleeps, of
\* another end it unlocks the inode, whoever has the lock.  r is the process
\* once it is through.
CloseF(p, f, r, next) ==
    LET i == file[f].ino
        last == file[f].count <= 1
        told == IF IsPipe(f) THEN [inode[i] EXCEPT !.rd = FALSE, !.wr = FALSE] ELSE inode[i]
        ends == IF IsPipe(f) THEN Reading(i) \cup Writing(i) ELSE {}
    IN
    IF last /\ inode[i].count = 1
    THEN /\ inode' = [inode EXCEPT ![i] = [told EXCEPT !.lock = TRUE]]
         /\ u' = [Woken(ends) EXCEPT ![p] = [r EXCEPT !.pc = "iput", !.f = f, !.ino = i]]
         /\ cpu' \in {p, NoProc}
         /\ UNCHANGED <<file, hist>>
    ELSE /\ inode' = [inode EXCEPT ![i] = IF last THEN [Freed(told) EXCEPT !.count = told.count - 1] ELSE told]
         /\ file' = [file EXCEPT ![f] = IF last THEN NoFile ELSE [@ EXCEPT !.count = file[f].count - 1]]
         /\ u' = [Woken(ends \cup (IF last THEN Waiters(i) ELSE {})) EXCEPT ![p] = r]
         /\ cpu' = next
         /\ hist' = [hist EXCEPT ![i].broken = @ \/ (last /\ inode[i].lock)]

\* FileManager::Close
Sys_Close(p, d) ==
    LET f == GetF(p, d) IN
    /\ CanCall(p)
    /\ IF f = 0
       THEN Done(p, "EBADF", u) /\ UNCHANGED <<fds, file, inode, hist>>
       ELSE /\ fds' = [fds EXCEPT ![p][d] = 0]
            /\ CloseF(p, f, Back("none"), NoProc)
    /\ UNCHANGED sig

\* InodeTable::IPut of the last reference after ITrunc, IFree and IUpdate: a
\* pipe has no name and loses its blocks; f is 0 when Pipe gives its inode back
IPut(p) ==
    LET i == u[p].ino
        f == u[p].f
        gone == IF i \in Pipes THEN Empty ELSE [Freed(inode[i]) EXCEPT !.count = @ - 1]
    IN
    /\ u[p].pc = "iput" /\ Mine(p)
    /\ inode' = [inode EXCEPT ![i] = gone]
    /\ file' = IF f = 0 THEN file ELSE [file EXCEPT ![f] = NoFile]
    /\ fds' = IF u[p].dying THEN [fds EXCEPT ![p][u[p].fd] = 0] ELSE fds
    /\ u' = [Woken(Waiters(i)) EXCEPT ![p] = IF u[p].dying THEN Dying ELSE Back(u[p].err)]
    /\ cpu' = IF u[p].dying THEN p ELSE NoProc
    /\ UNCHANGED <<sig, faults, hist>>
-----------------------------------------------------------------------------
(* Processes and signals.                                                  *)

\* Mutant: fork copies the descriptors and counts none.
ForkUncounted(p, q) ==
    /\ CanCall(p) /\ u[q].pc = "none"
    /\ fds' = [fds EXCEPT ![q] = fds[p]]
    /\ Done(p, "none", [u EXCEPT ![q] = Back("none")])
    /\ UNCHANGED <<file, inode, sig, hist>>

\* NewProc: the child has the descriptors of its parent
Sys_Fork(p, q) ==
    /\ CanCall(p)
    /\ IF \A r \in Procs : u[r].pc # "none"
       THEN Done(p, "EAGAIN", u) /\ UNCHANGED <<fds, file>>
       ELSE /\ u[q].pc = "none"
            /\ fds' = [fds EXCEPT ![q] = fds[p]]
            /\ file' = [f \in Files |->
                          [file[f] EXCEPT !.count = @ + Cardinality({d \in Fds : fds[p][d] = f})]]
            /\ Done(p, "none", [u EXCEPT ![q] = Back("none")])
    /\ UNCHANGED <<inode, sig, hist>>

\* Kill and PSignal: a sleeper at a priority above 0 is woken
Sys_Kill(p, q) ==
    /\ CanCall(p)
    /\ q # p /\ u[q].pc # "none" /\ ~u[q].dying
    /\ sig' = sig \cup {q}
    /\ u' = [Woken(IF u[q].pc \in Breakable THEN {q} ELSE {}) EXCEPT ![p] = Back("none")]
    /\ UNCHANGED <<fds, file, inode, cpu, hist>>

\* PSig on the way back to the program: the signal ends it or its handler runs
Signal(p) ==
    /\ u[p].pc = "user" /\ cpu = NoProc /\ p \in sig
    /\ sig' = sig \ {p}
    /\ \/ u' = [u EXCEPT ![p] = Dying] /\ cpu' = p
       \/ UNCHANGED <<u, cpu>>
    /\ UNCHANGED <<fds, file, inode, faults, hist>>

Sys_Rexit(p) ==
    /\ CanCall(p)
    /\ u' = [u EXCEPT ![p] = Dying]
    /\ cpu' = p
    /\ UNCHANGED <<fds, file, inode, sig, hist>>

\* Process::Exit closes the descriptors one by one, and the process is gone
ExitClose(p) == \E d \in Fds :
    LET f == fds[p][d]
        r == [Dying EXCEPT !.fd = d]
    IN
    /\ u[p].pc = "exit" /\ Mine(p)
    /\ f # 0 /\ \A e \in Fds : e < d => fds[p][e] = 0
    /\ CloseF(p, f, r, p)
    /\ fds' = IF u'[p].pc = "iput" THEN fds ELSE [fds EXCEPT ![p][d] = 0]
    /\ UNCHANGED <<sig, faults>>
ExitEnd(p) ==
    /\ u[p].pc = "exit" /\ Mine(p)
    /\ FreeFds(p) = Fds
    /\ u' = [u EXCEPT ![p] = Idle]
    /\ cpu' = NoProc
    /\ UNCHANGED <<fds, file, inode, sig, faults, hist>>
-----------------------------------------------------------------------------
\* A program makes any call
Call(p) ==
    /\ \/ \E d \in Asked, k \in Sizes : Sys_Read(p, d, k) \/ Sys_Write(p, d, k)
       \/ \E d \in Asked, k \in 0 .. Blocks, whence \in 0 .. 2 : Sys_Seek(p, d, k, whence)
       \/ \E d \in Asked : Sys_Dup(p, d) \/ Sys_Close(p, d)
       \/ \E q \in Procs : Sys_Fork(p, q) \/ Sys_Kill(p, q)
       \/ Sys_Pipe(p) \/ Sys_Rexit(p)
    /\ UNCHANGED faults
Step(p) ==
    \/ Plock(p) \/ ReadP(p) \/ WriteP(p) \/ NFlock(p)
    \/ IoStart(p) \/ IoMove(p) \/ IoFull(p) \/ IoEnd(p)
    \/ IPut(p) \/ Signal(p) \/ ExitClose(p) \/ ExitEnd(p)
Next == \E p \in Procs : Call(p) \/ Step(p)

Spec == Init /\ [][Next]_vars
-----------------------------------------------------------------------------
(* What has to hold.                                                       *)

PCs == {"none", "user", "rlock", "rlockw", "rwoken", "readp", "rsleep", "wlock", "wlockw", "wwoken",
        "writep", "wsleep", "flock", "flockw", "io", "move", "iput", "exit"}
Errors == {"none", "EBADF", "EACCES", "EAGAIN", "EINTR", "EPIPE", "ENOSPC", "ENFILE", "EMFILE", "ESPIPE"}

\* Every variable keeps its type.
TypeOK ==
    /\ fds \in [Procs -> [Fds -> 0 .. NFile]]
    /\ file \in [Files -> [count : Nat, flag : SUBSET {"r", "w", "pipe"}, ino : Inos, off : Nat]]
    /\ inode \in [Inos -> [count : Nat, lock : BOOLEAN, want : BOOLEAN, size : 0 .. Blocks,
                           rd : BOOLEAN, wr : BOOLEAN, data : [0 .. Blocks - 1 -> Nat]]]
    /\ u \in [Procs -> [pc : PCs, fd : Nat, f : 0 .. NFile, ino : Inos, mode : {"r", "w"},
                         count : Nat, left : Nat, off : Nat, err : Errors, dying : BOOLEAN]]
    /\ sig \subseteq Procs
    /\ cpu \in Procs \cup {NoProc}
    /\ faults \in 0 .. MaxFaults
    /\ hist \in [Inos -> [got : Seq(Nat), sent : Nat, sought : BOOLEAN, broken : BOOLEAN]]

\* Counts have their ranges, and a File counts the descriptors that lead to it,
\* one more while the last is being closed and already taken out; an inode counts
\* its Files, and the failed Pipe that has not put it back.
Refs(f) == {x \in Procs \X Fds : fds[x[1]][x[2]] = f}
Closers(f) == {p \in Procs : u[p].pc = "iput" /\ u[p].f = f /\ ~u[p].dying}
FilesOf(i) == {f \in Files : file[f].count > 0 /\ file[f].ino = i}
Losers(i) == {p \in Procs : u[p].pc = "iput" /\ u[p].f = 0 /\ u[p].ino = i}
CountsExact ==
    /\ TypeOK
    /\ \A f \in Files : file[f].count = Cardinality(Refs(f)) + Cardinality(Closers(f))
    /\ \A i \in Inos : inode[i].count = Cardinality(FilesOf(i)) + Cardinality(Losers(i))

\* What is read is what was written, once each and in order, and what is not yet
\* read is all there; through a File that several processes share, too.  It
\* takes a seek, or a close that breaks a lock, to undo it.
Reader(i) == {f \in Files : file[f].count > 0 /\ file[f].ino = i /\ "r" \in file[f].flag}
Inside(i) == {p \in Procs : u[p].pc \in {"io", "move"} /\ u[p].ino = i}
Cursor(i) == IF \E p \in Inside(i) : u[p].mode = "r"
             THEN u[CHOOSE p \in Inside(i) : u[p].mode = "r"].off
             ELSE IF Reader(i) = {} THEN 0 ELSE file[CHOOSE f \in Reader(i) : TRUE].off
Unread(i) == [k \in 1 .. inode[i].size - Cursor(i) |-> inode[i].data[Cursor(i) + k - 1]]
InOrder ==
    \A i \in Inos : ~hist[i].broken /\ ~hist[i].sought /\ inode[i].count > 0 =>
        /\ \A k \in DOMAIN hist[i].got : hist[i].got[k] = k
        /\ Reader(i) # {} \/ i \in Given => hist[i].got \o Unread(i) = [k \in 1 .. hist[i].sent |-> k]

\* Nobody sleeps for want of a wake-up: a reader sleeps before an empty pipe that somebody can
\* write and with IREAD set, a writer before a full one that somebody can read
\* and with IWRITE set, and for a lock only while somebody inside has it and
\* IWANT is set.  Who can write or read need not ever do so: a reader whose only
\* writer left is the shell is not woken.
Holders(i) == {p \in Procs : u[p].pc \in {"readp", "writep", "io", "move", "iput"} /\ u[p].ino = i}
NobodyStranded == \A p \in Procs :
    LET i == u[p].ino IN
    /\ u[p].pc = "rsleep" =>
          /\ inode[i].rd /\ inode[i].count = 2
          /\ file[u[p].f].off = inode[i].size \/ Inside(i) # {}
    /\ u[p].pc = "wsleep" => inode[i].wr /\ inode[i].count = 2 /\ inode[i].size = PipSiz
    /\ p \in Locking(i) => inode[i].lock /\ inode[i].want /\ Holders(i) # {}
===============================================================================
