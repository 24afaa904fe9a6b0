------------------------------ MODULE Processes ------------------------------
(***************************************************************************)
(* The process table of UNIX V6++ (src/src/proc/Process.cpp and            *)
(* ProcessManager.cpp): fork, exit, wait, exec, kill, ssig, the sleeps     *)
(* that a signal ends, and the places where a process looks for signals    *)
(* (SystemCall::Trap, Time::Clock).                                        *)
(*                                                                         *)
(* Slot 0 (Sched) is left out, slot 1 is the shell that main starts.  A    *)
(* process in the kernel keeps the processor (cpu) until it sleeps or goes *)
(* back to user mode; Ctrl-C, the clock and the ends of transfers come     *)
(* between any two of its steps.  A step ends where an interrupt could     *)
(* change what follows.                                                    *)
(***************************************************************************)
EXTENDS Integers, FiniteSets

CONSTANTS N,           \* slots of process[], slot 0 not counted (NPROC - 1)
          NExec,       \* ProcessManager::NEXEC
          SwapBlks,    \* block numbers of the swap area
          Mem,         \* the address of an image in memory, as a number
          MaxPid,      \* bound: process numbers given by NextUniquePid
          MaxInts,     \* bound: how often Ctrl-C is pressed
          MaxKills     \* bound: calls of kill

ASSUME ProcessesAssumption ==
    /\ N \in Nat \ {0}
    /\ NExec \in Nat \ {0}
    /\ SwapBlks \subseteq Nat
    /\ IsFiniteSet(SwapBlks)
    /\ Mem \in Nat /\ \A b \in SwapBlks : b < Mem
    /\ MaxPid \in Nat \ {0}
    /\ {MaxInts, MaxKills} \subseteq Nat

Slots == 1..N
NoSlot == 0
Signals == {"INT", "KILL"}
NoSig == "none"
\* Sleep channels: slot i stands for &process[i]
NoChan == 0
Io == -1        \* the buffer a process waits for
Tick == -2      \* &Time::tout, the rings of the terminal, a pipe
Exe == -3       \* &ExeCnt

States == {"null", "sleep", "wait", "run", "zomb"}
PCs == {"none", "user", "towait", "waiting", "reap", "topause", "paused",
        "gate", "exec", "trapend", "psig", "psigread", "dying", "dead"}

VARIABLES
    stat,     \* p_stat: "sleep" is SSLEEP, "wait" is SWAIT
    pid,      \* p_pid, 0 in a free slot
    ppid,     \* p_ppid, -1 in a free slot
    sig,      \* p_sig
    tty,      \* is p_ttyp the terminal?
    chan,     \* p_wchan
    addr,     \* p_addr: memory, or the swap block of a dead process
    handler,  \* u_signal: default (0), ignore (odd), or a function
    pc,       \* where the process is
    found,    \* Wait's i: the slot of the child it takes
    got,      \* PSig's local copy of p_sig
    ublk,     \* Exit's blkno
    cpu,      \* the process in the kernel
    exeCnt,   \* ExeCnt
    nextPid,  \* m_NextUniquePid
    swap,     \* the free blocks of the swap map
    ints, kills

tableVars == <<stat, pid, ppid, sig, tty, chan, addr>>
localVars == <<handler, pc, found, got, ublk>>
vars == <<tableVars, localVars, cpu, exeCnt, nextPid, swap, ints, kills>>
-----------------------------------------------------------------------------
(* main has made process 1, the shell, and it runs in user mode.           *)
Init ==
    /\ stat = [p \in Slots |-> IF p = 1 THEN "run" ELSE "null"]
    /\ pid = [p \in Slots |-> IF p = 1 THEN 1 ELSE 0]
    /\ ppid = [p \in Slots |-> IF p = 1 THEN 0 ELSE -1]
    /\ sig = [p \in Slots |-> NoSig]
    /\ tty = [p \in Slots |-> p = 1]
    /\ chan = [p \in Slots |-> NoChan]
    /\ addr = [p \in Slots |-> Mem]
    /\ handler = [p \in Slots |-> [s \in Signals |-> "dfl"]]
    /\ pc = [p \in Slots |-> IF p = 1 THEN "user" ELSE "none"]
    /\ found = [p \in Slots |-> NoSlot]
    /\ got = [p \in Slots |-> NoSig]
    /\ ublk = [p \in Slots |-> Mem]
    /\ cpu = NoSlot
    /\ exeCnt = 0
    /\ nextPid = 2
    /\ swap = SwapBlks
    /\ ints = 0
    /\ kills = 0
-----------------------------------------------------------------------------
(* Helpers.                                                                *)

Live(p) == stat[p] \notin {"null", "zomb"}

\* What a search from the lowest number finds in S, if anything
First(S) == {x \in S : \A y \in S : x <= y}

\* Process::IsSig
IsSigCaught(p) == sig[p] # NoSig /\ handler[p][sig[p]] = "fn"          \* a mutant
IsSig(p) == sig[p] # NoSig /\ handler[p][sig[p]] # "ign"

\* Process::SetRun on each process of Q
SetRun(Q) == /\ stat' = [p \in Slots |-> IF p \in Q THEN "run" ELSE stat[p]]
             /\ chan' = [p \in Slots |-> IF p \in Q THEN NoChan ELSE chan[p]]

\* ProcessManager::WakeUpAll: who sleeps on channel c
SleepOn(c) == {p \in Slots : chan[p] = c /\ stat[p] \in {"wait", "sleep"}}

\* Process::PSignal of s to each slot of Q, used or not
PSignalNoWake(Q, s) ==                                                \* a mutant
    /\ sig' = [p \in Slots |-> IF p \in Q /\ sig[p] # "KILL" THEN s ELSE sig[p]]
    /\ UNCHANGED <<stat, chan>>
PSignal(Q, s) ==
    /\ sig' = [p \in Slots |-> IF p \in Q /\ sig[p] # "KILL" THEN s ELSE sig[p]]
    /\ SetRun({p \in Q : stat[p] = "wait"})

\* Process::Sleep, after its tests: p gives up the processor
Sleep(p, st, c) == /\ stat' = [stat EXCEPT ![p] = st]
                   /\ chan' = [chan EXCEPT ![p] = c]
                   /\ cpu' = NoSlot

\* p runs and has the processor, or may be given it by Select
Running(p) == stat[p] = "run" /\ cpu \in {NoSlot, p}

Goto(p, l) == pc' = [pc EXCEPT ![p] = l]

\* p is done with its system call but for the end of Trap
Return(p) == Goto(p, "trapend") /\ cpu' = p

Children(p) == {c \in Slots : ppid[c] = pid[p]}
-----------------------------------------------------------------------------
(* SystemCall::Trap and the handling of signals.                           *)

\* A system call begins; with a signal to handle it is not carried out
SysEntry(p) == pc[p] = "user" /\ Running(p) /\ ~IsSig(p)

\* At the start of a system call, or when the clock interrupts user mode at the
\* end of a second, a process finds that it has a signal to handle
SeesSignal(p) ==
    /\ pc[p] = "user" /\ Running(p) /\ IsSig(p)
    /\ Goto(p, "psig")
    /\ cpu' = p
    /\ UNCHANGED <<tableVars, handler, found, got, ublk, exeCnt, nextPid, swap,
                   ints, kills>>

\* The end of Trap
TrapEnd(p) ==
    /\ pc[p] = "trapend" /\ Running(p)
    /\ IF IsSig(p) THEN Goto(p, "psig") /\ cpu' = p
                   ELSE Goto(p, "user") /\ cpu' = NoSlot
    /\ UNCHANGED <<tableVars, handler, found, got, ublk, exeCnt, nextPid, swap,
                   ints, kills>>

\* PSig reads p_sig ...
PSigRead(p) ==
    /\ pc[p] = "psig" /\ Running(p)
    /\ got' = [got EXCEPT ![p] = sig[p]]
    /\ Goto(p, "psigread")
    /\ UNCHANGED <<tableVars, handler, found, ublk, cpu, exeCnt, nextPid, swap,
                   ints, kills>>

\* Process::Exit up to the write of the user structure to the swap area: from
\* now on no signal is handled.  AllocSwap takes the first free block; without
\* one the kernel panics (no step).  The files and the text are left out.
ExitBegin(p) ==
    /\ handler' = [handler EXCEPT ![p] = [s \in Signals |-> "ign"]]
    /\ \E b \in First(swap) : /\ ublk' = [ublk EXCEPT ![p] = b]
                            /\ swap' = swap \ {b}
    /\ Goto(p, "dying")
    /\ Sleep(p, "sleep", Io)

\* ... and clears it: whatever came since it was read is lost
PSigHandle(p) ==
    /\ pc[p] = "psigread" /\ Running(p)
    /\ sig' = [sig EXCEPT ![p] = NoSig]
    /\ got' = [got EXCEPT ![p] = NoSig]
    /\ IF handler[p][got[p]] = "dfl"
       THEN ExitBegin(p)
       ELSE /\ handler' = [handler EXCEPT ![p][got[p]] = "dfl"]
            /\ Goto(p, "user")
            /\ cpu' = NoSlot
            /\ UNCHANGED <<stat, chan, ublk, swap>>
    /\ UNCHANGED <<pid, ppid, tty, addr, found, exeCnt, nextPid, ints, kills>>
-----------------------------------------------------------------------------
(* fork, exit, wait.                                                       *)

FreeSlotsOrZombies == {c \in Slots : stat[c] \in {"null", "zomb"}}     \* a mutant
FreeSlots == {c \in Slots : stat[c] = "null"}

\* ProcessManager::Fork, NewProc with memory to spare, Process::Clone.  p_sig
\* of the slot is not set.  The child begins at the end of Trap.
Fork(p) ==
    /\ SysEntry(p)
    /\ nextPid <= MaxPid
    /\ \E c \in First(FreeSlots) :
       /\ stat' = [stat EXCEPT ![c] = "run"]
       /\ pid' = [pid EXCEPT ![c] = nextPid]
       /\ ppid' = [ppid EXCEPT ![c] = pid[p]]
       /\ tty' = [tty EXCEPT ![c] = tty[p]]
       /\ addr' = [addr EXCEPT ![c] = Mem]
       /\ handler' = [handler EXCEPT ![c] = handler[p]]
       /\ pc' = [pc EXCEPT ![c] = "trapend", ![p] = "trapend"]
    /\ nextPid' = nextPid + 1
    /\ cpu' = p
    /\ UNCHANGED <<sig, chan, found, got, ublk, exeCnt, swap, ints, kills>>

\* No free slot: EAGAIN
ForkFail(p) ==
    /\ SysEntry(p)
    /\ FreeSlots = {}
    /\ Return(p)
    /\ UNCHANGED <<tableVars, handler, found, got, ublk, exeCnt, nextPid, swap,
                   ints, kills>>

\* exit(status); the shell does not call it
Exit(p) ==
    /\ SysEntry(p)
    /\ p # 1
    /\ ExitBegin(p)
    /\ UNCHANGED <<pid, ppid, sig, tty, addr, found, got, exeCnt, nextPid,
                   ints, kills>>

AdoptNone(p) == ppid                                                  \* a mutant
\* The children of p, and p itself if its parent is nowhere, get parent 1
Adopt(p) == [c \in Slots |->
               IF \/ c \in Children(p)
                  \/ c = p /\ ppid[p] # 0 /\ {i \in Slots : pid[i] = ppid[p]} = {}
               THEN 1 ELSE ppid[c]]

WakesNobody(p) == {}                                                  \* a mutant
\* Whom a dying process wakes: its parent, if that sleeps on its own slot.
\* The children it leaves to process 1 may be dead already: nobody is woken
\* for them.  ppid 0 is process 0, which never waits.
ExitWakes(p) ==
    LET parents == {i \in Slots : pid[i] = ppid[p]} IN
    CASE ppid[p] = 0 -> {}
      [] ppid[p] # 0 /\ parents # {} -> UNION {SleepOn(i) : i \in First(parents)}
      [] OTHER -> SleepOn(1)

\* The rest of Exit
ExitEnd(p) ==
    /\ pc[p] = "dying" /\ Running(p)
    /\ addr' = [addr EXCEPT ![p] = ublk[p]]
    /\ ublk' = [ublk EXCEPT ![p] = Mem]
    /\ stat' = [q \in Slots |-> CASE q = p -> "zomb"
                                  [] q \in ExitWakes(p) -> "run"
                                  [] OTHER -> stat[q]]
    /\ chan' = [q \in Slots |-> IF q \in ExitWakes(p) THEN NoChan ELSE chan[q]]
    /\ ppid' = Adopt(p)
    /\ Goto(p, "dead")
    /\ cpu' = NoSlot
    /\ UNCHANGED <<pid, sig, tty, handler, found, got, exeCnt, nextPid, swap,
                   ints, kills>>

\* SwapperManager::FreeSwap of the block that slot i names now
FreeSwap(i) == swap' = swap \cup {addr[i]}

\* A turn of the loop of Wait begins: at the call, or after its sleep, which
\* returns to the loop only if there is no signal to handle
WaitTurn(p) == SysEntry(p) \/ (pc[p] = "waiting" /\ Running(p) /\ ~IsSig(p))

\* Wait finds a dead child: it gives the slot back, then reads the block of
\* the child, which may be in the cache, and frees it
WaitTake(p) ==
    /\ WaitTurn(p)
    /\ \E c \in First({d \in Children(p) : stat[d] = "zomb"}) :
       /\ pid' = [pid EXCEPT ![c] = 0]
       /\ ppid' = [ppid EXCEPT ![c] = -1]
       /\ sig' = [sig EXCEPT ![c] = NoSig]
       /\ \/ /\ FreeSwap(c)
             /\ stat' = [stat EXCEPT ![c] = "null"]
             /\ pc' = [pc EXCEPT ![c] = "none", ![p] = "trapend"]
             /\ cpu' = p
             /\ UNCHANGED <<chan, found>>
          \/ /\ stat' = [stat EXCEPT ![c] = "null", ![p] = "sleep"]
             /\ chan' = [chan EXCEPT ![p] = Io]
             /\ pc' = [pc EXCEPT ![c] = "none", ![p] = "reap"]
             /\ found' = [found EXCEPT ![p] = c]
             /\ cpu' = NoSlot
             /\ UNCHANGED swap
    /\ UNCHANGED <<tty, addr, handler, got, ublk, exeCnt, nextPid, ints, kills>>

\* The block is read: by now another process may have the slot
WaitEnd(p) ==
    /\ pc[p] = "reap" /\ Running(p)
    /\ FreeSwap(found[p])
    /\ found' = [found EXCEPT ![p] = NoSlot]
    /\ Return(p)
    /\ UNCHANGED <<tableVars, handler, got, ublk, exeCnt, nextPid, ints, kills>>

\* Wait has children but no dead one, and Sleep has looked for a signal
WaitNone(p) ==
    /\ WaitTurn(p)
    /\ Children(p) # {}
    /\ \A c \in Children(p) : stat[c] # "zomb"
    /\ Goto(p, "towait")
    /\ cpu' = p
    /\ UNCHANGED <<tableVars, handler, found, got, ublk, exeCnt, nextPid, swap,
                   ints, kills>>

\* Wait has no children: ECHILD
WaitFail(p) ==
    /\ WaitTurn(p)
    /\ Children(p) = {}
    /\ Return(p)
    /\ UNCHANGED <<tableVars, handler, found, got, ublk, exeCnt, nextPid, swap,
                   ints, kills>>
-----------------------------------------------------------------------------
(* Sleeps that a signal ends: of wait on its own slot; of sleep, of reads  *)
(* of the terminal and of pipes on what ends by itself (Tick).             *)

\* A call that will sleep; Sleep has looked for a signal
Pause(p) ==
    /\ SysEntry(p)
    /\ Goto(p, "topause")
    /\ cpu' = p
    /\ UNCHANGED <<tableVars, handler, found, got, ublk, exeCnt, nextPid, swap,
                   ints, kills>>

\* Sleep closes the interrupts only now
SleepSet(p) ==
    /\ Running(p)
    /\ \/ pc[p] = "towait" /\ Goto(p, "waiting") /\ Sleep(p, "wait", p)
       \/ pc[p] = "topause" /\ Goto(p, "paused") /\ Sleep(p, "wait", Tick)
    /\ UNCHANGED <<pid, ppid, sig, tty, addr, handler, found, got, ublk, exeCnt,
                   nextPid, swap, ints, kills>>

\* Woken, by a signal (then aRetU leads to the end of Trap), or else to return
Resumed(p) ==
    /\ Running(p)
    /\ \/ pc[p] = "paused"
       \/ pc[p] = "waiting" /\ IsSig(p)
    /\ Return(p)
    /\ UNCHANGED <<tableVars, handler, found, got, ublk, exeCnt, nextPid, swap,
                   ints, kills>>
-----------------------------------------------------------------------------
(* exec, kill, ssig.                                                       *)

\* Must a process wait before it changes its image?
GateClosed(p) == exeCnt >= NExec

ExecTurn(p) == SysEntry(p) \/ (pc[p] = "gate" /\ Running(p))

ExecWait(p) ==
    /\ ExecTurn(p)
    /\ GateClosed(p)
    /\ Goto(p, "gate")
    /\ Sleep(p, "sleep", Exe)
    /\ UNCHANGED <<pid, ppid, sig, tty, addr, handler, found, got, ublk, exeCnt,
                   nextPid, swap, ints, kills>>

\* Past the gate Exec reads the file
ExecBegin(p) ==
    /\ ExecTurn(p)
    /\ ~GateClosed(p)
    /\ exeCnt' = exeCnt + 1
    /\ Goto(p, "exec")
    /\ Sleep(p, "sleep", Io)
    /\ UNCHANGED <<pid, ppid, sig, tty, addr, handler, found, got, ublk, nextPid,
                   swap, ints, kills>>

\* IPut, the wake-up and ExeCnt--: at the end, with the handlers set to default,
\* and when the file may not be executed
ExecLeave(p) ==
    /\ pc[p] = "exec" /\ Running(p)
    /\ exeCnt' = exeCnt - 1
    /\ SetRun(IF exeCnt >= NExec THEN SleepOn(Exe) ELSE {})
    /\ \/ handler' = [handler EXCEPT ![p] = [s \in Signals |-> "dfl"]]
       \/ UNCHANGED handler
    /\ Return(p)
    /\ UNCHANGED <<pid, ppid, sig, tty, addr, found, got, ublk, nextPid, swap,
                   ints, kills>>

\* Neither PE nor ELF, or too large: Exec returns and ExeCnt stays
ExecBad(p) ==
    /\ pc[p] = "exec" /\ Running(p)
    /\ Return(p)
    /\ UNCHANGED <<tableVars, handler, found, got, ublk, exeCnt, nextPid, swap,
                   ints, kills>>

\* kill(t, s): everybody runs as root.  t = 0 means the slots of the same
\* terminal, the free ones among them
KillTargets(p, t) == {q \in Slots \ {p} : IF t = 0 THEN tty[q] = tty[p]
                                                  ELSE pid[q] = t}

Kill(p) ==
    /\ SysEntry(p)
    /\ kills < MaxKills
    /\ kills' = kills + 1
    /\ \E t \in 0..MaxPid, s \in Signals : PSignal(KillTargets(p, t), s)
    /\ Return(p)
    /\ UNCHANGED <<pid, ppid, tty, addr, handler, found, got, ublk, exeCnt,
                   nextPid, swap, ints>>

\* Process::Ssig: how a signal is handled, SIGKILL excepted (EINVAL)
Ssig(p) ==
    /\ SysEntry(p)
    /\ \E h \in {"dfl", "ign", "fn"} :
          handler' = [handler EXCEPT ![p]["INT"] = h]
    /\ sig' = [sig EXCEPT ![p] = IF @ = "INT" THEN NoSig ELSE @]
    /\ Return(p)
    /\ UNCHANGED <<stat, pid, ppid, tty, chan, addr, found, got, ublk, exeCnt,
                   nextPid, swap, ints, kills>>
-----------------------------------------------------------------------------
(* Interrupts.                                                             *)

\* Ctrl-C: SIGINT for everybody but Sched and the shell
CtrlC ==
    /\ ints < MaxInts
    /\ ints' = ints + 1
    /\ PSignal({p \in Slots : pid[p] > 1}, "INT")
    /\ UNCHANGED <<pid, ppid, tty, addr, localVars, cpu, exeCnt, nextPid, swap,
                   kills>>

Wakes(p, c) == /\ chan[p] = c
               /\ SetRun({p})
               /\ UNCHANGED <<pid, ppid, sig, tty, addr, localVars, cpu, exeCnt,
                              nextPid, swap, ints, kills>>

IoDone(p) == Wakes(p, Io)        \* the transfer p waits for is done
TickDone(p) == Wakes(p, Tick)    \* the second p waits for, or its input
-----------------------------------------------------------------------------
\* What p does in the kernel after the beginning of a call
KernelStep(p) ==
    \/ TrapEnd(p) \/ PSigRead(p) \/ PSigHandle(p)
    \/ ExitEnd(p) \/ WaitEnd(p)
    \/ pc[p] = "waiting" /\ (WaitTake(p) \/ WaitNone(p) \/ WaitFail(p))
    \/ SleepSet(p) \/ Resumed(p)
    \/ pc[p] = "gate" /\ (ExecWait(p) \/ ExecBegin(p))
    \/ ExecLeave(p) \/ ExecBad(p)

SysCall(p) ==
    \/ Fork(p) \/ ForkFail(p) \/ Exit(p)
    \/ pc[p] = "user" /\ (WaitTake(p) \/ WaitNone(p) \/ WaitFail(p))
    \/ Pause(p)
    \/ pc[p] = "user" /\ (ExecWait(p) \/ ExecBegin(p))
    \/ Kill(p) \/ Ssig(p)

Next ==
    \/ \E p \in Slots : SysCall(p) \/ SeesSignal(p) \/ KernelStep(p)
                            \/ IoDone(p) \/ TickDone(p)
    \/ CtrlC

Spec == Init /\ [][Next]_vars

\* Transfers end; Select takes the best priority, and a process that was in the
\* kernel has a better one than those in user mode, where p_cpu makes the
\* priorities of the busy ones worse every second: whoever is ready again and
\* again is run again and again.
Fairness == \A p \in Slots : /\ WF_vars(IoDone(p))
                             /\ SF_vars(KernelStep(p))
                             /\ SF_vars(SeesSignal(p))
FairSpec == Spec /\ Fairness
-----------------------------------------------------------------------------
(* Properties.                                                             *)

\* The type of the state, and what p_stat, p_pid, p_wchan and the place of a
\* process in the code have to do with each other.
TypeOK ==
    /\ stat \in [Slots -> States]
    /\ pid \in [Slots -> 0..MaxPid]
    /\ ppid \in [Slots -> -1..MaxPid]
    /\ sig \in [Slots -> Signals \cup {NoSig}]
    /\ tty \in [Slots -> BOOLEAN]
    /\ chan \in [Slots -> Slots \cup {NoChan, Io, Tick, Exe}]
    /\ addr \in [Slots -> SwapBlks \cup {Mem}]
    /\ handler \in [Slots -> [Signals -> {"dfl", "ign", "fn"}]]
    /\ pc \in [Slots -> PCs]
    /\ found \in [Slots -> Slots \cup {NoSlot}]
    /\ got \in [Slots -> Signals \cup {NoSig}]
    /\ ublk \in [Slots -> SwapBlks \cup {Mem}]
    /\ cpu \in Slots \cup {NoSlot}
    /\ exeCnt \in Nat
    /\ nextPid \in 2..(MaxPid + 1)
    /\ swap \subseteq SwapBlks \cup {Mem}
    /\ ints \in 0..MaxInts
    /\ kills \in 0..MaxKills
    /\ \A p \in Slots :
          /\ stat[p] = "null" <=> pc[p] = "none"
          /\ stat[p] = "null" <=> pid[p] = 0
          /\ stat[p] = "zomb" <=> pc[p] = "dead"
          /\ chan[p] = NoChan <=> stat[p] \notin {"sleep", "wait"}

\* The state of a process, its place in the code and its channel agree; and Fork,
\* Exit and Wait keep the family straight, whoever sleeps in the middle of them:
\* numbers are unique, and as long as the shell lives everybody has a
\* parent that lives and so can wait for him.
Family ==
    /\ \A p, q \in Slots : p # q /\ pid[p] # 0 => pid[p] # pid[q]
    /\ Live(1) => \A p \in Slots \ {1} : stat[p] # "null" =>
                     \E q \in Slots : Live(q) /\ pid[q] = ppid[p]
FamilyTree == TypeOK /\ Family

\* Who sleeps in Wait sleeps for somebody: a child of his lives and will wake
\* him; and, but for the shell (for the dead orphans it is given it is not
\* woken), no child of his is dead already, so the wake-up of Exit was not lost.
WaiterHasChild ==
    \A p \in Slots : pc[p] = "waiting" /\ stat[p] = "wait" =>
        /\ \E c \in Children(p) : Live(c)
        /\ p # 1 => \A c \in Children(p) : stat[c] # "zomb"

\* Nobody sleeps on in a low priority sleep with SIGKILL: it comes from a process,
\* so not between the test of Sleep and the sleep.
NoSleepThroughKill == \A p \in Slots : stat[p] = "wait" => sig[p] # "KILL"

\* ExeCnt may count too many (ExecBad), never too few: at most NEXEC processes
\* change their images at a time.
ExecBound == /\ Cardinality({p \in Slots : pc[p] = "exec"}) <= exeCnt
             /\ exeCnt <= NExec

\* A slot is given to another process only after its own process was dead and its
\* parent, and nobody else, took it in Wait.
ReapedByParent ==
    [][\A c \in Slots : pid[c] # 0 /\ pid'[c] # pid[c] =>
          /\ stat[c] = "zomb"
          /\ stat'[c] = "null"
          /\ \E p \in Slots : /\ pid[p] = ppid[c]
                              /\ pc'[p] \in {"reap", "trapend"}]_vars

\* A process with SIGKILL dies, wherever it is; but for one that waits for its
\* turn to exec, which ends when somebody else leaves (or never, see ExecBad).
KilledDies ==
    \A p \in Slots : (sig[p] = "KILL" /\ Live(p)) ~> (~Live(p) \/ pc[p] = "gate")
=============================================================================
