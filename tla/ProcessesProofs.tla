--------------------------- MODULE ProcessesProofs ---------------------------
(* Theorems about Processes, for every number of slots and all bounds.     *)
EXTENDS Processes, FiniteSetTheorems, TLAPS

\* The two parts of TypeOK
Types ==
    /\ stat \in [Slots -> States]
    /\ pid \in [Slots -> 0..MaxPid]
    /\ ppid \in [Slots -> -1..MaxPid]
    /\ sig \in [Slots -> Signals \cup {NoSig}]
    /\ tty \in [Slots -> BOOLEAN]
    /\ chan \in [Slots -> Slots \cup {NoChan, Io, Tick, Exe}]
    /\ addr \in [Slots -> SwapBlks \cup {Mem}]
    /\ handler \in [Slots -> [Signals -> {"dfl", "ign", "fn"}]]
    /\ pc \in [Slots -> PCs]
    /\ found \in [Slots -> Slots \cup {NoSlot}]
    /\ got \in [Slots -> Signals \cup {NoSig}]
    /\ ublk \in [Slots -> SwapBlks \cup {Mem}]
    /\ cpu \in Slots \cup {NoSlot}
    /\ exeCnt \in Nat
    /\ nextPid \in 2..(MaxPid + 1)
    /\ swap \subseteq SwapBlks \cup {Mem}
    /\ ints \in 0..MaxInts
    /\ kills \in 0..MaxKills

StatInv == \A p \in Slots :
    /\ stat[p] = "null" <=> pc[p] = "none"
    /\ stat[p] = "null" <=> pid[p] = 0
    /\ stat[p] = "zomb" <=> pc[p] = "dead"
    /\ chan[p] = NoChan <=> stat[p] \notin {"sleep", "wait"}

\* What Wait and PSig hold
LocalInv == \A p \in Slots :
    /\ pc[p] = "reap" => found[p] # NoSlot
    /\ pc[p] = "psig" => sig[p] # NoSig
    /\ pc[p] = "psigread" => got[p] # NoSig

\* Why nobody sleeps through SIGKILL: who is about to sleep has the processor, so
\* no other process can send him anything; and SIGKILL is ignored by the dying only
SignalInv == \A p \in Slots :
    /\ pc[p] \in {"towait", "topause"} => cpu = p /\ sig[p] # "KILL"
    /\ handler[p]["KILL"] = "ign" => pc[p] \in {"none", "dying", "dead"}
    /\ stat[p] = "wait" => sig[p] # "KILL"

\* Family, and why it stays true: numbers are new, slot 1 is never taken
FamilyInv ==
    /\ \A p \in Slots : pid[p] < nextPid /\ ppid[p] < nextPid
    /\ \A p \in Slots : pid[p] = 0 => ppid[p] = -1
    /\ \A p, q \in Slots : p # q /\ pid[p] # 0 => pid[p] # pid[q]
    /\ pid[1] = 1 /\ ppid[1] = 0
    /\ Live(1) => \A p \in Slots \ {1} : pid[p] # 0 =>
                     \E q \in Slots : Live(q) /\ pid[q] = ppid[p]

\* WaiterHasChild, from the moment Wait has looked at its children
WaitInv == \A p \in Slots :
    /\ pc[p] = "towait" => cpu = p
    /\ pc[p] = "waiting" /\ stat[p] = "wait" => chan[p] = p
    /\ pc[p] = "towait" \/ (pc[p] = "waiting" /\ stat[p] = "wait") =>
          /\ \E c \in Children(p) : Live(c)
          /\ p # 1 => \A c \in Children(p) : stat[c] # "zomb"

IndInv == /\ Types
          /\ StatInv
          /\ LocalInv
          /\ SignalInv
          /\ FamilyInv
          /\ WaitInv
          /\ ExecBound

SleepIsSet(p) ==
    /\ Running(p) /\ cpu' = NoSlot
    /\ stat' = [stat EXCEPT ![p] = "wait"]
    /\ \/ /\ pc[p] = "towait" /\ pc' = [pc EXCEPT ![p] = "waiting"]
          /\ chan' = [chan EXCEPT ![p] = p]
       \/ /\ pc[p] = "topause" /\ pc' = [pc EXCEPT ![p] = "paused"]
          /\ chan' = [chan EXCEPT ![p] = Tick]
    /\ UNCHANGED <<pid, ppid, sig, handler, found, got, exeCnt, nextPid>>

LEMMA WaitTurnFacts ==
    ASSUME NEW p \in Slots, WaitTurn(p)
    PROVE  Running(p) /\ ~IsSig(p) /\ pc[p] \in {"user", "waiting"}
  BY DEF WaitTurn, SysEntry

LEMMA ExecTurnFacts ==
    ASSUME NEW p \in Slots, ExecTurn(p)
    PROVE  Running(p) /\ pc[p] \in {"user", "gate"}
  BY DEF ExecTurn, SysEntry

LEMMA Bounds == N \in Nat \ {0} /\ MaxPid \in Nat \ {0} /\ MaxInts \in Nat /\ MaxKills \in Nat
  BY ProcessesAssumption DEF ProcessesAssumption

LEMMA SetRunTypes ==
    ASSUME Types, NEW Q, SetRun(Q)
    PROVE  /\ stat' \in [Slots -> States]
           /\ chan' \in [Slots -> Slots \cup {NoChan, Io, Tick, Exe}]
  BY DEF Types, SetRun, States

LEMMA PSignalTypes ==
    ASSUME Types, NEW Q, NEW s \in Signals, PSignal(Q, s)
    PROVE  /\ sig' \in [Slots -> Signals \cup {NoSig}]
           /\ stat' \in [Slots -> States]
           /\ chan' \in [Slots -> Slots \cup {NoChan, Io, Tick, Exe}]
<1>1. sig' \in [Slots -> Signals \cup {NoSig}]  BY DEF Types, PSignal
<1> QED  BY <1>1, SetRunTypes DEF PSignal

LEMMA ExitBeginTypes ==
    ASSUME Types, NEW p \in Slots, ExitBegin(p)
    PROVE  /\ stat' \in [Slots -> States]
           /\ chan' \in [Slots -> Slots \cup {NoChan, Io, Tick, Exe}]
           /\ handler' \in [Slots -> [Signals -> {"dfl", "ign", "fn"}]]
           /\ pc' \in [Slots -> PCs]
           /\ ublk' \in [Slots -> SwapBlks \cup {Mem}]
           /\ cpu' \in Slots \cup {NoSlot}
           /\ swap' \subseteq SwapBlks \cup {Mem}
  BY DEF Types, ExitBegin, Goto, Sleep, First, States, PCs


-----------------------------------------------------------------------------
(* The actions that do most, slot by slot.                                 *)

PSigHandled(p) ==
    /\ Running(p) /\ pc[p] = "psigread"
    /\ sig' = [sig EXCEPT ![p] = NoSig]
    /\ got' = [got EXCEPT ![p] = NoSig]
    /\ \A q \in Slots \ {p} : /\ pc'[q] = pc[q] /\ stat'[q] = stat[q]
                             /\ chan'[q] = chan[q] /\ handler'[q] = handler[q]
    /\ \/ /\ pc'[p] = "dying" /\ stat'[p] = "sleep" /\ chan'[p] = Io
       \/ /\ pc'[p] = "user" /\ stat'[p] = stat[p] /\ chan'[p] = chan[p]
          /\ \A s \in Signals : handler'[p][s] \in {"dfl", handler[p][s]}
    /\ cpu' = NoSlot
    /\ UNCHANGED <<pid, ppid, found, exeCnt, nextPid>>

LEMMA PSigHandleEffect ==
    ASSUME Types, LocalInv, NEW p \in Slots, PSigHandle(p)
    PROVE  PSigHandled(p)
<1>1. /\ Running(p) /\ pc[p] = "psigread" /\ got[p] \in Signals
      /\ sig' = [sig EXCEPT ![p] = NoSig]
      /\ got' = [got EXCEPT ![p] = NoSig]
      /\ cpu' = NoSlot
      /\ UNCHANGED <<pid, ppid, found, exeCnt, nextPid>>
  BY DEF PSigHandle, ExitBegin, Sleep, Types, LocalInv
<1>2. CASE ExitBegin(p)
 <2>1. /\ handler' = [handler EXCEPT ![p] = [s \in Signals |-> "ign"]]
       /\ pc' = [pc EXCEPT ![p] = "dying"]
       /\ stat' = [stat EXCEPT ![p] = "sleep"]
       /\ chan' = [chan EXCEPT ![p] = Io]
   BY <1>2 DEF ExitBegin, Goto, Sleep
 <2> QED  BY <1>1, <2>1 DEF PSigHandled, Types
<1>3. CASE ~ExitBegin(p)
 <2>1. /\ handler' = [handler EXCEPT ![p][got[p]] = "dfl"]
       /\ pc' = [pc EXCEPT ![p] = "user"]
       /\ stat' = stat /\ chan' = chan
   BY <1>3 DEF PSigHandle, Goto
 <2> QED  BY <1>1, <2>1 DEF PSigHandled, Types
<1> QED  BY <1>2, <1>3

Forked(p, c) ==
    /\ Running(p) /\ pc[p] = "user" /\ ~IsSig(p)
    /\ c \in Slots /\ stat[c] = "null" /\ c # p
    /\ nextPid <= MaxPid
    /\ stat' = [stat EXCEPT ![c] = "run"]
    /\ pid' = [pid EXCEPT ![c] = nextPid]
    /\ ppid' = [ppid EXCEPT ![c] = pid[p]]
    /\ handler' = [handler EXCEPT ![c] = handler[p]]
    /\ pc'[c] = "trapend" /\ pc'[p] = "trapend"
    /\ \A q \in Slots \ {p, c} : pc'[q] = pc[q]
    /\ nextPid' = nextPid + 1
    /\ cpu' = p
    /\ UNCHANGED <<sig, chan, found, got, exeCnt>>

LEMMA ForkEffect ==
    ASSUME Types, NEW p \in Slots, Fork(p)
    PROVE  \E c \in Slots : Forked(p, c)
<1>1. PICK c \in Slots :
         /\ stat[c] = "null"
         /\ stat' = [stat EXCEPT ![c] = "run"]
         /\ pid' = [pid EXCEPT ![c] = nextPid]
         /\ ppid' = [ppid EXCEPT ![c] = pid[p]]
         /\ handler' = [handler EXCEPT ![c] = handler[p]]
         /\ pc' = [pc EXCEPT ![c] = "trapend", ![p] = "trapend"]
  BY DEF Fork, First, FreeSlots
<1>2. /\ Running(p) /\ pc[p] = "user" /\ ~IsSig(p) /\ nextPid <= MaxPid
      /\ nextPid' = nextPid + 1 /\ cpu' = p
      /\ UNCHANGED <<sig, chan, found, got, exeCnt>>
  BY DEF Fork, SysEntry
<1>3. c # p  BY <1>1, <1>2 DEF Running
<1>4. pc'[c] = "trapend" /\ pc'[p] = "trapend" /\ \A q \in Slots \ {p, c} : pc'[q] = pc[q]
  BY <1>1 DEF Types
<1> QED  BY <1>1, <1>2, <1>3, <1>4 DEF Forked

Exited(p) ==
    /\ Running(p) /\ pc[p] = "dying"
    /\ stat'[p] = "zomb" /\ chan'[p] = chan[p]
    /\ pc' = [pc EXCEPT ![p] = "dead"]
    /\ \A q \in Slots \ {p} :
          IF q \in ExitWakes(p)
          THEN stat[q] \in {"sleep", "wait"} /\ stat'[q] = "run" /\ chan'[q] = NoChan
          ELSE stat'[q] = stat[q] /\ chan'[q] = chan[q]
    /\ ppid' = Adopt(p)
    /\ cpu' = NoSlot
    /\ UNCHANGED <<pid, sig, handler, found, got, exeCnt, nextPid>>

LEMMA ExitWakesSleepers ==
    ASSUME NEW p \in Slots
    PROVE  \A q \in ExitWakes(p) : q \in Slots /\ stat[q] \in {"sleep", "wait"}
  BY DEF ExitWakes, SleepOn

LEMMA ExitEndEffect ==
    ASSUME Types, NEW p \in Slots, ExitEnd(p)
    PROVE  Exited(p)
<1>1. /\ Running(p) /\ pc[p] = "dying" /\ pc' = [pc EXCEPT ![p] = "dead"]
      /\ ppid' = Adopt(p) /\ cpu' = NoSlot
      /\ UNCHANGED <<pid, sig, handler, found, got, exeCnt, nextPid>>
  BY DEF ExitEnd, Goto
<1>2. \A q \in Slots : /\ stat'[q] = CASE q = p -> "zomb"
                                       [] q \in ExitWakes(p) -> "run"
                                       [] OTHER -> stat[q]
                       /\ chan'[q] = IF q \in ExitWakes(p) THEN NoChan ELSE chan[q]
  BY DEF ExitEnd
<1>3. p \notin ExitWakes(p)  BY <1>1, ExitWakesSleepers DEF Running
<1>4. \A q \in Slots \ {p} :
        IF q \in ExitWakes(p)
        THEN stat[q] \in {"sleep", "wait"} /\ stat'[q] = "run" /\ chan'[q] = NoChan
        ELSE stat'[q] = stat[q] /\ chan'[q] = chan[q]
  BY <1>2, ExitWakesSleepers
<1> QED  BY <1>1, <1>2, <1>3, <1>4 DEF Exited

Taken(p, c) ==
    /\ Running(p) /\ pc[p] \in {"user", "waiting"} /\ ~IsSig(p)
    /\ c \in Children(p) /\ stat[c] = "zomb" /\ c # p
    /\ pid' = [pid EXCEPT ![c] = 0]
    /\ ppid' = [ppid EXCEPT ![c] = -1]
    /\ sig' = [sig EXCEPT ![c] = NoSig]
    /\ stat'[c] = "null" /\ pc'[c] = "none" /\ chan'[c] = chan[c] /\ found'[c] = found[c]
    /\ \A q \in Slots \ {p, c} : /\ stat'[q] = stat[q] /\ chan'[q] = chan[q]
                                /\ pc'[q] = pc[q] /\ found'[q] = found[q]
    /\ \/ /\ stat'[p] = "run" /\ chan'[p] = chan[p] /\ pc'[p] = "trapend" /\ cpu' = p
          /\ found'[p] = found[p]
       \/ /\ stat'[p] = "sleep" /\ chan'[p] = Io /\ pc'[p] = "reap" /\ cpu' = NoSlot
          /\ found'[p] = c
    /\ UNCHANGED <<handler, got, exeCnt, nextPid>>

LEMMA WaitTakeEffect ==
    ASSUME Types, NEW p \in Slots, WaitTake(p)
    PROVE  \E c \in Slots : Taken(p, c)
<1>1. PICK c \in Slots :
         /\ c \in Children(p) /\ stat[c] = "zomb"
         /\ pid' = [pid EXCEPT ![c] = 0]
         /\ ppid' = [ppid EXCEPT ![c] = -1]
         /\ sig' = [sig EXCEPT ![c] = NoSig]
         /\ \/ /\ stat' = [stat EXCEPT ![c] = "null"]
               /\ pc' = [pc EXCEPT ![c] = "none", ![p] = "trapend"]
               /\ cpu' = p
               /\ UNCHANGED <<chan, found>>
            \/ /\ stat' = [stat EXCEPT ![c] = "null", ![p] = "sleep"]
               /\ chan' = [chan EXCEPT ![p] = Io]
               /\ pc' = [pc EXCEPT ![c] = "none", ![p] = "reap"]
               /\ found' = [found EXCEPT ![p] = c]
               /\ cpu' = NoSlot
  BY DEF WaitTake, First, Children
<1>2. Running(p) /\ ~IsSig(p) /\ pc[p] \in {"user", "waiting"}  BY WaitTurnFacts DEF WaitTake
<1>3. c # p /\ stat[p] = "run"  BY <1>1, <1>2 DEF Running
<1>4. UNCHANGED <<handler, got, exeCnt, nextPid>>  BY DEF WaitTake
<1>5. /\ stat'[c] = "null" /\ pc'[c] = "none" /\ chan'[c] = chan[c] /\ found'[c] = found[c]
      /\ \A q \in Slots \ {p, c} : /\ stat'[q] = stat[q] /\ chan'[q] = chan[q]
                                  /\ pc'[q] = pc[q] /\ found'[q] = found[q]
  BY <1>1, <1>3 DEF Types
<1>6. \/ /\ stat'[p] = "run" /\ chan'[p] = chan[p] /\ pc'[p] = "trapend" /\ cpu' = p
         /\ found'[p] = found[p]
      \/ /\ stat'[p] = "sleep" /\ chan'[p] = Io /\ pc'[p] = "reap" /\ cpu' = NoSlot
         /\ found'[p] = c
  BY <1>1, <1>3 DEF Types
<1> QED  BY <1>1, <1>2, <1>3, <1>4, <1>5, <1>6 DEF Taken


\* Every action keeps the types
LEMMA TypesStep ==
    ASSUME Types, LocalInv, ExecBound, Next
    PROVE  Types'
<1> USE DEF PCs, States, Signals, Slots, NoSlot, NoChan, Io, Tick, Exe, NoSig
<1>1. ASSUME NEW p \in Slots, SeesSignal(p) PROVE Types'
  BY <1>1 DEF Types, LocalInv, SeesSignal, Running, IsSig, Goto, tableVars,
     localVars
<1>2. ASSUME NEW p \in Slots, TrapEnd(p) PROVE Types'
  BY <1>2 DEF Types, LocalInv, TrapEnd, Running, IsSig, Goto, tableVars, localVars
<1>3. ASSUME NEW p \in Slots, PSigRead(p) PROVE Types'
  BY <1>3 DEF Types, LocalInv, PSigRead, Running, Goto, tableVars, localVars
<1>4. ASSUME NEW p \in Slots, PSigHandle(p) PROVE Types'
 <2>1. /\ pid' = pid /\ ppid' = ppid /\ tty' = tty /\ addr' = addr
       /\ found' = found /\ exeCnt' = exeCnt /\ nextPid' = nextPid
       /\ ints' = ints /\ kills' = kills
       /\ got[p] \in Signals
   BY <1>4 DEF PSigHandle, Types, LocalInv
 <2>2. sig' \in [Slots -> Signals \cup {NoSig}] /\ got' \in [Slots -> Signals \cup {NoSig}]
   BY <1>4 DEF PSigHandle, Types
 <2>3. CASE ExitBegin(p)  BY <2>1, <2>2, <2>3, ExitBeginTypes DEF Types
 <2>4. CASE ~ExitBegin(p)
  <3>1. /\ handler' = [handler EXCEPT ![p][got[p]] = "dfl"]
        /\ pc' = [pc EXCEPT ![p] = "user"]
        /\ cpu' = NoSlot
        /\ stat' = stat /\ chan' = chan /\ ublk' = ublk /\ swap' = swap
    BY <1>4, <2>4 DEF PSigHandle, Goto
  <3>2. /\ handler' \in [Slots -> [Signals -> {"dfl", "ign", "fn"}]]
        /\ pc' \in [Slots -> PCs]
    BY <2>1, <3>1 DEF Types
  <3> QED  BY <2>1, <2>2, <3>1, <3>2 DEF Types
 <2> QED  BY <2>3, <2>4
<1>5. ASSUME NEW p \in Slots, Fork(p) PROVE Types'
 <2>1. PICK c \in Slots :
          /\ stat' = [stat EXCEPT ![c] = "run"]
          /\ pid' = [pid EXCEPT ![c] = nextPid]
          /\ ppid' = [ppid EXCEPT ![c] = pid[p]]
          /\ tty' = [tty EXCEPT ![c] = tty[p]]
          /\ addr' = [addr EXCEPT ![c] = Mem]
          /\ handler' = [handler EXCEPT ![c] = handler[p]]
          /\ pc' = [pc EXCEPT ![c] = "trapend", ![p] = "trapend"]
   BY <1>5 DEF Fork, First, FreeSlots
 <2>2. nextPid <= MaxPid /\ nextPid' = nextPid + 1 /\ nextPid \in 2..(MaxPid + 1)
   BY <1>5 DEF Fork, Types
 <2>3. /\ stat' \in [Slots -> States]
       /\ pid' \in [Slots -> 0..MaxPid]
       /\ nextPid' \in 2..(MaxPid + 1)
   BY <2>1, <2>2, Bounds DEF Types
 <2>4. ppid' \in [Slots -> -1..MaxPid]  BY <2>1, Bounds DEF Types
 <2>5. /\ tty' \in [Slots -> BOOLEAN]  BY <2>1, Zenon DEF Types
 <2>6. /\ addr' \in [Slots -> SwapBlks \cup {Mem}]
       /\ handler' \in [Slots -> [Signals -> {"dfl", "ign", "fn"}]]
       /\ pc' \in [Slots -> PCs]
   BY <2>1 DEF Types
 <2>7. /\ sig' = sig /\ chan' = chan /\ found' = found /\ got' = got /\ ublk' = ublk
       /\ exeCnt' = exeCnt /\ swap' = swap /\ ints' = ints /\ kills' = kills
       /\ cpu' = p
   BY <1>5 DEF Fork
 <2> QED  BY <2>3, <2>4, <2>5, <2>6, <2>7 DEF Types
<1>6. ASSUME NEW p \in Slots, ForkFail(p) PROVE Types'
  BY <1>6 DEF Types, LocalInv, ForkFail, SysEntry, Running, Return, Goto,
     tableVars, localVars
<1>7. ASSUME NEW p \in Slots, Exit(p) PROVE Types'
  BY <1>7 DEF Types, LocalInv, Exit, SysEntry, Running, ExitBegin, Sleep, Goto,
     First, tableVars, localVars
<1>8. ASSUME NEW p \in Slots, ExitEnd(p) PROVE Types'
 <2>1. /\ stat' \in [Slots -> States]
       /\ chan' \in [Slots -> Slots \cup {NoChan, Io, Tick, Exe}]
       /\ pc' \in [Slots -> PCs]
   BY <1>8 DEF ExitEnd, Types, Goto
 <2>2. ppid' \in [Slots -> -1..MaxPid]
  <3>1. ppid' = Adopt(p) /\ \A c \in Slots : Adopt(p)[c] \in {1, ppid[c]}
    BY <1>8 DEF ExitEnd, Adopt
  <3>2. Adopt(p) = [c \in Slots |-> Adopt(p)[c]]  BY DEF Adopt
  <3>3. ppid \in [Slots -> -1..MaxPid]  BY DEF Types
  <3>4. \A c \in Slots : Adopt(p)[c] \in -1..MaxPid  BY <3>1, <3>3, Bounds
  <3> QED  BY <3>1, <3>2, <3>4
 <2>3. addr' \in [Slots -> SwapBlks \cup {Mem}] /\ ublk' \in [Slots -> SwapBlks \cup {Mem}]
   BY <1>8 DEF ExitEnd, Types
 <2> QED  BY <1>8, <2>1, <2>2, <2>3 DEF ExitEnd, Types
<1>9. ASSUME NEW p \in Slots, WaitTake(p) PROVE Types'
 <2>1. PICK c \in Slots :
          /\ pid' = [pid EXCEPT ![c] = 0]
          /\ ppid' = [ppid EXCEPT ![c] = -1]
          /\ sig' = [sig EXCEPT ![c] = NoSig]
          /\ \/ /\ FreeSwap(c)
                /\ stat' = [stat EXCEPT ![c] = "null"]
                /\ pc' = [pc EXCEPT ![c] = "none", ![p] = "trapend"]
                /\ cpu' = p
                /\ UNCHANGED <<chan, found>>
             \/ /\ stat' = [stat EXCEPT ![c] = "null", ![p] = "sleep"]
                /\ chan' = [chan EXCEPT ![p] = Io]
                /\ pc' = [pc EXCEPT ![c] = "none", ![p] = "reap"]
                /\ found' = [found EXCEPT ![p] = c]
                /\ cpu' = NoSlot
                /\ UNCHANGED swap
   BY <1>9 DEF WaitTake, First, Children
 <2>2. /\ pid' \in [Slots -> 0..MaxPid] /\ ppid' \in [Slots -> -1..MaxPid]
       /\ sig' \in [Slots -> Signals \cup {NoSig}]
   BY <2>1, Bounds DEF Types
 <2>3. /\ stat' \in [Slots -> States]
       /\ chan' \in [Slots -> Slots \cup {NoChan, Io, Tick, Exe}]
       /\ pc' \in [Slots -> PCs]
       /\ cpu' \in Slots \cup {NoSlot}
  <3>1. CASE /\ stat' = [stat EXCEPT ![c] = "null"]
             /\ pc' = [pc EXCEPT ![c] = "none", ![p] = "trapend"]
             /\ cpu' = p
             /\ chan' = chan
    BY <3>1 DEF Types
  <3>2. CASE /\ stat' = [stat EXCEPT ![c] = "null", ![p] = "sleep"]
             /\ chan' = [chan EXCEPT ![p] = Io]
             /\ pc' = [pc EXCEPT ![c] = "none", ![p] = "reap"]
             /\ cpu' = NoSlot
    BY <3>2 DEF Types
  <3> QED  BY <2>1, <3>1, <3>2
 <2>4. found' \in [Slots -> Slots \cup {NoSlot}]  BY <2>1 DEF Types
 <2>5. swap' = swap \/ swap' = swap \cup {addr[c]}  BY <2>1 DEF FreeSwap
 <2>6. swap' \subseteq SwapBlks \cup {Mem}  BY <2>5 DEF Types
 <2> QED  BY <1>9, <2>2, <2>3, <2>4, <2>6 DEF WaitTake, Types
<1>10. ASSUME NEW p \in Slots, WaitEnd(p) PROVE Types'
  BY <1>10 DEF Types, LocalInv, WaitEnd, Running, FreeSwap, Return, Goto,
     tableVars, localVars
<1>11. ASSUME NEW p \in Slots, WaitNone(p) PROVE Types'
  BY <1>11, WaitTurnFacts DEF Types, LocalInv, WaitNone, Running, Goto,
     tableVars, localVars
<1>12. ASSUME NEW p \in Slots, WaitFail(p) PROVE Types'
  BY <1>12, WaitTurnFacts DEF Types, LocalInv, WaitFail, Running, Return, Goto,
     tableVars, localVars
<1>13. ASSUME NEW p \in Slots, Pause(p) PROVE Types'
  BY <1>13 DEF Types, LocalInv, Pause, SysEntry, Running, Goto, tableVars,
     localVars
<1>14. ASSUME NEW p \in Slots, SleepSet(p) PROVE Types'
  BY <1>14 DEF Types, LocalInv, SleepSet, Running, Goto, Sleep, tableVars,
     localVars
<1>15. ASSUME NEW p \in Slots, Resumed(p) PROVE Types'
  BY <1>15 DEF Types, LocalInv, Resumed, Running, Return, Goto, tableVars,
     localVars
<1>16. ASSUME NEW p \in Slots, ExecWait(p) PROVE Types'
  BY <1>16, ExecTurnFacts DEF Types, LocalInv, ExecWait, Running, Goto, Sleep,
     tableVars, localVars
<1>17. ASSUME NEW p \in Slots, ExecBegin(p) PROVE Types'
  BY <1>17, ExecTurnFacts DEF Types, LocalInv, ExecBegin, Running, Goto, Sleep,
     tableVars, localVars
<1>18. ASSUME NEW p \in Slots, ExecLeave(p) PROVE Types'
 <2>1. exeCnt > 0
  <3>1. IsFiniteSet({q \in Slots : pc[q] = "exec"})
   <4>1. IsFiniteSet(1..N)  BY FS_Interval, Bounds
   <4>2. {q \in Slots : pc[q] = "exec"} \subseteq 1..N  OBVIOUS
   <4> QED  BY <4>1, <4>2, FS_Subset
  <3>2. p \in {q \in Slots : pc[q] = "exec"}  BY <1>18 DEF ExecLeave
  <3>3. Cardinality({q \in Slots : pc[q] = "exec"}) \in Nat \ {0}
    BY <3>1, <3>2, FS_EmptySet, FS_CardinalityType
  <3> QED  BY <3>3 DEF ExecBound, Types
 <2>2. /\ stat' \in [Slots -> States]
       /\ chan' \in [Slots -> Slots \cup {NoChan, Io, Tick, Exe}]
   BY <1>18, SetRunTypes DEF ExecLeave
 <2>3. handler' \in [Slots -> [Signals -> {"dfl", "ign", "fn"}]]  BY <1>18 DEF ExecLeave, Types
 <2> QED  BY <1>18, <2>1, <2>2, <2>3 DEF ExecLeave, Types, Return, Goto
<1>19. ASSUME NEW p \in Slots, ExecBad(p) PROVE Types'
  BY <1>19 DEF Types, LocalInv, ExecBad, Running, Return, Goto, tableVars,
     localVars
<1>20. ASSUME NEW p \in Slots, Kill(p) PROVE Types'
 <2>1. /\ sig' \in [Slots -> Signals \cup {NoSig}]
       /\ stat' \in [Slots -> States]
       /\ chan' \in [Slots -> Slots \cup {NoChan, Io, Tick, Exe}]
   BY <1>20, PSignalTypes DEF Kill
 <2> QED  BY <1>20, <2>1, Bounds DEF Kill, Types, Return, Goto
<1>21. ASSUME NEW p \in Slots, Ssig(p) PROVE Types'
  BY <1>21 DEF Types, LocalInv, Ssig, SysEntry, Running, Return, Goto,
     tableVars, localVars
<1>22. ASSUME NEW p \in Slots, IoDone(p) PROVE Types'
  BY <1>22 DEF Types, LocalInv, IoDone, Wakes, SetRun, tableVars, localVars
<1>23. ASSUME NEW p \in Slots, TickDone(p) PROVE Types'
  BY <1>23 DEF Types, LocalInv, TickDone, Wakes, SetRun, tableVars, localVars
<1>24. ASSUME CtrlC PROVE Types'
 <2>1. /\ sig' \in [Slots -> Signals \cup {NoSig}]
       /\ stat' \in [Slots -> States]
       /\ chan' \in [Slots -> Slots \cup {NoChan, Io, Tick, Exe}]
   BY <1>24, PSignalTypes DEF CtrlC
 <2> QED  BY <1>24, <2>1, Bounds DEF CtrlC, Types, localVars
<1> QED  BY <1>1, <1>2, <1>3, <1>4, <1>5, <1>6, <1>7, <1>8, <1>9, <1>10, <1>11, <1>12,
<1>13, <1>14, <1>15, <1>16, <1>17, <1>18, <1>19, <1>20, <1>21, <1>22,
<1>23, <1>24 DEF Next, SysCall, KernelStep

\* State, number, channel and place of a slot go together
LEMMA StatStep ==
    ASSUME Types, StatInv, LocalInv, Next
    PROVE  StatInv'
<1> USE DEF PCs, States, Signals, Slots, NoSlot, NoChan, Io, Tick, Exe, NoSig
<1>1. ASSUME NEW p \in Slots, SeesSignal(p) PROVE StatInv'
  BY <1>1 DEF Types, StatInv, SeesSignal, Running, IsSig, Goto, tableVars,
     localVars
<1>2. ASSUME NEW p \in Slots, TrapEnd(p) PROVE StatInv'
  BY <1>2 DEF Types, StatInv, TrapEnd, Running, IsSig, Goto, tableVars, localVars
<1>3. ASSUME NEW p \in Slots, PSigRead(p) PROVE StatInv'
  BY <1>3 DEF Types, StatInv, PSigRead, Running, Goto, tableVars, localVars
<1>4. ASSUME NEW p \in Slots, PSigHandle(p) PROVE StatInv'
 <2>1. PSigHandled(p)  BY <1>4, PSigHandleEffect
 <2> QED  BY <2>1 DEF Types, StatInv, PSigHandled, Running
<1>5. ASSUME NEW p \in Slots, Fork(p) PROVE StatInv'
 <2>1. PICK c \in Slots : Forked(p, c)  BY <1>5, ForkEffect
 <2> QED  BY <2>1 DEF Types, StatInv, Forked, Running
<1>6. ASSUME NEW p \in Slots, ForkFail(p) PROVE StatInv'
  BY <1>6 DEF Types, StatInv, ForkFail, SysEntry, Running, Return, Goto,
     tableVars, localVars
<1>7. ASSUME NEW p \in Slots, Exit(p) PROVE StatInv'
  BY <1>7 DEF Types, StatInv, Exit, SysEntry, Running, ExitBegin, Sleep, Goto,
     First, tableVars, localVars
<1>8. ASSUME NEW p \in Slots, ExitEnd(p) PROVE StatInv'
 <2>1. Exited(p)  BY <1>8, ExitEndEffect
 <2> QED  BY <2>1 DEF Types, StatInv, Exited, Running
<1>9. ASSUME NEW p \in Slots, WaitTake(p) PROVE StatInv'
 <2>1. PICK c \in Slots : Taken(p, c)  BY <1>9, WaitTakeEffect
 <2> QED  BY <2>1 DEF Types, StatInv, Taken, Running
<1>10. ASSUME NEW p \in Slots, WaitEnd(p) PROVE StatInv'
  BY <1>10 DEF Types, StatInv, WaitEnd, Running, FreeSwap, Return, Goto,
     tableVars, localVars
<1>11. ASSUME NEW p \in Slots, WaitNone(p) PROVE StatInv'
  BY <1>11, WaitTurnFacts DEF Types, StatInv, WaitNone, Running, Goto, IsSig,
     tableVars, localVars
<1>12. ASSUME NEW p \in Slots, WaitFail(p) PROVE StatInv'
  BY <1>12, WaitTurnFacts DEF Types, StatInv, WaitFail, Running, Return, Goto,
     tableVars, localVars
<1>13. ASSUME NEW p \in Slots, Pause(p) PROVE StatInv'
  BY <1>13 DEF Types, StatInv, Pause, SysEntry, Running, Goto, IsSig,
     tableVars, localVars
<1>14. ASSUME NEW p \in Slots, SleepSet(p) PROVE StatInv'
 <2>1. SleepIsSet(p)  BY <1>14 DEF SleepSet, SleepIsSet, Running, Goto, Sleep
 <2>2. stat'[p] = "wait" /\ chan'[p] # NoChan /\ pc'[p] \in {"waiting", "paused"}
  <3>1. stat'[p] = "wait"  BY <2>1 DEF SleepIsSet, Types
  <3>2. CASE pc' = [pc EXCEPT ![p] = "waiting"] /\ chan' = [chan EXCEPT ![p] = p]
    BY <3>1, <3>2 DEF Types
  <3>3. CASE pc' = [pc EXCEPT ![p] = "paused"] /\ chan' = [chan EXCEPT ![p] = Tick]
    BY <3>1, <3>3 DEF Types
  <3> QED  BY <2>1, <3>2, <3>3 DEF SleepIsSet
 <2>3. \A q \in Slots \ {p} : stat'[q] = stat[q] /\ chan'[q] = chan[q] /\ pc'[q] = pc[q]
   BY <2>1 DEF SleepIsSet, Types
 <2>4. pid'[p] # 0  BY <2>1 DEF SleepIsSet, StatInv, Running
 <2> QED  BY <2>1, <2>2, <2>3, <2>4 DEF SleepIsSet, StatInv
<1>15. ASSUME NEW p \in Slots, Resumed(p) PROVE StatInv'
  BY <1>15 DEF Types, StatInv, Resumed, Running, Return, Goto, tableVars,
     localVars
<1>16. ASSUME NEW p \in Slots, ExecWait(p) PROVE StatInv'
  BY <1>16, ExecTurnFacts DEF Types, StatInv, ExecWait, Running, Goto, Sleep,
     tableVars, localVars
<1>17. ASSUME NEW p \in Slots, ExecBegin(p) PROVE StatInv'
  BY <1>17, ExecTurnFacts DEF Types, StatInv, ExecBegin, Running, Goto, Sleep,
     tableVars, localVars
<1>18. ASSUME NEW p \in Slots, ExecLeave(p) PROVE StatInv'
  BY <1>18 DEF Types, StatInv, ExecLeave, Running, SetRun, SleepOn, Return,
     Goto, tableVars, localVars
<1>19. ASSUME NEW p \in Slots, ExecBad(p) PROVE StatInv'
  BY <1>19 DEF Types, StatInv, ExecBad, Running, Return, Goto, tableVars,
     localVars
<1>20. ASSUME NEW p \in Slots, Kill(p) PROVE StatInv'
  BY <1>20 DEF Types, StatInv, Kill, SysEntry, Running, Return, Goto, PSignal,
     SetRun, tableVars, localVars
<1>21. ASSUME NEW p \in Slots, Ssig(p) PROVE StatInv'
  BY <1>21 DEF Types, StatInv, Ssig, SysEntry, Running, Return, Goto,
     tableVars, localVars
<1>22. ASSUME NEW p \in Slots, IoDone(p) PROVE StatInv'
  BY <1>22 DEF Types, StatInv, IoDone, Wakes, SetRun, tableVars, localVars
<1>23. ASSUME NEW p \in Slots, TickDone(p) PROVE StatInv'
  BY <1>23 DEF Types, StatInv, TickDone, Wakes, SetRun, tableVars, localVars
<1>24. ASSUME CtrlC PROVE StatInv'
  BY <1>24 DEF Types, StatInv, CtrlC, PSignal, SetRun, tableVars, localVars
<1> QED  BY <1>1, <1>2, <1>3, <1>4, <1>5, <1>6, <1>7, <1>8, <1>9, <1>10, <1>11, <1>12,
<1>13, <1>14, <1>15, <1>16, <1>17, <1>18, <1>19, <1>20, <1>21, <1>22,
<1>23, <1>24 DEF Next, SysCall, KernelStep

\* Wait and PSig find what they left
LEMMA LocalStep ==
    ASSUME Types, StatInv, LocalInv, Next
    PROVE  LocalInv'
<1> USE DEF PCs, States, Signals, Slots, NoSlot, NoChan, Io, Tick, Exe, NoSig
<1>1. ASSUME NEW p \in Slots, SeesSignal(p) PROVE LocalInv'
  BY <1>1 DEF Types, StatInv, LocalInv, SeesSignal, Running, IsSig, Goto,
     tableVars, localVars
<1>2. ASSUME NEW p \in Slots, TrapEnd(p) PROVE LocalInv'
 <2>1. CASE IsSig(p)  BY <1>2, <2>1 DEF Types, StatInv, LocalInv, TrapEnd, IsSig, Goto, tableVars
 <2>2. CASE ~IsSig(p)  BY <1>2, <2>2 DEF Types, StatInv, LocalInv, TrapEnd, Goto, tableVars
 <2> QED  BY <2>1, <2>2
<1>3. ASSUME NEW p \in Slots, PSigRead(p) PROVE LocalInv'
  BY <1>3 DEF Types, StatInv, LocalInv, PSigRead, Running, Goto, tableVars,
     localVars
<1>4. ASSUME NEW p \in Slots, PSigHandle(p) PROVE LocalInv'
 <2>1. PSigHandled(p)  BY <1>4, PSigHandleEffect
 <2> QED  BY <2>1 DEF Types, StatInv, LocalInv, PSigHandled, Running
<1>5. ASSUME NEW p \in Slots, Fork(p) PROVE LocalInv'
 <2>1. PICK c \in Slots : Forked(p, c)  BY <1>5, ForkEffect
 <2> QED  BY <2>1 DEF Types, StatInv, LocalInv, Forked, Running
<1>6. ASSUME NEW p \in Slots, ForkFail(p) PROVE LocalInv'
  BY <1>6 DEF Types, StatInv, LocalInv, ForkFail, SysEntry, Running, Return,
     Goto, tableVars, localVars
<1>7. ASSUME NEW p \in Slots, Exit(p) PROVE LocalInv'
  BY <1>7 DEF Types, StatInv, LocalInv, Exit, SysEntry, Running, ExitBegin,
     Sleep, Goto, First, tableVars, localVars
<1>8. ASSUME NEW p \in Slots, ExitEnd(p) PROVE LocalInv'
 <2>1. Exited(p)  BY <1>8, ExitEndEffect
 <2> QED  BY <2>1 DEF Types, StatInv, LocalInv, Exited, Running
<1>9. ASSUME NEW p \in Slots, WaitTake(p) PROVE LocalInv'
 <2>1. PICK c \in Slots : Taken(p, c)  BY <1>9, WaitTakeEffect
 <2> QED  BY <2>1 DEF Types, StatInv, LocalInv, Taken, Running
<1>10. ASSUME NEW p \in Slots, WaitEnd(p) PROVE LocalInv'
  BY <1>10 DEF Types, StatInv, LocalInv, WaitEnd, Running, FreeSwap, Return,
     Goto, tableVars, localVars
<1>11. ASSUME NEW p \in Slots, WaitNone(p) PROVE LocalInv'
  BY <1>11, WaitTurnFacts DEF Types, StatInv, LocalInv, WaitNone, Running,
     Goto, IsSig, tableVars, localVars
<1>12. ASSUME NEW p \in Slots, WaitFail(p) PROVE LocalInv'
  BY <1>12, WaitTurnFacts DEF Types, StatInv, LocalInv, WaitFail, Running,
     Return, Goto, tableVars, localVars
<1>13. ASSUME NEW p \in Slots, Pause(p) PROVE LocalInv'
  BY <1>13 DEF Types, StatInv, LocalInv, Pause, SysEntry, Running, Goto, IsSig,
     tableVars, localVars
<1>14. ASSUME NEW p \in Slots, SleepSet(p) PROVE LocalInv'
 <2>1. SleepIsSet(p)  BY <1>14 DEF SleepSet, SleepIsSet, Running, Goto, Sleep
 <2> QED  BY <2>1 DEF Types, LocalInv, SleepIsSet, Running
<1>15. ASSUME NEW p \in Slots, Resumed(p) PROVE LocalInv'
  BY <1>15 DEF Types, StatInv, LocalInv, Resumed, Running, Return, Goto,
     tableVars, localVars
<1>16. ASSUME NEW p \in Slots, ExecWait(p) PROVE LocalInv'
  BY <1>16, ExecTurnFacts DEF Types, StatInv, LocalInv, ExecWait, Running,
     Goto, Sleep, tableVars, localVars
<1>17. ASSUME NEW p \in Slots, ExecBegin(p) PROVE LocalInv'
  BY <1>17, ExecTurnFacts DEF Types, StatInv, LocalInv, ExecBegin, Running,
     Goto, Sleep, tableVars, localVars
<1>18. ASSUME NEW p \in Slots, ExecLeave(p) PROVE LocalInv'
  BY <1>18 DEF Types, StatInv, LocalInv, ExecLeave, Running, SetRun, SleepOn,
     Return, Goto, tableVars, localVars
<1>19. ASSUME NEW p \in Slots, ExecBad(p) PROVE LocalInv'
  BY <1>19 DEF Types, StatInv, LocalInv, ExecBad, Running, Return, Goto,
     tableVars, localVars
<1>20. ASSUME NEW p \in Slots, Kill(p) PROVE LocalInv'
  BY <1>20 DEF Types, StatInv, LocalInv, Kill, SysEntry, Running, Return, Goto,
     PSignal, SetRun, tableVars, localVars
<1>21. ASSUME NEW p \in Slots, Ssig(p) PROVE LocalInv'
  BY <1>21 DEF Types, StatInv, LocalInv, Ssig, SysEntry, Running, Return, Goto,
     tableVars, localVars
<1>22. ASSUME NEW p \in Slots, IoDone(p) PROVE LocalInv'
  BY <1>22 DEF Types, StatInv, LocalInv, IoDone, Wakes, SetRun, tableVars,
     localVars
<1>23. ASSUME NEW p \in Slots, TickDone(p) PROVE LocalInv'
  BY <1>23 DEF Types, StatInv, LocalInv, TickDone, Wakes, SetRun, tableVars,
     localVars
<1>24. ASSUME CtrlC PROVE LocalInv'
  BY <1>24 DEF Types, StatInv, LocalInv, CtrlC, PSignal, SetRun, tableVars, localVars
<1> QED  BY <1>1, <1>2, <1>3, <1>4, <1>5, <1>6, <1>7, <1>8, <1>9, <1>10, <1>11, <1>12,
<1>13, <1>14, <1>15, <1>16, <1>17, <1>18, <1>19, <1>20, <1>21, <1>22,
<1>23, <1>24 DEF Next, SysCall, KernelStep

\* SIGKILL is never ignored before the end, and never slept through
LEMMA SignalStep ==
    ASSUME Types, StatInv, LocalInv, SignalInv, Next
    PROVE  SignalInv'
<1> USE DEF PCs, States, Signals, Slots, NoSlot, NoChan, Io, Tick, Exe, NoSig
<1>1. ASSUME NEW p \in Slots, SeesSignal(p) PROVE SignalInv'
  BY <1>1 DEF Types, StatInv, SignalInv, SeesSignal, Running, IsSig, Goto,
     tableVars, localVars
<1>2. ASSUME NEW p \in Slots, TrapEnd(p) PROVE SignalInv'
 <2>1. /\ stat' = stat /\ sig' = sig /\ handler' = handler
       /\ cpu \in {NoSlot, p} /\ cpu' \in {NoSlot, p} /\ pc[p] = "trapend"
       /\ pc'[p] \in {"psig", "user"}
       /\ \A q \in Slots \ {p} : pc'[q] = pc[q]
   BY <1>2 DEF TrapEnd, Goto, Running, Types, tableVars
 <2> QED  BY <2>1 DEF SignalInv
<1>3. ASSUME NEW p \in Slots, PSigRead(p) PROVE SignalInv'
  BY <1>3 DEF Types, StatInv, SignalInv, PSigRead, Running, Goto, tableVars,
     localVars
<1>4. ASSUME NEW p \in Slots, PSigHandle(p) PROVE SignalInv'
 <2>1. PSigHandled(p)  BY <1>4, PSigHandleEffect
 <2> QED  BY <2>1 DEF Types, StatInv, SignalInv, PSigHandled, Running
<1>5. ASSUME NEW p \in Slots, Fork(p) PROVE SignalInv'
 <2>1. PICK c \in Slots : Forked(p, c)  BY <1>5, ForkEffect
 <2> QED  BY <2>1 DEF Types, StatInv, SignalInv, Forked, Running
<1>6. ASSUME NEW p \in Slots, ForkFail(p) PROVE SignalInv'
  BY <1>6 DEF Types, StatInv, SignalInv, ForkFail, SysEntry, Running, Return,
     Goto, tableVars, localVars
<1>7. ASSUME NEW p \in Slots, Exit(p) PROVE SignalInv'
  BY <1>7 DEF Types, StatInv, SignalInv, Exit, SysEntry, Running, ExitBegin,
     Sleep, Goto, First, tableVars, localVars
<1>8. ASSUME NEW p \in Slots, ExitEnd(p) PROVE SignalInv'
 <2>1. Exited(p)  BY <1>8, ExitEndEffect
 <2> QED  BY <2>1 DEF Types, StatInv, SignalInv, Exited, Running
<1>9. ASSUME NEW p \in Slots, WaitTake(p) PROVE SignalInv'
 <2>1. PICK c \in Slots : Taken(p, c)  BY <1>9, WaitTakeEffect
 <2> QED  BY <2>1 DEF Types, StatInv, SignalInv, Taken, Running
<1>10. ASSUME NEW p \in Slots, WaitEnd(p) PROVE SignalInv'
  BY <1>10 DEF Types, StatInv, SignalInv, WaitEnd, Running, FreeSwap, Return,
     Goto, tableVars, localVars
<1>11. ASSUME NEW p \in Slots, WaitNone(p) PROVE SignalInv'
  BY <1>11, WaitTurnFacts DEF Types, StatInv, SignalInv, WaitNone, Running,
     Goto, IsSig, tableVars, localVars
<1>12. ASSUME NEW p \in Slots, WaitFail(p) PROVE SignalInv'
  BY <1>12, WaitTurnFacts DEF Types, StatInv, SignalInv, WaitFail, Running,
     Return, Goto, tableVars, localVars
<1>13. ASSUME NEW p \in Slots, Pause(p) PROVE SignalInv'
  BY <1>13 DEF Types, StatInv, SignalInv, Pause, SysEntry, Running, Goto,
     IsSig, tableVars, localVars
<1>14. ASSUME NEW p \in Slots, SleepSet(p) PROVE SignalInv'
 <2>1. SleepIsSet(p)  BY <1>14 DEF SleepSet, SleepIsSet, Running, Goto, Sleep
 <2> QED  BY <2>1 DEF Types, SignalInv, SleepIsSet, Running
<1>15. ASSUME NEW p \in Slots, Resumed(p) PROVE SignalInv'
  BY <1>15 DEF Types, StatInv, SignalInv, Resumed, Running, Return, Goto,
     tableVars, localVars
<1>16. ASSUME NEW p \in Slots, ExecWait(p) PROVE SignalInv'
  BY <1>16, ExecTurnFacts DEF Types, StatInv, SignalInv, ExecWait, Running,
     Goto, Sleep, tableVars, localVars
<1>17. ASSUME NEW p \in Slots, ExecBegin(p) PROVE SignalInv'
  BY <1>17, ExecTurnFacts DEF Types, StatInv, SignalInv, ExecBegin, Running,
     Goto, Sleep, tableVars, localVars
<1>18. ASSUME NEW p \in Slots, ExecLeave(p) PROVE SignalInv'
 <2>1. /\ Running(p) /\ pc[p] = "exec" /\ pc' = [pc EXCEPT ![p] = "trapend"] /\ cpu' = p
       /\ sig' = sig
       /\ \A q \in Slots : stat'[q] \in {"run", stat[q]}
   BY <1>18 DEF ExecLeave, Return, Goto, SetRun
 <2>2. \A q \in Slots : handler'[q]["KILL"] = "ign" => handler[q]["KILL"] = "ign"
   BY <1>18 DEF ExecLeave, Types
 <2> QED  BY <2>1, <2>2 DEF Types, SignalInv, Running
<1>19. ASSUME NEW p \in Slots, ExecBad(p) PROVE SignalInv'
  BY <1>19 DEF Types, StatInv, SignalInv, ExecBad, Running, Return, Goto,
     tableVars, localVars
<1>20. ASSUME NEW p \in Slots, Kill(p) PROVE SignalInv'
  BY <1>20 DEF Types, StatInv, SignalInv, Kill, SysEntry, Running, Return,
     Goto, PSignal, SetRun, tableVars, localVars
<1>21. ASSUME NEW p \in Slots, Ssig(p) PROVE SignalInv'
  BY <1>21 DEF Types, StatInv, SignalInv, Ssig, SysEntry, Running, Return,
     Goto, tableVars, localVars
<1>22. ASSUME NEW p \in Slots, IoDone(p) PROVE SignalInv'
  BY <1>22 DEF Types, StatInv, SignalInv, IoDone, Wakes, SetRun, tableVars,
     localVars
<1>23. ASSUME NEW p \in Slots, TickDone(p) PROVE SignalInv'
  BY <1>23 DEF Types, StatInv, SignalInv, TickDone, Wakes, SetRun, tableVars,
     localVars
<1>24. ASSUME CtrlC PROVE SignalInv'
  BY <1>24 DEF Types, StatInv, SignalInv, CtrlC, PSignal, SetRun, tableVars, localVars
<1> QED  BY <1>1, <1>2, <1>3, <1>4, <1>5, <1>6, <1>7, <1>8, <1>9, <1>10, <1>11, <1>12,
<1>13, <1>14, <1>15, <1>16, <1>17, <1>18, <1>19, <1>20, <1>21, <1>22,
<1>23, <1>24 DEF Next, SysCall, KernelStep

LEMMA FamilyFrame ==
    ASSUME FamilyInv, 1 \in Slots,
           \A q \in Slots : Live(q)' <=> Live(q),
           pid' = pid, ppid' = ppid, nextPid' = nextPid
    PROVE  FamilyInv'
  BY DEF FamilyInv

LEMMA SetRunLive ==
    ASSUME NEW Q, \A q \in Q \cap Slots : stat[q] \in {"sleep", "wait"}, SetRun(Q)
    PROVE  \A q \in Slots : Live(q)' <=> Live(q)
  BY DEF SetRun, Live

\* Every action keeps the family
LEMMA FamilyStep ==
    ASSUME Types, StatInv, LocalInv, FamilyInv, Next
    PROVE  FamilyInv'
<1> USE DEF PCs, States, Signals, Slots, NoSlot, NoChan, Io, Tick, Exe, NoSig
<1>1. ASSUME NEW p \in Slots, SeesSignal(p) PROVE FamilyInv'
  BY <1>1 DEF Types, StatInv, FamilyInv, Live, SeesSignal, Running, IsSig,
     Goto, tableVars, localVars
<1>2. ASSUME NEW p \in Slots, TrapEnd(p) PROVE FamilyInv'
  BY <1>2 DEF Types, StatInv, FamilyInv, Live, TrapEnd, Running, IsSig, Goto,
     tableVars, localVars
<1>3. ASSUME NEW p \in Slots, PSigRead(p) PROVE FamilyInv'
  BY <1>3 DEF Types, StatInv, FamilyInv, Live, PSigRead, Running, Goto,
     tableVars, localVars
<1>4. ASSUME NEW p \in Slots, PSigHandle(p) PROVE FamilyInv'
 <2>1. \A q \in Slots : Live(q)' <=> Live(q)
   BY <1>4, PSigHandleEffect DEF PSigHandled, Running, Live
 <2>2. pid' = pid /\ ppid' = ppid /\ nextPid' = nextPid  BY <1>4 DEF PSigHandle
 <2> QED  BY <2>1, <2>2, FamilyFrame, Bounds
<1>5. ASSUME NEW p \in Slots, Fork(p) PROVE FamilyInv'
 <2>1. PICK c \in Slots : Forked(p, c)  BY <1>5, ForkEffect
 <2>2. /\ stat'[c] = "run" /\ pid'[c] = nextPid /\ ppid'[c] = pid[p]
       /\ \A q \in Slots \ {c} : stat'[q] = stat[q] /\ pid'[q] = pid[q] /\ ppid'[q] = ppid[q]
       /\ nextPid' = nextPid + 1 /\ nextPid \in Nat /\ nextPid >= 2
       /\ stat[p] = "run" /\ p # c /\ pid[c] = 0 /\ stat[c] = "null"
   BY <2>1 DEF Forked, Types, StatInv, Running
 <2>3. /\ \A q \in Slots : pid[q] \in Nat /\ ppid[q] \in Int
       /\ 1 \in Slots /\ c # 1
   BY <2>2, Bounds DEF Types, FamilyInv
 <2>4. /\ \A q \in Slots : pid'[q] < nextPid' /\ ppid'[q] < nextPid'
       /\ \A q \in Slots : pid'[q] = 0 => ppid'[q] = -1
       /\ pid'[1] = 1 /\ ppid'[1] = 0
   BY <2>2, <2>3 DEF FamilyInv
 <2>5. \A q, r \in Slots : q # r /\ pid'[q] # 0 => pid'[q] # pid'[r]  BY <2>2, <2>3 DEF FamilyInv
 <2>6. ASSUME Live(1)', NEW q \in Slots \ {1}, pid'[q] # 0
       PROVE  \E r \in Slots : Live(r)' /\ pid'[r] = ppid'[q]
  <3>1. CASE q = c  BY <3>1, <2>2 DEF Live
  <3>2. CASE q # c
   <4>1. PICK r \in Slots : Live(r) /\ pid[r] = ppid[q]
     BY <2>6, <3>2, <2>2, <2>3 DEF FamilyInv, Live
   <4> QED  BY <4>1, <3>2, <2>2 DEF Live
  <3> QED  BY <3>1, <3>2
 <2> QED  BY <2>4, <2>5, <2>6 DEF FamilyInv
<1>6. ASSUME NEW p \in Slots, ForkFail(p) PROVE FamilyInv'
  BY <1>6 DEF Types, StatInv, FamilyInv, Live, ForkFail, SysEntry, Running,
     Return, Goto, tableVars, localVars
<1>7. ASSUME NEW p \in Slots, Exit(p) PROVE FamilyInv'
  BY <1>7 DEF Types, StatInv, FamilyInv, Live, Exit, SysEntry, Running,
     ExitBegin, Sleep, Goto, First, tableVars, localVars
<1>8. ASSUME NEW p \in Slots, ExitEnd(p) PROVE FamilyInv'
 <2>1. Exited(p)  BY <1>8, ExitEndEffect
 <2>2. /\ \A q \in Slots \ {p} : Live(q)' <=> Live(q)
       /\ ~Live(p)' /\ Live(p)
   BY <2>1 DEF Exited, Live, Running
 <2>3. /\ pid' = pid /\ nextPid' = nextPid /\ nextPid \in Nat /\ nextPid >= 2
       /\ pid[p] # 0 /\ 1 \in Slots
   BY <2>1, Bounds DEF Exited, Types, StatInv, Running
 <2>a. \A q \in Slots : /\ ppid'[q] \in {1, ppid[q]}
                        /\ ppid[q] = pid[p] => ppid'[q] = 1
                        /\ ppid[q] = 0 \/ (q # p /\ ppid[q] # pid[p]) => ppid'[q] = ppid[q]
   BY <2>1, <2>3 DEF Exited, Adopt, Children
 <2>4. /\ \A q \in Slots : pid'[q] < nextPid' /\ ppid'[q] < nextPid'
       /\ \A q \in Slots : pid'[q] = 0 => ppid'[q] = -1
       /\ pid'[1] = 1 /\ ppid'[1] = 0
  <3>1. \A q \in Slots : pid[q] \in Nat  BY DEF Types
  <3> QED  BY <3>1, <2>3, <2>a DEF FamilyInv
 <2>5. \A q, r \in Slots : q # r /\ pid'[q] # 0 => pid'[q] # pid'[r]  BY <2>3 DEF FamilyInv
 <2>6. ASSUME Live(1)', NEW q \in Slots \ {1}, pid'[q] # 0
       PROVE  \E r \in Slots : Live(r)' /\ pid'[r] = ppid'[q]
  <3>1. p # 1 /\ Live(1) /\ pid[1] = 1  BY <2>2, <2>3, <2>6 DEF FamilyInv
  <3>2. CASE ppid'[q] = 1  BY <3>1, <3>2, <2>3, <2>6
  <3>3. CASE ppid'[q] # 1
   <4>1. ppid[q] # pid[p] /\ ppid'[q] = ppid[q]  BY <3>3, <2>a
   <4>2. PICK r \in Slots : Live(r) /\ pid[r] = ppid[q]  BY <3>1, <2>3, <2>6 DEF FamilyInv
   <4> QED  BY <4>1, <4>2, <2>2, <2>3
  <3> QED  BY <3>2, <3>3
 <2> QED  BY <2>4, <2>5, <2>6 DEF FamilyInv
<1>9. ASSUME NEW p \in Slots, WaitTake(p) PROVE FamilyInv'
 <2>1. PICK c \in Slots : Taken(p, c)  BY <1>9, WaitTakeEffect
 <2>2. /\ \A q \in Slots \ {c} : Live(q)' <=> Live(q)
       /\ ~Live(c) /\ c # p /\ ppid[c] = pid[p] /\ stat[p] = "run"
   BY <2>1 DEF Taken, Live, Running, Children
 <2>3. /\ pid'[c] = 0 /\ ppid'[c] = -1
       /\ \A q \in Slots \ {c} : pid'[q] = pid[q] /\ ppid'[q] = ppid[q]
       /\ nextPid' = nextPid /\ nextPid \in Nat /\ nextPid >= 2
       /\ 1 \in Slots
   BY <2>1, Bounds DEF Taken, Types
 <2>4. c # 1  BY <2>2 DEF StatInv, FamilyInv
 <2>5. /\ \A q \in Slots : pid'[q] < nextPid' /\ ppid'[q] < nextPid'
       /\ \A q \in Slots : pid'[q] = 0 => ppid'[q] = -1
       /\ pid'[1] = 1 /\ ppid'[1] = 0
   BY <2>3, <2>4 DEF FamilyInv
 <2>6. \A q, r \in Slots : q # r /\ pid'[q] # 0 => pid'[q] # pid'[r]  BY <2>3 DEF FamilyInv
 <2>7. ASSUME Live(1)', NEW q \in Slots \ {1}, pid'[q] # 0
       PROVE  \E r \in Slots : Live(r)' /\ pid'[r] = ppid'[q]
  <3>1. q # c /\ Live(1)  BY <2>2, <2>3, <2>4, <2>7
  <3>2. PICK r \in Slots : Live(r) /\ pid[r] = ppid[q]  BY <3>1, <2>3, <2>7 DEF FamilyInv
  <3> QED  BY <3>1, <3>2, <2>2, <2>3
 <2> QED  BY <2>5, <2>6, <2>7 DEF FamilyInv
<1>10. ASSUME NEW p \in Slots, WaitEnd(p) PROVE FamilyInv'
  BY <1>10 DEF Types, StatInv, FamilyInv, Live, WaitEnd, Running, FreeSwap,
     Return, Goto, tableVars, localVars
<1>11. ASSUME NEW p \in Slots, WaitNone(p) PROVE FamilyInv'
  BY <1>11, WaitTurnFacts DEF Types, StatInv, FamilyInv, Live, WaitNone,
     Running, Goto, IsSig, tableVars, localVars
<1>12. ASSUME NEW p \in Slots, WaitFail(p) PROVE FamilyInv'
  BY <1>12, WaitTurnFacts DEF Types, StatInv, FamilyInv, Live, WaitFail,
     Running, Return, Goto, tableVars, localVars
<1>13. ASSUME NEW p \in Slots, Pause(p) PROVE FamilyInv'
  BY <1>13 DEF Types, StatInv, FamilyInv, Live, Pause, SysEntry, Running, Goto,
     IsSig, tableVars, localVars
<1>14. ASSUME NEW p \in Slots, SleepSet(p) PROVE FamilyInv'
 <2>1. SleepIsSet(p)  BY <1>14 DEF SleepSet, SleepIsSet, Running, Goto, Sleep
 <2> QED  BY <2>1 DEF Types, FamilyInv, Live, SleepIsSet, Running
<1>15. ASSUME NEW p \in Slots, Resumed(p) PROVE FamilyInv'
  BY <1>15 DEF Types, StatInv, FamilyInv, Live, Resumed, Running, Return, Goto,
     tableVars, localVars
<1>16. ASSUME NEW p \in Slots, ExecWait(p) PROVE FamilyInv'
  BY <1>16, ExecTurnFacts DEF Types, StatInv, FamilyInv, Live, ExecWait,
     Running, Goto, Sleep, tableVars, localVars
<1>17. ASSUME NEW p \in Slots, ExecBegin(p) PROVE FamilyInv'
  BY <1>17, ExecTurnFacts DEF Types, StatInv, FamilyInv, Live, ExecBegin,
     Running, Goto, Sleep, tableVars, localVars
<1>18. ASSUME NEW p \in Slots, ExecLeave(p) PROVE FamilyInv'
 <2>1. \A q \in Slots : Live(q)' <=> Live(q)  BY <1>18, SetRunLive DEF ExecLeave, SleepOn
 <2>2. pid' = pid /\ ppid' = ppid /\ nextPid' = nextPid  BY <1>18 DEF ExecLeave
 <2> QED  BY <2>1, <2>2, FamilyFrame, Bounds
<1>19. ASSUME NEW p \in Slots, ExecBad(p) PROVE FamilyInv'
  BY <1>19 DEF Types, StatInv, FamilyInv, Live, ExecBad, Running, Return, Goto,
     tableVars, localVars
<1>20. ASSUME NEW p \in Slots, Kill(p) PROVE FamilyInv'
 <2>1. \A q \in Slots : Live(q)' <=> Live(q)  BY <1>20, SetRunLive DEF Kill, PSignal
 <2>2. pid' = pid /\ ppid' = ppid /\ nextPid' = nextPid  BY <1>20 DEF Kill
 <2> QED  BY <2>1, <2>2, FamilyFrame, Bounds
<1>21. ASSUME NEW p \in Slots, Ssig(p) PROVE FamilyInv'
  BY <1>21 DEF Types, StatInv, FamilyInv, Live, Ssig, SysEntry, Running,
     Return, Goto, tableVars, localVars
<1>22. ASSUME NEW p \in Slots, IoDone(p) PROVE FamilyInv'
 <2>1. \A q \in Slots : Live(q)' <=> Live(q)  BY <1>22, SetRunLive DEF IoDone, Wakes, StatInv
 <2>2. pid' = pid /\ ppid' = ppid /\ nextPid' = nextPid  BY <1>22 DEF IoDone, Wakes
 <2> QED  BY <2>1, <2>2, FamilyFrame, Bounds
<1>23. ASSUME NEW p \in Slots, TickDone(p) PROVE FamilyInv'
 <2>1. \A q \in Slots : Live(q)' <=> Live(q)  BY <1>23, SetRunLive DEF TickDone, Wakes, StatInv
 <2>2. pid' = pid /\ ppid' = ppid /\ nextPid' = nextPid  BY <1>23 DEF TickDone, Wakes
 <2> QED  BY <2>1, <2>2, FamilyFrame, Bounds
<1>24. ASSUME CtrlC PROVE FamilyInv'
 <2>1. \A q \in Slots : Live(q)' <=> Live(q)  BY <1>24, SetRunLive DEF CtrlC, PSignal
 <2>2. pid' = pid /\ ppid' = ppid /\ nextPid' = nextPid  BY <1>24 DEF CtrlC
 <2> QED  BY <2>1, <2>2, FamilyFrame, Bounds
<1> QED  BY <1>1, <1>2, <1>3, <1>4, <1>5, <1>6, <1>7, <1>8, <1>9, <1>10, <1>11, <1>12,
<1>13, <1>14, <1>15, <1>16, <1>17, <1>18, <1>19, <1>20, <1>21, <1>22,
<1>23, <1>24 DEF Next, SysCall, KernelStep

\* Nothing changes for those who wait if the slots live and their places stay
LEMMA WaitFrame ==
    ASSUME WaitInv, NEW p \in Slots,
           \A q \in Slots : Live(q)' <=> Live(q),
           \A q \in Slots : stat'[q] = "zomb" <=> stat[q] = "zomb",
           \A q \in Slots : stat'[q] = "wait" => stat[q] = "wait" /\ chan'[q] = chan[q],
           \A q \in Slots \ {p} : pc'[q] = pc[q],
           pc'[p] \notin {"towait", "waiting"},
           cpu \in {NoSlot, p},
           pid' = pid, ppid' = ppid
    PROVE  WaitInv'
<1>1. \A q \in Slots : Children(q)' = Children(q)  BY DEF Children
<1>2. ASSUME NEW q \in Slots PROVE pc'[q] # "towait"  BY <1>2 DEF WaitInv, Slots, NoSlot
<1>3. ASSUME NEW q \in Slots, pc'[q] = "waiting", stat'[q] = "wait"
      PROVE  /\ chan'[q] = q
             /\ \E c \in Children(q)' : Live(c)'
             /\ q # 1 => \A c \in Children(q)' : stat'[c] # "zomb"
 <2>1. pc[q] = "waiting" /\ stat[q] = "wait" /\ chan'[q] = chan[q]  BY <1>3
 <2>2. /\ chan[q] = q
       /\ \E c \in Children(q) : Live(c)
       /\ q # 1 => \A c \in Children(q) : stat[c] # "zomb"
   BY <2>1 DEF WaitInv
 <2>3. \A c \in Children(q) : c \in Slots  BY DEF Children
 <2> QED  BY <1>1, <2>1, <2>2, <2>3
<1> QED  BY <1>2, <1>3 DEF WaitInv

\* ... or if an interrupt wakes some of them
LEMMA WaitInterrupt ==
    ASSUME WaitInv, NEW Q, \A q \in Q \cap Slots : stat[q] \in {"sleep", "wait"}, SetRun(Q),
           UNCHANGED <<pid, ppid, pc, cpu>>
    PROVE  WaitInv'
<1>1. \A q \in Slots : Children(q)' = Children(q) /\ (Live(q)' <=> Live(q))
  BY SetRunLive DEF Children
<1>2. \A q \in Slots : /\ stat'[q] = "zomb" <=> stat[q] = "zomb"
                       /\ stat'[q] = "wait" => stat[q] = "wait" /\ chan'[q] = chan[q]
  BY DEF SetRun
<1>3. \A q \in Slots : \A c \in Children(q) : c \in Slots  BY DEF Children
<1>4. ASSUME NEW q \in Slots, pc'[q] = "towait" \/ (pc'[q] = "waiting" /\ stat'[q] = "wait")
      PROVE  /\ \E c \in Children(q)' : Live(c)'
             /\ q # 1 => \A c \in Children(q)' : stat'[c] # "zomb"
 <2>1. /\ \E c \in Children(q) : Live(c)
       /\ q # 1 => \A c \in Children(q) : stat[c] # "zomb"
   BY <1>2, <1>4 DEF WaitInv
 <2> QED  BY <1>1, <1>2, <1>3, <2>1
<1>5. \A q \in Slots : /\ pc'[q] = "towait" => cpu' = q
                       /\ pc'[q] = "waiting" /\ stat'[q] = "wait" => chan'[q] = q
  BY <1>2 DEF WaitInv
<1> QED  BY <1>4, <1>5 DEF WaitInv

\* Whoever sleeps in Wait has a child that will wake him
LEMMA WaitStep ==
    ASSUME Types, StatInv, LocalInv, FamilyInv, WaitInv, Next
    PROVE  WaitInv'
<1> USE DEF PCs, States, Signals, Slots, NoSlot, NoChan, Io, Tick, Exe, NoSig
<1>1. ASSUME NEW p \in Slots, SeesSignal(p) PROVE WaitInv'
 <2>1. Running(p)  BY <1>1 DEF SeesSignal, SysEntry, Running
 <2>2. /\ \A q \in Slots : Live(q)' <=> Live(q)
       /\ \A q \in Slots : stat'[q] = "zomb" <=> stat[q] = "zomb"
       /\ \A q \in Slots : stat'[q] = "wait" => stat[q] = "wait" /\ chan'[q] = chan[q]
       /\ \A q \in Slots \ {p} : pc'[q] = pc[q]
       /\ pc'[p] \notin {"towait", "waiting"}
       /\ cpu \in {NoSlot, p}
       /\ pid' = pid /\ ppid' = ppid
   BY <1>1, <2>1 DEF SeesSignal, Running, IsSig, Goto, tableVars, localVars,
    Types, Live
 <2> QED  BY <2>2, WaitFrame
<1>2. ASSUME NEW p \in Slots, TrapEnd(p) PROVE WaitInv'
 <2>1. Running(p)  BY <1>2 DEF TrapEnd, SysEntry, Running
 <2>2. /\ \A q \in Slots : Live(q)' <=> Live(q)
       /\ \A q \in Slots : stat'[q] = "zomb" <=> stat[q] = "zomb"
       /\ \A q \in Slots : stat'[q] = "wait" => stat[q] = "wait" /\ chan'[q] = chan[q]
       /\ \A q \in Slots \ {p} : pc'[q] = pc[q]
       /\ pc'[p] \notin {"towait", "waiting"}
       /\ cpu \in {NoSlot, p}
       /\ pid' = pid /\ ppid' = ppid
   BY <1>2, <2>1 DEF TrapEnd, Running, IsSig, Goto, tableVars, localVars,
    Types, Live
 <2> QED  BY <2>2, WaitFrame
<1>3. ASSUME NEW p \in Slots, PSigRead(p) PROVE WaitInv'
 <2>1. Running(p)  BY <1>3 DEF PSigRead, SysEntry, Running
 <2>2. /\ \A q \in Slots : Live(q)' <=> Live(q)
       /\ \A q \in Slots : stat'[q] = "zomb" <=> stat[q] = "zomb"
       /\ \A q \in Slots : stat'[q] = "wait" => stat[q] = "wait" /\ chan'[q] = chan[q]
       /\ \A q \in Slots \ {p} : pc'[q] = pc[q]
       /\ pc'[p] \notin {"towait", "waiting"}
       /\ cpu \in {NoSlot, p}
       /\ pid' = pid /\ ppid' = ppid
   BY <1>3, <2>1 DEF PSigRead, Running, Goto, tableVars, localVars, Types, Live
 <2> QED  BY <2>2, WaitFrame
<1>4. ASSUME NEW p \in Slots, PSigHandle(p) PROVE WaitInv'
 <2>1. PSigHandled(p)  BY <1>4, PSigHandleEffect
 <2>2. /\ \A q \in Slots : Live(q)' <=> Live(q)
       /\ \A q \in Slots : stat'[q] = "zomb" <=> stat[q] = "zomb"
       /\ \A q \in Slots : stat'[q] = "wait" => stat[q] = "wait" /\ chan'[q] = chan[q]
       /\ \A q \in Slots \ {p} : pc'[q] = pc[q]
       /\ pc'[p] \notin {"towait", "waiting"}
       /\ cpu \in {NoSlot, p}
       /\ pid' = pid /\ ppid' = ppid
   BY <1>4, <2>1 DEF PSigHandled, Running, Live, Types
 <2> QED  BY <2>2, WaitFrame
<1>5. ASSUME NEW p \in Slots, Fork(p) PROVE WaitInv'
 <2>1. PICK c \in Slots : Forked(p, c)  BY <1>5, ForkEffect
 <2>2. /\ stat[c] = "null" /\ pid[c] = 0 /\ ppid[c] = -1 /\ c # p
       /\ stat[p] = "run" /\ pid[p] # 0 /\ cpu \in {NoSlot, p}
       /\ stat'[c] = "run" /\ ppid'[c] = pid[p] /\ pid'[p] = pid[p]
       /\ pc'[c] = "trapend" /\ pc'[p] = "trapend" /\ stat'[p] = "run" /\ chan' = chan
       /\ \A q \in Slots \ {c} : stat'[q] = stat[q] /\ pid'[q] = pid[q] /\ ppid'[q] = ppid[q]
       /\ \A q \in Slots \ {p, c} : pc'[q] = pc[q]
   BY <2>1 DEF Forked, Types, StatInv, FamilyInv, Running
 <2>3. ASSUME NEW q \in Slots \ {p, c}, stat[q] \notin {"null", "zomb"}
       PROVE  Children(q)' = Children(q) /\ \A d \in Children(q) : Live(d)' <=> Live(d)
   BY <2>2, <2>3 DEF Children, Live, FamilyInv, StatInv, Types
 <2>4. ASSUME NEW q \in Slots \ {p, c}, pc[q] = "towait" \/ (pc[q] = "waiting" /\ stat[q] = "wait")
       PROVE  stat[q] \notin {"null", "zomb"}
   BY <2>4 DEF StatInv
 <2>5. \A q \in Slots \ {p} : pc[q] # "towait"  BY <2>2 DEF WaitInv, Slots, NoSlot
 <2>6. ASSUME NEW q \in Slots \ {p, c}, pc[q] = "waiting" /\ stat[q] = "wait"
       PROVE  /\ chan'[q] = q
              /\ \E d \in Children(q)' : Live(d)'
              /\ q # 1 => \A d \in Children(q)' : stat'[d] # "zomb"
  <3>1. Children(q)' = Children(q) /\ \A d \in Children(q) : Live(d)' <=> Live(d)
    BY <2>3, <2>4, <2>6
  <3>2. \A d \in Children(q) : d # c  BY <2>2, <2>6 DEF Children, StatInv, Types
  <3>3. \A d \in Children(q) : stat'[d] = stat[d]  BY <3>2, <2>2 DEF Children
  <3> QED  BY <3>1, <3>3, <2>2, <2>6 DEF WaitInv
 <2> QED  BY <2>2, <2>5, <2>6 DEF WaitInv
<1>6. ASSUME NEW p \in Slots, ForkFail(p) PROVE WaitInv'
 <2>1. Running(p)  BY <1>6 DEF ForkFail, SysEntry, Running
 <2>2. /\ \A q \in Slots : Live(q)' <=> Live(q)
       /\ \A q \in Slots : stat'[q] = "zomb" <=> stat[q] = "zomb"
       /\ \A q \in Slots : stat'[q] = "wait" => stat[q] = "wait" /\ chan'[q] = chan[q]
       /\ \A q \in Slots \ {p} : pc'[q] = pc[q]
       /\ pc'[p] \notin {"towait", "waiting"}
       /\ cpu \in {NoSlot, p}
       /\ pid' = pid /\ ppid' = ppid
   BY <1>6, <2>1 DEF ForkFail, SysEntry, Running, Return, Goto, tableVars,
    localVars, Types, Live
 <2> QED  BY <2>2, WaitFrame
<1>7. ASSUME NEW p \in Slots, Exit(p) PROVE WaitInv'
 <2>1. Running(p)  BY <1>7 DEF Exit, SysEntry, Running
 <2>2. /\ \A q \in Slots : Live(q)' <=> Live(q)
       /\ \A q \in Slots : stat'[q] = "zomb" <=> stat[q] = "zomb"
       /\ \A q \in Slots : stat'[q] = "wait" => stat[q] = "wait" /\ chan'[q] = chan[q]
       /\ \A q \in Slots \ {p} : pc'[q] = pc[q]
       /\ pc'[p] \notin {"towait", "waiting"}
       /\ cpu \in {NoSlot, p}
       /\ pid' = pid /\ ppid' = ppid
   BY <1>7, <2>1 DEF Exit, SysEntry, Running, ExitBegin, Sleep, Goto, First,
    tableVars, localVars, Types, Live
 <2> QED  BY <2>2, WaitFrame
<1>8. ASSUME NEW p \in Slots, ExitEnd(p) PROVE WaitInv'
 <2>1. Exited(p)  BY <1>8, ExitEndEffect
 <2>2. /\ stat[p] = "run" /\ pid[p] # 0 /\ cpu \in {NoSlot, p} /\ pc[p] = "dying"
       /\ pc'[p] = "dead" /\ stat'[p] = "zomb" /\ pid' = pid /\ ppid' = Adopt(p)
       /\ \A q \in Slots \ {p} : pc'[q] = pc[q]
       /\ \A q \in Slots \ {p} : \/ q \in ExitWakes(p) /\ stat'[q] = "run"
                                 \/ stat'[q] = stat[q] /\ chan'[q] = chan[q]
       /\ \A q \in Slots \ {p} : stat'[q] = "zomb" => stat[q] = "zomb"
       /\ \A q \in Slots \ {p} : Live(q) => Live(q)'
   BY <2>1 DEF Exited, Types, StatInv, Running, Live
 <2>3. \A q \in Slots \ {p} : pc[q] # "towait"  BY <2>2 DEF WaitInv, Slots, NoSlot
 <2>4. ASSUME NEW q \in Slots \ {p}, pc[q] = "waiting", stat'[q] = "wait"
       PROVE  /\ chan'[q] = q
              /\ \E d \in Children(q)' : Live(d)'
              /\ q # 1 => \A d \in Children(q)' : stat'[d] # "zomb"
  <3>1. stat[q] = "wait" /\ chan'[q] = chan[q] /\ chan[q] = q /\ q \notin ExitWakes(p)
    BY <2>1, <2>2, <2>4 DEF Exited, WaitInv
  <3>2. pid[q] # 0 /\ pid[q] # pid[p] /\ \A r \in Slots \ {q} : pid[r] # pid[q]
    BY <3>1, <2>2 DEF StatInv, FamilyInv
  <3>3. ppid[p] # pid[q]
   <4>1. SUFFICES ASSUME ppid[p] = pid[q] PROVE FALSE  OBVIOUS
   <4>2. {i \in Slots : pid[i] = ppid[p]} = {q}  BY <4>1, <3>2
   <4>3. q \in First({q})  BY DEF First, Slots
   <4>4. ExitWakes(p) = UNION {SleepOn(i) : i \in First({q})}  BY <4>1, <4>2, <3>2 DEF ExitWakes
   <4>5. q \in SleepOn(q)  BY <3>1 DEF SleepOn
   <4> QED  BY <4>3, <4>4, <4>5, <3>1
  <3>4. PICK d \in Children(q) : Live(d)  BY <3>1, <2>4 DEF WaitInv
  <3>5. d # p /\ d \in Children(q)' /\ Live(d)'  BY <3>2, <3>3, <3>4, <2>2 DEF Children, Adopt
  <3>6. q # 1 => pid[q] # 1  BY <3>2, Bounds DEF FamilyInv, Slots
  <3>7. \A e \in Children(q)' : q # 1 => e \in Children(q) /\ e # p
   <4>1. ASSUME NEW e \in Children(q)', q # 1 PROVE ppid'[e] = ppid[e] /\ e \in Slots
     BY <4>1, <3>6, <2>2 DEF Children, Adopt
   <4> QED  BY <4>1, <3>3, <2>2 DEF Children
  <3>8. q # 1 => \A e \in Children(q)' : stat'[e] # "zomb"
    BY <3>7, <3>1, <2>2, <2>4 DEF WaitInv, Children
  <3> QED  BY <3>1, <3>5, <3>8
 <2> QED  BY <2>2, <2>3, <2>4 DEF WaitInv
<1>9. ASSUME NEW p \in Slots, WaitTake(p) PROVE WaitInv'
 <2>1. PICK c \in Slots : Taken(p, c)  BY <1>9, WaitTakeEffect
 <2>2. /\ c # p /\ stat[c] = "zomb" /\ ppid[c] = pid[p] /\ cpu \in {NoSlot, p}
       /\ stat[p] = "run" /\ pid[p] # 0
       /\ pc'[p] \notin {"towait", "waiting"} /\ pc'[c] = "none" /\ stat'[c] = "null"
       /\ pid'[c] = 0 /\ ppid'[c] = -1
       /\ \A q \in Slots \ {c} : pid'[q] = pid[q] /\ ppid'[q] = ppid[q]
       /\ \A q \in Slots \ {p, c} : stat'[q] = stat[q] /\ chan'[q] = chan[q] /\ pc'[q] = pc[q]
       /\ stat'[p] \in {"run", "sleep"}
   BY <2>1 DEF Taken, Children, Types, StatInv, Running
 <2>3. \A q \in Slots \ {p} : pc[q] # "towait"  BY <2>2 DEF WaitInv, Slots, NoSlot
 <2>4. ASSUME NEW q \in Slots \ {p, c}, pc[q] = "waiting" /\ stat[q] = "wait"
       PROVE  /\ chan'[q] = q
              /\ \E d \in Children(q)' : Live(d)'
              /\ q # 1 => \A d \in Children(q)' : stat'[d] # "zomb"
  <3>1. pid[q] # 0 /\ pid'[q] = pid[q] /\ pid[q] \in Nat  BY <2>2, <2>4 DEF StatInv, Types
  <3>2. PICK d \in Children(q) : Live(d)  BY <2>4 DEF WaitInv
  <3>3. d \in Children(q)' /\ Live(d)'  BY <3>1, <3>2, <2>2 DEF Children, Live
  <3>4. \A e \in Children(q)' : e \in Children(q) /\ e # c  BY <3>1, <2>2 DEF Children
  <3>5. \A e \in Children(q)' : q # 1 => stat'[e] # "zomb"
    BY <3>4, <2>2, <2>4 DEF WaitInv, Children
  <3> QED  BY <3>3, <3>5, <2>2, <2>4 DEF WaitInv
 <2> QED  BY <2>2, <2>3, <2>4 DEF WaitInv
<1>10. ASSUME NEW p \in Slots, WaitEnd(p) PROVE WaitInv'
 <2>1. Running(p)  BY <1>10 DEF WaitEnd, SysEntry, Running
 <2>2. /\ \A q \in Slots : Live(q)' <=> Live(q)
       /\ \A q \in Slots : stat'[q] = "zomb" <=> stat[q] = "zomb"
       /\ \A q \in Slots : stat'[q] = "wait" => stat[q] = "wait" /\ chan'[q] = chan[q]
       /\ \A q \in Slots \ {p} : pc'[q] = pc[q]
       /\ pc'[p] \notin {"towait", "waiting"}
       /\ cpu \in {NoSlot, p}
       /\ pid' = pid /\ ppid' = ppid
   BY <1>10, <2>1 DEF WaitEnd, Running, FreeSwap, Return, Goto, tableVars,
    localVars, Types, Live
 <2> QED  BY <2>2, WaitFrame
<1>11. ASSUME NEW p \in Slots, WaitNone(p) PROVE WaitInv'
 <2>1. /\ Running(p) /\ pc' = [pc EXCEPT ![p] = "towait"] /\ cpu' = p
       /\ Children(p) # {} /\ \A c \in Children(p) : stat[c] # "zomb"
       /\ stat' = stat /\ chan' = chan /\ pid' = pid /\ ppid' = ppid
   BY <1>11, WaitTurnFacts DEF WaitNone, Goto, tableVars
 <2>2. \A q \in Slots : Children(q)' = Children(q) /\ (Live(q)' <=> Live(q))
   BY <2>1 DEF Children, Live
 <2>3. \A c \in Children(p) : Live(c)
   BY <2>1 DEF Children, Live, StatInv, FamilyInv, Types, Running
 <2>4. /\ pc'[p] = "towait"
       /\ \A q \in Slots \ {p} : pc'[q] = pc[q] /\ pc[q] # "towait"
   BY <2>1 DEF WaitInv, Running, Types
 <2>5. \A q \in Slots : \A c \in Children(q) : c \in Slots  BY DEF Children
 <2>6. /\ \E c \in Children(p)' : Live(c)'
       /\ \A c \in Children(p)' : stat'[c] # "zomb"
   BY <2>1, <2>2, <2>3, <2>5
 <2>7. ASSUME NEW q \in Slots \ {p}, pc[q] = "waiting", stat[q] = "wait"
       PROVE  /\ chan'[q] = q
              /\ \E c \in Children(q)' : Live(c)'
              /\ q # 1 => \A c \in Children(q)' : stat'[c] # "zomb"
  <3>1. /\ chan[q] = q /\ \E c \in Children(q) : Live(c)
        /\ q # 1 => \A c \in Children(q) : stat[c] # "zomb"
    BY <2>7 DEF WaitInv
  <3> QED  BY <3>1, <2>1, <2>2, <2>5
 <2> QED  BY <2>1, <2>4, <2>6, <2>7 DEF WaitInv
<1>12. ASSUME NEW p \in Slots, WaitFail(p) PROVE WaitInv'
 <2>1. Running(p)  BY <1>12, WaitTurnFacts DEF WaitFail
 <2>2. /\ \A q \in Slots : Live(q)' <=> Live(q)
       /\ \A q \in Slots : stat'[q] = "zomb" <=> stat[q] = "zomb"
       /\ \A q \in Slots : stat'[q] = "wait" => stat[q] = "wait" /\ chan'[q] = chan[q]
       /\ \A q \in Slots \ {p} : pc'[q] = pc[q]
       /\ pc'[p] \notin {"towait", "waiting"}
       /\ cpu \in {NoSlot, p}
       /\ pid' = pid /\ ppid' = ppid
   BY <1>12, <2>1 DEF WaitFail, Running, Return, Goto, tableVars, localVars,
    Types, Live
 <2> QED  BY <2>2, WaitFrame
<1>13. ASSUME NEW p \in Slots, Pause(p) PROVE WaitInv'
 <2>1. Running(p)  BY <1>13 DEF Pause, SysEntry, Running
 <2>2. /\ \A q \in Slots : Live(q)' <=> Live(q)
       /\ \A q \in Slots : stat'[q] = "zomb" <=> stat[q] = "zomb"
       /\ \A q \in Slots : stat'[q] = "wait" => stat[q] = "wait" /\ chan'[q] = chan[q]
       /\ \A q \in Slots \ {p} : pc'[q] = pc[q]
       /\ pc'[p] \notin {"towait", "waiting"}
       /\ cpu \in {NoSlot, p}
       /\ pid' = pid /\ ppid' = ppid
   BY <1>13, <2>1 DEF Pause, SysEntry, Running, Goto, IsSig, tableVars,
    localVars, Types, Live
 <2> QED  BY <2>2, WaitFrame
<1>14. ASSUME NEW p \in Slots, SleepSet(p) PROVE WaitInv'
 <2>1. SleepIsSet(p)  BY <1>14 DEF SleepSet, SleepIsSet, Running, Goto, Sleep
 <2>2. /\ \A q \in Slots : Live(q)' <=> Live(q)
       /\ \A q \in Slots : stat'[q] = "zomb" <=> stat[q] = "zomb"
       /\ \A q \in Slots : Children(q)' = Children(q)
       /\ \A q \in Slots \ {p} : stat'[q] = stat[q] /\ chan'[q] = chan[q] /\ pc'[q] = pc[q]
       /\ cpu \in {NoSlot, p}
   BY <2>1 DEF SleepIsSet, Running, Live, Children, Types
 <2>3. \A q \in Slots : \A c \in Children(q) : c \in Slots  BY DEF Children
 <2>4. ASSUME NEW q \in Slots, pc[q] = "towait" \/ (pc[q] = "waiting" /\ stat[q] = "wait")
       PROVE  /\ \E c \in Children(q)' : Live(c)'
              /\ q # 1 => \A c \in Children(q)' : stat'[c] # "zomb"
  <3>1. /\ \E c \in Children(q) : Live(c)
        /\ q # 1 => \A c \in Children(q) : stat[c] # "zomb"
    BY <2>4 DEF WaitInv
  <3> QED  BY <3>1, <2>2, <2>3
 <2>5. /\ pc'[p] # "towait"
       /\ pc'[p] = "waiting" => pc[p] = "towait" /\ chan'[p] = p
   BY <2>1 DEF SleepIsSet, Types
 <2>6. \A q \in Slots \ {p} : /\ pc[q] # "towait"
                              /\ pc[q] = "waiting" /\ stat[q] = "wait" => chan[q] = q
   BY <2>2 DEF WaitInv
 <2>7. \A q \in Slots : pc'[q] # "towait"  BY <2>2, <2>5, <2>6
 <2>8. ASSUME NEW q \in Slots, pc'[q] = "waiting", stat'[q] = "wait"
       PROVE  /\ chan'[q] = q
              /\ pc[q] = "towait" \/ (pc[q] = "waiting" /\ stat[q] = "wait")
   BY <2>8, <2>2, <2>5, <2>6
 <2> QED  BY <2>4, <2>7, <2>8 DEF WaitInv
<1>15. ASSUME NEW p \in Slots, Resumed(p) PROVE WaitInv'
 <2>1. Running(p)  BY <1>15 DEF Resumed, SysEntry, Running
 <2>2. /\ \A q \in Slots : Live(q)' <=> Live(q)
       /\ \A q \in Slots : stat'[q] = "zomb" <=> stat[q] = "zomb"
       /\ \A q \in Slots : stat'[q] = "wait" => stat[q] = "wait" /\ chan'[q] = chan[q]
       /\ \A q \in Slots \ {p} : pc'[q] = pc[q]
       /\ pc'[p] \notin {"towait", "waiting"}
       /\ cpu \in {NoSlot, p}
       /\ pid' = pid /\ ppid' = ppid
   BY <1>15, <2>1 DEF Resumed, Running, Return, Goto, tableVars, localVars,
    Types, Live
 <2> QED  BY <2>2, WaitFrame
<1>16. ASSUME NEW p \in Slots, ExecWait(p) PROVE WaitInv'
 <2>1. Running(p)  BY <1>16, ExecTurnFacts DEF ExecWait
 <2>2. /\ \A q \in Slots : Live(q)' <=> Live(q)
       /\ \A q \in Slots : stat'[q] = "zomb" <=> stat[q] = "zomb"
       /\ \A q \in Slots : stat'[q] = "wait" => stat[q] = "wait" /\ chan'[q] = chan[q]
       /\ \A q \in Slots \ {p} : pc'[q] = pc[q]
       /\ pc'[p] \notin {"towait", "waiting"}
       /\ cpu \in {NoSlot, p}
       /\ pid' = pid /\ ppid' = ppid
   BY <1>16, <2>1 DEF ExecWait, Running, Goto, Sleep, tableVars, localVars,
    Types, Live
 <2> QED  BY <2>2, WaitFrame
<1>17. ASSUME NEW p \in Slots, ExecBegin(p) PROVE WaitInv'
 <2>1. Running(p)  BY <1>17, ExecTurnFacts DEF ExecBegin
 <2>2. /\ \A q \in Slots : Live(q)' <=> Live(q)
       /\ \A q \in Slots : stat'[q] = "zomb" <=> stat[q] = "zomb"
       /\ \A q \in Slots : stat'[q] = "wait" => stat[q] = "wait" /\ chan'[q] = chan[q]
       /\ \A q \in Slots \ {p} : pc'[q] = pc[q]
       /\ pc'[p] \notin {"towait", "waiting"}
       /\ cpu \in {NoSlot, p}
       /\ pid' = pid /\ ppid' = ppid
   BY <1>17, <2>1 DEF ExecBegin, Running, Goto, Sleep, tableVars, localVars,
    Types, Live
 <2> QED  BY <2>2, WaitFrame
<1>18. ASSUME NEW p \in Slots, ExecLeave(p) PROVE WaitInv'
 <2>1. Running(p)  BY <1>18 DEF ExecLeave, SysEntry, Running
 <2>2. /\ \A q \in Slots : Live(q)' <=> Live(q)
       /\ \A q \in Slots : stat'[q] = "zomb" <=> stat[q] = "zomb"
       /\ \A q \in Slots : stat'[q] = "wait" => stat[q] = "wait" /\ chan'[q] = chan[q]
       /\ \A q \in Slots \ {p} : pc'[q] = pc[q]
       /\ pc'[p] \notin {"towait", "waiting"}
       /\ cpu \in {NoSlot, p}
       /\ pid' = pid /\ ppid' = ppid
   BY <1>18, <2>1, SetRunLive DEF ExecLeave, Running, SetRun, SleepOn, Return,
    Goto, tableVars, localVars, Types, Live
 <2> QED  BY <2>2, WaitFrame
<1>19. ASSUME NEW p \in Slots, ExecBad(p) PROVE WaitInv'
 <2>1. Running(p)  BY <1>19 DEF ExecBad, SysEntry, Running
 <2>2. /\ \A q \in Slots : Live(q)' <=> Live(q)
       /\ \A q \in Slots : stat'[q] = "zomb" <=> stat[q] = "zomb"
       /\ \A q \in Slots : stat'[q] = "wait" => stat[q] = "wait" /\ chan'[q] = chan[q]
       /\ \A q \in Slots \ {p} : pc'[q] = pc[q]
       /\ pc'[p] \notin {"towait", "waiting"}
       /\ cpu \in {NoSlot, p}
       /\ pid' = pid /\ ppid' = ppid
   BY <1>19, <2>1 DEF ExecBad, Running, Return, Goto, tableVars, localVars,
    Types, Live
 <2> QED  BY <2>2, WaitFrame
<1>20. ASSUME NEW p \in Slots, Kill(p) PROVE WaitInv'
 <2>1. Running(p)  BY <1>20 DEF Kill, SysEntry, Running
 <2>2. /\ \A q \in Slots : Live(q)' <=> Live(q)
       /\ \A q \in Slots : stat'[q] = "zomb" <=> stat[q] = "zomb"
       /\ \A q \in Slots : stat'[q] = "wait" => stat[q] = "wait" /\ chan'[q] = chan[q]
       /\ \A q \in Slots \ {p} : pc'[q] = pc[q]
       /\ pc'[p] \notin {"towait", "waiting"}
       /\ cpu \in {NoSlot, p}
       /\ pid' = pid /\ ppid' = ppid
   BY <1>20, <2>1 DEF Kill, SysEntry, Running, Return, Goto, PSignal, SetRun,
    tableVars, localVars, Types, Live
 <2> QED  BY <2>2, WaitFrame
<1>21. ASSUME NEW p \in Slots, Ssig(p) PROVE WaitInv'
 <2>1. Running(p)  BY <1>21 DEF Ssig, SysEntry, Running
 <2>2. /\ \A q \in Slots : Live(q)' <=> Live(q)
       /\ \A q \in Slots : stat'[q] = "zomb" <=> stat[q] = "zomb"
       /\ \A q \in Slots : stat'[q] = "wait" => stat[q] = "wait" /\ chan'[q] = chan[q]
       /\ \A q \in Slots \ {p} : pc'[q] = pc[q]
       /\ pc'[p] \notin {"towait", "waiting"}
       /\ cpu \in {NoSlot, p}
       /\ pid' = pid /\ ppid' = ppid
   BY <1>21, <2>1 DEF Ssig, SysEntry, Running, Return, Goto, tableVars,
    localVars, Types, Live
 <2> QED  BY <2>2, WaitFrame
<1>22. ASSUME NEW p \in Slots, IoDone(p) PROVE WaitInv'
 <2>1. SetRun({p}) /\ stat[p] \in {"sleep", "wait"} /\ UNCHANGED <<pid, ppid, pc, cpu>>
   BY <1>22 DEF IoDone, Wakes, StatInv, localVars
 <2> QED  BY <2>1, WaitInterrupt
<1>23. ASSUME NEW p \in Slots, TickDone(p) PROVE WaitInv'
 <2>1. SetRun({p}) /\ stat[p] \in {"sleep", "wait"} /\ UNCHANGED <<pid, ppid, pc, cpu>>
   BY <1>23 DEF TickDone, Wakes, StatInv, localVars
 <2> QED  BY <2>1, WaitInterrupt
<1>24. ASSUME CtrlC PROVE WaitInv'
 <2>1. PICK Q : SetRun(Q) /\ \A q \in Q \cap Slots : stat[q] \in {"sleep", "wait"}
   BY <1>24 DEF CtrlC, PSignal
 <2>2. UNCHANGED <<pid, ppid, pc, cpu>>  BY <1>24 DEF CtrlC, PSignal, localVars
 <2> QED  BY <2>1, <2>2, WaitInterrupt
<1> QED  BY <1>1, <1>2, <1>3, <1>4, <1>5, <1>6, <1>7, <1>8, <1>9, <1>10, <1>11, <1>12,
<1>13, <1>14, <1>15, <1>16, <1>17, <1>18, <1>19, <1>20, <1>21, <1>22,
<1>23, <1>24 DEF Next, SysCall, KernelStep

-----------------------------------------------------------------------------
(* ExeCnt and the processes that change their images.                      *)

Changing == {p \in Slots : pc[p] = "exec"}

LEMMA ChangingFinite ==
    /\ IsFiniteSet(Slots)
    /\ IsFiniteSet(Changing) /\ Cardinality(Changing) \in Nat
    /\ IsFiniteSet(Changing') /\ Cardinality(Changing') \in Nat
<1>1. IsFiniteSet(Slots)  BY FS_Interval, Bounds DEF Slots
<1>2. Changing \subseteq Slots /\ Changing' \subseteq Slots  BY DEF Changing
<1>3. IsFiniteSet(Changing) /\ IsFiniteSet(Changing')  BY <1>1, <1>2, FS_Subset
<1> QED  BY <1>1, <1>3, FS_CardinalityType

\* Nobody begins: the bound stays
LEMMA ExecFrame ==
    ASSUME Types, ExecBound, exeCnt' = exeCnt,
           \A q \in Slots : pc'[q] = "exec" => pc[q] = "exec"
    PROVE  ExecBound'
<1>1. Changing' \subseteq Changing  BY DEF Changing
<1>2. Cardinality(Changing') <= Cardinality(Changing)  BY <1>1, ChangingFinite, FS_Subset
<1>3. Cardinality(Changing) <= exeCnt /\ exeCnt <= NExec /\ exeCnt \in Nat
  BY DEF ExecBound, Changing, Types
<1>4. Cardinality(Changing') <= exeCnt'  BY <1>2, <1>3, ChangingFinite
<1> QED  BY <1>3, <1>4 DEF ExecBound, Changing

\* Every action keeps the bound
LEMMA ExecStep ==
    ASSUME Types, LocalInv, ExecBound, Next
    PROVE  ExecBound'
<1> USE DEF PCs, States, Signals, Slots, NoSlot, NoChan, Io, Tick, Exe, NoSig
<1>1. ASSUME NEW p \in Slots, SeesSignal(p) PROVE ExecBound'
 <2>1. exeCnt' = exeCnt /\ \A q \in Slots : pc'[q] = "exec" => pc[q] = "exec"
   BY <1>1 DEF SeesSignal, Running, IsSig, Goto, Types, localVars
 <2> QED  BY <2>1, ExecFrame
<1>2. ASSUME NEW p \in Slots, TrapEnd(p) PROVE ExecBound'
 <2>1. exeCnt' = exeCnt /\ \A q \in Slots : pc'[q] = "exec" => pc[q] = "exec"
   BY <1>2 DEF TrapEnd, Running, IsSig, Goto, Types, localVars
 <2> QED  BY <2>1, ExecFrame
<1>3. ASSUME NEW p \in Slots, PSigRead(p) PROVE ExecBound'
 <2>1. exeCnt' = exeCnt /\ \A q \in Slots : pc'[q] = "exec" => pc[q] = "exec"
   BY <1>3 DEF PSigRead, Running, Goto, Types, localVars
 <2> QED  BY <2>1, ExecFrame
<1>4. ASSUME NEW p \in Slots, PSigHandle(p) PROVE ExecBound'
 <2>1. exeCnt' = exeCnt /\ \A q \in Slots : pc'[q] = "exec" => pc[q] = "exec"
   BY <1>4, PSigHandleEffect DEF PSigHandled, Types
 <2> QED  BY <2>1, ExecFrame
<1>5. ASSUME NEW p \in Slots, Fork(p) PROVE ExecBound'
 <2>1. PICK c \in Slots : Forked(p, c)  BY <1>5, ForkEffect
 <2>2. exeCnt' = exeCnt /\ \A q \in Slots : pc'[q] = "exec" => pc[q] = "exec"
   BY <2>1 DEF Forked, Types
 <2> QED  BY <2>2, ExecFrame
<1>6. ASSUME NEW p \in Slots, ForkFail(p) PROVE ExecBound'
 <2>1. exeCnt' = exeCnt /\ \A q \in Slots : pc'[q] = "exec" => pc[q] = "exec"
   BY <1>6 DEF ForkFail, SysEntry, Running, Return, Goto, Types, localVars
 <2> QED  BY <2>1, ExecFrame
<1>7. ASSUME NEW p \in Slots, Exit(p) PROVE ExecBound'
 <2>1. exeCnt' = exeCnt /\ \A q \in Slots : pc'[q] = "exec" => pc[q] = "exec"
   BY <1>7 DEF Exit, SysEntry, Running, ExitBegin, Sleep, Goto, First, Types,
    localVars
 <2> QED  BY <2>1, ExecFrame
<1>8. ASSUME NEW p \in Slots, ExitEnd(p) PROVE ExecBound'
 <2>1. exeCnt' = exeCnt /\ \A q \in Slots : pc'[q] = "exec" => pc[q] = "exec"
   BY <1>8, ExitEndEffect DEF Exited, Types
 <2> QED  BY <2>1, ExecFrame
<1>9. ASSUME NEW p \in Slots, WaitTake(p) PROVE ExecBound'
 <2>1. PICK c \in Slots : Taken(p, c)  BY <1>9, WaitTakeEffect
 <2>2. exeCnt' = exeCnt /\ \A q \in Slots : pc'[q] = "exec" => pc[q] = "exec"
   BY <2>1 DEF Taken, Types
 <2> QED  BY <2>2, ExecFrame
<1>10. ASSUME NEW p \in Slots, WaitEnd(p) PROVE ExecBound'
 <2>1. exeCnt' = exeCnt /\ \A q \in Slots : pc'[q] = "exec" => pc[q] = "exec"
   BY <1>10 DEF WaitEnd, Running, FreeSwap, Return, Goto, Types, localVars
 <2> QED  BY <2>1, ExecFrame
<1>11. ASSUME NEW p \in Slots, WaitNone(p) PROVE ExecBound'
 <2>1. exeCnt' = exeCnt /\ \A q \in Slots : pc'[q] = "exec" => pc[q] = "exec"
   BY <1>11, WaitTurnFacts DEF WaitNone, Running, Goto, IsSig, Types, localVars
 <2> QED  BY <2>1, ExecFrame
<1>12. ASSUME NEW p \in Slots, WaitFail(p) PROVE ExecBound'
 <2>1. exeCnt' = exeCnt /\ \A q \in Slots : pc'[q] = "exec" => pc[q] = "exec"
   BY <1>12, WaitTurnFacts DEF WaitFail, Running, Return, Goto, Types, localVars
 <2> QED  BY <2>1, ExecFrame
<1>13. ASSUME NEW p \in Slots, Pause(p) PROVE ExecBound'
 <2>1. exeCnt' = exeCnt /\ \A q \in Slots : pc'[q] = "exec" => pc[q] = "exec"
   BY <1>13 DEF Pause, SysEntry, Running, Goto, IsSig, Types, localVars
 <2> QED  BY <2>1, ExecFrame
<1>14. ASSUME NEW p \in Slots, SleepSet(p) PROVE ExecBound'
 <2>a. exeCnt' = exeCnt  BY <1>14 DEF SleepSet
 <2>b. \E l \in {"waiting", "paused"} : pc' = [pc EXCEPT ![p] = l]  BY <1>14 DEF SleepSet, Goto
 <2>1. exeCnt' = exeCnt /\ \A q \in Slots : pc'[q] = "exec" => pc[q] = "exec"
   BY <2>a, <2>b DEF Types
 <2> QED  BY <2>1, ExecFrame
<1>15. ASSUME NEW p \in Slots, Resumed(p) PROVE ExecBound'
 <2>1. exeCnt' = exeCnt /\ \A q \in Slots : pc'[q] = "exec" => pc[q] = "exec"
   BY <1>15 DEF Resumed, Running, Return, Goto, Types, localVars
 <2> QED  BY <2>1, ExecFrame
<1>16. ASSUME NEW p \in Slots, ExecWait(p) PROVE ExecBound'
 <2>1. exeCnt' = exeCnt /\ \A q \in Slots : pc'[q] = "exec" => pc[q] = "exec"
   BY <1>16, ExecTurnFacts DEF ExecWait, Running, Goto, Sleep, Types, localVars
 <2> QED  BY <2>1, ExecFrame
<1>17. ASSUME NEW p \in Slots, ExecBegin(p) PROVE ExecBound'
 <2>1. exeCnt \in Nat /\ NExec \in Nat  BY ProcessesAssumption DEF Types, ProcessesAssumption
 <2>2. /\ pc' = [pc EXCEPT ![p] = "exec"] /\ pc[p] # "exec"
       /\ exeCnt' = exeCnt + 1 /\ exeCnt < NExec
  <3>1. pc[p] # "exec"  BY <1>17, ExecTurnFacts DEF ExecBegin
  <3>2. pc' = [pc EXCEPT ![p] = "exec"] /\ exeCnt' = exeCnt + 1  BY <1>17 DEF ExecBegin, Goto
  <3>3. ~(exeCnt >= NExec)  BY <1>17 DEF ExecBegin, GateClosed
  <3> QED  BY <2>1, <3>1, <3>2, <3>3
 <2>3. Changing' = Changing \cup {p} /\ p \notin Changing  BY <2>2 DEF Changing, Types
 <2>4. Cardinality(Changing') = Cardinality(Changing) + 1  BY <2>3, ChangingFinite, FS_AddElement
 <2>5. Cardinality(Changing) <= exeCnt /\ exeCnt \in Nat  BY DEF ExecBound, Changing, Types
 <2>6. Cardinality(Changing') <= exeCnt' /\ exeCnt' <= NExec
   BY <2>1, <2>2, <2>4, <2>5, ChangingFinite
 <2> QED  BY <2>6 DEF ExecBound, Changing
<1>18. ASSUME NEW p \in Slots, ExecLeave(p) PROVE ExecBound'
 <2>1. /\ pc' = [pc EXCEPT ![p] = "trapend"] /\ pc[p] = "exec"
       /\ exeCnt' = exeCnt - 1
   BY <1>18 DEF ExecLeave, Return, Goto
 <2>2. Changing' = Changing \ {p} /\ p \in Changing  BY <2>1 DEF Changing, Types
 <2>3. Cardinality(Changing') = Cardinality(Changing) - 1  BY <2>2, ChangingFinite, FS_RemoveElement
 <2>4. Cardinality(Changing) <= exeCnt /\ exeCnt <= NExec /\ exeCnt \in Nat
   BY DEF ExecBound, Changing, Types
 <2>5. Cardinality(Changing') <= exeCnt' /\ exeCnt' <= NExec
   BY <2>1, <2>3, <2>4, ChangingFinite, ProcessesAssumption DEF ProcessesAssumption
 <2> QED  BY <2>5 DEF ExecBound, Changing
<1>19. ASSUME NEW p \in Slots, ExecBad(p) PROVE ExecBound'
 <2>1. exeCnt' = exeCnt /\ \A q \in Slots : pc'[q] = "exec" => pc[q] = "exec"
   BY <1>19 DEF ExecBad, Running, Return, Goto, Types, localVars
 <2> QED  BY <2>1, ExecFrame
<1>20. ASSUME NEW p \in Slots, Kill(p) PROVE ExecBound'
 <2>1. exeCnt' = exeCnt /\ \A q \in Slots : pc'[q] = "exec" => pc[q] = "exec"
   BY <1>20 DEF Kill, SysEntry, Running, Return, Goto, PSignal, SetRun, Types,
    localVars
 <2> QED  BY <2>1, ExecFrame
<1>21. ASSUME NEW p \in Slots, Ssig(p) PROVE ExecBound'
 <2>1. exeCnt' = exeCnt /\ \A q \in Slots : pc'[q] = "exec" => pc[q] = "exec"
   BY <1>21 DEF Ssig, SysEntry, Running, Return, Goto, Types, localVars
 <2> QED  BY <2>1, ExecFrame
<1>22. ASSUME NEW p \in Slots, IoDone(p) PROVE ExecBound'
 <2>1. exeCnt' = exeCnt /\ \A q \in Slots : pc'[q] = "exec" => pc[q] = "exec"
   BY <1>22 DEF IoDone, Wakes, SetRun, Types, localVars
 <2> QED  BY <2>1, ExecFrame
<1>23. ASSUME NEW p \in Slots, TickDone(p) PROVE ExecBound'
 <2>1. exeCnt' = exeCnt /\ \A q \in Slots : pc'[q] = "exec" => pc[q] = "exec"
   BY <1>23 DEF TickDone, Wakes, SetRun, Types, localVars
 <2> QED  BY <2>1, ExecFrame
<1>24. ASSUME CtrlC PROVE ExecBound'
 <2>1. exeCnt' = exeCnt /\ \A q \in Slots : pc'[q] = "exec" => pc[q] = "exec"
   BY <1>24 DEF CtrlC, localVars
 <2> QED  BY <2>1, ExecFrame
<1> QED  BY <1>1, <1>2, <1>3, <1>4, <1>5, <1>6, <1>7, <1>8, <1>9, <1>10, <1>11, <1>12,
<1>13, <1>14, <1>15, <1>16, <1>17, <1>18, <1>19, <1>20, <1>21, <1>22,
<1>23, <1>24 DEF Next, SysCall, KernelStep

-----------------------------------------------------------------------------
(* The inductive invariant and what follows from it.                       *)

LEMMA InitInd == Init => IndInv
<1> SUFFICES ASSUME Init PROVE IndInv  OBVIOUS
<1> USE DEF Init, Slots, NoSlot, NoChan, NoSig, Signals, States, PCs
<1>1. Types /\ StatInv /\ LocalInv
  BY ProcessesAssumption DEF ProcessesAssumption, Types, StatInv, LocalInv
<1>2. SignalInv /\ FamilyInv /\ WaitInv  BY Bounds DEF SignalInv, FamilyInv, WaitInv, Live
<1>3. {p \in Slots : pc[p] = "exec"} = {}  OBVIOUS
<1>4. Cardinality({p \in Slots : pc[p] = "exec"}) = 0  BY <1>3, FS_EmptySet
<1>5. exeCnt = 0 /\ NExec \in Nat  BY ProcessesAssumption DEF ProcessesAssumption
<1>6. ExecBound  BY <1>4, <1>5 DEF ExecBound
<1> QED  BY <1>1, <1>2, <1>6 DEF IndInv

LEMMA StutterInd ==
    ASSUME IndInv, UNCHANGED vars
    PROVE  IndInv'
<1> USE DEF IndInv, vars, tableVars, localVars
<1>1. Types' /\ StatInv' /\ LocalInv'  BY DEF Types, StatInv, LocalInv
<1>2. SignalInv' /\ ExecBound'  BY DEF SignalInv, ExecBound
<1>3. FamilyInv' /\ WaitInv'  BY DEF FamilyInv, WaitInv, Live, Children
<1> QED  BY <1>1, <1>2, <1>3

LEMMA NextInd ==
    ASSUME IndInv, Next
    PROVE  IndInv'
  BY TypesStep, StatStep, LocalStep, SignalStep, FamilyStep, WaitStep, ExecStep
     DEF IndInv

\* Every reachable state satisfies the inductive invariant.
THEOREM Invariance == Spec => []IndInv
<1>1. IndInv /\ [Next]_vars => IndInv'  BY StutterInd, NextInd
<1> QED  BY <1>1, InitInd, PTL DEF Spec

\* The table is well typed, and p_stat, p_pid, p_wchan and the place of each
\* process in the code go together.
THEOREM TypeCorrect == Spec => []TypeOK
<1>1. IndInv => TypeOK  BY DEF IndInv, Types, StatInv, TypeOK
<1> QED  BY <1>1, Invariance, PTL

\* Fork, Exit and Wait never give a number twice nor leave a process without a
\* parent that lives, while the shell does.
THEOREM FamilyKept == Spec => []FamilyTree
<1>1. IndInv => Family  BY DEF IndInv, StatInv, FamilyInv, Family
<1> QED  BY <1>1, Invariance, TypeCorrect, PTL DEF FamilyTree

\* The wake-up of Exit is never lost: who sleeps in Wait has a child that lives.
THEOREM WaitersHaveChildren == Spec => []WaiterHasChild
<1>1. IndInv => WaiterHasChild  BY DEF IndInv, WaitInv, WaiterHasChild
<1> QED  BY <1>1, Invariance, PTL

\* SIGKILL ends every low priority sleep.
THEOREM KillNotSleptThrough == Spec => []NoSleepThroughKill
<1>1. IndInv => NoSleepThroughKill  BY DEF IndInv, SignalInv, NoSleepThroughKill
<1> QED  BY <1>1, Invariance, PTL

\* At most NEXEC processes change their images at a time.
THEOREM ExecLimit == Spec => []ExecBound
<1>1. IndInv => ExecBound  BY DEF IndInv
<1> QED  BY <1>1, Invariance, PTL

Reaped(c) ==
    pid[c] # 0 /\ pid'[c] # pid[c] =>
        /\ stat[c] = "zomb"
        /\ stat'[c] = "null"
        /\ \E p \in Slots : pid[p] = ppid[c] /\ pc'[p] \in {"reap", "trapend"}

LEMMA StepReaped ==
    ASSUME IndInv, Next, NEW c \in Slots
    PROVE  Reaped(c)
<1>1. CASE \E p \in Slots : WaitTake(p)
 <2>1. PICK p \in Slots, d \in Slots : Taken(p, d)  BY <1>1, WaitTakeEffect DEF IndInv
 <2> QED  BY <2>1 DEF Taken, Reaped, Children, IndInv, Types
<1>2. CASE \E p \in Slots : Fork(p)
 <2>1. PICK p \in Slots, d \in Slots : Forked(p, d)  BY <1>2, ForkEffect DEF IndInv
 <2> QED  BY <2>1 DEF Forked, Reaped, IndInv, Types, StatInv
<1>3. CASE ~(\E p \in Slots : WaitTake(p) \/ Fork(p))
 <2>1. pid' = pid
   BY <1>3 DEF Next, SysCall, KernelStep, SeesSignal, TrapEnd, PSigRead,
      PSigHandle, ForkFail, Exit, ExitEnd, WaitEnd, WaitNone, WaitFail, Pause,
      SleepSet, Resumed, ExecWait, ExecBegin, ExecLeave, ExecBad, Kill, Ssig,
      IoDone, TickDone, Wakes, CtrlC, tableVars
 <2> QED  BY <2>1 DEF Reaped
<1> QED  BY <1>1, <1>2, <1>3

\* A slot changes hands only when the parent of its dead process takes it.
THEOREM OnlyParentsReap == Spec => ReapedByParent
<1>1. IndInv /\ [Next]_vars => [\A c \in Slots : pid[c] # 0 /\ pid'[c] # pid[c] =>
        /\ stat[c] = "zomb"
        /\ stat'[c] = "null"
        /\ \E p \in Slots : /\ pid[p] = ppid[c]
                            /\ pc'[p] \in {"reap", "trapend"}]_vars
  BY StepReaped DEF Reaped
<1> QED  BY <1>1, Invariance, PTL DEF Spec, ReapedByParent
=============================================================================
