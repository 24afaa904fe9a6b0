------------------------------ MODULE GdbStub ------------------------------
(***************************************************************************)
(* The kernel's remote debugger (src/src/debug/gdb): the stub that talks   *)
(* the GDB remote protocol over COM1, its breakpoints, its single and      *)
(* range steps, and the trap frames it edits.                              *)
(*                                                                         *)
(*  - The line to the stub carries bytes; serial_recv_packet reads them    *)
(*    one at a time, so a lost or changed byte meets the parser where the  *)
(*    code meets it.  A packet is five bytes here: "$", one byte for the   *)
(*    whole command, "#" and the two digits of its checksum.               *)
(*  - The line back carries whole answers.                                 *)
(*  - The program is a set of addresses, one instruction each: Flow says   *)
(*    where an instruction may go, Calls which are call instructions,      *)
(*    Checks which lie inside kernel_debug_checkpoint, past its entry: one *)
(*    stands for the rest of it.                                           *)
(*  - The client is GDB: external, it follows the protocol (one command at *)
(*    a time, "-" for a bad answer, the command again after "-" or silence, *)
(*    0x03 only while it believes the target runs).  Its "+", which the    *)
(*    stub skips between packets, is left out.                             *)
(***************************************************************************)
EXTENDS Naturals, Sequences, FiniteSets, TLC

CONSTANTS
    Code,       \* the code addresses, an interval 0 .. n
    Flow,       \* [Code -> SUBSET Code]: the successors of an instruction
    Calls,      \* the addresses that hold a call instruction
    Checks,     \* the addresses inside kernel_debug_checkpoint
    Low,        \* the addresses below 0xC0000000
    MaxBp,      \* GDB_MAX_BREAKPOINTS
    MaxBuf,     \* DEBUG_BUFFER_SIZE - 1
    MaxNest,    \* bound: trap frames on the stack
    MaxSent,    \* bound: commands the client sends, a fault counting for two
    MaxFaults,  \* bound: bytes and answers the line damages
    MaxBreaks,  \* bound: 0x03 the client sends
    Careful     \* the client does what GDB does by default (see Tidy)

ASSUME StubConfigOK ==
    /\ IsFiniteSet(Code) /\ Code # {} /\ Code = 0 .. Cardinality(Code) - 1
    /\ Flow \in [Code -> SUBSET Code]
    /\ Calls \subseteq Code /\ Checks \subseteq Code /\ Low \subseteq Code
    /\ {MaxBp, MaxBuf, MaxNest, MaxSent, MaxFaults, MaxBreaks} \subseteq Nat
    /\ MaxNest > 0 /\ Careful \in BOOLEAN

VARIABLES
    dbg,     \* the stub's memory: breakpoints, steps, register copy, flags
    text,    \* the program's code bytes
    prog,    \* the program's pc and trap flag while no frame holds them
    frames,  \* the trap frames on the stack, the last one innermost
    trapped, \* "stub" or "irq" when the stub's code (the rest of the checkpoint
             \* is some) or the serial interrupt runs with the trap flag, else "no"
    rx,      \* serial_recv_packet's local variables
    line,    \* bytes on their way to the stub
    back,    \* answers on their way to the client
    client,  \* the client: what it waits for, and its last command
    fresh,   \* the program has not executed since it was last resumed
    n        \* the counters behind the bounds

stubVars == <<dbg, text, prog, frames, trapped, rx, line, back, client, fresh, n>>

NoCmd  == [op |-> "none", a |-> 0]
Plain  == {"q", "D", "c", "s", "x"}    \* commands without an address here
Sited  == {"P", "M", "Z", "z", "r"}    \* commands with one
Cmds   == [op : Plain, a : {0}] \cup [op : Sited, a : Code]
Resumes == {"c", "s", "r"}

OnLine(t, c) == [t |-> t, c |-> c]
BRK  == OnLine("^C", NoCmd)
NACK == OnLine("-", NoCmd)
Junk == OnLine("?", NoCmd)

\* "x" is an X packet whose binary payload holds a byte 0x03.
Packet(c) ==
    LET first == OnLine("$", NoCmd)
        data  == OnLine("data", c)
        last  == OnLine("#", NoCmd)
        sum   == OnLine("sum", c)
    IN  IF c.op = "x" THEN <<first, data, BRK, last, sum, sum>>
        ELSE <<first, data, last, sum, sum>>

NoRange == [active |-> FALSE, lo |-> 0, hi |-> 0, armed |-> FALSE, at |-> 0, orig |-> "insn"]
Idle    == [st |-> 0, buf |-> <<>>, sum |-> <<>>]
-----------------------------------------------------------------------------
(* Breakpoints.  The stub's operators map a pair m = [d, text] (its memory *)
(* and the code bytes) to the pair the C function leaves.                  *)

Find(m, a) == {i \in DOMAIN m.d.bps : m.d.bps[i].addr = a /\ m.d.bps[i].on}

gdb_insert_breakpoint(m, i) ==
    LET b == m.d.bps[i] IN
    IF b.on /\ ~b.ins
    THEN [m EXCEPT !.text[b.addr] = "int3", !.d.bps[i].ins = TRUE]
    ELSE m

gdb_restore_breakpoint_byte(m, i) ==
    LET b == m.d.bps[i] IN
    IF b.ins THEN [m EXCEPT !.text[b.addr] = b.orig, !.d.bps[i].ins = FALSE] ELSE m

\* The first slot that is off, else a new one; slot 0 when the table is full.
NextSlot(bps) ==
    LET off == {i \in DOMAIN bps : ~bps[i].on}
    IN  IF off # {} THEN CHOOSE i \in off : \A j \in off : i <= j
        ELSE IF Len(bps) < MaxBp THEN Len(bps) + 1 ELSE 0

gdb_add_breakpoint(m, a) ==
    LET i == NextSlot(m.d.bps)
        b == [addr |-> a, orig |-> m.text[a], on |-> TRUE, ins |-> FALSE]
    IN  CASE Find(m, a) # {} -> [ok |-> TRUE, m |-> m]
          [] Find(m, a) = {} /\ i = 0 -> [ok |-> FALSE, m |-> m]
          [] OTHER -> [ok |-> TRUE,
                       m |-> gdb_insert_breakpoint([m EXCEPT !.d.bps = [j \in DOMAIN @ \cup {i} |-> IF j = i THEN b ELSE @[j]]], i)]

gdb_remove_breakpoint(m, a) ==
    IF Find(m, a) = {} THEN [ok |-> FALSE, m |-> m]
    ELSE LET i == CHOOSE i \in Find(m, a) : TRUE
             r == gdb_restore_breakpoint_byte(m, i)
         IN  [ok |-> TRUE,
              m |-> [r EXCEPT !.d.bps[i] = [@ EXCEPT !.on = FALSE, !.ins = FALSE],
                              !.d.auto = IF m.d.pend = i THEN FALSE ELSE @,
                              !.d.pend = IF @ = i THEN 0 ELSE @]]

gdb_prepare_breakpoint_resume(m, a) ==
    LET i == CHOOSE i \in Find(m, a) : TRUE
    IN  [gdb_restore_breakpoint_byte(m, i) EXCEPT !.d.pend = i, !.d.auto = FALSE]

gdb_finish_breakpoint_resume(m) ==
    [gdb_insert_breakpoint(m, m.d.pend) EXCEPT !.d.pend = 0, !.d.auto = FALSE]
-----------------------------------------------------------------------------
(* Range steps and the register copy.                                      *)

\* Mutant: the byte under the range's breakpoint is not put back.
ClearRangeOnly(m) == [m EXCEPT !.d.rs = NoRange]
gdb_clear_range_step(m) ==
    [m EXCEPT !.text = IF m.d.rs.armed THEN [@ EXCEPT ![m.d.rs.at] = m.d.rs.orig] ELSE @,
              !.d.rs = NoRange]

gdb_is_call_instruction(m, pc) == pc \in Calls /\ m.text[pc] # "int3"

gdb_arm_range_step_breakpoint(m, a) ==
    IF Find(m, a) # {} \/ (m.d.rs.armed /\ m.d.rs.at = a) THEN m
    ELSE [m EXCEPT !.text[a] = "int3",
                   !.d.rs = [@ EXCEPT !.armed = TRUE, !.at = a, !.orig = m.text[a]]]

\* Answers whether the step becomes a continue to the end of the range.
gdb_activate_range_step(m, pc, lo, hi) ==
    LET r == [gdb_clear_range_step(m) EXCEPT
                !.d.rs = [@ EXCEPT !.active = TRUE, !.lo = lo, !.hi = hi]]
        over == pc = lo /\ gdb_is_call_instruction(r, pc)
    IN  [over |-> over, m |-> IF over THEN gdb_arm_range_step_breakpoint(r, hi) ELSE r]

\* The breakpoint at the end of the range is hit, when it is the one at a.
RangeEnd(m, a) == m.d.rs.armed /\ a = m.d.rs.at
gdb_consume_range_step_breakpoint(m, a) ==
    [m EXCEPT !.text[a] = m.d.rs.orig,
              !.d.rs = [@ EXCEPT !.armed = FALSE, !.at = 0, !.orig = "insn"]]

\* A range step goes on while the pc is inside, over the calls it meets.
InRange(m, pc) == m.d.rs.active /\ pc >= m.d.rs.lo /\ pc < m.d.rs.hi
gdb_range_step_should_stop(m, pc) ==
    IF m.d.rs.active /\ ~InRange(m, pc) THEN gdb_clear_range_step(m) ELSE m
gdb_prepare_range_step_resume(m, pc) ==
    LET over == gdb_is_call_instruction(m, pc)
    IN  [over |-> over, m |-> IF over THEN gdb_arm_range_step_breakpoint(m, m.d.rs.hi) ELSE m]

SetTf(m, on) == [m EXCEPT !.d.ctx.tf = on]
SetRunning(m, on) == [m EXCEPT !.d.running = on]

\* gdb_registers_commit_to_trap_frame: into the frame that was bound last.
\* When that frame is gone the store lands in dead stack.
Commit(m, fs) ==
    IF m.d.ctx.valid /\ m.d.bound \in DOMAIN fs
    THEN [fs EXCEPT ![m.d.bound].pc = m.d.ctx.pc, ![m.d.bound].tf = m.d.ctx.tf]
    ELSE fs
-----------------------------------------------------------------------------
(* debugger_enter: what a trap does before it waits for commands.          *)

\* A stub frame or the interrupt handler lies outside every code address.
Outside == 1 + Cardinality(Code)

\* Mutant: the trap leaves the serial interrupt on.
EnterUnmasked(m, f, fs) ==
    [m EXCEPT !.d.client = TRUE, !.d.connected = TRUE, !.d.bound = Len(fs) + 1,
              !.d.ctx = [pc |-> f.pc, tf |-> f.tf, valid |-> TRUE]]
Enter(m, f, fs) ==
    [m EXCEPT !.d.running = FALSE, !.d.client = TRUE, !.d.connected = TRUE,
              !.d.bound = Len(fs) + 1,
              !.d.ctx = [pc |-> f.pc, tf |-> f.tf, valid |-> TRUE]]

\* debugger_handle_breakpoint_trap; eip is the address after the int3.
BreakpointTrap(m) ==
    LET a  == m.d.ctx.pc - 1
        at == [m EXCEPT !.d.ctx = [@ EXCEPT !.pc = a, !.tf = FALSE]]
    IN  IF RangeEnd(m, a) THEN gdb_consume_range_step_breakpoint(at, a)
        ELSE IF Find(m, a) = {} THEN m
        ELSE gdb_clear_range_step(gdb_prepare_breakpoint_resume(at, a))

\* debugger_handle_debug_trap: whether the target goes on without a stop.
DebugTrap(m) ==
    LET p  == IF m.d.pend # 0 THEN gdb_finish_breakpoint_resume(m) ELSE m
        pc == p.d.ctx.pc
        q  == gdb_range_step_should_stop(p, pc)
        s  == gdb_prepare_range_step_resume(p, pc)
    IN  IF InRange(p, pc)
        THEN [go |-> TRUE, m |-> SetRunning(SetTf(s.m, ~s.over), TRUE)]
        ELSE IF m.d.pend # 0 /\ m.d.auto
        THEN [go |-> TRUE, m |-> SetRunning(SetTf(q, FALSE), TRUE)]
        ELSE [go |-> FALSE, m |-> q]

Now == [d |-> dbg, text |-> text]
Left(m) == dbg' = m.d /\ text' = m.text

\* The return from a trap: the innermost frame, with what was committed to
\* it, goes back to what it interrupted.
Return(fs) ==
    LET f == fs[Len(fs)] IN
    /\ frames' = SubSeq(fs, 1, Len(fs) - 1)
    /\ prog' = IF f.of = "prog" THEN [pc |-> f.pc, tf |-> f.tf] ELSE prog
    /\ trapped' = IF f.of # "prog" /\ f.tf THEN f.of ELSE "no"
    /\ fresh' = TRUE

Stop(m, fs) ==
    /\ Left(m)
    /\ frames' = fs
    /\ back' = Append(back, "stop")
    /\ rx' = Idle
    /\ trapped' = "no"
    /\ UNCHANGED <<prog, fresh>>

\* kept is what remains of a packet begun when the target goes on at once.
Trap(type, f, kept) ==
    LET e  == Enter(Now, f, frames)
        fs == Append(frames, f)
        b  == BreakpointTrap(e)
        t  == DebugTrap(e)
    IN  CASE type = "breakpoint" -> Stop(b, Commit(b, fs))
          [] type = "debug" /\ t.go -> /\ Left(t.m)
                                       /\ Return(Commit(t.m, fs))
                                       /\ rx' = kept
                                       /\ UNCHANGED back
          [] type = "debug" /\ ~t.go -> Stop(t.m, fs)
          [] OTHER -> Stop(e, fs)
-----------------------------------------------------------------------------
(* The program executes one instruction.  A step inside the checkpoint is  *)
(* one in the stub's own code: its trap comes before the checkpoint's.     *)

Frame(of, pc, tf) == [of |-> of, pc |-> pc, tf |-> tf]

Execute ==
    /\ frames = <<>> /\ trapped = "no"
    /\ LET pc == prog.pc IN
       \/ /\ text[pc] = "int3"
          /\ Trap("breakpoint", Frame("prog", pc + 1, prog.tf), rx)
       \/ /\ text[pc] # "int3"
          /\ \E to \in Flow[pc] :
                \/ /\ pc \in Checks /\ ~prog.tf
                   /\ Trap("checkpoint", Frame("prog", to, FALSE), rx)
                \/ /\ pc \in Checks /\ prog.tf
                   /\ prog' = [prog EXCEPT !.tf = FALSE]
                   /\ trapped' = "stub"
                   /\ UNCHANGED <<dbg, text, frames, rx, back, fresh>>
                \/ /\ pc \notin Checks /\ prog.tf
                   /\ Trap("debug", Frame("prog", to, TRUE), rx)
                \/ /\ pc \notin Checks /\ ~prog.tf
                   /\ prog' = [prog EXCEPT !.pc = to]
                   /\ fresh' = FALSE
                   /\ UNCHANGED <<dbg, text, frames, trapped, rx, back>>
    /\ UNCHANGED <<line, client, n>>

\* A step that the client asked for while the stub itself, or the handler of
\* the serial interrupt, was what had trapped, or while the program was inside
\* the checkpoint: the next trap is in the stub or in the handler too, or the
\* handler returns and its flags go with it.
StepOutside ==
    /\ trapped # "no" /\ Len(frames) < MaxNest
    /\ \/ Trap("debug", Frame(trapped, Outside, TRUE), rx)
       \/ /\ trapped = "irq" /\ trapped' = "no"
          /\ UNCHANGED <<dbg, text, prog, frames, rx, back, fresh>>
    /\ UNCHANGED <<line, client, n>>

\* SerialInterruptEntrance: one byte per interrupt, only 0x03 means anything.
\* The debug exceptions are trap gates, so it is masked only by the stub.
SerialInterrupt ==
    /\ dbg.running /\ trapped = "no" /\ line # <<>>
    /\ \A i \in DOMAIN frames : frames[i].of # "irq"
    /\ line' = Tail(line)
    /\ IF Head(line) = BRK
       THEN Len(frames) < MaxNest /\ Trap("debug", Frame("irq", Outside, FALSE), rx)
       ELSE UNCHANGED <<dbg, text, prog, frames, trapped, rx, back, fresh>>
    /\ UNCHANGED <<client, n>>
-----------------------------------------------------------------------------
(* The commands.  A handler answers [m, out, go]: the state it leaves, its *)
(* answers, and whether it asked to resume.                                *)

Reply(m) == [m |-> m, out |-> IF m.d.client THEN <<"reply">> ELSE <<>>, go |-> FALSE]
GoOn(m) == [m |-> m, out |-> <<>>, go |-> TRUE]

\* Mutant: continue does not step over the breakpoint it stopped at.
ContinueAtOnce(m) == GoOn(SetTf(gdb_clear_range_step(m), FALSE))
gdb_handle_continue(m) ==
    LET r == gdb_clear_range_step(m)
    IN  IF r.d.pend # 0 THEN GoOn(SetTf([r EXCEPT !.d.auto = TRUE], TRUE))
        ELSE GoOn(SetTf(r, FALSE))

gdb_handle_step(m, c) ==
    IF c.op = "s"
    THEN GoOn(SetTf([gdb_clear_range_step(m) EXCEPT !.d.auto = FALSE], TRUE))
    ELSE LET s == gdb_activate_range_step(m, m.d.ctx.pc, m.d.ctx.pc, c.a)
         IN  IF c.a <= m.d.ctx.pc THEN Reply(m)     \* an empty range: E00
             ELSE GoOn(SetTf([s.m EXCEPT !.d.auto = FALSE], ~s.over))

gdb_handle_write_single_register(m, c) ==
    Reply([m EXCEPT !.d.ctx = [@ EXCEPT !.pc = c.a, !.valid = TRUE]])

gdb_handle_write_memory(m, c) == Reply([m EXCEPT !.text[c.a] = "insn"])

gdb_handle_set_breakpoint(m, c) ==
    IF c.a \in Low THEN Reply(m) ELSE Reply(gdb_add_breakpoint(m, c.a).m)

gdb_handle_remove_breakpoint(m, c) ==
    IF c.a \in Low THEN Reply(m) ELSE Reply(gdb_remove_breakpoint(m, c.a).m)

\* Its addresses are data here: no code byte changes.
gdb_handle_binary_write_memory(m) == Reply(m)

\* qSupported, qXfer, qRcmd and the other queries change nothing of this.
gdb_handle_query(m) == Reply(m)

Detach(m) == [m |-> [m EXCEPT !.d.connected = FALSE, !.d.client = FALSE],
              out |-> <<"reply">>, go |-> FALSE]

\* gdb_parse_command and the switch of debugger_main; "q" also stands for
\* the reads of registers and memory, which only answer.
Dispatch(m, c) ==
    CASE c.op = "c" -> gdb_handle_continue(m)
      [] c.op \in {"s", "r"} -> gdb_handle_step(m, c)
      [] c.op = "P" -> gdb_handle_write_single_register(m, c)
      [] c.op = "M" -> gdb_handle_write_memory(m, c)
      [] c.op = "Z" -> gdb_handle_set_breakpoint(m, c)
      [] c.op = "z" -> gdb_handle_remove_breakpoint(m, c)
      [] c.op = "D" -> Detach(m)
      [] c.op = "x" -> gdb_handle_binary_write_memory(m)
      [] OTHER -> gdb_handle_query(m)

\* A first packet connects and is answered as a query, whatever it is.
FirstPacket(m) == gdb_handle_query([m EXCEPT !.d.connected = TRUE, !.d.client = TRUE])
-----------------------------------------------------------------------------
(* serial_recv_packet and the loop of debugger_main.                       *)

\* One byte: [rx, ev] with ev one of "more", "brk", "packet", "error".
TakeByte(r, b) ==
    LET R(st, buf, sum, ev) == [rx |-> [st |-> st, buf |-> buf, sum |-> sum], ev |-> ev]
        drop(ev) == [rx |-> Idle, ev |-> ev]
        sums == Append(r.sum, b.c)
        good == Len(r.buf) = 1 /\ \A i \in {1, 2} : sums[i] = r.buf[1].c
    IN  CASE b = BRK -> drop("brk")
          [] b # BRK /\ r.st = 0 -> IF b.t = "$" THEN R(1, <<>>, <<>>, "more") ELSE R(0, r.buf, r.sum, "more")
          [] b # BRK /\ r.st = 1 -> IF b.t = "#" THEN R(2, r.buf, <<>>, "more")
                                  ELSE IF Len(r.buf) < MaxBuf THEN R(1, Append(r.buf, b), <<>>, "more")
                                  ELSE drop("error")
          [] b # BRK /\ r.st = 2 -> IF b.t # "sum" THEN drop("error")
                                  ELSE IF Len(sums) < 2 THEN R(2, r.buf, sums, "more")
                                  ELSE IF good THEN R(0, r.buf, sums, "packet")
                                  ELSE drop("error")

InStub == frames # <<>> /\ trapped = "no"

\* The byte arrives while debugger_main polls, and completes nothing, a bad
\* packet, an interrupt request or a command.
Receive ==
    /\ InStub /\ line # <<>>
    /\ line' = Tail(line)
    /\ LET t == TakeByte(rx, Head(line))
           c == t.rx.buf[1].c
           h == IF dbg.connected THEN Dispatch(Now, c) ELSE FirstPacket(Now)
           e == [h.m EXCEPT !.d.running = TRUE]
       IN \/ /\ t.ev = "more" /\ rx' = t.rx
             /\ UNCHANGED <<dbg, text, prog, frames, trapped, back, fresh>>
          \/ /\ t.ev = "error" /\ rx' = Idle
             /\ dbg' = [dbg EXCEPT !.connected = FALSE]
             /\ back' = Append(back, "nack")
             /\ UNCHANGED <<text, prog, frames, trapped, fresh>>
          \/ /\ t.ev = "brk" /\ ~dbg.connected /\ rx' = Idle
             /\ dbg' = [dbg EXCEPT !.connected = TRUE]
             /\ back' = IF dbg.client THEN Append(back, "stop") ELSE back
             /\ UNCHANGED <<text, prog, frames, trapped, fresh>>
          \/ /\ t.ev = "brk" /\ dbg.connected /\ Len(frames) < MaxNest
             /\ Trap("debug", Frame("stub", Outside, FALSE), Idle)
          \/ /\ t.ev = "packet" /\ rx' = Idle
             /\ back' = back \o <<"ack">> \o h.out
             /\ \/ /\ h.go
                   /\ Left(e) /\ Return(Commit(e, frames))
                \/ /\ ~h.go
                   /\ Left(h.m)
                   /\ UNCHANGED <<prog, frames, trapped, fresh>>
    /\ UNCHANGED <<client, n>>

\* A million polls without a byte: the packet begun is forgotten.
Timeout ==
    /\ InStub /\ line = <<>> /\ rx # Idle
    /\ rx' = Idle
    /\ UNCHANGED <<dbg, text, prog, frames, trapped, line, back, client, fresh, n>>
-----------------------------------------------------------------------------
(* The client and the line, external.                                      *)

\* GDB does not set a breakpoint where a step it has under way has its own,
\* write where one is set, or jump or step a range while the breakpoint it
\* stopped at is set: it takes its breakpoints out when the target stops.
Tidy(c) ==
    /\ c.op = "Z" => ~(dbg.rs.armed /\ dbg.rs.at = c.a)
    /\ c.op = "M" => text[c.a] # "int3" /\ Find(Now, c.a) = {}
    /\ c.op \in {"P", "r"} => dbg.pend = 0

\* P and r are sent for a stop in the program; r has a range from its pc on;
\* a client that attaches again begins with a query (qSupported).  No line of
\* the program's source begins inside kernel_debug_checkpoint.
Sensible(c) ==
    /\ c.op \in {"P", "r"} => dbg.ctx.pc \in Code
    /\ c.op = "r" => c.a > dbg.ctx.pc
    /\ c.op \in {"P", "Z", "r"} => c.a \notin Checks
    /\ c.op = "x" => Len(frames) + 1 < MaxNest
    /\ client.st = "off" => c.op = "q"

Stub == <<dbg, text, prog, frames, trapped, rx, fresh>>

Spent == n.cmds + 2 * n.faults

Send(c) ==
    /\ client.st \in {"idle", "off"} /\ Spent < MaxSent
    /\ Sensible(c) /\ (Careful => Tidy(c))
    /\ client' = [st |-> "ack", cmd |-> c]
    /\ line' = line \o Packet(c)
    /\ n' = [n EXCEPT !.cmds = @ + 1]
    /\ UNCHANGED <<Stub, back>>

Break ==
    /\ client.st = "run" /\ n.breaks < MaxBreaks
    /\ line' = Append(line, BRK)
    /\ n' = [n EXCEPT !.breaks = @ + 1]
    /\ UNCHANGED <<Stub, back, client>>

Answered == [client EXCEPT !.st = IF client.cmd.op = "D" THEN "off" ELSE "idle"]

Listen ==
    /\ back # <<>>
    /\ back' = Tail(back)
    /\ \/ /\ Head(back) = "ack"
          /\ client' = IF client.st # "ack" THEN client
                       ELSE [client EXCEPT !.st = IF client.cmd.op \in Resumes THEN "run" ELSE "reply"]
          /\ UNCHANGED line
       \/ /\ Head(back) = "nack"
          /\ line' = IF client.st = "ack" THEN line \o Packet(client.cmd) ELSE line
          /\ UNCHANGED client
       \/ /\ Head(back) = "bad"
          /\ line' = Append(line, NACK)
          /\ UNCHANGED client
       \/ /\ Head(back) \in {"reply", "stop"}
          /\ client' = IF client.st \in {"reply", "run"} THEN Answered ELSE client
          /\ UNCHANGED line
    /\ UNCHANGED <<Stub, n>>

\* Nothing comes: GDB sends the packet again, or gives up: it reports an
\* error, but after a command to resume it waits for the target to stop.
Silence ==
    /\ line = <<>> /\ back = <<>>
    /\ \/ /\ client.st = "ack" /\ Spent < MaxSent
          /\ line' = Packet(client.cmd)
          /\ n' = [n EXCEPT !.cmds = @ + 1]
          /\ UNCHANGED client
       \/ /\ client.st \in {"ack", "reply"}
          /\ client' = IF client.cmd.op \in Resumes THEN [client EXCEPT !.st = "run"] ELSE Answered
          /\ UNCHANGED <<line, n>>
    /\ UNCHANGED <<Stub, back>>

Without(s, i) == SubSeq(s, 1, i - 1) \o SubSeq(s, i + 1, Len(s))

Damage ==
    /\ n.faults < MaxFaults /\ Spent + 2 <= MaxSent
    /\ \/ \E i \in DOMAIN line :
             /\ \/ line' = Without(line, i)
                \/ \E b \in {Junk, OnLine("$", NoCmd), OnLine("#", NoCmd)} : line' = [line EXCEPT ![i] = b]
             /\ UNCHANGED back
       \/ \E i \in DOMAIN back :
             /\ back' \in {Without(back, i), [back EXCEPT ![i] = "bad"]}
             /\ UNCHANGED line
    /\ n' = [n EXCEPT !.faults = @ + 1]
    /\ UNCHANGED <<Stub, client>>
-----------------------------------------------------------------------------
\* The boot checkpoint has trapped, and the client waits for its stop reply.
StubInit ==
    /\ text = [a \in Code |-> "insn"]
    /\ dbg = [bps |-> <<>>, pend |-> 0, auto |-> FALSE, rs |-> NoRange,
              ctx |-> [pc |-> 0, tf |-> FALSE, valid |-> TRUE], bound |-> 1,
              connected |-> TRUE, client |-> TRUE, running |-> FALSE]
    /\ prog = [pc |-> 0, tf |-> FALSE]
    /\ frames = <<Frame("prog", 0, FALSE)>>
    /\ trapped = "no" /\ fresh = FALSE
    /\ rx = Idle /\ line = <<>> /\ back = <<"stop">>
    /\ client = [st |-> "run", cmd |-> NoCmd]
    /\ n = [cmds |-> 0, faults |-> 0, breaks |-> 0]

Stubs  == Execute \/ StepOutside \/ SerialInterrupt \/ Receive \/ Timeout
StubNext ==
    \/ Stubs
    \/ \E c \in Cmds : Send(c)
    \/ Break \/ Listen \/ Silence \/ Damage

StubSpec == StubInit /\ [][StubNext]_stubVars

\* The stub polls, the processor runs, the client listens.
FairSpec ==
    /\ StubSpec
    /\ WF_stubVars(Receive) /\ WF_stubVars(SerialInterrupt) /\ WF_stubVars(StepOutside)
    /\ WF_stubVars(Execute) /\ WF_stubVars(Listen)
-----------------------------------------------------------------------------
Enabled(i) == i \in DOMAIN dbg.bps /\ dbg.bps[i].on

StubTypeOK ==
    /\ text \in [Code -> {"insn", "int3"}]
    /\ Len(dbg.bps) <= MaxBp /\ dbg.pend \in {0} \cup DOMAIN dbg.bps
    /\ prog.pc \in Code /\ Len(frames) \in 0 .. MaxNest
    /\ rx.st \in 0 .. 2 /\ Len(rx.buf) <= MaxBuf
    /\ client.st \in {"idle", "ack", "reply", "run", "off"}
    /\ dbg.bound \in 1 .. MaxNest

(* The tables and buffers stay within their sizes, and every int3 in the   *)
(* program's text belongs to exactly one of the stub's breakpoints, which  *)
(* keeps the instruction it replaced: what z, a stop or the end of a range *)
(* writes back is the program (gdb_breakpoints.cpp 37 - 47,                *)
(* gdb_protocol.cpp 132-145).  Packets have no numbers: when the line      *)
(* damages more than one, the stub may take a command a second time after  *)
(* the client has gone on, and M then overwrites an int3.                  *)
OneOwner ==
    LET own(a) == {i \in DOMAIN dbg.bps : dbg.bps[i].addr = a /\ dbg.bps[i].on /\ dbg.bps[i].ins}
    IN  \A a \in Code :
          /\ text[a] = "int3" <=> (own(a) # {} \/ (dbg.rs.armed /\ dbg.rs.at = a))
          /\ Cardinality(own(a)) <= 1
          /\ own(a) # {} => ~(dbg.rs.armed /\ dbg.rs.at = a)
          /\ \A i \in own(a) : dbg.bps[i].orig = "insn"
          /\ dbg.rs.armed => dbg.rs.orig = "insn"
Int3Owned == n.faults <= 1 => StubTypeOK /\ OneOwner

(* The program never runs through an address with a breakpoint set, except *)
(* as the first instruction after a stop there: every way to resume puts   *)
(* back what the stop took out before a second instruction runs            *)
(* (debugger_handle_breakpoint_trap, debugger_handle_debug_trap).          *)
NoRunThrough ==
    [][ (Execute /\ text[prog.pc] # "int3" /\ ~fresh /\ n.faults = 0)
        => \A i \in DOMAIN dbg.bps : Enabled(i) => dbg.bps[i].addr # prog.pc ]_stubVars

(* On a line that damages nothing every command is acknowledged and        *)
(* answered, whatever 0x03 it meets on its way; only an X packet whose     *)
(* payload holds a 0x03 is not (serial_recv_packet takes that byte for an  *)
(* interrupt request and throws the packet away).                          *)
CommandAnswered ==
    client.st \in {"ack", "reply"}
        ~> (client.st \in {"idle", "run", "off"} \/ client.cmd.op = "x" \/ n.faults > 0)

(* On such a line a 0x03 sent while the target runs brings a stop reply,   *)
(* whether it meets the interrupt handler, the polling loop or a trap that *)
(* goes on by itself (SerialInterruptHandler, debugger_main).              *)
InterruptStops ==
    client.st = "run" /\ (\E i \in DOMAIN line : line[i] = BRK)
        ~> (client.st = "idle" \/ n.faults > 0)

(* Both: the stub serves its client.                                       *)
ClientServed == CommandAnswered /\ InterruptStops
=============================================================================
