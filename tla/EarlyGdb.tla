----------------------------- MODULE EarlyGdb -----------------------------
(***************************************************************************)
(* Debugging before the kernel's own stub exists (src/src/boot): the boot  *)
(* sector stops for GDB and loads the kernel image, greatstart stops again *)
(* with a stub written in assembly, and what that stub leaves in the code  *)
(* meets the breakpoint table of the kernel's stub at the first checkpoint *)
(* of main0.                                                               *)
(*                                                                         *)
(*  - Kernel addresses are Base .. 2*Base-1; a number below Base is the    *)
(*    same place without the kernel's 0xC0000000.                          *)
(*  - A byte of the image is the first byte of an instruction, named by    *)
(*    what the stub knows of it, or an operand ("arg").                    *)
(*  - Both stubs of this module answer one packet at a time and read       *)
(*    nothing else meanwhile, so a command and its answer are one step.    *)
(*  - The client is GDB, external.  It takes its breakpoints out before it *)
(*    shows or changes memory, reads the registers after each stop, and    *)
(*    never sends a G packet that is short.                                *)
(***************************************************************************)
EXTENDS Naturals, FiniteSets, FiniteSetsExt

CONSTANTS
    Base,       \* 0xC0000000, and the size of the kernel image
    Image,      \* [Addr -> Op]: the image on the disk
    Dest,       \* [Addr -> Addr]: where a call or jmp at an address goes
    SecLen,     \* bytes in a sector
    Colon,      \* the address whose low byte is ':'; all of Addr shares the rest
    Garbled,    \* what "Cont;c" and "Cont;s" are as hexadecimal numbers
    NSlot,      \* BP_MAX
    FitM,       \* bytes of data of an M packet that rsp_buf holds
    MaxLen,     \* the longest write the client asks for
    MaxCmds     \* bound: commands the client sends to one stub

Addr == Base .. 2 * Base - 1
Op   == {"one", "two", "call", "icall", "jmp", "arg"}
Sectors == 1 .. (Base + SecLen - 1) \div SecLen

ASSUME ConfigOK ==
    /\ Base \in Nat \ {0} /\ SecLen \in Nat \ {0}
    /\ Image \in [Addr -> Op] /\ Dest \in [Addr -> Addr]
    /\ Colon \in Addr /\ Garbled \in 0 .. Base - 1
    /\ {NSlot, FitM, MaxLen, MaxCmds} \subseteq Nat

VARIABLES
    stage,   \* "boot", "load", "greatstart", "early", "bridge", "kernel"
    sector,  \* the sectors _load_kernel has read
    mem,     \* the kernel's code in memory
    sh,      \* reg_shadow: eip, trap flag, one general register, esp, a segment
    cpu,     \* the registers the program has, or will have when it goes on
    bp,      \* the slots bp_used, bp_addr and bp_orig
    tmp,     \* tmp_bp_active, tmp_bp_addr and tmp_bp_orig
    table,   \* the kernel stub's breakpoints
    left,    \* the breakpoints in the code when the early stub was gone
    gdb,     \* the client: how it last resumed, registers, bytes, breakpoints
    cmds     \* commands sent to this stub

vars == <<stage, sector, mem, sh, cpu, bp, tmp, table, left, gdb, cmds>>

Numbers == 0 .. 2 * Base - 1             \* what the client writes as an address
Bit     == {0, 1}
Regs    == [eip : Nat, fl : Bit, r : Bit, sp : Bit, sg : Bit]
Slot    == [on : BOOLEAN, addr : Nat, orig : Op \cup {"new", "int3", "none"}]
Off     == [on |-> FALSE, addr |-> 0, orig |-> "none"]
Reset   == [eip |-> Base, fl |-> 0, r |-> 0, sp |-> 0, sg |-> 0]

Stopped(s) == stage = s /\ cmds < MaxCmds
Said == cmds' = cmds + 1 /\ UNCHANGED gdb
-----------------------------------------------------------------------------
(* The stub's routines.                                                    *)

normalize_debug_addr(k) == IF k >= Base THEN k ELSE k + Base

\* Outside the image the stub reads bytes no rule of it knows.
At(k) == IF k \in Addr THEN mem[k] ELSE "one"

\* The table knows few lengths; every other opcode counts as one byte.
compute_step_target(k) ==
    CASE At(k) \in {"call", "jmp"} -> Dest[k]
      [] At(k) = "two" -> k + 2
      [] OTHER -> k + 1

\* handle_step_over_packet: a call is five bytes, two here.
StepOver(k) == IF At(k) = "call" THEN k + 2 ELSE compute_step_target(k)

\* The slot a breakpoint has, or else the first free one.
UsedBy(a) == {i \in DOMAIN bp : bp[i].on /\ bp[i].addr = a}
FreeSlots == {i \in DOMAIN bp : ~bp[i].on}

\* clear_temp_breakpoint, and the memory it leaves.
Cleared == IF tmp.on THEN [mem EXCEPT ![tmp.addr] = tmp.orig] ELSE mem

\* sync_shadow_to_frame, popad and popfd: popad skips esp, and nobody writes
\* the segments.
ToFrame(s) == [cpu EXCEPT !.eip = s.eip, !.fl = s.fl, !.r = s.r]

\* sync_frame_to_shadow
ToShadow(c) == c

\* The client reads all registers when the stub says S05.
ShowAll(s) == gdb' = [gdb EXCEPT !.regs = s]
-----------------------------------------------------------------------------
(* The boot sector: a stub that knows ?, g, c and s, then the loader.      *)

\* c and s resume; the registers it shows are zeros.
BootResume ==
    /\ Stopped("boot") /\ stage' = "load" /\ cmds' = 0
    /\ UNCHANGED <<sector, mem, sh, cpu, bp, tmp, table, left, gdb>>
BootAnswer ==
    /\ Stopped("boot")
    /\ Said
    /\ UNCHANGED <<stage, sector, mem, sh, cpu, bp, tmp, table, left>>

\* Mutant: loop counts one sector too few.
LoadShort ==
    /\ stage = "load"
    /\ sector' = sector + 1
    /\ mem' = [a \in Addr |-> IF (a - Base) \div SecLen + 1 = sector' THEN Image[a] ELSE mem[a]]
    /\ stage' = IF sector' + 1 >= Cardinality(Sectors) THEN "greatstart" ELSE "load"
    /\ UNCHANGED <<sh, cpu, bp, tmp, table, left, gdb, cmds>>
\* _load_sector, and the jump to greatstart after the last one.
Load ==
    /\ stage = "load"
    /\ sector' = sector + 1
    /\ mem' = [a \in Addr |-> IF (a - Base) \div SecLen + 1 = sector' THEN Image[a] ELSE mem[a]]
    /\ stage' = IF sector' = Cardinality(Sectors) THEN "greatstart" ELSE "load"
    /\ UNCHANGED <<sh, cpu, bp, tmp, table, left, gdb, cmds>>

\* greatstart: gdb_state_init, early_idt_init, and gdb_debug_break's entry.
Greatstart ==
    /\ stage = "greatstart" /\ stage' = "early"
    /\ bp' = [i \in 1 .. NSlot |-> Off] /\ tmp' = Off
    /\ sh' = ToShadow(cpu) /\ ShowAll(sh')
    /\ UNCHANGED <<sector, mem, cpu, table, left, cmds>>
-----------------------------------------------------------------------------
(* gdb_debug_break: the commands that look.                                *)

Look == Stopped("early") /\ cmds' = cmds + 1
        /\ UNCHANGED <<stage, sector, mem, sh, cpu, bp, tmp, table, left>>

\* ?, H, an unknown packet, and the queries, "bt" among them: each has an
\* answer, and changes nothing.
handle_query == Look /\ UNCHANGED gdb
send_regs32 == Look /\ gdb' = [gdb EXCEPT !.regs = sh]
send_single_reg32 == Look /\ \E f \in DOMAIN sh : gdb' = [gdb EXCEPT !.regs[f] = sh[f]]

handle_read_mem ==
    /\ Look
    /\ \E k \in Numbers, len \in 1 .. MaxLen :
         LET at == normalize_debug_addr(k) .. normalize_debug_addr(k) + len - 1 IN
         /\ at \subseteq Addr /\ at \cap gdb.ins = {}
         /\ gdb' = [gdb EXCEPT !.bytes = [a \in Addr |-> IF a \in at THEN mem[a] ELSE @[a]],
                               !.torn = @ \ at]
-----------------------------------------------------------------------------
(* The commands that write.                                                *)

Told(f, v) == cmds' = cmds + 1 /\ gdb' = [gdb EXCEPT !.regs[f] = v]

\* write_single_reg32; a number above 15 is answered OK as well.
WriteReg ==
    /\ Stopped("early")
    /\ \/ \E k \in Numbers : sh' = [sh EXCEPT !.eip = k] /\ Told("eip", k)
       \/ \E f \in {"fl", "r", "sp", "sg"}, v \in Bit :
            sh' = [sh EXCEPT ![f] = v] /\ Told(f, v)
       \/ UNCHANGED sh /\ Said
    /\ UNCHANGED <<stage, sector, mem, cpu, bp, tmp, table, left>>

\* write_all_regs32
WriteAllRegs ==
    /\ Stopped("early")
    /\ \E k \in Numbers, v \in Bit :
         /\ sh' = [eip |-> k, fl |-> v, r |-> 1 - v, sp |-> v, sg |-> 1 - v]
         /\ cmds' = cmds + 1
         /\ gdb' = [gdb EXCEPT !.regs = sh']
    /\ UNCHANGED <<stage, sector, mem, cpu, bp, tmp, table, left>>

\* handle_write_mem and handle_write_mem_binary.  rsp_recv_packet drops what
\* rsp_buf cannot hold: the bytes that came are written, and the answer is
\* the empty one.
WriteBytes(fit) ==
    \E k \in Numbers, len \in 1 .. MaxLen :
        LET a0   == normalize_debug_addr(k)
            at   == a0 .. a0 + len - 1
            some == a0 .. a0 + Min({len, fit}) - 1
        IN  /\ at \subseteq Addr /\ at \cap gdb.ins = {}
            /\ mem' = [a \in Addr |-> IF a \in some THEN "new" ELSE mem[a]]
            /\ cmds' = cmds + 1
            /\ gdb' = [gdb EXCEPT
                         !.bytes = IF len <= fit THEN [a \in Addr |-> IF a \in at THEN "new" ELSE @[a]] ELSE @,
                         !.torn = IF len <= fit THEN @ \ at ELSE @ \cup some]
WriteMem ==
    /\ Stopped("early")
    /\ WriteBytes(FitM) \/ WriteBytes(2 * FitM)
    /\ UNCHANGED <<stage, sector, sh, cpu, bp, tmp, table, left>>
-----------------------------------------------------------------------------
(* Breakpoints.                                                            *)

\* Mutant: the search takes the first free slot without looking further.
SetBreakFirst(a) ==
    LET i == Min(FreeSlots \cup {NSlot + 1})
    IN  IF FreeSlots = {} THEN UNCHANGED <<mem, bp>>
        ELSE /\ bp' = [bp EXCEPT ![i] = [on |-> TRUE, addr |-> a, orig |-> mem[a]]]
             /\ mem' = [mem EXCEPT ![a] = "int3"]
\* handle_set_sw_break: the whole table is searched before a slot is taken.
SetBreak(a) ==
    LET i == Min(FreeSlots \cup {NSlot + 1})
    IN  IF UsedBy(a) # {} \/ FreeSlots = {} THEN UNCHANGED <<mem, bp>>
        ELSE /\ bp' = [bp EXCEPT ![i] = [on |-> TRUE, addr |-> a, orig |-> mem[a]]]
             /\ mem' = [mem EXCEPT ![a] = "int3"]
handle_set_sw_break ==
    /\ Stopped("early")
    /\ \E k \in Numbers :
         LET a == normalize_debug_addr(k) IN
         /\ SetBreak(a)
         /\ cmds' = cmds + 1
         /\ gdb' = [gdb EXCEPT !.ins = IF UsedBy(a) # {} \/ FreeSlots # {} THEN @ \cup {a} ELSE @]
    /\ UNCHANGED <<stage, sector, sh, cpu, tmp, table, left>>

ClearBreak(i) ==
    /\ mem' = [mem EXCEPT ![bp[i].addr] = bp[i].orig]
    /\ bp' = [bp EXCEPT ![i].on = FALSE]
handle_clear_sw_break ==
    /\ Stopped("early")
    /\ \E k \in Numbers :
         LET a == normalize_debug_addr(k) IN
         /\ IF UsedBy(a) = {} THEN UNCHANGED <<mem, bp>> ELSE ClearBreak(Min(UsedBy(a)))
         /\ cmds' = cmds + 1
         /\ gdb' = [gdb EXCEPT !.ins = @ \ {a}]
    /\ UNCHANGED <<stage, sector, sh, cpu, tmp, table, left>>
-----------------------------------------------------------------------------
(* Stepping: no instruction runs, only the eip the stub will resume at     *)
(* moves, and the client is told S05.                                      *)

StepTo(k) ==
    /\ sh' = [sh EXCEPT !.eip = k, !.fl = 0]
    /\ cmds' = cmds + 1 /\ ShowAll(sh')
    /\ UNCHANGED <<stage, sector, cpu, bp, table, left>>

\* handle_step_packet; vCont;s has it read "Cont;s" as the address.
Step ==
    /\ Stopped("early")
    /\ \/ StepTo(compute_step_target(sh.eip))
       \/ \E k \in Numbers : StepTo(compute_step_target(k))
       \/ StepTo(compute_step_target(Garbled))
       \/ StepTo(StepOver(sh.eip))                       \* vCont;n
    /\ UNCHANGED <<mem, tmp>>

Resume(op, arg, s) ==
    /\ stage' = "bridge" /\ cmds' = 0
    /\ sh' = s /\ cpu' = ToFrame(s)
    /\ gdb' = [gdb EXCEPT !.resumed = [op |-> op, arg |-> arg]]
    /\ UNCHANGED <<sector, bp, table, left>>

\* Mutant: the trap flag the client wrote stays set.
ContinueTraced(op, arg, k) ==
    /\ Resume(op, arg, [sh EXCEPT !.eip = k])
    /\ mem' = Cleared /\ tmp' = [tmp EXCEPT !.on = FALSE]

\* handle_continue_packet; vCont;c has it read "Cont;c" as the address.
handle_continue_packet(op, arg, k) ==
    /\ Resume(op, arg, [sh EXCEPT !.eip = k, !.fl = 0])
    /\ mem' = Cleared /\ tmp' = [tmp EXCEPT !.on = FALSE]

Continue ==
    /\ Stopped("early")
    /\ \/ handle_continue_packet("c", 0, sh.eip)
       \/ \E k \in Numbers : handle_continue_packet("c addr", k, k)
       \/ handle_continue_packet("vCont;c", 0, Garbled)

\* handle_v_packet leaves the last character it sent in al and the address of
\* rsp_buf above it: neither 0 nor 2, so the dispatcher resumes.
Probe ==
    /\ Stopped("early")
    /\ Resume("vCont?", 0, sh)
    /\ UNCHANGED <<mem, tmp>>

\* Parsing the end of the range overwrites the low byte of its start.
handle_range_step_packet ==
    /\ Stopped("early")
    /\ \E hi \in Addr :
         LET to     == compute_step_target(sh.eip)
             inside(k) == Colon <= k /\ k < hi
             over   == inside(sh.eip) /\ (At(sh.eip) \in {"call", "icall"} \/ inside(to))
         IN  IF over
             THEN /\ Resume("vCont;r", hi, [sh EXCEPT !.fl = 0])
                  /\ mem' = [Cleared EXCEPT ![hi] = "int3"]       \* arm_temp_breakpoint
                  /\ tmp' = [on |-> TRUE, addr |-> hi, orig |-> Cleared[hi]]
             ELSE /\ StepTo(to)
                  /\ mem' = Cleared /\ tmp' = [tmp EXCEPT !.on = FALSE]
-----------------------------------------------------------------------------
(* The hand-over: kernelBridge clears the bss, the stub's tables with it;  *)
(* main0 stops at its checkpoint in the kernel's stub.                     *)

initBss ==
    /\ stage = "bridge" /\ stage' = "kernel"
    /\ left' = {a \in Addr : mem[a] = "int3"}
    /\ bp' = [i \in 1 .. NSlot |-> Off] /\ tmp' = Off
    /\ table' = [i \in {} |-> Off]
    /\ UNCHANGED <<sector, mem, sh, cpu, gdb, cmds>>

Put(a) ==
    /\ table' = [b \in DOMAIN table \cup {a} |->
                   IF b = a THEN [on |-> TRUE, addr |-> a, orig |-> mem[a]] ELSE table[b]]
    /\ mem' = [mem EXCEPT ![a] = "int3"]

\* gdb_add_breakpoint and gdb_remove_breakpoint, in a table by address.
AddBreakpoint ==
    /\ Stopped("kernel")
    /\ \E a \in Addr : IF a \in DOMAIN table THEN UNCHANGED <<table, mem>> ELSE Put(a)
    /\ Said
    /\ UNCHANGED <<stage, sector, sh, cpu, bp, tmp, left>>
RemoveBreakpoint ==
    /\ Stopped("kernel")
    /\ \E a \in Addr :
         /\ IF a \in DOMAIN table
            THEN /\ mem' = [mem EXCEPT ![a] = table[a].orig]
                 /\ table' = [b \in DOMAIN table \ {a} |-> table[b]]
            ELSE UNCHANGED <<mem, table>>                         \* E01
    /\ Said
    /\ UNCHANGED <<stage, sector, sh, cpu, bp, tmp, left>>
-----------------------------------------------------------------------------
Init ==
    /\ stage = "boot" /\ sector = 0 /\ cmds = 0
    /\ mem = [a \in Addr |-> "none"]
    /\ sh = Reset /\ cpu = Reset
    /\ bp = [i \in 1 .. NSlot |-> Off] /\ tmp = Off
    /\ table = [i \in {} |-> Off] /\ left = {}
    /\ gdb = [resumed |-> [op |-> "none", arg |-> 0], regs |-> Reset,
              bytes |-> Image, ins |-> {}, torn |-> {}]

Next ==
    \/ BootResume \/ BootAnswer \/ Load \/ Greatstart
    \/ handle_query \/ send_regs32 \/ send_single_reg32 \/ handle_read_mem
    \/ WriteReg \/ WriteAllRegs \/ WriteMem
    \/ handle_set_sw_break \/ handle_clear_sw_break
    \/ Step \/ Continue \/ Probe \/ handle_range_step_packet
    \/ initBss \/ AddBreakpoint \/ RemoveBreakpoint

Spec == Init /\ [][Next]_vars
-----------------------------------------------------------------------------
(* Properties.                                                             *)

\* The variables have their types, and once greatstart runs every sector of
\* the image is in memory (sector2 is entered after the last of KERNEL_SIZE).
TypeOK ==
    /\ stage \in {"boot", "load", "greatstart", "early", "bridge", "kernel"}
    /\ sector \in 0 .. Cardinality(Sectors)
    /\ mem \in [Addr -> Op \cup {"none", "new", "int3"}]
    /\ sh \in Regs /\ cpu \in Regs
    /\ bp \in [1 .. NSlot -> Slot] /\ tmp \in Slot
    /\ DOMAIN table \subseteq Addr /\ \A a \in DOMAIN table : table[a] \in Slot
    /\ gdb.ins \subseteq Addr /\ gdb.torn \subseteq Addr /\ left \subseteq Addr
    /\ cmds \in 0 .. MaxCmds
    /\ stage \in {"greatstart", "early", "bridge", "kernel"} => \A a \in Addr : mem[a] # "none"

\* What the stub has told GDB is so, whatever sequence of commands went
\* before: the registers it answered, the bytes it took with OK, and the
\* breakpoints it accepted are there, once each, with the byte they hide.
\* Only a write that did not fit rsp_buf, refused with an empty answer after
\* half of it was done, leaves bytes nobody was told of (torn).
ToldTrue ==
    stage = "early" =>
        /\ sh = gdb.regs
        /\ gdb.ins = {bp[i].addr : i \in DOMAIN bp \ FreeSlots}
        /\ \A i, j \in DOMAIN bp \ FreeSlots : bp[i].addr = bp[j].addr => i = j
        /\ \A a \in Addr \ gdb.torn :
             IF a \in gdb.ins
             THEN mem[a] = "int3" /\ bp[Min(UsedBy(a))].orig = gdb.bytes[a]
             ELSE mem[a] = gdb.bytes[a]

\* The kernel's stub can undo what it did and nothing else: a breakpoint in
\* the code is its own or one that the early stub left behind, and the byte
\* it saved is the program's but over such a one.
HandedOver ==
    stage = "kernel" => \A a \in Addr :
        /\ mem[a] = "int3" <=> a \in left \cup DOMAIN table
        /\ a \in DOMAIN table => (table[a].orig = "int3" <=> a \in left)
        /\ a \notin left \cup DOMAIN table \cup gdb.torn => mem[a] = gdb.bytes[a]

\* Both stubs: what GDB was told before the hand-over and what it finds after.
AnswersTrue == ToldTrue /\ HandedOver

\* The program leaves the early stub because it was asked to, at the address
\* the client last saw or named, with the general registers it saw and
\* without a trap flag; esp and the segments are what they were, even if the
\* stub has said OK to a change of them.  Two packets are excepted: vCont?
\* resumes though it only asks, and vCont;c resumes at Garbled.
ResumesAsAsked ==
    [][stage = "early" /\ stage' # "early" =>
          LET op == gdb'.resumed.op IN
          /\ op \in {"c", "c addr", "vCont;c", "vCont;r", "vCont?"}
          /\ op \in {"c", "vCont;r"} => cpu'.eip = gdb.regs.eip
          /\ op = "c addr" => cpu'.eip = gdb'.resumed.arg
          /\ cpu'.r = gdb.regs.r
          /\ op # "vCont?" => cpu'.fl = 0
          /\ cpu'.sp = cpu.sp /\ cpu'.sg = cpu.sg]_vars
=============================================================================
