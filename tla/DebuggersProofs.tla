--------------------------- MODULE DebuggersProofs ---------------------------
(* Theorems about EarlyGdb, for every image, every size of its sectors and *)
(* of the breakpoint table, and every number of commands; and about        *)
(* GdbStub, for every program, every size of its tables, every depth of    *)
(* nested traps and every number of commands.                              *)
EXTENDS EarlyGdb, GdbStub, FiniteSetTheorems, SequenceTheorems, WellFoundedInduction, TLAPS

-----------------------------------------------------------------------------
(* The inductive invariant.                                                *)

Before == {"boot", "load", "greatstart"}
Stages == Before \cup {"early", "bridge", "kernel"}
ByteVal   == Op \cup {"new", "int3", "none"}
Asked  == {"none", "c", "c addr", "vCont;c", "vCont;r", "vCont?"}
Client == [resumed : [op : Asked, arg : Nat], regs : Regs, bytes : [Addr -> ByteVal],
           ins : SUBSET Addr, torn : SUBSET Addr]

\* Where a slot's breakpoint is and what it hides, while it is in use
TypeInv ==
    /\ stage \in Stages
    /\ sector \in Nat
    /\ mem \in [Addr -> ByteVal]
    /\ sh \in Regs /\ cpu \in Regs
    /\ bp \in [1 .. NSlot -> Slot] /\ tmp \in Slot
    /\ DOMAIN table \subseteq Addr /\ \A a \in DOMAIN table : table[a] \in Slot
    /\ left \subseteq Addr
    /\ gdb \in Client
    /\ cmds \in 0 .. MaxCmds

\* What the loader has read is the image, the rest is not the kernel's yet
SectorOf(a) == (a - Base) \div SecLen + 1
LoadInv ==
    /\ stage = "boot" => sector = 0
    /\ stage \in {"boot", "load"} => sector < Cardinality(Sectors)
    /\ stage \in Stages \ {"boot", "load"} => sector = Cardinality(Sectors)
    /\ stage \in Before => \A a \in Addr : mem[a] = IF SectorOf(a) <= sector THEN Image[a] ELSE "none"

\* Nothing of the client's is written before the early stub runs
FreshInv ==
    /\ stage \in Before =>
          /\ gdb.bytes = Image /\ gdb.ins = {} /\ gdb.torn = {}
    /\ stage \in Before \cup {"early"} => ~tmp.on
    /\ stage \in Stages \ {"kernel"} => DOMAIN table = {}

\* ToldTrue, of single slots and bytes; the byte under a breakpoint is never
\* another breakpoint
Used == {i \in 1 .. NSlot : bp[i].on}
SlotInv ==
    /\ \A i \in Used : bp[i].addr \in Addr /\ bp[i].orig \in Op \cup {"new"}
    /\ \A i, j \in Used : bp[i].addr = bp[j].addr => i = j
    /\ gdb.ins = {bp[i].addr : i \in Used}
    /\ \A i \in Used : bp[i].addr \notin gdb.torn => bp[i].orig = gdb.bytes[bp[i].addr]
ByteInv ==
    /\ \A a \in Addr : mem[a] # "none"
    /\ \A a \in Addr : mem[a] = "int3" <=> a \in gdb.ins
    /\ \A a \in Addr \ (gdb.torn \cup gdb.ins) : mem[a] = gdb.bytes[a]
EarlyInv == stage = "early" => sh = gdb.regs /\ SlotInv /\ ByteInv

\* On the way to the kernel the code has breakpoints nobody keeps a table of
Kept(a) == mem[a] # "none" /\ (mem[a] # "int3" /\ a \notin gdb.torn => mem[a] = gdb.bytes[a])
BridgeInv == stage = "bridge" => \A a \in Addr : Kept(a)

\* HandedOver, and the byte that each of the kernel's breakpoints hides
KernelInv ==
    stage = "kernel" => \A a \in Addr :
        /\ mem[a] # "none"
        /\ mem[a] = "int3" <=> a \in left \cup DOMAIN table
        /\ a \in DOMAIN table =>
              /\ table[a].orig # "none"
              /\ table[a].orig = "int3" <=> a \in left
              /\ a \notin left \cup gdb.torn => table[a].orig = gdb.bytes[a]
        /\ a \notin left \cup DOMAIN table \cup gdb.torn => mem[a] = gdb.bytes[a]

IndInv == TypeInv /\ LoadInv /\ FreshInv /\ EarlyInv /\ BridgeInv /\ KernelInv
-----------------------------------------------------------------------------
(* Constants, sectors and the routines of the stub.                        *)

LEMMA Consts ==
    /\ Base \in Nat /\ Base >= 1 /\ SecLen \in Nat /\ SecLen >= 1
    /\ NSlot \in Nat /\ FitM \in Nat /\ MaxLen \in Nat /\ MaxCmds \in Nat
    /\ Image \in [Addr -> Op] /\ Dest \in [Addr -> Addr]
    /\ Colon \in Addr /\ Garbled \in 0 .. Base - 1 /\ Garbled \in Nat
    /\ Addr \subseteq Nat
  BY ConfigOK DEF ConfigOK, Addr

LEMMA SectorRange ==
    /\ Cardinality(Sectors) = (Base + SecLen - 1) \div SecLen
    /\ Cardinality(Sectors) \in Nat /\ Cardinality(Sectors) >= 1
    /\ \A a \in Addr : SectorOf(a) \in 1 .. Cardinality(Sectors)
<1> DEFINE last == (Base + SecLen - 1) \div SecLen
<1>1. last \in Nat /\ last >= 1  BY Consts
<1>2. Cardinality(Sectors) = last  BY <1>1, FS_Interval DEF Sectors
<1>3. ASSUME NEW a \in Addr PROVE SectorOf(a) \in 1 .. last
 <2>1. PICK k \in Nat : k = a - Base /\ k <= Base - 1  BY Consts DEF Addr
 <2>2. k \div SecLen \in Nat  BY <2>1, Consts
 <2>3. (Base + SecLen - 1) \div SecLen >= (k + SecLen) \div SecLen  BY <2>1, Consts
 <2>4. (k + SecLen) \div SecLen = k \div SecLen + 1  BY <2>1, Consts
 <2> QED  BY <2>1, <2>2, <2>3, <2>4, <1>1 DEF SectorOf
<1> QED  BY <1>1, <1>2, <1>3

LEMMA NormalizeType ==
    ASSUME NEW k \in Numbers
    PROVE  normalize_debug_addr(k) \in Addr
  BY Consts DEF Numbers, normalize_debug_addr, Addr

LEMMA TargetType ==
    ASSUME TypeInv, NEW k \in Nat
    PROVE  compute_step_target(k) \in Nat /\ StepOver(k) \in Nat
<1>1. At(k) \in {"call", "jmp"} => k \in Addr  BY DEF At
<1>2. compute_step_target(k) \in Nat  BY <1>1, Consts DEF compute_step_target
<1> QED  BY <1>2 DEF StepOver

\* Base is a number, and a set of numbers that is not empty has its least
Less == {ss \in Nat \X Nat : ss[1] < ss[2]}
LEMMA MinInside ==
    ASSUME NEW S, S \subseteq Nat, S # {}
    PROVE  Min(S) \in S /\ \A k \in S : Min(S) <= k
<1>1. IsWellFoundedOn(Less, Nat)  BY NatLessThanWellFounded, Zenon DEF OpToRel, Less
<1>2. PICK m \in S : \A k \in S : <<k, m>> \notin Less  BY <1>1, WFMin, Zenon
<1>3. \A k \in S : ~(k < m)  BY <1>2 DEF Less
<1>4. \A k \in S : m <= k  BY <1>3
<1> QED  BY <1>4, Zenon DEF Min

\* The free slot that is taken is free
LEMMA FreeSlot ==
    ASSUME TypeInv, FreeSlots # {}
    PROVE  Min(FreeSlots \cup {NSlot + 1}) \in FreeSlots
<1>1. FreeSlots \subseteq 1 .. NSlot  BY DEF TypeInv, FreeSlots
<1>2. PICK i \in FreeSlots : TRUE  OBVIOUS
<1> DEFINE S == FreeSlots \cup {NSlot + 1}
<1>3. S \subseteq Nat /\ i \in S  BY <1>1, Consts
<1> HIDE DEF S
<1>4. Min(S) \in S /\ Min(S) <= i  BY <1>3, MinInside
<1> QED  BY <1>1, <1>4, Consts DEF S

LEMMA UsedSlot ==
    ASSUME TypeInv, NEW a, UsedBy(a) # {}
    PROVE  /\ Min(UsedBy(a)) \in Used
           /\ bp[Min(UsedBy(a))].addr = a
<1>1. UsedBy(a) \subseteq Used /\ UsedBy(a) \subseteq Nat  BY Consts DEF UsedBy, Used, TypeInv
<1>2. Min(UsedBy(a)) \in UsedBy(a)  BY <1>1, MinInside
<1> QED  BY <1>1, <1>2 DEF UsedBy
-----------------------------------------------------------------------------
(* Every step preserves the invariant.                                     *)

LEMMA InitInv == Init => IndInv
<1> SUFFICES ASSUME Init PROVE IndInv  OBVIOUS
<1>1. TypeInv
 <2>1. Reset \in Regs /\ Off \in Slot  BY Consts DEF Reset, Regs, Bit, Off, Slot
 <2>2. gdb \in Client  BY <2>1, Consts DEF Init, Client, Asked, ByteVal
 <2> QED  BY <2>1, <2>2, Consts DEF Init, TypeInv, Stages, Before, ByteVal
<1>2. LoadInv
 <2>1. \A a \in Addr : ~(SectorOf(a) <= 0)  BY SectorRange
 <2> QED  BY <2>1, SectorRange DEF Init, LoadInv, Stages, Before
<1> QED  BY <1>1, <1>2 DEF Init, IndInv, FreshInv, Before, EarlyInv, BridgeInv, KernelInv, Off

LEMMA LoaderStep ==
    ASSUME IndInv, BootResume \/ BootAnswer \/ Load
    PROVE  IndInv'
<1> USE DEF IndInv
<1>1. CASE BootResume
 <2>1. TypeInv'  BY <1>1, Consts DEF BootResume, TypeInv, Stages, Before
 <2> QED
   BY <1>1, <2>1 DEF BootResume, Stopped, LoadInv, FreshInv, EarlyInv, BridgeInv, KernelInv,
                      Stages, Before, SectorOf
<1>2. CASE BootAnswer
 <2>1. TypeInv'  BY <1>2, Consts DEF BootAnswer, Stopped, Said, TypeInv
 <2> QED
   BY <1>2, <2>1 DEF BootAnswer, Stopped, Said, LoadInv, FreshInv, EarlyInv, BridgeInv, KernelInv,
                      Stages, Before, SectorOf
<1>3. CASE Load
 <2>1. TypeInv'  BY <1>3, Consts DEF Load, TypeInv, ByteVal, Stages, Before
 <2>2. LoadInv'
  <3>1. sector' = sector + 1 /\ sector + 1 <= Cardinality(Sectors)
    BY <1>3, SectorRange DEF Load, LoadInv, TypeInv
  <3>2. ASSUME NEW a \in Addr PROVE mem'[a] = IF SectorOf(a) <= sector' THEN Image[a] ELSE "none"
   <4>1. mem'[a] = IF SectorOf(a) = sector + 1 THEN Image[a] ELSE mem[a]  BY <1>3 DEF Load, SectorOf
   <4>2. mem[a] = IF SectorOf(a) <= sector THEN Image[a] ELSE "none"
     BY <1>3 DEF Load, LoadInv, Before
   <4>3. SectorOf(a) \in Nat /\ sector \in Nat  BY SectorRange DEF TypeInv
   <4> QED  BY <4>1, <4>2, <4>3, <3>1
  <3>3. stage' = IF sector' = Cardinality(Sectors) THEN "greatstart" ELSE "load"  BY <1>3 DEF Load
  <3> QED  BY <3>1, <3>2, <3>3, SectorRange DEF LoadInv, Stages, Before, TypeInv, SectorOf
 <2> QED  BY <1>3, <2>1, <2>2 DEF Load, FreshInv, EarlyInv, BridgeInv, KernelInv, Stages, Before
<1> QED  BY <1>1, <1>2, <1>3

LEMMA GreatstartStep ==
    ASSUME IndInv, Greatstart
    PROVE  IndInv'
<1> USE DEF IndInv
<1>1. TypeInv'  BY Consts DEF Greatstart, TypeInv, ShowAll, ToShadow, Client, Slot, Off, Stages
<1>2. \A a \in Addr : mem[a] = Image[a] /\ Image[a] \in Op
  BY SectorRange, Consts DEF Greatstart, LoadInv, Stages, Before
<1>3. SlotInv' /\ ByteInv'
  BY <1>2 DEF Greatstart, ShowAll, ToShadow, TypeInv, Client, FreshInv, Before, Off, Op,
              SlotInv, ByteInv, Used
<1>4. EarlyInv'  BY <1>3 DEF EarlyInv, Greatstart, ShowAll, TypeInv, Client
<1> QED  BY <1>1, <1>4 DEF Greatstart, LoadInv, FreshInv, BridgeInv, KernelInv, Stages, Before, Off

\* The stub stays where it is: what is left to show is what it told
LEMMA EarlyStep ==
    ASSUME IndInv, stage = "early", UNCHANGED <<stage, sector, cpu, table, left>>, ~tmp.on',
           TypeInv', sh' = gdb'.regs, SlotInv', ByteInv'
    PROVE  IndInv'
  BY DEF IndInv, LoadInv, FreshInv, EarlyInv, BridgeInv, KernelInv, Stages, Before

LEMMA LookStep ==
    ASSUME IndInv, handle_query \/ send_regs32 \/ send_single_reg32 \/ handle_read_mem
    PROVE  IndInv'
<1> USE DEF IndInv
<1>1. /\ stage = "early" /\ cmds' \in 0 .. MaxCmds /\ ~tmp.on
      /\ UNCHANGED <<stage, sector, mem, sh, cpu, bp, tmp, table, left>>
 <2>1. Look  BY DEF handle_query, send_regs32, send_single_reg32, handle_read_mem
 <2> QED  BY <2>1, Consts DEF Look, Stopped, TypeInv, FreshInv
<1>2. gdb \in Client /\ sh = gdb.regs /\ SlotInv /\ ByteInv  BY <1>1 DEF TypeInv, EarlyInv
<1>3. CASE ~handle_read_mem
 <2>1. gdb' = gdb
  <3>1. CASE handle_query  BY <3>1 DEF handle_query
  <3>2. CASE send_regs32  BY <3>2, <1>2 DEF send_regs32, Client
  <3>3. CASE send_single_reg32
   <4>1. PICK f \in DOMAIN sh : gdb' = [gdb EXCEPT !.regs[f] = sh[f]]  BY <3>3 DEF send_single_reg32
   <4> QED  BY <4>1, <1>2 DEF Client, Regs
  <3> QED  BY <1>3, <3>1, <3>2, <3>3
 <2> QED  BY <1>1, <1>2, <2>1, EarlyStep DEF TypeInv, SlotInv, ByteInv, Used
<1>4. CASE handle_read_mem
 <2>1. PICK at \in SUBSET Addr :
          /\ at \cap gdb.ins = {}
          /\ gdb' = [gdb EXCEPT !.bytes = [a \in Addr |-> IF a \in at THEN mem[a] ELSE @[a]],
                                !.torn = @ \ at]
   BY <1>4 DEF handle_read_mem
 <2>2. /\ gdb' \in Client /\ gdb'.regs = gdb.regs /\ gdb'.ins = gdb.ins
       /\ gdb'.torn = gdb.torn \ at
       /\ gdb'.bytes = [a \in Addr |-> IF a \in at THEN mem[a] ELSE gdb.bytes[a]]
   BY <2>1, <1>2 DEF Client, TypeInv
 <2>3. TypeInv'  BY <1>1, <2>2 DEF TypeInv
 <2>4. SlotInv'
  <3>1. \A i \in Used : bp[i].addr \in Addr \ at  BY <1>2, <2>1 DEF SlotInv
  <3> QED  BY <1>1, <1>2, <2>2, <3>1 DEF SlotInv, Used
 <2>5. ByteInv'  BY <1>1, <1>2, <2>2 DEF ByteInv
 <2> QED  BY <1>1, <1>2, <2>2, <2>3, <2>4, <2>5, EarlyStep
<1> QED  BY <1>3, <1>4

LEMMA WriteRegStep ==
    ASSUME IndInv, WriteReg \/ WriteAllRegs
    PROVE  IndInv'
<1> USE DEF IndInv
<1>1. /\ stage = "early" /\ cmds' \in 0 .. MaxCmds /\ ~tmp.on
      /\ UNCHANGED <<stage, sector, mem, cpu, bp, tmp, table, left>>
  BY Consts DEF WriteReg, WriteAllRegs, Stopped, Told, Said, TypeInv, FreshInv
<1>2. gdb \in Client /\ sh = gdb.regs /\ SlotInv /\ ByteInv /\ sh \in Regs
  BY <1>1 DEF TypeInv, EarlyInv
<1>3. sh' \in Regs /\ gdb' = [gdb EXCEPT !.regs = sh']
 <2>1. CASE WriteReg
  <3>1. CASE \E k \in Numbers : sh' = [sh EXCEPT !.eip = k] /\ Told("eip", k)
    BY <3>1, <1>2, Consts DEF Told, Regs, Client, Numbers
  <3>2. CASE \E f \in {"fl", "r", "sp", "sg"}, v \in Bit : sh' = [sh EXCEPT ![f] = v] /\ Told(f, v)
    BY <3>2, <1>2 DEF Told, Regs, Client
  <3>3. CASE UNCHANGED sh /\ Said  BY <3>3, <1>2 DEF Said, Client
  <3> QED  BY <2>1, <3>1, <3>2, <3>3 DEF WriteReg
 <2>2. CASE WriteAllRegs  BY <2>2, Consts DEF WriteAllRegs, Regs, Bit, Numbers
 <2> QED  BY <2>1, <2>2
<1>4. /\ gdb' \in Client /\ gdb'.regs = sh' /\ gdb'.ins = gdb.ins
      /\ gdb'.torn = gdb.torn /\ gdb'.bytes = gdb.bytes
  BY <1>2, <1>3 DEF Client
<1>5. TypeInv'  BY <1>1, <1>3, <1>4 DEF TypeInv
<1>6. SlotInv' /\ ByteInv'  BY <1>1, <1>2, <1>4 DEF SlotInv, ByteInv, Used
<1> QED  BY <1>1, <1>4, <1>5, <1>6, EarlyStep

LEMMA WriteMemStep ==
    ASSUME IndInv, WriteMem
    PROVE  IndInv'
<1> USE DEF IndInv
<1>1. /\ stage = "early" /\ ~tmp.on /\ cmds < MaxCmds
      /\ UNCHANGED <<stage, sector, sh, cpu, bp, tmp, table, left>>
  BY DEF WriteMem, Stopped, FreshInv
<1>2. gdb \in Client /\ sh = gdb.regs /\ SlotInv /\ ByteInv /\ mem \in [Addr -> ByteVal]
  BY <1>1 DEF TypeInv, EarlyInv
<1>3. PICK fit \in {FitM, 2 * FitM} : WriteBytes(fit)  BY DEF WriteMem
<1>4. PICK k \in Numbers, len \in 1 .. MaxLen :
        LET a0   == normalize_debug_addr(k)
            at   == a0 .. a0 + len - 1
            some == a0 .. a0 + Min({len, fit}) - 1
        IN  /\ at \subseteq Addr /\ at \cap gdb.ins = {}
            /\ mem' = [a \in Addr |-> IF a \in some THEN "new" ELSE mem[a]]
            /\ cmds' = cmds + 1
            /\ gdb' = [gdb EXCEPT
                         !.bytes = IF len <= fit THEN [a \in Addr |-> IF a \in at THEN "new" ELSE @[a]] ELSE @,
                         !.torn = IF len <= fit THEN @ \ at ELSE @ \cup some]
  BY <1>3 DEF WriteBytes
<1>5. /\ Min({len, fit}) \in Nat /\ Min({len, fit}) <= len
      /\ len <= fit => Min({len, fit}) = len
 <2> DEFINE S == {len, fit}
 <2>1. len \in Nat /\ fit \in Nat  BY Consts
 <2>2. S \subseteq Nat /\ S # {} /\ len \in S /\ fit \in S  BY <2>1
 <2>3. Min(S) \in S /\ Min(S) <= len /\ Min(S) <= fit
  <3> HIDE DEF S
  <3> QED  BY <2>2, MinInside
 <2>4. Min(S) = len \/ Min(S) = fit  BY <2>3
 <2> QED  BY <2>1, <2>3, <2>4
<1>6. PICK at, some, whole :
         /\ at = normalize_debug_addr(k) .. normalize_debug_addr(k) + len - 1
         /\ some = normalize_debug_addr(k) .. normalize_debug_addr(k) + Min({len, fit}) - 1
         /\ whole = (len <= fit)
  OBVIOUS
<1>7. /\ at \subseteq Addr /\ at \cap gdb.ins = {} /\ some \subseteq at /\ (whole => some = at)
      /\ mem' = [a \in Addr |-> IF a \in some THEN "new" ELSE mem[a]]
      /\ cmds' = cmds + 1
      /\ gdb' = [gdb EXCEPT
                   !.bytes = IF whole THEN [a \in Addr |-> IF a \in at THEN "new" ELSE @[a]] ELSE @,
                   !.torn = IF whole THEN @ \ at ELSE @ \cup some]
 <2>1. PICK a0 \in Nat : a0 = normalize_debug_addr(k)
  <3>1. normalize_debug_addr(k) \in Addr  BY NormalizeType
  <3> QED  BY <3>1, Consts
 <2>2. PICK got : got = Min({len, fit})  OBVIOUS
 <2>3. some = a0 .. a0 + got - 1 /\ at = a0 .. a0 + len - 1  BY <1>6, <2>1, <2>2
 <2>4. got \in Nat /\ got <= len /\ (whole => got = len) /\ len \in Nat
  <3>1. whole => len <= fit  BY <1>6, Zenon
  <3>2. got \in Nat /\ got <= len /\ (len <= fit => got = len)  BY <1>5, <2>2, Zenon
  <3> QED  BY <3>1, <3>2, Consts
 <2>5. some \subseteq at /\ (whole => some = at)  BY <2>1, <2>3, <2>4
 <2> QED  BY <1>4, <1>6, <2>5, Zenon
<1>8. /\ gdb' \in Client /\ gdb'.regs = gdb.regs /\ gdb'.ins = gdb.ins
      /\ gdb'.torn = IF whole THEN gdb.torn \ at ELSE gdb.torn \cup some
      /\ gdb'.bytes = IF whole THEN [a \in Addr |-> IF a \in at THEN "new" ELSE gdb.bytes[a]] ELSE gdb.bytes
  BY <1>2, <1>7 DEF Client, ByteVal
<1>9. TypeInv'  BY <1>1, <1>7, <1>8, Consts DEF TypeInv, ByteVal
<1>10. SlotInv'
 <2>1. \A i \in Used : bp[i].addr \in Addr \ at  BY <1>2, <1>7 DEF SlotInv
 <2> QED  BY <1>1, <1>2, <1>7, <1>8, <2>1 DEF SlotInv, Used
<1>11. ByteInv'  BY <1>1, <1>2, <1>7, <1>8 DEF ByteInv
<1> QED  BY <1>1, <1>2, <1>8, <1>9, <1>10, <1>11, EarlyStep

LEMMA SameTable ==
    ASSUME SlotInv, ByteInv, UNCHANGED <<mem, bp>>,
           gdb'.ins = gdb.ins, gdb'.torn = gdb.torn, gdb'.bytes = gdb.bytes
    PROVE  SlotInv' /\ ByteInv'
<1>1. Used' = Used /\ bp' = bp  BY DEF Used
<1>2. {bp'[i].addr : i \in Used'} = {bp[i].addr : i \in Used}  BY <1>1, Zenon
<1>3. gdb'.ins = {bp'[i].addr : i \in Used'}  BY <1>2 DEF SlotInv
<1>4. SlotInv'  BY <1>1, <1>3 DEF SlotInv
<1> QED  BY <1>4 DEF ByteInv

LEMMA SetBreakStep ==
    ASSUME IndInv, handle_set_sw_break
    PROVE  IndInv'
<1> USE DEF IndInv
<1>1. /\ stage = "early" /\ ~tmp.on /\ cmds < MaxCmds
      /\ UNCHANGED <<stage, sector, sh, cpu, tmp, table, left>>
  BY DEF handle_set_sw_break, Stopped, FreshInv
<1>2. /\ gdb \in Client /\ sh = gdb.regs /\ SlotInv /\ ByteInv
      /\ mem \in [Addr -> ByteVal] /\ bp \in [1 .. NSlot -> Slot]
  BY <1>1 DEF TypeInv, EarlyInv
<1>3. PICK a \in Addr :
        /\ SetBreak(a)
        /\ cmds' = cmds + 1
        /\ gdb' = [gdb EXCEPT !.ins = IF UsedBy(a) # {} \/ FreeSlots # {} THEN @ \cup {a} ELSE @]
 <2>1. PICK k \in Numbers :
         LET a == normalize_debug_addr(k) IN
         /\ SetBreak(a)
         /\ cmds' = cmds + 1
         /\ gdb' = [gdb EXCEPT !.ins = IF UsedBy(a) # {} \/ FreeSlots # {} THEN @ \cup {a} ELSE @]
   BY DEF handle_set_sw_break
 <2> QED  BY <2>1, NormalizeType
<1>4. /\ gdb' \in Client /\ gdb'.regs = gdb.regs /\ gdb'.bytes = gdb.bytes /\ gdb'.torn = gdb.torn
      /\ gdb'.ins = IF UsedBy(a) # {} \/ FreeSlots # {} THEN gdb.ins \cup {a} ELSE gdb.ins
  BY <1>2, <1>3 DEF Client
<1>5. CASE UsedBy(a) # {} \/ FreeSlots = {}
 <2>1. UNCHANGED <<mem, bp>>  BY <1>3, <1>5 DEF SetBreak
 <2>2. gdb'.ins = gdb.ins  BY <1>2, <1>4, <1>5 DEF SlotInv, UsedBy, Used
 <2>3. TypeInv'  BY <1>1, <1>3, <1>4, <2>1, Consts DEF TypeInv
 <2>4. SlotInv' /\ ByteInv'  BY <1>2, <1>4, <2>1, <2>2, SameTable
 <2> QED  BY <1>1, <1>2, <1>4, <2>3, <2>4, EarlyStep
<1>6. CASE ~(UsedBy(a) # {} \/ FreeSlots = {})
 <2>1. PICK i \in FreeSlots : i = Min(FreeSlots \cup {NSlot + 1})  BY <1>6, FreeSlot
 <2>2. /\ bp' = [bp EXCEPT ![i] = [on |-> TRUE, addr |-> a, orig |-> mem[a]]]
       /\ mem' = [mem EXCEPT ![a] = "int3"]
   BY <1>3, <1>6, <2>1 DEF SetBreak
 <2>3. i \in 1 .. NSlot /\ ~bp[i].on  BY <1>2, <2>1 DEF FreeSlots
 <2>4. a \notin gdb.ins  BY <1>2, <1>6 DEF SlotInv, UsedBy, Used
 <2>5. mem[a] \in Op \cup {"new"}  BY <1>2, <2>4 DEF ByteInv, ByteVal
 <2>6. bp' \in [1 .. NSlot -> Slot] /\ mem' \in [Addr -> ByteVal]
   BY <1>2, <2>2, <2>3, <2>5, Consts DEF Slot, ByteVal
 <2>7. TypeInv'  BY <1>1, <1>3, <1>4, <2>6, Consts DEF TypeInv
 <2>8. gdb'.ins = gdb.ins \cup {a}  BY <1>4, <1>6
 <2>9. /\ Used' = Used \cup {i} /\ i \notin Used
       /\ bp'[i].addr = a /\ bp'[i].orig = mem[a]
       /\ \A j \in Used : bp'[j] = bp[j]
   BY <1>2, <2>2, <2>3 DEF Used
 <2>10. SlotInv'
  <3>1. {bp'[j].addr : j \in Used'} = gdb.ins \cup {a}  BY <1>2, <2>9 DEF SlotInv
  <3>2. \A j \in Used' : bp'[j].addr \in Addr /\ bp'[j].orig \in Op \cup {"new"}
    BY <1>2, <2>5, <2>9 DEF SlotInv
  <3>3. \A j, l \in Used' : bp'[j].addr = bp'[l].addr => j = l  BY <1>2, <2>4, <2>9 DEF SlotInv
  <3>4. \A j \in Used' : bp'[j].addr \notin gdb'.torn => bp'[j].orig = gdb'.bytes[bp'[j].addr]
    BY <1>2, <1>4, <2>4, <2>9 DEF SlotInv, ByteInv
  <3> QED  BY <2>8, <3>1, <3>2, <3>3, <3>4 DEF SlotInv
 <2>11. ByteInv'  BY <1>2, <1>4, <2>2, <2>8 DEF ByteInv
 <2> QED  BY <1>1, <1>2, <1>4, <2>7, <2>10, <2>11, EarlyStep
<1> QED  BY <1>5, <1>6

LEMMA ClearBreakStep ==
    ASSUME IndInv, handle_clear_sw_break
    PROVE  IndInv'
<1> USE DEF IndInv
<1>1. /\ stage = "early" /\ ~tmp.on /\ cmds < MaxCmds
      /\ UNCHANGED <<stage, sector, sh, cpu, tmp, table, left>>
  BY DEF handle_clear_sw_break, Stopped, FreshInv
<1>2. /\ gdb \in Client /\ sh = gdb.regs /\ SlotInv /\ ByteInv
      /\ mem \in [Addr -> ByteVal] /\ bp \in [1 .. NSlot -> Slot]
  BY <1>1 DEF TypeInv, EarlyInv
<1>3. PICK a \in Addr :
        /\ IF UsedBy(a) = {} THEN UNCHANGED <<mem, bp>> ELSE ClearBreak(Min(UsedBy(a)))
        /\ cmds' = cmds + 1
        /\ gdb' = [gdb EXCEPT !.ins = @ \ {a}]
 <2>1. PICK k \in Numbers :
         LET a == normalize_debug_addr(k) IN
         /\ IF UsedBy(a) = {} THEN UNCHANGED <<mem, bp>> ELSE ClearBreak(Min(UsedBy(a)))
         /\ cmds' = cmds + 1
         /\ gdb' = [gdb EXCEPT !.ins = @ \ {a}]
   BY DEF handle_clear_sw_break
 <2> QED  BY <2>1, NormalizeType
<1>4. /\ gdb' \in Client /\ gdb'.regs = gdb.regs /\ gdb'.bytes = gdb.bytes /\ gdb'.torn = gdb.torn
      /\ gdb'.ins = gdb.ins \ {a}
  BY <1>2, <1>3 DEF Client
<1>5. CASE UsedBy(a) = {}
 <2>1. UNCHANGED <<mem, bp>>  BY <1>3, <1>5
 <2>2. gdb'.ins = gdb.ins  BY <1>2, <1>4, <1>5 DEF SlotInv, UsedBy, Used
 <2>3. TypeInv'  BY <1>1, <1>3, <1>4, <2>1, Consts DEF TypeInv
 <2>4. SlotInv' /\ ByteInv'  BY <1>2, <1>4, <2>1, <2>2, SameTable
 <2> QED  BY <1>1, <1>2, <1>4, <2>3, <2>4, EarlyStep
<1>6. CASE UsedBy(a) # {}
 <2>1. PICK i \in Used : i = Min(UsedBy(a)) /\ bp[i].addr = a  BY <1>6, UsedSlot
 <2>2. /\ mem' = [mem EXCEPT ![a] = bp[i].orig]
       /\ bp' = [bp EXCEPT ![i].on = FALSE]
   BY <1>3, <1>6, <2>1 DEF ClearBreak
 <2>3. i \in 1 .. NSlot /\ bp[i].orig \in Op \cup {"new"}  BY <1>2, <2>1 DEF Used, SlotInv
 <2>4. bp' \in [1 .. NSlot -> Slot] /\ mem' \in [Addr -> ByteVal]
   BY <1>2, <2>2, <2>3 DEF Slot, ByteVal
 <2>5. TypeInv'  BY <1>1, <1>3, <1>4, <2>4, Consts DEF TypeInv
 <2>6. /\ Used' = Used \ {i}
       /\ \A j \in Used' : bp'[j] = bp[j] /\ bp[j].addr # a
   BY <1>2, <2>1, <2>2, <2>3 DEF Used, SlotInv
 <2>7. SlotInv'
  <3>1. {bp'[j].addr : j \in Used'} = gdb.ins \ {a}  BY <1>2, <2>1, <2>6 DEF SlotInv
  <3> QED  BY <1>2, <1>4, <2>6, <3>1 DEF SlotInv
 <2>8. ByteInv'
  <3>1. a \in gdb.ins  BY <1>2, <2>1 DEF SlotInv
  <3>2. mem'[a] \notin {"none", "int3"} /\ (a \notin gdb.torn => mem'[a] = gdb.bytes[a])
    BY <1>2, <2>1, <2>2, <2>3 DEF SlotInv, Op
  <3>3. \A b \in Addr \ {a} : mem'[b] = mem[b]  BY <1>2, <2>2
  <3> QED  BY <1>2, <1>4, <3>1, <3>2, <3>3 DEF ByteInv
 <2> QED  BY <1>1, <1>2, <1>4, <2>5, <2>7, <2>8, EarlyStep
<1> QED  BY <1>5, <1>6

\* A step that only moves eip; the temporary breakpoint was gone already
LEMMA StepToStep ==
    ASSUME IndInv, Stopped("early"), NEW k \in Nat, StepTo(k), UNCHANGED <<mem, tmp>>
    PROVE  IndInv'
<1> USE DEF IndInv
<1>1. /\ stage = "early" /\ ~tmp.on /\ cmds' \in 0 .. MaxCmds
      /\ UNCHANGED <<stage, sector, mem, cpu, bp, tmp, table, left>>
  BY Consts DEF Stopped, StepTo, FreshInv, TypeInv
<1>2. gdb \in Client /\ SlotInv /\ ByteInv /\ sh \in Regs  BY <1>1 DEF TypeInv, EarlyInv
<1>3. sh' \in Regs  BY <1>2 DEF StepTo, Regs, Bit
<1>4. /\ gdb' \in Client /\ gdb'.regs = sh' /\ gdb'.ins = gdb.ins
      /\ gdb'.torn = gdb.torn /\ gdb'.bytes = gdb.bytes
  BY <1>2, <1>3 DEF StepTo, ShowAll, Client
<1>5. TypeInv'  BY <1>1, <1>3, <1>4 DEF TypeInv
<1> QED  BY <1>1, <1>2, <1>4, <1>5, SameTable, EarlyStep

LEMMA StepStep ==
    ASSUME IndInv, Step
    PROVE  IndInv'
<1>1. Stopped("early") /\ UNCHANGED <<mem, tmp>> /\ TypeInv  BY DEF Step, IndInv
<1>2. sh.eip \in Nat /\ Garbled \in Nat /\ Numbers \subseteq Nat
  BY <1>1, Consts DEF TypeInv, Regs, Numbers
<1>3. PICK k \in Nat : StepTo(k)  BY <1>1, <1>2, TargetType DEF Step
<1> QED  BY <1>1, <1>3, StepToStep

\* The early stub is left: the tables stay as they are, and the memory keeps
\* what the client was told of, but under a breakpoint
LEMMA ResumeStep ==
    ASSUME IndInv, Stopped("early"), NEW op \in Asked, NEW arg \in Nat, NEW s \in Regs,
           Resume(op, arg, s), tmp' \in Slot, mem' \in [Addr -> ByteVal],
           \A a \in Addr : mem'[a] \in {mem[a], "int3"}
    PROVE  IndInv'
<1> USE DEF IndInv
<1>1. stage = "early" /\ stage' = "bridge" /\ UNCHANGED <<sector, bp, table, left>>
  BY DEF Stopped, Resume
<1>2. gdb \in Client /\ SlotInv /\ ByteInv /\ cpu \in Regs  BY <1>1 DEF TypeInv, EarlyInv
<1>3. /\ gdb' \in Client /\ gdb'.ins = gdb.ins
      /\ gdb'.torn = gdb.torn /\ gdb'.bytes = gdb.bytes
  BY <1>2 DEF Resume, Client
<1>4. sh' \in Regs /\ cpu' \in Regs /\ cmds' \in 0 .. MaxCmds
 <2>1. ToFrame(s) \in Regs  BY <1>2 DEF ToFrame, Regs
 <2> QED  BY <2>1, Consts DEF Resume
<1>5. TypeInv'  BY <1>1, <1>3, <1>4 DEF TypeInv, Stages
<1>6. \A a \in Addr : Kept(a)'
 <2> SUFFICES ASSUME NEW a \in Addr PROVE Kept(a)'  OBVIOUS
 <2>1. CASE mem'[a] = "int3"  BY <2>1 DEF Kept
 <2>2. CASE mem'[a] # "int3"
  <3>1. mem'[a] = mem[a] /\ mem[a] # "int3"  BY <2>2
  <3>2. a \notin gdb.ins /\ mem[a] # "none"  BY <1>2, <3>1 DEF ByteInv
  <3> QED  BY <1>2, <1>3, <3>1, <3>2 DEF ByteInv, Kept
 <2> QED  BY <2>1, <2>2
<1> QED  BY <1>1, <1>5, <1>6 DEF LoadInv, FreshInv, EarlyInv, BridgeInv, KernelInv, Stages, Before

LEMMA ContinueStep ==
    ASSUME IndInv, Continue \/ Probe
    PROVE  IndInv'
<1>1. Stopped("early") /\ stage = "early" /\ TypeInv /\ ~tmp.on
  BY DEF Continue, Probe, Stopped, IndInv, FreshInv
<1>2. sh \in Regs /\ Garbled \in Nat /\ Numbers \subseteq Nat /\ tmp \in Slot /\ mem \in [Addr -> ByteVal]
  BY <1>1, Consts DEF TypeInv, Numbers
<1>3. Cleared = mem  BY <1>1 DEF Cleared
<1>4. CASE Continue
 <2>1. PICK op \in Asked, arg \in Nat, k \in Nat : handle_continue_packet(op, arg, k)
   BY <1>2, <1>4 DEF Continue, Asked, Regs
 <2>2. PICK s \in Regs : Resume(op, arg, s)  BY <1>2, <2>1 DEF handle_continue_packet, Regs, Bit
 <2>3. mem' = mem /\ tmp' \in Slot  BY <1>2, <1>3, <2>1 DEF handle_continue_packet, Slot
 <2> QED  BY <1>1, <1>2, <2>2, <2>3, ResumeStep
<1>5. CASE Probe
 <2>1. Resume("vCont?", 0, sh) /\ UNCHANGED <<mem, tmp>>  BY <1>5 DEF Probe
 <2> QED  BY <1>1, <1>2, <2>1, ResumeStep DEF Asked
<1> QED  BY <1>4, <1>5

LEMMA RangeStep ==
    ASSUME IndInv, handle_range_step_packet
    PROVE  IndInv'
<1>1. Stopped("early") /\ stage = "early" /\ TypeInv /\ ~tmp.on
  BY DEF handle_range_step_packet, Stopped, IndInv, FreshInv
<1>2. sh \in Regs /\ sh.eip \in Nat /\ tmp \in Slot /\ mem \in [Addr -> ByteVal]
  BY <1>1, Consts DEF TypeInv, Regs
<1>3. Cleared = mem  BY <1>1 DEF Cleared
<1>4. PICK hi \in Addr :
        \/ /\ Resume("vCont;r", hi, [sh EXCEPT !.fl = 0])
           /\ mem' = [mem EXCEPT ![hi] = "int3"]
           /\ tmp' = [on |-> TRUE, addr |-> hi, orig |-> mem[hi]]
        \/ /\ StepTo(compute_step_target(sh.eip))
           /\ mem' = mem /\ tmp' = [tmp EXCEPT !.on = FALSE]
  BY <1>3 DEF handle_range_step_packet
<1>5. CASE /\ Resume("vCont;r", hi, [sh EXCEPT !.fl = 0])
           /\ mem' = [mem EXCEPT ![hi] = "int3"]
           /\ tmp' = [on |-> TRUE, addr |-> hi, orig |-> mem[hi]]
 <2>1. [sh EXCEPT !.fl = 0] \in Regs /\ hi \in Nat  BY <1>2, Consts DEF Regs, Bit
 <2>2. tmp' \in Slot  BY <1>2, <1>5, <2>1 DEF Slot, ByteVal
 <2>3. mem' \in [Addr -> ByteVal] /\ \A a \in Addr : mem'[a] \in {mem[a], "int3"}
   BY <1>2, <1>5 DEF ByteVal
 <2> QED  BY <1>1, <1>5, <2>1, <2>2, <2>3, ResumeStep DEF Asked
<1>6. CASE /\ StepTo(compute_step_target(sh.eip))
           /\ mem' = mem /\ tmp' = [tmp EXCEPT !.on = FALSE]
 <2>1. tmp' = tmp  BY <1>1, <1>2, <1>6 DEF Slot
 <2> QED  BY <1>1, <1>2, <1>6, <2>1, TargetType, StepToStep
<1> QED  BY <1>4, <1>5, <1>6

LEMMA BridgeStep ==
    ASSUME IndInv, initBss
    PROVE  IndInv'
<1> USE DEF IndInv
<1>1. TypeInv'  BY DEF initBss, TypeInv, Stages, Slot, Off
<1>2. KernelInv'  BY DEF initBss, BridgeInv, Kept, KernelInv
<1> QED  BY <1>1, <1>2 DEF initBss, LoadInv, FreshInv, EarlyInv, BridgeInv, Stages, Before

LEMMA KernelStep ==
    ASSUME IndInv, AddBreakpoint \/ RemoveBreakpoint
    PROVE  IndInv'
<1> USE DEF IndInv
<1>1. /\ stage = "kernel" /\ cmds' \in 0 .. MaxCmds
      /\ UNCHANGED <<stage, sector, sh, cpu, bp, tmp, left, gdb>>
  BY Consts DEF AddBreakpoint, RemoveBreakpoint, Stopped, Said, TypeInv
<1>2. mem \in [Addr -> ByteVal] /\ gdb \in Client  BY DEF TypeInv
<1>3. CASE UNCHANGED <<table, mem>>
 <2>1. TypeInv'  BY <1>1, <1>3 DEF TypeInv
 <2> QED  BY <1>1, <1>3, <2>1 DEF LoadInv, FreshInv, EarlyInv, BridgeInv, KernelInv, Stages, Before
<1>4. ASSUME NEW a \in Addr, a \notin DOMAIN table, Put(a) PROVE IndInv'
 <2>1. /\ DOMAIN table' = DOMAIN table \cup {a}
       /\ table'[a].orig = mem[a] /\ table'[a] \in Slot
       /\ \A b \in DOMAIN table : table'[b] = table[b]
   BY <1>2, <1>4, Consts DEF Put, Slot, ByteVal
 <2>2. mem' \in [Addr -> ByteVal] /\ mem'[a] = "int3" /\ \A b \in Addr \ {a} : mem'[b] = mem[b]
   BY <1>2, <1>4 DEF Put, ByteVal
 <2>3. TypeInv'  BY <1>1, <2>1, <2>2 DEF TypeInv
 <2>4. KernelInv'  BY <1>1, <1>4, <2>1, <2>2 DEF KernelInv
 <2> QED  BY <1>1, <2>3, <2>4 DEF LoadInv, FreshInv, EarlyInv, BridgeInv, Stages, Before
<1>5. ASSUME NEW a \in DOMAIN table,
             mem' = [mem EXCEPT ![a] = table[a].orig],
             table' = [b \in DOMAIN table \ {a} |-> table[b]]
      PROVE  IndInv'
 <2>1. a \in Addr /\ table[a].orig \in ByteVal  BY DEF TypeInv, Slot, ByteVal
 <2>2. mem' \in [Addr -> ByteVal] /\ mem'[a] = table[a].orig /\ \A b \in Addr \ {a} : mem'[b] = mem[b]
   BY <1>2, <1>5, <2>1
 <2>3. DOMAIN table' = DOMAIN table \ {a} /\ \A b \in DOMAIN table' : table'[b] = table[b]  BY <1>5
 <2>4. TypeInv'  BY <1>1, <2>2, <2>3 DEF TypeInv
 <2>5. KernelInv'  BY <1>1, <2>1, <2>2, <2>3 DEF KernelInv
 <2> QED  BY <1>1, <2>4, <2>5 DEF LoadInv, FreshInv, EarlyInv, BridgeInv, Stages, Before
<1> QED  BY <1>3, <1>4, <1>5 DEF AddBreakpoint, RemoveBreakpoint

LEMMA StepInv ==
    ASSUME IndInv, [Next]_vars
    PROVE  IndInv'
<1>1. CASE UNCHANGED vars
  BY <1>1 DEF vars, IndInv, TypeInv, LoadInv, FreshInv, EarlyInv, SlotInv, ByteInv, Used,
              BridgeInv, Kept, KernelInv, SectorOf
<1>2. CASE Next
  BY <1>2, LoaderStep, GreatstartStep, LookStep, WriteRegStep, WriteMemStep, SetBreakStep,
     ClearBreakStep, StepStep, ContinueStep, RangeStep, BridgeStep, KernelStep DEF Next
<1> QED  BY <1>1, <1>2
-----------------------------------------------------------------------------
(* The theorems.                                                           *)

\* The invariant is one.
THEOREM Invariance == Spec => []IndInv
  BY InitInv, StepInv, PTL DEF Spec

\* Every variable keeps its type, and from greatstart on the whole image is
\* in memory: the loader reads each sector once and stops after the last.
THEOREM TypeCorrect == Spec => []TypeOK
<1>1. IndInv => TypeOK
 <2> SUFFICES ASSUME IndInv PROVE TypeOK  OBVIOUS
 <2> USE DEF IndInv
 <2>1. sector \in 0 .. Cardinality(Sectors)  BY SectorRange DEF TypeInv, LoadInv, Stages, Before
 <2>2. stage \in {"greatstart", "early", "bridge", "kernel"} => \A a \in Addr : mem[a] # "none"
  <3>1. CASE stage = "greatstart"  BY <3>1, SectorRange, Consts DEF LoadInv, Stages, Before, Op
  <3>2. CASE stage \in {"early", "bridge", "kernel"}
    BY <3>2 DEF EarlyInv, ByteInv, BridgeInv, Kept, KernelInv
  <3> QED  BY <3>1, <3>2
 <2>3. mem \in [Addr -> Op \cup {"none", "new", "int3"}]  BY DEF TypeInv, ByteVal
 <2> QED  BY <2>1, <2>2, <2>3 DEF TypeInv, TypeOK, Stages, Before, Client
<1> QED  BY <1>1, Invariance, PTL

\* What GDB was told is so while the early stub answers, and what the
\* kernel's stub finds is the program, its own breakpoints and the ones that
\* were left behind.
THEOREM ToldTheTruth == Spec => []AnswersTrue
<1>1. IndInv => ToldTrue
 <2> SUFFICES ASSUME IndInv, stage = "early"
              PROVE  /\ sh = gdb.regs
                     /\ gdb.ins = {bp[i].addr : i \in DOMAIN bp \ FreeSlots}
                     /\ \A i, j \in DOMAIN bp \ FreeSlots : bp[i].addr = bp[j].addr => i = j
                     /\ \A a \in Addr \ gdb.torn :
                          IF a \in gdb.ins
                          THEN mem[a] = "int3" /\ bp[Min(UsedBy(a))].orig = gdb.bytes[a]
                          ELSE mem[a] = gdb.bytes[a]
   BY DEF ToldTrue
 <2>1. sh = gdb.regs /\ SlotInv /\ ByteInv /\ TypeInv  BY DEF IndInv, EarlyInv
 <2>2. DOMAIN bp \ FreeSlots = Used  BY <2>1 DEF TypeInv, FreeSlots, Used
 <2>3. ASSUME NEW a \in Addr \ gdb.torn, a \in gdb.ins
       PROVE  mem[a] = "int3" /\ bp[Min(UsedBy(a))].orig = gdb.bytes[a]
  <3>1. UsedBy(a) # {}  BY <2>1, <2>3 DEF SlotInv, Used, UsedBy, TypeInv
  <3>2. PICK i \in Used : i = Min(UsedBy(a)) /\ bp[i].addr = a  BY <2>1, <3>1, UsedSlot
  <3>3. bp[i].orig = gdb.bytes[a]  BY <2>1, <2>3, <3>2 DEF SlotInv
  <3> QED  BY <2>1, <2>3, <3>2, <3>3 DEF ByteInv
 <2> QED  BY <2>1, <2>2, <2>3 DEF SlotInv, ByteInv
<1>2. IndInv => HandedOver  BY DEF IndInv, KernelInv, HandedOver
<1> QED  BY <1>1, <1>2, Invariance, PTL DEF AnswersTrue

\* The program leaves the early stub only because the client asked, and
\* where it asked, with the registers it was shown.
THEOREM LeavesAsAsked == Spec => ResumesAsAsked
<1> DEFINE A == stage = "early" /\ stage' # "early" =>
        LET op == gdb'.resumed.op IN
        /\ op \in {"c", "c addr", "vCont;c", "vCont;r", "vCont?"}
        /\ op \in {"c", "vCont;r"} => cpu'.eip = gdb.regs.eip
        /\ op = "c addr" => cpu'.eip = gdb'.resumed.arg
        /\ cpu'.r = gdb.regs.r
        /\ op # "vCont?" => cpu'.fl = 0
        /\ cpu'.sp = cpu.sp /\ cpu'.sg = cpu.sg
<1>1. ASSUME IndInv, [Next]_vars PROVE [A]_vars
 <2> SUFFICES ASSUME stage = "early", stage' # "early" PROVE A  OBVIOUS
 <2>1. sh = gdb.regs /\ sh \in Regs /\ cpu \in Regs /\ gdb \in Client
   BY <1>1 DEF IndInv, EarlyInv, TypeInv
 <2>2. ASSUME NEW op \in Asked, NEW arg, NEW s \in Regs, Resume(op, arg, s)
       PROVE  /\ gdb'.resumed.op = op /\ gdb'.resumed.arg = arg
              /\ cpu'.eip = s.eip /\ cpu'.fl = s.fl /\ cpu'.r = s.r
              /\ cpu'.sp = cpu.sp /\ cpu'.sg = cpu.sg
   BY <2>1, <2>2 DEF Resume, ToFrame, Regs, Client
 <2>3. CASE Continue
  <3>1. PICK op, arg, k :
          /\ handle_continue_packet(op, arg, k)
          /\ \/ op = "c" /\ k = sh.eip
             \/ op = "c addr" /\ k \in Numbers /\ k = arg
             \/ op = "vCont;c" /\ k = Garbled
    BY <2>3 DEF Continue
  <3>2. k \in Nat
   <4>1. sh.eip \in Nat /\ Numbers \subseteq Nat  BY <2>1, Consts DEF Numbers, Regs
   <4> QED  BY <3>1, <4>1, Consts
  <3>3. PICK s \in Regs : Resume(op, arg, s) /\ s.eip = k /\ s.fl = 0 /\ s.r = sh.r
   <4>1. PICK s : s = [sh EXCEPT !.eip = k, !.fl = 0]  OBVIOUS
   <4>2. s \in Regs /\ s.eip = k /\ s.fl = 0 /\ s.r = sh.r  BY <2>1, <3>2, <4>1 DEF Regs, Bit
   <4>3. Resume(op, arg, s)  BY <3>1, <4>1 DEF handle_continue_packet
   <4> QED  BY <4>2, <4>3
  <3>4. op \in Asked /\ op \in {"c", "c addr", "vCont;c"}  BY <3>1 DEF Asked
  <3>5. /\ gdb'.resumed.op = op /\ gdb'.resumed.arg = arg
        /\ cpu'.eip = k /\ cpu'.fl = 0 /\ cpu'.r = sh.r
        /\ cpu'.sp = cpu.sp /\ cpu'.sg = cpu.sg
    BY <2>2, <3>3, <3>4
  <3> QED  BY <2>1, <3>1, <3>3, <3>4, <3>5
 <2>4. CASE Probe
  <3>1. Resume("vCont?", 0, sh)  BY <2>4 DEF Probe
  <3>2. /\ gdb'.resumed.op = "vCont?" /\ cpu'.r = sh.r
        /\ cpu'.sp = cpu.sp /\ cpu'.sg = cpu.sg
    BY <2>1, <2>2, <3>1 DEF Asked
  <3> QED  BY <2>1, <3>2
 <2>5. CASE handle_range_step_packet
  <3>1. PICK hi : \/ Resume("vCont;r", hi, [sh EXCEPT !.fl = 0])
                  \/ StepTo(compute_step_target(sh.eip))
    BY <2>5 DEF handle_range_step_packet
  <3>2. ~StepTo(compute_step_target(sh.eip))  BY DEF StepTo
  <3>3. PICK s \in Regs : s = [sh EXCEPT !.fl = 0] /\ s.eip = sh.eip /\ s.fl = 0 /\ s.r = sh.r
   <4>1. PICK s : s = [sh EXCEPT !.fl = 0]  OBVIOUS
   <4>2. s \in Regs /\ s.eip = sh.eip /\ s.fl = 0 /\ s.r = sh.r  BY <2>1, <4>1 DEF Regs, Bit
   <4> QED  BY <4>1, <4>2
  <3>4. Resume("vCont;r", hi, s)  BY <3>1, <3>2, <3>3
  <3>5. /\ gdb'.resumed.op = "vCont;r"
        /\ cpu'.eip = sh.eip /\ cpu'.fl = 0 /\ cpu'.r = sh.r
        /\ cpu'.sp = cpu.sp /\ cpu'.sg = cpu.sg
    BY <2>2, <3>3, <3>4 DEF Asked
  <3> QED  BY <2>1, <3>3, <3>5
 <2>6. Continue \/ Probe \/ handle_range_step_packet
   BY <1>1 DEF Next, vars, BootResume, BootAnswer, Load, Greatstart, handle_query, send_regs32,
          send_single_reg32, handle_read_mem, Look, WriteReg, WriteAllRegs, WriteMem,
          handle_set_sw_break, handle_clear_sw_break, Step, StepTo, initBss,
          AddBreakpoint, RemoveBreakpoint, Stopped
 <2> QED  BY <2>3, <2>4, <2>5, <2>6
<1> QED  BY <1>1, Invariance, PTL DEF Spec, ResumesAsAsked
-----------------------------------------------------------------------------
(* GdbStub.  What the stub's operators on its breakpoints and its range    *)
(* leave is stated of a pair m = [d, text], the stub's memory and the      *)
(* program's bytes, as the operators are.                                  *)

Insn   == {"insn", "int3"}
Slots  == [addr : Code, orig : Insn, on : BOOLEAN, ins : BOOLEAN]
Ranges == [active : BOOLEAN, lo : Nat, hi : Code, armed : BOOLEAN, at : Code, orig : Insn]
Tables == UNION {[1 .. k -> Slots] : k \in 0 .. MaxBp}
Dbg    == [bps : Tables, pend : Nat, auto : BOOLEAN, rs : Ranges,
           ctx : [pc : Nat, tf : BOOLEAN, valid : BOOLEAN], bound : 1 .. MaxNest,
           connected : BOOLEAN, client : BOOLEAN, running : BOOLEAN]
Memory == [d : Dbg, text : [Code -> Insn]]

\* An address under a breakpoint, and under the one at the end of a range
Set(m, a)   == \E i \in DOMAIN m.d.bps : m.d.bps[i].on /\ m.d.bps[i].addr = a
In(m, a)    == \E i \in DOMAIN m.d.bps : m.d.bps[i].on /\ m.d.bps[i].ins /\ m.d.bps[i].addr = a
Armed(m, a) == m.d.rs.armed /\ m.d.rs.at = a

SlotsOK(m) ==
    /\ \A i \in DOMAIN m.d.bps : m.d.bps[i].ins => m.d.bps[i].on
    /\ \A i \in DOMAIN m.d.bps : m.d.bps[i].on => m.d.bps[i].orig = "insn"
    /\ \A i, j \in DOMAIN m.d.bps :
          m.d.bps[i].on /\ m.d.bps[j].on /\ m.d.bps[i].addr = m.d.bps[j].addr => i = j
    /\ m.d.pend # 0 => m.d.pend \in DOMAIN m.d.bps /\ m.d.bps[m.d.pend].on
RangeOK(m) ==
    m.d.rs.armed => /\ m.d.rs.active /\ m.d.rs.at = m.d.rs.hi /\ m.d.rs.orig = "insn"
                    /\ ~Set(m, m.d.rs.at)
TextOK(m) == \A a \in Code : m.text[a] = "int3" <=> (In(m, a) \/ Armed(m, a))

Good(m) == m \in Memory /\ SlotsOK(m) /\ RangeOK(m) /\ TextOK(m)

\* The frame bound last is the innermost or gone, and a frame of the program
\* holds an address of the program
Frames == [of : {"prog", "stub", "irq"}, pc : Nat, tf : BOOLEAN]
Stacked(m, fs) ==
    /\ fs \in Seq(Frames) /\ Len(fs) <= MaxNest /\ Len(fs) <= m.d.bound
    /\ \A i \in DOMAIN fs : fs[i].of = "prog" => fs[i].pc \in Code
    /\ m.d.bound \in DOMAIN fs /\ fs[m.d.bound].of = "prog" => m.d.ctx.pc \in Code

Progs == [pc : Code, tf : BOOLEAN]
MachineInv ==
    /\ Good(Now) /\ Stacked(Now, frames)
    /\ prog \in Progs /\ trapped \in {"no", "stub", "irq"}

Sent   == Cmds \cup {NoCmd}
Chars  == [t : {"$", "data", "#", "sum", "^C"}, c : Sent]
States == {"idle", "ack", "reply", "run", "off"}
Verdict == {"ack", "nack"}
Final    == {"reply", "stop"}
Receivers == [st : 0 .. 2, buf : Seq(Chars), sum : Seq(Sent)]
RecvOK(r) == r \in Receivers /\ Len(r.buf) <= MaxBuf /\ (r.st = 2 => Len(r.sum) <= 1)
WireType ==
    /\ line \in Seq(Chars) /\ back \in Seq(Verdict \cup Final)
    /\ RecvOK(rx)
    /\ client \in [st : States, cmd : Sent]
    /\ n \in [cmds : Nat, faults : {0}, breaks : Nat]

\* What is on its way to the stub is the client's last command, once.  The
\* serial interrupt may take any byte of it, so what is left of a packet that
\* is done may still be there, before the next one.
Opens(i)   == line[i].t = "$"
Matches(i) == line[i].t \in {"data", "sum"} => line[i].c = client.cmd
Judged     == \E i \in DOMAIN back : back[i] \in Verdict
WireInv ==
    /\ \A i, j \in DOMAIN line : Opens(i) /\ Opens(j) => i = j
    /\ \A i \in DOMAIN line :
          Opens(i) => /\ client.st = "ack" /\ ~Judged
                      /\ \A j \in DOMAIN line : i < j => Matches(j)
    /\ \A i, j \in DOMAIN line : Opens(j) /\ i < j /\ line[i] # BRK => rx.st = 0
    /\ \A i \in DOMAIN line :
          rx.st # 0 /\ line[i] # BRK => client.st = "ack" /\ ~Judged /\ Matches(i)
    /\ Judged => client.st = "ack" /\ rx.st = 0 /\ \A i \in DOMAIN line : ~Opens(i)
    /\ \A i, j \in DOMAIN back : back[i] \in Verdict /\ back[j] \in Verdict => i = j

TurnInv ==
    /\ client.st \in {"idle", "off", "reply"} => frames # <<>>
    /\ client.st = "ack" /\ client.cmd.op \notin Resumes => frames # <<>>
    /\ client.st = "run" /\ (\E i \in DOMAIN back : back[i] \in Final) => frames # <<>>
    /\ client.st = "ack" /\ (\E i, j \in DOMAIN back : i < j /\ back[i] = "ack" /\ back[j] \in Final)
          => frames # <<>>

TidyAt(m, c) ==
    /\ c.op \in {"Z", "M"} => ~Armed(m, c.a)
    /\ c.op = "M" => ~Set(m, c.a)
TidyInv == client.st = "ack" => TidyAt(Now, client.cmd)

StubInv == MachineInv /\ WireType /\ WireInv /\ TurnInv /\ TidyInv
-----------------------------------------------------------------------------
LEMMA CodeFacts ==
    /\ Code \subseteq Nat /\ 0 \in Code /\ Outside \in Nat
    /\ \A a \in Code : a + 1 < Outside
<1>1. Cardinality(Code) \in Nat  BY FS_CardinalityType, StubConfigOK DEF StubConfigOK
<1>2. Code = 0 .. Cardinality(Code) - 1 /\ Code # {}  BY StubConfigOK DEF StubConfigOK
<1> QED  BY <1>1, <1>2 DEF Outside

LEMMA TableFacts ==
    ASSUME NEW b \in Tables
    PROVE  /\ Len(b) \in 0 .. MaxBp /\ DOMAIN b = 1 .. Len(b) /\ b \in [1 .. Len(b) -> Slots]
           /\ b \in Seq(Slots)
<1>1. PICK k \in 0 .. MaxBp : b \in [1 .. k -> Slots]  BY DEF Tables
<1>2. MaxBp \in Nat  BY StubConfigOK DEF StubConfigOK
<1>3. b \in Seq(Slots) /\ Len(b) = k  BY <1>1, <1>2, SeqDef, LenProperties
<1> QED  BY <1>1, <1>3

LEMMA Fields ==
    ASSUME NEW m \in Memory
    PROVE  /\ m = [d |-> m.d, text |-> m.text] /\ m.d \in Dbg /\ m.text \in [Code -> Insn]
           /\ m.d.bps \in Tables /\ m.d.pend \in Nat /\ m.d.rs \in Ranges
           /\ m.d.ctx.pc \in Nat /\ m.d.ctx.tf \in BOOLEAN /\ m.d.bound \in 1 .. MaxNest
  BY DEF Memory, Dbg

LEMMA SlotFields ==
    ASSUME NEW m \in Memory, NEW i \in DOMAIN m.d.bps
    PROVE  /\ m.d.bps[i] \in Slots /\ m.d.bps[i].addr \in Code /\ m.d.bps[i].on \in BOOLEAN
           /\ m.d.bps[i].ins \in BOOLEAN /\ m.d.bps[i].orig \in Insn
           /\ i \in 1 .. Len(m.d.bps)
<1>1. m.d.bps \in [1 .. Len(m.d.bps) -> Slots]  BY Fields, TableFacts
<1>2. m.d.bps[i] \in Slots /\ i \in 1 .. Len(m.d.bps)  BY <1>1
<1> QED  BY <1>2 DEF Slots

LEMMA FindSet ==
    ASSUME NEW m, NEW a
    PROVE  Find(m, a) # {} <=> Set(m, a)
  BY DEF Find, Set

LEMMA TableKept ==
    ASSUME NEW b \in Tables, NEW i \in DOMAIN b, NEW s \in Slots
    PROVE  [b EXCEPT ![i] = s] \in Tables
  BY TableFacts DEF Tables

LEMMA Built ==
    ASSUME NEW d \in Dbg, NEW t \in [Code -> Insn], NEW r, r = [d |-> d, text |-> t]
    PROVE  r \in Memory /\ r.d = d /\ r.text = t
  BY DEF Memory

\* The registers and the flags of the stub are nothing to the breakpoints
Same(m, r) ==
    /\ r.text = m.text /\ r.d.bps = m.d.bps /\ r.d.rs = m.d.rs /\ r.d.pend = m.d.pend
LEMMA SameGood ==
    ASSUME NEW m, NEW r, Good(m), r \in Memory, Same(m, r)
    PROVE  Good(r) /\ \A a : (Set(r, a) <=> Set(m, a)) /\ (Armed(r, a) <=> Armed(m, a))
  BY DEF Same, Good, SlotsOK, RangeOK, TextOK, Set, In, Armed

\* What an operator on the breakpoints leaves to the frames
Bound(m, r) == r.d.ctx = m.d.ctx /\ r.d.bound = m.d.bound

\* What changes when the byte of slot i is exchanged, and what does not
LEMMA InsertFields ==
    ASSUME NEW m \in Memory, NEW i \in DOMAIN m.d.bps, m.d.bps[i].on, ~m.d.bps[i].ins,
           NEW r, r = gdb_insert_breakpoint(m, i)
    PROVE  /\ r \in Memory
           /\ r.text = [m.text EXCEPT ![m.d.bps[i].addr] = "int3"]
           /\ r.d.bps = [m.d.bps EXCEPT ![i] = [m.d.bps[i] EXCEPT !.ins = TRUE]]
           /\ r.d.rs = m.d.rs /\ r.d.pend = m.d.pend /\ Bound(m, r)
<1> DEFINE bps == [m.d.bps EXCEPT ![i] = [m.d.bps[i] EXCEPT !.ins = TRUE]]
           d   == [m.d EXCEPT !.bps = bps]
           t   == [m.text EXCEPT ![m.d.bps[i].addr] = "int3"]
<1>1. r = [m EXCEPT !.text[m.d.bps[i].addr] = "int3", !.d.bps[i].ins = TRUE]
  BY DEF gdb_insert_breakpoint
<1>2. bps \in Tables  BY Fields, SlotFields, TableKept DEF Slots
<1>3. r = [d |-> d, text |-> t]  BY <1>1 DEF Memory, Dbg
<1>4. t \in [Code -> Insn]  BY Fields, SlotFields DEF Insn
<1>5. d \in Dbg /\ d.bps = bps /\ d.rs = m.d.rs /\ d.pend = m.d.pend /\ d.ctx = m.d.ctx
         /\ d.bound = m.d.bound
  BY Fields, <1>2 DEF Dbg
<1> HIDE DEF d, t
<1>6. r \in Memory /\ r.d = d /\ r.text = t  BY <1>3, <1>4, <1>5, Built
<1> QED  BY <1>6, <1>5 DEF t, Bound

LEMMA RestoreFields ==
    ASSUME NEW m \in Memory, NEW i \in DOMAIN m.d.bps, m.d.bps[i].ins,
           NEW r, r = gdb_restore_breakpoint_byte(m, i)
    PROVE  /\ r \in Memory
           /\ r.text = [m.text EXCEPT ![m.d.bps[i].addr] = m.d.bps[i].orig]
           /\ r.d.bps = [m.d.bps EXCEPT ![i] = [m.d.bps[i] EXCEPT !.ins = FALSE]]
           /\ r.d.rs = m.d.rs /\ r.d.pend = m.d.pend /\ Bound(m, r)
<1> DEFINE bps == [m.d.bps EXCEPT ![i] = [m.d.bps[i] EXCEPT !.ins = FALSE]]
           d   == [m.d EXCEPT !.bps = bps]
           t   == [m.text EXCEPT ![m.d.bps[i].addr] = m.d.bps[i].orig]
<1>1. r = [m EXCEPT !.text[m.d.bps[i].addr] = m.d.bps[i].orig, !.d.bps[i].ins = FALSE]
  BY DEF gdb_restore_breakpoint_byte
<1>2. bps \in Tables  BY Fields, SlotFields, TableKept DEF Slots
<1>3. r = [d |-> d, text |-> t]  BY <1>1 DEF Memory, Dbg
<1>4. t \in [Code -> Insn]  BY Fields, SlotFields DEF Insn
<1>5. d \in Dbg /\ d.bps = bps /\ d.rs = m.d.rs /\ d.pend = m.d.pend /\ d.ctx = m.d.ctx
         /\ d.bound = m.d.bound
  BY Fields, <1>2 DEF Dbg
<1> HIDE DEF d, t
<1>6. r \in Memory /\ r.d = d /\ r.text = t  BY <1>3, <1>4, <1>5, Built
<1> QED  BY <1>6, <1>5 DEF t, Bound

\* Only slot i is touched, and its breakpoint is as before
OnlySlot(m, r, i) ==
    /\ DOMAIN r.d.bps = DOMAIN m.d.bps
    /\ \A j \in DOMAIN m.d.bps : /\ r.d.bps[j].on = m.d.bps[j].on
                                 /\ r.d.bps[j].addr = m.d.bps[j].addr
                                 /\ j # i => r.d.bps[j].ins = m.d.bps[j].ins

\* Only the slot noted in pend is out of the text; and it stays so
SlotsPut(m) ==
    /\ \A i \in DOMAIN m.d.bps : m.d.bps[i].on /\ ~m.d.bps[i].ins => i = m.d.pend
    /\ m.d.pend # 0 => ~m.d.bps[m.d.pend].ins
PutStays(m, r) ==
    SlotsPut(m) => /\ SlotsPut(r)
                   /\ r.d.pend # 0 => /\ r.d.pend = m.d.pend
                                      /\ r.d.bps[r.d.pend].addr = m.d.bps[r.d.pend].addr

\* Neither adds a breakpoint nor arms the end of a range
Calm(m, r) ==
    /\ \A a : Armed(r, a) => Armed(m, a)
    /\ \A a : Set(r, a) <=> Set(m, a)

LEMMA InsertGood ==
    ASSUME NEW m, Good(m), NEW i \in DOMAIN m.d.bps, m.d.bps[i].on,
           NEW r, r = gdb_insert_breakpoint(m, i)
    PROVE  /\ Good(r) /\ Calm(m, r) /\ Bound(m, r) /\ r.d.pend = m.d.pend /\ r.d.rs = m.d.rs
           /\ OnlySlot(m, r, i) /\ r.d.bps[i].ins
<1> USE DEF Good
<1>1. CASE m.d.bps[i].ins  BY <1>1 DEF gdb_insert_breakpoint, Calm, Bound, OnlySlot
<1>2. CASE ~m.d.bps[i].ins
 <2> DEFINE b == m.d.bps
            s == [b[i] EXCEPT !.ins = TRUE]
 <2>1. /\ r \in Memory /\ r.text = [m.text EXCEPT ![b[i].addr] = "int3"]
       /\ r.d.bps = [b EXCEPT ![i] = s] /\ r.d.rs = m.d.rs /\ r.d.pend = m.d.pend /\ Bound(m, r)
   BY <1>2, InsertFields
 <2>2. /\ s.addr = b[i].addr /\ s.on = b[i].on /\ s.ins = TRUE /\ s.orig = b[i].orig
       /\ b[i].addr \in Code
   BY SlotFields DEF Slots
 <2> HIDE DEF b, s
 <2>3. DOMAIN r.d.bps = DOMAIN b /\ i \in DOMAIN b
          /\ \A j \in DOMAIN b : r.d.bps[j] = IF j = i THEN s ELSE b[j]
   BY <2>1, Fields, TableFacts DEF b
 <2>b. b = m.d.bps  BY DEF b
 <2>e. \A j \in DOMAIN b : r.d.bps[j].on = b[j].on /\ r.d.bps[j].addr = b[j].addr
                          /\ r.d.bps[j].orig = b[j].orig
   BY <2>2, <2>3
 <2>4. Calm(m, r)  BY <2>1, <2>3, <2>b, <2>e DEF Calm, Armed, Set
 <2>5. SlotsOK(r)
  <3>1. \A j \in DOMAIN b : r.d.bps[j].ins => r.d.bps[j].on  BY <2>2, <2>3, <2>b DEF SlotsOK
  <3> QED  BY <3>1, <2>1, <2>3, <2>b, <2>e DEF SlotsOK
 <2>6. RangeOK(r)  BY <2>1, <2>4 DEF RangeOK, Calm
 <2>7. \A a \in Code : In(r, a) <=> (In(m, a) \/ a = b[i].addr)  BY <2>2, <2>3 DEF In, b
 <2>8. ASSUME NEW a \in Code  PROVE r.text[a] = IF a = b[i].addr THEN "int3" ELSE m.text[a]
   BY <2>1, Fields
 <2>9. TextOK(r)  BY <2>1, <2>7, <2>8 DEF TextOK, Armed
 <2>10. OnlySlot(m, r, i) /\ r.d.bps[i].ins  BY <2>2, <2>3, <2>b, <2>e DEF OnlySlot
 <2> QED  BY <2>1, <2>4, <2>5, <2>6, <2>9, <2>10
<1> QED  BY <1>1, <1>2, SlotFields

LEMMA RestoreGood ==
    ASSUME NEW m, Good(m), NEW i \in DOMAIN m.d.bps,
           NEW r, r = gdb_restore_breakpoint_byte(m, i)
    PROVE  /\ Good(r) /\ Calm(m, r) /\ Bound(m, r) /\ r.d.pend = m.d.pend /\ r.d.rs = m.d.rs
           /\ DOMAIN r.d.bps = DOMAIN m.d.bps /\ ~r.d.bps[i].ins /\ r.d.bps[i].on = m.d.bps[i].on
           /\ OnlySlot(m, r, i)
<1> USE DEF Good
<1>1. CASE ~m.d.bps[i].ins  BY <1>1 DEF gdb_restore_breakpoint_byte, Calm, Bound, OnlySlot
<1>2. CASE m.d.bps[i].ins
 <2> DEFINE b == m.d.bps
            s == [b[i] EXCEPT !.ins = FALSE]
 <2>1. /\ r \in Memory /\ r.text = [m.text EXCEPT ![b[i].addr] = b[i].orig]
       /\ r.d.bps = [b EXCEPT ![i] = s] /\ r.d.rs = m.d.rs /\ r.d.pend = m.d.pend /\ Bound(m, r)
   BY <1>2, RestoreFields
 <2>2. /\ s.addr = b[i].addr /\ s.on = b[i].on /\ s.ins = FALSE /\ s.orig = b[i].orig
       /\ b[i].addr \in Code /\ b[i].on /\ b[i].orig = "insn"
   BY <1>2, SlotFields DEF Slots, SlotsOK
 <2> HIDE DEF b, s
 <2>3. DOMAIN r.d.bps = DOMAIN b /\ i \in DOMAIN b
          /\ \A j \in DOMAIN b : r.d.bps[j] = IF j = i THEN s ELSE b[j]
   BY <2>1, Fields, TableFacts DEF b
 <2>b. b = m.d.bps  BY DEF b
 <2>e. \A j \in DOMAIN b : r.d.bps[j].on = b[j].on /\ r.d.bps[j].addr = b[j].addr
                          /\ r.d.bps[j].orig = b[j].orig
   BY <2>2, <2>3
 <2>4. Calm(m, r)  BY <2>1, <2>3, <2>b, <2>e DEF Calm, Armed, Set
 <2>5. SlotsOK(r)
  <3>1. \A j \in DOMAIN b : r.d.bps[j].ins => r.d.bps[j].on  BY <2>2, <2>3, <2>b DEF SlotsOK
  <3> QED  BY <3>1, <2>1, <2>3, <2>b, <2>e DEF SlotsOK
 <2>6. RangeOK(r)  BY <2>1, <2>4 DEF RangeOK, Calm
 <2>7. \A a \in Code : In(r, a) <=> (In(m, a) /\ a # b[i].addr)  BY <2>2, <2>3 DEF In, b, SlotsOK
 <2>8. ASSUME NEW a \in Code  PROVE r.text[a] = IF a = b[i].addr THEN "insn" ELSE m.text[a]
   BY <2>1, <2>2, Fields
 <2>9. ~Armed(m, b[i].addr)  BY <2>2 DEF RangeOK, Armed, Set, b
 <2>10. TextOK(r)  BY <2>1, <2>7, <2>8, <2>9 DEF TextOK, Armed
 <2>11. OnlySlot(m, r, i)  BY <2>2, <2>3, <2>b, <2>e DEF OnlySlot
 <2> QED  BY <2>1, <2>2, <2>3, <2>4, <2>5, <2>6, <2>10, <2>11 DEF b
<1> QED  BY <1>1, <1>2, SlotFields

\* Where only the text and the range change
LEMMA RangeFields ==
    ASSUME NEW m \in Memory, NEW t \in [Code -> Insn], NEW g \in Ranges,
           NEW r, r = [d |-> [m.d EXCEPT !.rs = g], text |-> t]
    PROVE  /\ r \in Memory /\ r.text = t /\ r.d.rs = g /\ r.d.bps = m.d.bps
           /\ r.d.pend = m.d.pend /\ Bound(m, r)
<1> DEFINE d == [m.d EXCEPT !.rs = g]
<1>1. r = [d |-> d, text |-> t]  OBVIOUS
<1>2. d \in Dbg /\ d.bps = m.d.bps /\ d.rs = g /\ d.pend = m.d.pend /\ d.ctx = m.d.ctx
         /\ d.bound = m.d.bound
  BY Fields DEF Dbg
<1> HIDE DEF d
<1>3. r \in Memory /\ r.d = d /\ r.text = t  BY <1>1, <1>2, Built
<1> QED  BY <1>2, <1>3 DEF Bound

LEMMA RangeParts ==
    ASSUME NEW g \in Ranges
    PROVE  /\ g.active \in BOOLEAN /\ g.lo \in Nat /\ g.hi \in Code /\ g.armed \in BOOLEAN
           /\ g.at \in Code /\ g.orig \in Insn
  BY DEF Ranges

\* The byte under the end of the range is given back
LEMMA Disarmed ==
    ASSUME NEW m, Good(m), m.d.rs.armed, NEW g \in Ranges, ~g.armed,
           NEW r, r = [d |-> [m.d EXCEPT !.rs = g],
                       text |-> [m.text EXCEPT ![m.d.rs.at] = m.d.rs.orig]]
    PROVE  Good(r) /\ Calm(m, r) /\ Bound(m, r) /\ r.d.pend = m.d.pend /\ r.d.rs = g
           /\ r.d.bps = m.d.bps
<1> DEFINE at == m.d.rs.at
           t  == [m.text EXCEPT ![at] = m.d.rs.orig]
<1>1. m \in Memory /\ m.d.rs.orig = "insn" /\ at \in Code /\ ~Set(m, at)
  BY Fields, RangeParts DEF Good, RangeOK
<1>r. r = [d |-> [m.d EXCEPT !.rs = g], text |-> t]  OBVIOUS
<1>2. t \in [Code -> Insn]  BY <1>1, Fields DEF Insn
<1>3. /\ r \in Memory /\ r.text = t /\ r.d.rs = g /\ r.d.bps = m.d.bps
      /\ r.d.pend = m.d.pend /\ Bound(m, r)
 <2> HIDE DEF t
 <2> QED  BY <1>1, <1>2, <1>r, RangeFields
<1>4. ASSUME NEW a \in Code  PROVE r.text[a] = IF a = at THEN "insn" ELSE m.text[a]
  BY <1>1, <1>3, Fields
<1>5. \A a : (Set(r, a) <=> Set(m, a)) /\ (In(r, a) <=> In(m, a)) /\ ~Armed(r, a)
  BY <1>3 DEF Set, In, Armed
<1>6. SlotsOK(r) /\ RangeOK(r)  BY <1>3 DEF Good, SlotsOK, RangeOK
<1>7. ~In(m, at)  BY <1>1 DEF Set, In
<1>8. TextOK(r)  BY <1>4, <1>5, <1>7 DEF TextOK, Good, Armed
<1> QED  BY <1>3, <1>5, <1>6, <1>8 DEF Good, Calm

LEMMA NoRangeType == NoRange \in Ranges /\ ~NoRange.armed /\ ~NoRange.active
  BY CodeFacts DEF NoRange, Ranges, Insn

LEMMA ClearGood ==
    ASSUME NEW m, Good(m), NEW r, r = gdb_clear_range_step(m)
    PROVE  Good(r) /\ Calm(m, r) /\ Bound(m, r) /\ r.d.pend = m.d.pend /\ r.d.rs = NoRange
           /\ r.d.bps = m.d.bps
<1>0. m \in Memory  BY DEF Good
<1>1. CASE m.d.rs.armed
 <2>1. r = [d |-> [m.d EXCEPT !.rs = NoRange],
            text |-> [m.text EXCEPT ![m.d.rs.at] = m.d.rs.orig]]
   BY <1>0, <1>1 DEF gdb_clear_range_step, Memory, Dbg
 <2> QED  BY <2>1, <1>1, NoRangeType, Disarmed
<1>2. CASE ~m.d.rs.armed
 <2>1. r = [d |-> [m.d EXCEPT !.rs = NoRange], text |-> m.text]
   BY <1>0, <1>2 DEF gdb_clear_range_step, Memory, Dbg
 <2>2. /\ r \in Memory /\ r.text = m.text /\ r.d.rs = NoRange /\ r.d.bps = m.d.bps
       /\ r.d.pend = m.d.pend /\ Bound(m, r)
   BY <2>1, <1>0, Fields, NoRangeType, RangeFields
 <2> QED  BY <2>2, <1>2, NoRangeType DEF Good, SlotsOK, RangeOK, TextOK, Set, In, Armed, Calm
<1> QED  BY <1>1, <1>2

\* The range's breakpoint is at its end, and no other is there
Arms(m, r) ==
    /\ Good(r) /\ Bound(m, r) /\ r.d.pend = m.d.pend /\ r.d.bps = m.d.bps
    /\ r.d.rs.active = m.d.rs.active /\ r.d.rs.hi = m.d.rs.hi /\ r.d.rs.lo = m.d.rs.lo

LEMMA ArmGood ==
    ASSUME NEW m, Good(m), m.d.rs.active, NEW r, r = gdb_arm_range_step_breakpoint(m, m.d.rs.hi)
    PROVE  Arms(m, r)
<1> DEFINE a == m.d.rs.hi
           g == [m.d.rs EXCEPT !.armed = TRUE, !.at = a, !.orig = m.text[a]]
           t == [m.text EXCEPT ![a] = "int3"]
<1>0. m \in Memory /\ m.d.rs \in Ranges /\ a \in Code /\ m.text \in [Code -> Insn]
  BY Fields, RangeParts DEF Good
<1>1. CASE Set(m, a) \/ Armed(m, a)
  BY <1>1, FindSet DEF gdb_arm_range_step_breakpoint, Arms, Armed, Bound
<1>2. CASE ~Set(m, a) /\ ~Armed(m, a)
 <2>1. r = [m EXCEPT !.text[a] = "int3",
                   !.d.rs = [@ EXCEPT !.armed = TRUE, !.at = a, !.orig = m.text[a]]]
   BY <1>2, FindSet DEF gdb_arm_range_step_breakpoint, Armed
 <2>2. r = [d |-> [m.d EXCEPT !.rs = g], text |-> t]  BY <2>1, <1>0 DEF Memory, Dbg
 <2>3. ~m.d.rs.armed  BY <1>2 DEF Good, RangeOK, Armed
 <2>4. ~In(m, a) /\ m.text[a] = "insn"  BY <1>0, <1>2 DEF Set, In, Good, TextOK, Insn
 <2>5. /\ g \in Ranges /\ g.armed /\ g.at = a /\ g.orig = "insn" /\ g.active = m.d.rs.active
       /\ g.hi = m.d.rs.hi /\ g.lo = m.d.rs.lo
   BY <1>0, <2>4 DEF Ranges
 <2>6. t \in [Code -> Insn]  BY <1>0 DEF Insn
 <2> HIDE DEF g, t
 <2>7. /\ r \in Memory /\ r.text = t /\ r.d.rs = g /\ r.d.bps = m.d.bps
       /\ r.d.pend = m.d.pend /\ Bound(m, r)
   BY <2>2, <2>5, <2>6, <1>0, RangeFields
 <2>8. ASSUME NEW x \in Code  PROVE r.text[x] = IF x = a THEN "int3" ELSE m.text[x]
   BY <1>0, <2>7 DEF t
 <2>9. \A x : (Set(r, x) <=> Set(m, x)) /\ (In(r, x) <=> In(m, x)) /\ (Armed(r, x) <=> x = a)
   BY <2>5, <2>7 DEF Set, In, Armed
 <2>10. SlotsOK(r)  BY <2>7 DEF Good, SlotsOK
 <2>11. RangeOK(r)  BY <2>5, <2>7, <2>9, <1>2 DEF RangeOK
 <2>12. TextOK(r)  BY <2>3, <2>8, <2>9 DEF TextOK, Good, Armed
 <2> QED  BY <2>5, <2>7, <2>10, <2>11, <2>12 DEF Good, Arms
<1> QED  BY <1>1, <1>2

LEMMA PrepareRange ==
    ASSUME NEW m, Good(m), m.d.rs.active, NEW pc,
           NEW s, s = gdb_prepare_range_step_resume(m, pc)
    PROVE  Arms(m, s.m) /\ s.over \in BOOLEAN
<1>1. CASE gdb_is_call_instruction(m, pc)
  BY <1>1, ArmGood DEF gdb_prepare_range_step_resume, gdb_is_call_instruction
<1>2. CASE ~gdb_is_call_instruction(m, pc)
  BY <1>2 DEF gdb_prepare_range_step_resume, gdb_is_call_instruction, Arms, Bound
<1> QED  BY <1>1, <1>2

LEMMA ActivateRange ==
    ASSUME NEW m, Good(m), NEW pc \in Nat, NEW hi \in Code,
           NEW s, s = gdb_activate_range_step(m, pc, pc, hi)
    PROVE  Good(s.m) /\ Bound(m, s.m) /\ s.m.d.pend = m.d.pend /\ s.m.d.bps = m.d.bps
           /\ s.over \in BOOLEAN
<1> DEFINE c == gdb_clear_range_step(m)
           g == [c.d.rs EXCEPT !.active = TRUE, !.lo = pc, !.hi = hi]
           r == [c EXCEPT !.d.rs = [@ EXCEPT !.active = TRUE, !.lo = pc, !.hi = hi]]
<1>1. Good(c) /\ Bound(m, c) /\ c.d.pend = m.d.pend /\ c.d.rs = NoRange /\ c.d.bps = m.d.bps
  BY ClearGood
<1>2. g \in Ranges /\ g.active /\ ~g.armed /\ g.hi = hi  BY <1>1, NoRangeType DEF Ranges
<1>3. c \in Memory /\ c.text \in [Code -> Insn]  BY <1>1, Fields DEF Good
<1> HIDE DEF c
<1>4. r = [d |-> [c.d EXCEPT !.rs = g], text |-> c.text]  BY <1>3 DEF Memory, Dbg
<1>5. s = [over |-> pc = pc /\ gdb_is_call_instruction(r, pc),
           m |-> IF pc = pc /\ gdb_is_call_instruction(r, pc)
                 THEN gdb_arm_range_step_breakpoint(r, hi) ELSE r]
  BY DEF gdb_activate_range_step, c
<1> HIDE DEF g, r
<1>6. /\ r \in Memory /\ r.text = c.text /\ r.d.rs = g /\ r.d.bps = c.d.bps
      /\ r.d.pend = c.d.pend /\ Bound(c, r)
  BY <1>2, <1>3, <1>4, RangeFields
<1>7. Good(r)  BY <1>1, <1>2, <1>6, NoRangeType DEF Good, SlotsOK, RangeOK, TextOK, Set, In, Armed
<1>8. CASE gdb_is_call_instruction(r, pc)
 <2>1. s.m = gdb_arm_range_step_breakpoint(r, r.d.rs.hi)  BY <1>5, <1>8, <1>6, <1>2
 <2>2. Arms(r, s.m)  BY <2>1, <1>7, <1>6, <1>2, ArmGood
 <2> QED  BY <2>2, <1>1, <1>5, <1>6 DEF Arms, Bound
<1>9. CASE ~gdb_is_call_instruction(r, pc)  BY <1>9, <1>1, <1>5, <1>6, <1>7 DEF Bound
<1> QED  BY <1>8, <1>9

LEMMA ConsumeGood ==
    ASSUME NEW m, Good(m), NEW a, RangeEnd(m, a), NEW r, r = gdb_consume_range_step_breakpoint(m, a)
    PROVE  Good(r) /\ Calm(m, r) /\ Bound(m, r)
<1> DEFINE g == [m.d.rs EXCEPT !.armed = FALSE, !.at = 0, !.orig = "insn"]
<1>1. m \in Memory /\ m.d.rs.armed /\ a = m.d.rs.at /\ m.d.rs \in Ranges
  BY Fields DEF Good, RangeEnd
<1>2. g \in Ranges /\ ~g.armed  BY <1>1, CodeFacts DEF Ranges, Insn
<1>3. r = [d |-> [m.d EXCEPT !.rs = g], text |-> [m.text EXCEPT ![m.d.rs.at] = m.d.rs.orig]]
  BY <1>1 DEF gdb_consume_range_step_breakpoint, Memory, Dbg
<1> HIDE DEF g
<1> QED  BY <1>1, <1>2, <1>3, Disarmed

LEMMA ShouldStopGood ==
    ASSUME NEW m, Good(m), NEW pc, NEW r, r = gdb_range_step_should_stop(m, pc)
    PROVE  Good(r) /\ Calm(m, r) /\ Bound(m, r)
  BY ClearGood DEF gdb_range_step_should_stop, Calm, Bound

\* Only the flags, the registers and the frame bound change
LEMMA FlagsOnly ==
    ASSUME NEW m, Good(m), NEW e \in Dbg, e.bps = m.d.bps, e.rs = m.d.rs, e.pend = m.d.pend,
           NEW r, r = [d |-> e, text |-> m.text]
    PROVE  /\ Good(r) /\ Calm(m, r) /\ Same(m, r)
           /\ r.d.ctx = e.ctx /\ r.d.bound = e.bound
<1>1. r \in Memory /\ r.d = e /\ r.text = m.text  BY Built, Fields DEF Good
<1>2. Same(m, r)  BY <1>1 DEF Same
<1> QED  BY <1>1, <1>2, SameGood DEF Calm

\* A slot to step over is noted, or no more
LEMMA PendGood ==
    ASSUME NEW m, Good(m), NEW k \in Nat, NEW u \in BOOLEAN,
           k # 0 => k \in DOMAIN m.d.bps /\ m.d.bps[k].on,
           NEW r, r = [m EXCEPT !.d.pend = k, !.d.auto = u]
    PROVE  Good(r) /\ Calm(m, r) /\ Bound(m, r) /\ r.d.rs = m.d.rs /\ r.d.bps = m.d.bps
<1> DEFINE e == [m.d EXCEPT !.pend = k, !.auto = u]
<1>0. m \in Memory  BY DEF Good
<1>1. r = [d |-> e, text |-> m.text]  BY <1>0 DEF Memory, Dbg
<1>2. e \in Dbg /\ e.bps = m.d.bps /\ e.rs = m.d.rs /\ e.pend = k /\ e.ctx = m.d.ctx
         /\ e.bound = m.d.bound
  BY <1>0, Fields DEF Dbg
<1> HIDE DEF e
<1>3. r \in Memory /\ r.d = e /\ r.text = m.text  BY <1>0, <1>1, <1>2, Built, Fields
<1>4. \A a : (Set(r, a) <=> Set(m, a)) /\ (In(r, a) <=> In(m, a)) /\ (Armed(r, a) <=> Armed(m, a))
  BY <1>2, <1>3 DEF Set, In, Armed
<1>5. SlotsOK(r)  BY <1>2, <1>3 DEF Good, SlotsOK
<1>6. RangeOK(r) /\ TextOK(r)  BY <1>2, <1>3, <1>4 DEF Good, RangeOK, TextOK
<1> QED  BY <1>2, <1>3, <1>4, <1>5, <1>6 DEF Good, Calm, Bound

LEMMA FinishGood ==
    ASSUME NEW m, Good(m), m.d.pend # 0, NEW r, r = gdb_finish_breakpoint_resume(m)
    PROVE  Good(r) /\ Calm(m, r) /\ Bound(m, r) /\ r.d.rs = m.d.rs
<1> DEFINE i == gdb_insert_breakpoint(m, m.d.pend)
<1>1. m.d.pend \in DOMAIN m.d.bps /\ m.d.bps[m.d.pend].on  BY DEF Good, SlotsOK
<1>2. Good(i) /\ Calm(m, i) /\ Bound(m, i) /\ i.d.rs = m.d.rs  BY <1>1, InsertGood
<1>3. r = [i EXCEPT !.d.pend = 0, !.d.auto = FALSE]  BY DEF gdb_finish_breakpoint_resume
<1> HIDE DEF i
<1>n. PICK k \in Nat : k = 0  OBVIOUS
<1>4. Good(r) /\ Calm(i, r) /\ Bound(i, r) /\ r.d.rs = i.d.rs
 <2>1. r = [i EXCEPT !.d.pend = k, !.d.auto = FALSE] /\ FALSE \in BOOLEAN  BY <1>3, <1>n
 <2>2. k # 0 => k \in DOMAIN i.d.bps /\ i.d.bps[k].on  BY <1>n
 <2> QED  BY <1>2, <2>1, <2>2, PendGood
<1> QED  BY <1>2, <1>4 DEF Calm, Bound

LEMMA PrepareGood ==
    ASSUME NEW m, Good(m), NEW a, Set(m, a), NEW r, r = gdb_prepare_breakpoint_resume(m, a)
    PROVE  Good(r) /\ Calm(m, r) /\ Bound(m, r)
<1> DEFINE i == CHOOSE i \in Find(m, a) : TRUE
           q == gdb_restore_breakpoint_byte(m, i)
<1>1. i \in Find(m, a)  BY FindSet
<1>2. r = [q EXCEPT !.d.pend = i, !.d.auto = FALSE]  BY DEF gdb_prepare_breakpoint_resume
<1> HIDE DEF i
<1>3. i \in DOMAIN m.d.bps /\ m.d.bps[i].on  BY <1>1 DEF Find
<1>4. /\ Good(q) /\ Calm(m, q) /\ Bound(m, q) /\ i \in DOMAIN q.d.bps /\ q.d.bps[i].on
  BY <1>3, RestoreGood
<1>5. i \in Nat  BY <1>3, SlotFields, Fields, TableFacts DEF Good
<1> HIDE DEF q
<1>6. Good(r) /\ Calm(q, r) /\ Bound(q, r)  BY <1>2, <1>4, <1>5, PendGood
<1> QED  BY <1>4, <1>6 DEF Calm, Bound

-----------------------------------------------------------------------------
(* Breakpoints set and taken out                                           *)

LEMMA SmallestNat ==
    ASSUME NEW S, S \subseteq Nat, S # {}
    PROVE  \E x \in S : \A y \in S : x <= y
<1>1. IsWellFoundedOn(Less, Nat)  BY NatLessThanWellFounded, Zenon DEF OpToRel, Less
<1>2. PICK m \in S : \A k \in S : <<k, m>> \notin Less  BY <1>1, WFMin, Zenon
<1>3. \A k \in S : ~(k < m)  BY <1>2 DEF Less
<1> QED  BY <1>3

LEMMA SlotChoice ==
    ASSUME NEW b \in Tables, NEW i, i = NextSlot(b), i # 0
    PROVE  /\ i \in Nat /\ DOMAIN b \cup {i} \in {1 .. k : k \in 0 .. MaxBp}
           /\ i \in DOMAIN b => ~b[i].on
<1> DEFINE off == {j \in DOMAIN b : ~b[j].on}
<1>1. MaxBp \in Nat /\ Len(b) \in 0 .. MaxBp /\ DOMAIN b = 1 .. Len(b)
  BY TableFacts, StubConfigOK DEF StubConfigOK
<1>2. CASE off # {}
 <2>1. off \subseteq Nat /\ off # {}  BY <1>1, <1>2
 <2>2. \E x \in off : \A y \in off : x <= y  BY <2>1, SmallestNat
 <2>3. i = CHOOSE x \in off : \A y \in off : x <= y  BY <1>2 DEF NextSlot
 <2>4. i \in off  BY <2>2, <2>3
 <2>5. DOMAIN b \cup {i} = 1 .. Len(b) /\ i \in Nat /\ ~b[i].on  BY <1>1, <2>4
 <2> QED  BY <2>5, <1>1
<1>3. CASE off = {}
 <2>1. i = Len(b) + 1 /\ Len(b) < MaxBp  BY <1>3 DEF NextSlot
 <2>2. DOMAIN b \cup {i} = 1 .. i /\ i \in 0 .. MaxBp /\ i \notin DOMAIN b  BY <1>1, <2>1
 <2> QED  BY <2>2
<1> QED  BY <1>2, <1>3

LEMMA AddGood ==
    ASSUME NEW m, Good(m), NEW a \in Code, ~Armed(m, a), NEW r, r = gdb_add_breakpoint(m, a).m
    PROVE  Good(r) /\ Bound(m, r) /\ r.d.rs = m.d.rs /\ PutStays(m, r)
<1> DEFINE i == NextSlot(m.d.bps)
           b == [addr |-> a, orig |-> m.text[a], on |-> TRUE, ins |-> FALSE]
           t == [j \in DOMAIN m.d.bps \cup {i} |-> IF j = i THEN b ELSE m.d.bps[j]]
           e == [m.d EXCEPT !.bps = t]
           q == [d |-> e, text |-> m.text]
<1>0. m \in Memory /\ m.d.bps \in Tables /\ m.text[a] \in Insn  BY Fields DEF Good
<1>1. CASE Set(m, a) \/ i = 0  BY <1>1, FindSet DEF gdb_add_breakpoint, Bound, PutStays
<1>2. CASE ~Set(m, a) /\ i # 0
 <2>1. r = gdb_insert_breakpoint([m EXCEPT !.d.bps = [j \in DOMAIN @ \cup {i} |-> IF j = i THEN b ELSE @[j]]], i)
   BY <1>2, FindSet DEF gdb_add_breakpoint
 <2>2. [m EXCEPT !.d.bps = [j \in DOMAIN @ \cup {i} |-> IF j = i THEN b ELSE @[j]]] = q
  <3>1. [m EXCEPT !.d.bps = [j \in DOMAIN @ \cup {i} |-> IF j = i THEN b ELSE @[j]]]
          = [m EXCEPT !.d.bps = t]
    OBVIOUS
  <3> HIDE DEF t
  <3>2. [m EXCEPT !.d.bps = t] = q  BY <1>0 DEF Memory, Dbg
  <3> QED  BY <3>1, <3>2
 <2>3. i \in Nat /\ (i \in DOMAIN m.d.bps => ~m.d.bps[i].on)  BY <1>0, <1>2, SlotChoice
 <2>4. PICK k \in 0 .. MaxBp : DOMAIN m.d.bps \cup {i} = 1 .. k  BY <1>0, <1>2, SlotChoice
 <2>5. m.text[a] = "insn"  BY <1>0, <1>2 DEF Good, TextOK, In, Set, Insn
 <2>6. b \in Slots /\ b.addr = a /\ b.orig = "insn" /\ b.on = TRUE /\ b.ins = FALSE
   BY <2>5 DEF Slots, Insn
 <2>7. \A j \in DOMAIN m.d.bps : m.d.bps[j] \in Slots  BY <1>0, SlotFields
 <2> HIDE DEF b, i
 <2>8. t \in [1 .. k -> Slots]  BY <2>4, <2>6, <2>7
 <2>9. t \in Tables  BY <2>8 DEF Tables
 <2>10. DOMAIN t = DOMAIN m.d.bps \cup {i} /\ t[i] = b /\ i \in DOMAIN t
          /\ \A j \in DOMAIN t : j # i => j \in DOMAIN m.d.bps /\ t[j] = m.d.bps[j]
   OBVIOUS
 <2> HIDE DEF t
 <2>11. e \in Dbg /\ e.bps = t /\ e.rs = m.d.rs /\ e.pend = m.d.pend /\ e.ctx = m.d.ctx
           /\ e.bound = m.d.bound
   BY <1>0, <2>9, Fields DEF Dbg
 <2> HIDE DEF e
 <2>12. q \in Memory /\ q.d = e /\ q.text = m.text  BY <1>0, <2>11, Built, Fields
 <2> HIDE DEF q
 <2>13. SlotsOK(q)
  <3>1. \A j \in DOMAIN t : t[j].ins => t[j].on  BY <2>6, <2>10 DEF Good, SlotsOK
  <3>2. \A j \in DOMAIN t : t[j].on => t[j].orig = "insn"  BY <2>6, <2>10 DEF Good, SlotsOK
  <3>3. \A j \in DOMAIN t : j # i => ~(t[j].on /\ t[j].addr = a)  BY <2>10, <1>2 DEF Set
  <3>4. ASSUME NEW j \in DOMAIN t, NEW l \in DOMAIN t, t[j].on, t[l].on, t[j].addr = t[l].addr
        PROVE  j = l
   <4>1. CASE j = i \/ l = i  BY <3>3, <3>4, <4>1, <2>6, <2>10
   <4>2. CASE j # i /\ l # i  BY <3>4, <4>2, <2>10 DEF Good, SlotsOK
   <4> QED  BY <4>1, <4>2
  <3>5. e.pend # 0 => e.pend \in DOMAIN t /\ t[e.pend].on
    BY <2>3, <2>6, <2>10, <2>11 DEF Good, SlotsOK
  <3> QED  BY <3>1, <3>2, <3>4, <3>5, <2>11, <2>12 DEF SlotsOK
 <2>14. \A x : (Set(q, x) <=> Set(m, x) \/ x = a)  BY <2>3, <2>6, <2>10, <2>11, <2>12 DEF Set
 <2>15. \A x : In(q, x) <=> In(m, x)  BY <2>3, <2>6, <2>10, <2>11, <2>12 DEF In, Good, SlotsOK
 <2>16. RangeOK(q)  BY <2>11, <2>12, <2>14 DEF Good, RangeOK, Armed
 <2>17. TextOK(q)  BY <2>11, <2>12, <2>15 DEF Good, TextOK, Armed
 <2>18. Good(q) /\ i \in DOMAIN q.d.bps /\ q.d.bps[i].on
   BY <2>6, <2>10, <2>11, <2>12, <2>13, <2>16, <2>17 DEF Good
 <2>19. r = gdb_insert_breakpoint(q, i)  BY <2>1, <2>2
 <2>20. /\ Good(r) /\ Bound(q, r) /\ r.d.rs = q.d.rs /\ r.d.pend = q.d.pend
        /\ OnlySlot(q, r, i) /\ r.d.bps[i].ins
   BY <2>18, <2>19, InsertGood
 <2>21. /\ r.d.pend = m.d.pend /\ DOMAIN r.d.bps = DOMAIN t
        /\ \A j \in DOMAIN t : j # i => /\ j \in DOMAIN m.d.bps
                                       /\ r.d.bps[j].on = m.d.bps[j].on
                                       /\ r.d.bps[j].addr = m.d.bps[j].addr
                                       /\ r.d.bps[j].ins = m.d.bps[j].ins
   BY <2>10, <2>11, <2>12, <2>20 DEF OnlySlot
 <2>22. m.d.pend # 0 => m.d.pend # i /\ m.d.pend \in DOMAIN t  BY <2>3, <2>10 DEF Good, SlotsOK
 <2>23. PutStays(m, r)  BY <2>20, <2>21, <2>22 DEF PutStays, SlotsPut
 <2> QED  BY <2>11, <2>12, <2>20, <2>23 DEF Bound
<1> QED  BY <1>1, <1>2

LEMMA RemoveGood ==
    ASSUME NEW m, Good(m), NEW a \in Code, NEW r, r = gdb_remove_breakpoint(m, a).m
    PROVE  Good(r) /\ Bound(m, r) /\ PutStays(m, r)
<1>1. CASE ~Set(m, a)  BY <1>1, FindSet DEF gdb_remove_breakpoint, Bound, PutStays
<1>2. CASE Set(m, a)
 <2> DEFINE i == CHOOSE i \in Find(m, a) : TRUE
            q == gdb_restore_breakpoint_byte(m, i)
            s == [q.d.bps[i] EXCEPT !.on = FALSE, !.ins = FALSE]
            t == [q.d.bps EXCEPT ![i] = s]
            au == IF m.d.pend = i THEN FALSE ELSE q.d.auto
            pe == IF q.d.pend = i THEN 0 ELSE q.d.pend
            e == [q.d EXCEPT !.bps = t, !.auto = au, !.pend = pe]
 <2>1. i \in Find(m, a)  BY <1>2, FindSet
 <2>2. r = [q EXCEPT !.d.bps[i] = [@ EXCEPT !.on = FALSE, !.ins = FALSE],
                     !.d.auto = IF m.d.pend = i THEN FALSE ELSE @,
                     !.d.pend = IF @ = i THEN 0 ELSE @]
   BY <1>2, FindSet DEF gdb_remove_breakpoint
 <2> HIDE DEF i
 <2>3. i \in DOMAIN m.d.bps /\ m.d.bps[i].on  BY <2>1 DEF Find
 <2>4. /\ Good(q) /\ Bound(m, q) /\ q.d.pend = m.d.pend /\ q.d.rs = m.d.rs
       /\ DOMAIN q.d.bps = DOMAIN m.d.bps /\ ~q.d.bps[i].ins /\ q.d.bps[i].on
       /\ OnlySlot(m, q, i)
   BY <2>3, RestoreGood
 <2> HIDE DEF q
 <2>5. q \in Memory /\ q.d.auto \in BOOLEAN  BY <2>4 DEF Good, Memory, Dbg
 <2>6. r = [d |-> e, text |-> q.text]  BY <2>2, <2>5 DEF Memory, Dbg
 <2>7. q.d.bps[i] \in Slots /\ i \in DOMAIN q.d.bps  BY <2>3, <2>4, <2>5, SlotFields
 <2>8. s \in Slots /\ s.on = FALSE /\ s.ins = FALSE  BY <2>7 DEF Slots
 <2> HIDE DEF s
 <2>9. t \in Tables  BY <2>5, <2>7, <2>8, Fields, TableKept
 <2>10. DOMAIN t = DOMAIN q.d.bps /\ t[i] = s /\ \A j \in DOMAIN t : j # i => t[j] = q.d.bps[j]
   BY <2>7, <2>5, Fields, TableFacts
 <2> HIDE DEF t
 <2>11. au \in BOOLEAN /\ pe \in Nat  BY <2>5, Fields
 <2> HIDE DEF au
 <2>12. /\ e \in Dbg /\ e.bps = t /\ e.rs = q.d.rs /\ e.pend = pe /\ e.ctx = q.d.ctx
        /\ e.bound = q.d.bound
   BY <2>5, <2>9, <2>11, Fields DEF Dbg
 <2> HIDE DEF e
 <2>13. r \in Memory /\ r.d = e /\ r.text = q.text  BY <2>5, <2>6, <2>12, Built, Fields
 <2>14. SlotsOK(r)
  <3>1. \A j \in DOMAIN t : t[j].ins => t[j].on  BY <2>4, <2>8, <2>10 DEF Good, SlotsOK
  <3>2. \A j \in DOMAIN t : t[j].on => j # i /\ t[j].orig = "insn"
    BY <2>4, <2>8, <2>10 DEF Good, SlotsOK
  <3>3. \A j, l \in DOMAIN t : t[j].on /\ t[l].on /\ t[j].addr = t[l].addr => j = l
    BY <3>2, <2>4, <2>8, <2>10 DEF Good, SlotsOK
  <3>4. e.pend # 0 => e.pend \in DOMAIN t /\ t[e.pend].on  BY <2>4, <2>10, <2>12 DEF Good, SlotsOK
  <3> QED  BY <3>1, <3>2, <3>3, <3>4, <2>12, <2>13 DEF SlotsOK
 <2>15. \A x : (Set(r, x) => Set(q, x)) /\ (In(r, x) <=> In(q, x)) /\ (Armed(r, x) <=> Armed(q, x))
   BY <2>4, <2>8, <2>10, <2>12, <2>13 DEF Set, In, Armed
 <2>16. RangeOK(r) /\ TextOK(r)  BY <2>4, <2>12, <2>13, <2>15 DEF Good, RangeOK, TextOK
 <2>17. /\ r.d.pend = (IF m.d.pend = i THEN 0 ELSE m.d.pend) /\ DOMAIN r.d.bps = DOMAIN m.d.bps
        /\ ~r.d.bps[i].on
        /\ \A j \in DOMAIN m.d.bps : j # i => /\ r.d.bps[j].on = m.d.bps[j].on
                                            /\ r.d.bps[j].addr = m.d.bps[j].addr
                                            /\ r.d.bps[j].ins = m.d.bps[j].ins
   BY <2>4, <2>8, <2>10, <2>12, <2>13 DEF OnlySlot
 <2>18. m.d.pend # 0 => m.d.pend \in DOMAIN m.d.bps  BY DEF Good, SlotsOK
 <2>19. PutStays(m, r)  BY <2>17, <2>18 DEF PutStays, SlotsPut
 <2> QED  BY <2>4, <2>12, <2>13, <2>14, <2>16, <2>19 DEF Good, Bound
<1> QED  BY <1>1, <1>2

-----------------------------------------------------------------------------
(* Traps                                                                   *)

Near(m, r) == r.d.bound = m.d.bound /\ r.d.ctx.pc = m.d.ctx.pc

LEMMA FlagsGood ==
    ASSUME NEW m, Good(m), NEW on \in BOOLEAN, NEW r,
           r \in {SetTf(m, on), SetRunning(m, on), [m EXCEPT !.d.auto = on],
                  [m EXCEPT !.d.connected = on], [m EXCEPT !.d.client = on]}
    PROVE  Good(r) /\ Calm(m, r) /\ Same(m, r) /\ Near(m, r)
<1> DEFINE ctx == [m.d.ctx EXCEPT !.tf = on]
           e1 == [m.d EXCEPT !.ctx = ctx]
           e2 == [m.d EXCEPT !.running = on]
           e3 == [m.d EXCEPT !.auto = on]
           e4 == [m.d EXCEPT !.connected = on]
           e5 == [m.d EXCEPT !.client = on]
           OK(e) == /\ e \in Dbg /\ e.bps = m.d.bps /\ e.rs = m.d.rs /\ e.pend = m.d.pend
                    /\ e.bound = m.d.bound /\ e.ctx.pc = m.d.ctx.pc
<1>1. m \in Memory /\ m.d \in Dbg  BY Fields DEF Good
<1>2. ctx \in [pc : Nat, tf : BOOLEAN, valid : BOOLEAN] /\ ctx.pc = m.d.ctx.pc  BY <1>1 DEF Dbg
<1>3. OK(e1) /\ OK(e2) /\ OK(e3) /\ OK(e4) /\ OK(e5)
 <2> HIDE DEF ctx
 <2> QED  BY <1>1, <1>2 DEF Dbg
<1>4. SetTf(m, on) = [d |-> e1, text |-> m.text]  BY <1>1 DEF SetTf, Memory, Dbg
<1>5. /\ SetRunning(m, on) = [d |-> e2, text |-> m.text]
      /\ [m EXCEPT !.d.auto = on] = [d |-> e3, text |-> m.text]
      /\ [m EXCEPT !.d.connected = on] = [d |-> e4, text |-> m.text]
      /\ [m EXCEPT !.d.client = on] = [d |-> e5, text |-> m.text]
  BY <1>1 DEF SetRunning, Memory, Dbg
<1> HIDE DEF e1, e2, e3, e4, e5
<1>6. \E e : OK(e) /\ r = [d |-> e, text |-> m.text]  BY <1>3, <1>4, <1>5
<1> QED  BY <1>6, FlagsOnly DEF Near

LEMMA EnterGood ==
    ASSUME NEW m, Good(m), NEW f \in Frames, NEW fs, Len(fs) \in Nat, Len(fs) < MaxNest,
           NEW r, r = Enter(m, f, fs)
    PROVE  /\ Good(r) /\ Calm(m, r) /\ Same(m, r)
           /\ r.d.ctx = [pc |-> f.pc, tf |-> f.tf, valid |-> TRUE] /\ r.d.bound = Len(fs) + 1
<1> DEFINE ctx == [pc |-> f.pc, tf |-> f.tf, valid |-> TRUE]
           e == [m.d EXCEPT !.running = FALSE, !.client = TRUE, !.connected = TRUE,
                            !.bound = Len(fs) + 1, !.ctx = ctx]
<1>1. m \in Memory /\ m.d \in Dbg  BY Fields DEF Good
<1>2. ctx \in [pc : Nat, tf : BOOLEAN, valid : BOOLEAN] /\ Len(fs) + 1 \in 1 .. MaxNest
  BY StubConfigOK DEF Frames, StubConfigOK
<1>3. r = [d |-> e, text |-> m.text]  BY <1>1 DEF Enter, Memory, Dbg
<1> HIDE DEF ctx
<1>4. /\ e \in Dbg /\ e.bps = m.d.bps /\ e.rs = m.d.rs /\ e.pend = m.d.pend
      /\ e.bound = Len(fs) + 1 /\ e.ctx = ctx
  BY <1>1, <1>2 DEF Dbg
<1> HIDE DEF e
<1>5. /\ Good(r) /\ Calm(m, r) /\ Same(m, r) /\ r.d.ctx = e.ctx /\ r.d.bound = e.bound
  BY <1>3, <1>4, FlagsOnly
<1> QED  BY <1>4, <1>5 DEF ctx

LEMMA BreakpointTrapGood ==
    ASSUME NEW m, Good(m), NEW a \in Code, a = m.d.ctx.pc - 1, Set(m, a) \/ Armed(m, a),
           NEW r, r = BreakpointTrap(m)
    PROVE  Good(r) /\ r.d.ctx.pc = a /\ r.d.ctx.valid = m.d.ctx.valid /\ r.d.bound = m.d.bound
<1> DEFINE ctx == [m.d.ctx EXCEPT !.pc = a, !.tf = FALSE]
           e == [m.d EXCEPT !.ctx = ctx]
           at == [m EXCEPT !.d.ctx = [@ EXCEPT !.pc = a, !.tf = FALSE]]
<1>1. m \in Memory /\ m.d \in Dbg  BY Fields DEF Good
<1>2. ctx \in [pc : Nat, tf : BOOLEAN, valid : BOOLEAN] /\ ctx.pc = a /\ ctx.valid = m.d.ctx.valid
  BY <1>1, CodeFacts DEF Dbg
<1>3. at = [d |-> e, text |-> m.text]  BY <1>1 DEF Memory, Dbg
<1>4. r = IF RangeEnd(m, a) THEN gdb_consume_range_step_breakpoint(at, a)
          ELSE IF Find(m, a) = {} THEN m
          ELSE gdb_clear_range_step(gdb_prepare_breakpoint_resume(at, a))
  BY DEF BreakpointTrap
<1> HIDE DEF ctx, at
<1>5. /\ e \in Dbg /\ e.bps = m.d.bps /\ e.rs = m.d.rs /\ e.pend = m.d.pend
      /\ e.bound = m.d.bound /\ e.ctx = ctx
  BY <1>1, <1>2 DEF Dbg
<1> HIDE DEF e
<1>6. Good(at) /\ Same(m, at) /\ at.d.ctx = ctx /\ at.d.bound = m.d.bound  BY <1>3, <1>5, FlagsOnly
<1>7. CASE RangeEnd(m, a)
 <2>1. RangeEnd(at, a)  BY <1>6, <1>7 DEF Same, RangeEnd
 <2> QED  BY <2>1, <1>2, <1>4, <1>6, <1>7, ConsumeGood DEF Bound
<1>8. CASE ~RangeEnd(m, a)
 <2> DEFINE q == gdb_prepare_breakpoint_resume(at, a)
 <2>1. Set(m, a) /\ Find(m, a) # {}  BY <1>8, FindSet DEF RangeEnd, Armed
 <2>2. Set(at, a)  BY <2>1, <1>6, SameGood DEF Good
 <2>3. Good(q) /\ Bound(at, q)  BY <2>2, <1>6, PrepareGood
 <2>4. r = gdb_clear_range_step(q)  BY <2>1, <1>4, <1>8
 <2> HIDE DEF q
 <2>5. Good(r) /\ Bound(q, r)  BY <2>3, <2>4, ClearGood
 <2> QED  BY <1>2, <1>6, <2>3, <2>5 DEF Bound
<1> QED  BY <1>7, <1>8

LEMMA CalmTrans ==
    ASSUME NEW m, NEW q, NEW r, Calm(m, q), Calm(q, r)
    PROVE  Calm(m, r)
  BY DEF Calm

LEMMA DebugTrapGood ==
    ASSUME NEW m, Good(m), NEW t, t = DebugTrap(m)
    PROVE  /\ Good(t.m) /\ Near(m, t.m) /\ t.go \in BOOLEAN
           /\ m.d.ctx.pc = Outside => Calm(m, t.m)
           /\ t.m.d.ctx.valid = m.d.ctx.valid
<1> DEFINE p  == IF m.d.pend # 0 THEN gdb_finish_breakpoint_resume(m) ELSE m
           pc == p.d.ctx.pc
           q  == gdb_range_step_should_stop(p, pc)
           s  == gdb_prepare_range_step_resume(p, pc)
<1>1. /\ InRange(p, pc) => t = [go |-> TRUE, m |-> SetRunning(SetTf(s.m, ~s.over), TRUE)]
      /\ ~InRange(p, pc) /\ m.d.pend # 0 /\ m.d.auto
           => t = [go |-> TRUE, m |-> SetRunning(SetTf(q, FALSE), TRUE)]
      /\ ~InRange(p, pc) /\ ~(m.d.pend # 0 /\ m.d.auto) => t = [go |-> FALSE, m |-> q]
  BY DEF DebugTrap
<1>2. Good(p) /\ Calm(m, p) /\ Bound(m, p)  BY FinishGood DEF Calm, Bound
<1> HIDE DEF p
<1>3. Good(q) /\ Calm(p, q) /\ Bound(p, q)  BY <1>2, ShouldStopGood
<1> HIDE DEF q
<1>4. CASE InRange(p, pc)
 <2>1. p.d.rs.active /\ p.d.rs \in Ranges /\ pc < p.d.rs.hi  BY <1>2, <1>4, Fields DEF InRange, Good
 <2>2. Arms(p, s.m) /\ s.over \in BOOLEAN  BY <1>2, <2>1, PrepareRange
 <2>3. pc # Outside
  <3>1. p.d.rs.hi \in Code  BY <2>1, RangeParts
  <3>2. p.d.rs.hi \in Nat /\ Outside \in Nat /\ p.d.rs.hi + 1 < Outside  BY <3>1, CodeFacts
  <3> QED  BY <3>2, <2>1
 <2> HIDE DEF s
 <2> DEFINE u == SetTf(s.m, ~s.over)
            v == SetRunning(u, TRUE)
 <2>4. Good(s.m) /\ Bound(p, s.m)  BY <2>2 DEF Arms
 <2>5. Good(u) /\ Near(s.m, u) /\ u.d.ctx.valid = s.m.d.ctx.valid
  <3>1. Good(u) /\ Near(s.m, u)  BY <2>4, FlagsGood
  <3>2. s.m \in Memory /\ u.d.ctx.valid = s.m.d.ctx.valid  BY <2>4 DEF SetTf, Good, Memory, Dbg
  <3> QED  BY <3>1, <3>2
 <2> HIDE DEF u
 <2>6. Good(v) /\ Near(u, v) /\ v.d.ctx.valid = u.d.ctx.valid
  <3>1. Good(v) /\ Near(u, v)  BY <2>5, FlagsGood
  <3>2. u \in Memory /\ v.d.ctx.valid = u.d.ctx.valid  BY <2>5 DEF SetRunning, Good, Memory, Dbg
  <3> QED  BY <3>1, <3>2
 <2>7. t = [go |-> TRUE, m |-> v]  BY <1>1, <1>4 DEF u
 <2> HIDE DEF v
 <2> QED  BY <1>2, <2>3, <2>4, <2>5, <2>6, <2>7 DEF Near, Bound
<1>5. CASE ~InRange(p, pc) /\ m.d.pend # 0 /\ m.d.auto
 <2> DEFINE u == SetTf(q, FALSE)
            v == SetRunning(u, TRUE)
 <2>1. Good(u) /\ Calm(q, u) /\ Near(q, u) /\ u.d.ctx.valid = q.d.ctx.valid
  <3>1. Good(u) /\ Calm(q, u) /\ Near(q, u)  BY <1>3, FlagsGood
  <3>2. q \in Memory /\ u.d.ctx.valid = q.d.ctx.valid  BY <1>3 DEF SetTf, Good, Memory, Dbg
  <3> QED  BY <3>1, <3>2
 <2> HIDE DEF u
 <2>2. Good(v) /\ Calm(u, v) /\ Near(u, v) /\ v.d.ctx.valid = u.d.ctx.valid
  <3>1. Good(v) /\ Calm(u, v) /\ Near(u, v)  BY <2>1, FlagsGood
  <3>2. u \in Memory /\ v.d.ctx.valid = u.d.ctx.valid  BY <2>1 DEF SetRunning, Good, Memory, Dbg
  <3> QED  BY <3>1, <3>2
 <2>3. t = [go |-> TRUE, m |-> v]  BY <1>1, <1>5 DEF u
 <2> HIDE DEF v
 <2>4. Calm(m, v)  BY <1>2, <1>3, <2>1, <2>2, CalmTrans
 <2> QED  BY <1>2, <1>3, <2>1, <2>2, <2>3, <2>4 DEF Near, Bound
<1>6. CASE ~InRange(p, pc) /\ ~(m.d.pend # 0 /\ m.d.auto)
 <2>1. t = [go |-> FALSE, m |-> q]  BY <1>1, <1>6
 <2>2. Calm(m, q)  BY <1>2, <1>3, CalmTrans
 <2> QED  BY <1>2, <1>3, <2>1, <2>2 DEF Near, Bound
<1> QED  BY <1>4, <1>5, <1>6

\* The frame bound takes the registers; that is the innermost or none
LEMMA CommitOK ==
    ASSUME NEW m, Good(m), NEW fs \in Seq(Frames), Len(fs) <= MaxNest, Len(fs) <= m.d.bound,
           m.d.ctx.valid \/ Stacked(m, fs),
           \A i \in DOMAIN fs : i # m.d.bound /\ fs[i].of = "prog" => fs[i].pc \in Code,
           m.d.bound \in DOMAIN fs /\ fs[m.d.bound].of = "prog" => m.d.ctx.pc \in Code,
           NEW gs, gs = Commit(m, fs)
    PROVE  Stacked(m, gs) /\ Len(gs) = Len(fs)
<1> DEFINE b == m.d.bound
           x == [fs[b] EXCEPT !.pc = m.d.ctx.pc, !.tf = m.d.ctx.tf]
<1>1. m.d.ctx.pc \in Nat /\ m.d.ctx.tf \in BOOLEAN  BY Fields DEF Good
<1>2. CASE m.d.ctx.valid /\ b \in DOMAIN fs
 <2>1. gs = [fs EXCEPT ![b].pc = m.d.ctx.pc, ![b].tf = m.d.ctx.tf]  BY <1>2 DEF Commit
 <2>2. fs[b] \in Frames /\ DOMAIN fs = 1 .. Len(fs) /\ Len(fs) \in Nat
   BY <1>2, LenProperties, ElementOfSeq
 <2>3. gs = [fs EXCEPT ![b] = x]  BY <2>1, <1>2
 <2>4. x \in Frames /\ x.of = fs[b].of /\ x.pc = m.d.ctx.pc  BY <1>1, <2>2 DEF Frames
 <2> HIDE DEF x
 <2>5. gs \in Seq(Frames) /\ Len(gs) = Len(fs) /\ gs[b] = x
          /\ \A i \in DOMAIN gs : i # b => gs[i] = fs[i] /\ i \in DOMAIN fs
   BY <1>2, <2>2, <2>3, <2>4, ExceptSeq
 <2> QED  BY <2>4, <2>5, <1>2 DEF Stacked
<1>3. CASE ~(m.d.ctx.valid /\ b \in DOMAIN fs)
 <2>1. gs = fs  BY <1>3 DEF Commit
 <2>2. CASE m.d.ctx.valid
  <3>1. b \notin DOMAIN fs  BY <1>3, <2>2
  <3> QED  BY <2>1, <3>1 DEF Stacked
 <2> QED  BY <2>1, <2>2
<1> QED  BY <1>2, <1>3

LEMMA CommitStacked ==
    ASSUME NEW m, Good(m), NEW fs, Stacked(m, fs), NEW gs, gs = Commit(m, fs)
    PROVE  Stacked(m, gs) /\ Len(gs) = Len(fs)
<1>1. /\ fs \in Seq(Frames) /\ Len(fs) <= MaxNest /\ Len(fs) <= m.d.bound
      /\ \A i \in DOMAIN fs : i # m.d.bound /\ fs[i].of = "prog" => fs[i].pc \in Code
      /\ m.d.bound \in DOMAIN fs /\ fs[m.d.bound].of = "prog" => m.d.ctx.pc \in Code
  BY DEF Stacked
<1> QED  BY <1>1, CommitOK

LEMMA ReturnOK ==
    ASSUME NEW m, m.d.bound \in Nat, NEW fs, Stacked(m, fs), fs # <<>>, prog \in Progs, Return(fs)
    PROVE  Stacked(m, frames') /\ prog' \in Progs /\ trapped' \in {"no", "stub", "irq"}
<1> DEFINE k == Len(fs)
           f == fs[k]
<1>1. fs \in Seq(Frames) /\ DOMAIN fs = 1 .. k /\ k \in Nat /\ k # 0
  BY LenProperties, EmptySeq DEF Stacked
<1>2. f \in Frames /\ (f.of = "prog" => f.pc \in Code) /\ k \in DOMAIN fs
  BY <1>1, ElementOfSeq DEF Stacked
<1>3. prog' \in Progs /\ trapped' \in {"no", "stub", "irq"}  BY <1>2 DEF Return, Frames, Progs
<1>4. frames' = SubSeq(fs, 1, k - 1)  BY DEF Return
<1>5. /\ frames' \in Seq(Frames) /\ Len(frames') = k - 1
      /\ \A i \in DOMAIN frames' : i \in DOMAIN fs /\ i < k /\ frames'[i] = fs[i]
  BY <1>1, <1>4, SubSeqProperties, LenProperties
<1>6. m.d.bound \notin DOMAIN frames'  BY <1>1, <1>5 DEF Stacked
<1> QED  BY <1>1, <1>3, <1>5, <1>6, StubConfigOK DEF Stacked, StubConfigOK

LEMMA MachineLeft ==
    ASSUME NEW m, Good(m), Left(m), Stacked(m, frames'), prog' \in Progs,
           trapped' \in {"no", "stub", "irq"}
    PROVE  MachineInv' /\ Now' = m
<1>1. Now' = m  BY Fields DEF Now, Left, Good
<1>2. Good(Now') /\ Stacked(Now', frames')  BY <1>1
<1> QED  BY <1>1, <1>2 DEF MachineInv

LEMMA PushOK ==
    ASSUME NEW f \in Frames, NEW fs \in Seq(Frames), Len(fs) < MaxNest,
           \A i \in DOMAIN fs : fs[i].of = "prog" => fs[i].pc \in Code, NEW gs, gs = Append(fs, f)
    PROVE  /\ gs \in Seq(Frames) /\ Len(gs) = Len(fs) + 1 /\ Len(fs) \in Nat /\ Len(gs) <= MaxNest
           /\ Len(gs) \in DOMAIN gs /\ gs[Len(gs)] = f /\ gs # <<>>
           /\ \A i \in DOMAIN gs : i # Len(gs) => i \in DOMAIN fs /\ gs[i] = fs[i]
           /\ \A i \in DOMAIN gs : i # Len(gs) /\ gs[i].of = "prog" => gs[i].pc \in Code
<1>1. fs \in Seq(Frames) /\ Len(fs) \in Nat /\ DOMAIN fs = 1 .. Len(fs)  BY LenProperties
<1>2. /\ gs \in Seq(Frames) /\ Len(gs) = Len(fs) + 1 /\ DOMAIN gs = 1 .. Len(fs) + 1
      /\ gs[Len(fs) + 1] = f /\ \A i \in 1 .. Len(fs) : gs[i] = fs[i]
  BY <1>1, AppendProperties, LenProperties
<1>3. \A i \in DOMAIN gs : i # Len(gs) => i \in DOMAIN fs /\ gs[i] = fs[i]  BY <1>1, <1>2
<1>4. gs # <<>>  BY <1>1, <1>2
<1>5. Len(gs) <= MaxNest  BY <1>1, <1>2, StubConfigOK DEF StubConfigOK
<1> QED  BY <1>1, <1>2, <1>3, <1>4, <1>5

\* What a trap leaves, whoever takes it
Trapped(f) ==
    \E m : /\ Good(m) /\ Left(m) /\ Stacked(m, frames') /\ prog' \in Progs
           /\ trapped' \in {"no", "stub", "irq"} /\ rx' \in {rx, Idle}
           /\ \/ back' = back
              \/ back' = Append(back, "stop") /\ frames' # <<>>
           /\ frames # <<>> => frames' # <<>>
           /\ f.pc = Outside => Calm(Now, m)

LEMMA TrapStep ==
    ASSUME MachineInv, NEW type \in {"breakpoint", "debug", "checkpoint"}, NEW f \in Frames,
           Len(frames) < MaxNest, NEW kept \in {rx, Idle}, Trap(type, f, kept),
           type = "breakpoint" => /\ f.of = "prog" /\ f.pc - 1 \in Code
                                  /\ Set(Now, f.pc - 1) \/ Armed(Now, f.pc - 1),
           type # "breakpoint" /\ f.of = "prog" => f.pc \in Code
    PROVE  Trapped(f)
<1> DEFINE e  == Enter(Now, f, frames)
           fs == Append(frames, f)
           b  == BreakpointTrap(e)
           t  == DebugTrap(e)
<1>1. Good(Now) /\ Stacked(Now, frames) /\ prog \in Progs  BY DEF MachineInv
<1>2. /\ fs \in Seq(Frames) /\ Len(fs) = Len(frames) + 1 /\ Len(frames) \in Nat /\ Len(fs) <= MaxNest
      /\ Len(fs) \in DOMAIN fs /\ fs[Len(fs)] = f /\ fs # <<>>
      /\ \A i \in DOMAIN fs : i # Len(fs) /\ fs[i].of = "prog" => fs[i].pc \in Code
 <2>1. fs = Append(frames, f)  OBVIOUS
 <2> HIDE DEF fs
 <2>2. frames \in Seq(Frames) /\ \A i \in DOMAIN frames : frames[i].of = "prog" => frames[i].pc \in Code
   BY <1>1 DEF Stacked
 <2> QED  BY <2>1, <2>2, PushOK
<1>3. /\ Good(e) /\ Calm(Now, e) /\ Same(Now, e)
      /\ e.d.ctx = [pc |-> f.pc, tf |-> f.tf, valid |-> TRUE] /\ e.d.bound = Len(frames) + 1
  BY <1>1, <1>2, EnterGood
<1>4. e.d.ctx.pc = f.pc /\ e.d.ctx.valid  BY <1>3
<1>5. /\ type = "breakpoint" => Stop(b, Commit(b, fs))
      /\ type = "debug" /\ t.go => Left(t.m) /\ Return(Commit(t.m, fs)) /\ rx' = kept /\ back' = back
      /\ type = "debug" /\ ~t.go => Stop(t.m, fs)
      /\ type = "checkpoint" => Stop(e, fs)
  BY DEF Trap
<1> HIDE DEF e, fs, b, t
<1>s. ASSUME NEW m, NEW gs, Good(m), Stacked(m, gs), Len(gs) = Len(fs), Stop(m, gs),
             f.pc = Outside => Calm(Now, m)
      PROVE  Trapped(f)
 <2>1. gs # <<>>  BY <1>s, <1>2
 <2> QED  BY <1>1, <1>s, <2>1 DEF Stop, Trapped
<1>6. CASE type = "breakpoint"
 <2> DEFINE a == f.pc - 1
 <2>1. a \in Code /\ (Set(e, a) \/ Armed(e, a))  BY <1>1, <1>3, <1>6, SameGood DEF Good
 <2>2. Good(b) /\ b.d.ctx.pc = a /\ b.d.ctx.valid /\ b.d.bound = Len(fs)
   BY <2>1, <1>2, <1>3, <1>4, BreakpointTrapGood DEF b
 <2>3. Stacked(b, Commit(b, fs)) /\ Len(Commit(b, fs)) = Len(fs)
  <3>1. Len(fs) <= b.d.bound /\ b.d.ctx.pc \in Code  BY <1>2, <2>1, <2>2
  <3> HIDE DEF a
  <3> QED  BY <1>2, <2>2, <3>1, CommitOK
 <2>4. f.pc # Outside
  <3>1. a \in Nat /\ Outside \in Nat /\ a + 1 < Outside /\ f.pc \in Nat
    BY <2>1, CodeFacts DEF Frames
  <3> QED  BY <3>1
 <2> QED  BY <1>5, <1>6, <1>s, <2>2, <2>3, <2>4
<1>7. CASE type = "debug"
 <2>1. /\ Good(t.m) /\ Near(e, t.m) /\ t.go \in BOOLEAN
       /\ (f.pc = Outside => Calm(e, t.m)) /\ t.m.d.ctx.valid = e.d.ctx.valid
   BY <1>3, <1>4, DebugTrapGood DEF t
 <2>2. t.m.d.bound = Len(fs) /\ t.m.d.ctx.pc = f.pc /\ t.m.d.ctx.valid
   BY <2>1, <1>2, <1>3, <1>4 DEF Near
 <2>3. f.pc = Outside => Calm(Now, t.m)  BY <2>1, <1>3, CalmTrans
 <2>4. CASE t.go
  <3> DEFINE gs == Commit(t.m, fs)
  <3>1. Stacked(t.m, gs) /\ Len(gs) = Len(fs)
   <4>1. /\ Good(t.m) /\ fs \in Seq(Frames) /\ Len(fs) <= MaxNest /\ Len(fs) <= t.m.d.bound
         /\ t.m.d.ctx.valid
     BY <1>2, <2>1, <2>2
   <4>2. /\ \A i \in DOMAIN fs : i # t.m.d.bound /\ fs[i].of = "prog" => fs[i].pc \in Code
         /\ t.m.d.bound \in DOMAIN fs /\ fs[t.m.d.bound].of = "prog" => t.m.d.ctx.pc \in Code
     BY <1>2, <1>7, <2>2
   <4>3. gs = Commit(t.m, fs)  OBVIOUS
   <4> HIDE DEF gs
   <4> QED  BY <4>1, <4>2, <4>3, CommitOK
  <3>2. Left(t.m) /\ Return(gs) /\ rx' = kept /\ back' = back  BY <1>5, <1>7, <2>4
  <3>3. gs # <<>>  BY <3>1, <1>2
  <3> HIDE DEF gs
  <3>4. Stacked(t.m, frames') /\ prog' \in Progs /\ trapped' \in {"no", "stub", "irq"}
   <4>1. t.m.d.bound \in Nat  BY <2>2, <1>2
   <4> QED  BY <4>1, <1>1, <3>1, <3>2, <3>3, ReturnOK
  <3>5. frames # <<>> => frames' # <<>>
   <4>1. gs \in Seq(Frames) /\ frames' = SubSeq(gs, 1, Len(frames))
     BY <1>2, <3>1, <3>2 DEF Return, Stacked
   <4>2. Len(frames') = Len(frames)  BY <4>1, <3>1, <1>2, SubSeqProperties
   <4>3. frames \in Seq(Frames)  BY <1>1 DEF Stacked
   <4> QED  BY <4>2, <4>3, EmptySeq, LenProperties
  <3> QED  BY <2>1, <2>3, <3>2, <3>4, <3>5 DEF Trapped
 <2>5. CASE ~t.go
  <3>1. Stacked(t.m, fs)  BY <1>2, <1>7, <2>2 DEF Stacked
  <3> QED  BY <1>5, <1>7, <1>s, <2>1, <2>3, <2>5, <3>1
 <2> QED  BY <2>1, <2>4, <2>5
<1>8. CASE type = "checkpoint"
 <2>1. Stacked(e, fs)  BY <1>2, <1>3, <1>4, <1>8 DEF Stacked
 <2> QED  BY <1>3, <1>5, <1>8, <1>s, <2>1
<1> QED  BY <1>6, <1>7, <1>8

-----------------------------------------------------------------------------
(* Commands                                                                *)

\* What every handler leaves
Served(m, c, h) ==
    /\ Good(h.m) /\ h.m.d.bound = m.d.bound /\ h.m.d.ctx.pc \in Code \cup {m.d.ctx.pc}
    /\ h.go \in BOOLEAN /\ h.out \in {<<>>, <<"reply">>}
    /\ h.go => c.op \in Resumes /\ h.out = <<>>
    /\ ~h.go => TidyAt(h.m, c)

LEMMA ReplyServed ==
    ASSUME NEW m, NEW r, Good(r), r.d.bound = m.d.bound, r.d.ctx.pc \in Code \cup {m.d.ctx.pc},
           NEW c, TidyAt(r, c), NEW h, h = Reply(r)
    PROVE  Served(m, c, h)
  BY DEF Reply, Served

LEMMA GoServed ==
    ASSUME NEW m, NEW r, Good(r), Near(m, r), NEW c, c.op \in Resumes, NEW h, h = GoOn(r)
    PROVE  Served(m, c, h)
  BY DEF GoOn, Served, Near

LEMMA SameTidy ==
    ASSUME NEW m, NEW r, Good(m), Good(r), Same(m, r), NEW c, TidyAt(m, c)
    PROVE  TidyAt(r, c)
  BY SameGood DEF TidyAt, Good

LEMMA CmdFacts ==
    ASSUME NEW c \in Cmds
    PROVE  /\ c.a \in Code /\ c.op \in Plain \cup Sited
<1>1. CASE c \in [op : Plain, a : {0}]  BY <1>1, CodeFacts
<1>2. CASE c \in [op : Sited, a : Code]  BY <1>2
<1> QED  BY <1>1, <1>2 DEF Cmds

LEMMA ContinueServed ==
    ASSUME NEW m, Good(m), NEW c, c.op = "c", NEW h, h = gdb_handle_continue(m)
    PROVE  Served(m, c, h)
<1> DEFINE r == gdb_clear_range_step(m)
           q == [r EXCEPT !.d.auto = TRUE]
<1>1. Good(r) /\ Near(m, r)  BY ClearGood DEF Bound, Near
<1>2. h = IF r.d.pend # 0 THEN GoOn(SetTf(q, TRUE)) ELSE GoOn(SetTf(r, FALSE))
  BY DEF gdb_handle_continue
<1> HIDE DEF r
<1>3. Good(q) /\ Near(r, q)  BY <1>1, FlagsGood
<1> HIDE DEF q
<1>4. \A x \in {q, r} : \A on \in BOOLEAN : Good(SetTf(x, on)) /\ Near(m, SetTf(x, on))
  BY <1>1, <1>3, FlagsGood DEF Near
<1>5. c.op \in Resumes  BY DEF Resumes
<1> QED  BY <1>2, <1>4, <1>5, GoServed

LEMMA StepServed ==
    ASSUME NEW m, Good(m), NEW c \in Cmds, c.op \in {"s", "r"}, NEW h, h = gdb_handle_step(m, c)
    PROVE  Served(m, c, h)
<1>1. c.op \in Resumes /\ TidyAt(m, c)  BY DEF Resumes, TidyAt
<1>2. CASE c.op = "s"
 <2> DEFINE r == gdb_clear_range_step(m)
            q == [r EXCEPT !.d.auto = FALSE]
 <2>1. Good(r) /\ Near(m, r)  BY ClearGood DEF Bound, Near
 <2>2. h = GoOn(SetTf(q, TRUE))  BY <1>2 DEF gdb_handle_step
 <2> HIDE DEF r
 <2>3. Good(q) /\ Near(r, q)  BY <2>1, FlagsGood
 <2> HIDE DEF q
 <2>4. Good(SetTf(q, TRUE)) /\ Near(m, SetTf(q, TRUE))  BY <2>1, <2>3, FlagsGood DEF Near
 <2> QED  BY <1>1, <2>2, <2>4, GoServed
<1>3. CASE c.op # "s"
 <2> DEFINE s == gdb_activate_range_step(m, m.d.ctx.pc, m.d.ctx.pc, c.a)
            q == [s.m EXCEPT !.d.auto = FALSE]
 <2>1. Good(s.m) /\ Near(m, s.m) /\ s.over \in BOOLEAN
   BY ActivateRange, CmdFacts, Fields DEF Good, Bound, Near
 <2>2. h = IF c.a <= m.d.ctx.pc THEN Reply(m) ELSE GoOn(SetTf(q, ~s.over))
   BY <1>3 DEF gdb_handle_step
 <2> HIDE DEF s
 <2>3. Good(q) /\ Near(s.m, q)  BY <2>1, FlagsGood
 <2> HIDE DEF q
 <2>4. Good(SetTf(q, ~s.over)) /\ Near(m, SetTf(q, ~s.over))  BY <2>1, <2>3, FlagsGood DEF Near
 <2> QED  BY <1>1, <2>2, <2>4, GoServed, ReplyServed
<1> QED  BY <1>2, <1>3

LEMMA RegisterServed ==
    ASSUME NEW m, Good(m), NEW c \in Cmds, c.op = "P", NEW h,
           h = gdb_handle_write_single_register(m, c)
    PROVE  Served(m, c, h)
<1> DEFINE ctx == [m.d.ctx EXCEPT !.pc = c.a, !.valid = TRUE]
           e == [m.d EXCEPT !.ctx = ctx]
           r == [m EXCEPT !.d.ctx = [@ EXCEPT !.pc = c.a, !.valid = TRUE]]
<1>1. m \in Memory /\ m.d \in Dbg  BY Fields DEF Good
<1>2. ctx \in [pc : Nat, tf : BOOLEAN, valid : BOOLEAN] /\ ctx.pc = c.a /\ c.a \in Code
  BY <1>1, CmdFacts, CodeFacts DEF Dbg
<1>3. r = [d |-> e, text |-> m.text]  BY <1>1 DEF Memory, Dbg
<1> HIDE DEF ctx, r
<1>4. /\ e \in Dbg /\ e.bps = m.d.bps /\ e.rs = m.d.rs /\ e.pend = m.d.pend
      /\ e.bound = m.d.bound /\ e.ctx = ctx
  BY <1>1, <1>2 DEF Dbg
<1> HIDE DEF e
<1>5. Good(r) /\ r.d.ctx = e.ctx /\ r.d.bound = e.bound  BY <1>3, <1>4, FlagsOnly
<1>6. h = Reply(r) /\ TidyAt(r, c)  BY DEF gdb_handle_write_single_register, r, TidyAt
<1> QED  BY <1>2, <1>4, <1>5, <1>6, ReplyServed

LEMMA WriteServed ==
    ASSUME NEW m, Good(m), NEW c \in Cmds, c.op = "M", TidyAt(m, c), NEW h,
           h = gdb_handle_write_memory(m, c)
    PROVE  Served(m, c, h)
<1> DEFINE t == [m.text EXCEPT ![c.a] = "insn"]
           r == [m EXCEPT !.text[c.a] = "insn"]
<1>1. m \in Memory /\ m.d \in Dbg /\ m.text \in [Code -> Insn] /\ c.a \in Code
  BY Fields, CmdFacts DEF Good
<1>2. r = [d |-> m.d, text |-> t] /\ t \in [Code -> Insn]  BY <1>1 DEF Memory, Insn
<1> HIDE DEF t, r
<1>3. r \in Memory /\ r.d = m.d /\ r.text = t  BY <1>1, <1>2, Built
<1>4. \A a : (Set(r, a) <=> Set(m, a)) /\ (In(r, a) <=> In(m, a)) /\ (Armed(r, a) <=> Armed(m, a))
  BY <1>3 DEF Set, In, Armed
<1>5. SlotsOK(r) /\ RangeOK(r) /\ TidyAt(r, c)  BY <1>3, <1>4 DEF Good, SlotsOK, RangeOK, TidyAt
<1>6. ~In(m, c.a) /\ ~Armed(m, c.a)  BY DEF TidyAt, Set, In
<1>7. ASSUME NEW a \in Code  PROVE r.text[a] = IF a = c.a THEN "insn" ELSE m.text[a]
  BY <1>1, <1>3 DEF t
<1>8. TextOK(r)  BY <1>4, <1>6, <1>7 DEF TextOK, Good
<1>9. h = Reply(r)  BY DEF gdb_handle_write_memory, r
<1> QED  BY <1>3, <1>5, <1>8, <1>9, ReplyServed DEF Good

LEMMA BreakpointServed ==
    ASSUME NEW m, Good(m), NEW c \in Cmds, c.op \in {"Z", "z"}, TidyAt(m, c), NEW h,
           h = IF c.op = "Z" THEN gdb_handle_set_breakpoint(m, c) ELSE gdb_handle_remove_breakpoint(m, c)
    PROVE  Served(m, c, h)
<1>1. c.a \in Code  BY CmdFacts
<1>2. CASE c.op = "Z"
 <2> DEFINE r == gdb_add_breakpoint(m, c.a).m
 <2>1. ~Armed(m, c.a)  BY <1>2 DEF TidyAt
 <2>2. Good(r) /\ Bound(m, r) /\ r.d.rs = m.d.rs  BY <1>1, <2>1, AddGood
 <2>3. h = IF c.a \in Low THEN Reply(m) ELSE Reply(r)  BY <1>2 DEF gdb_handle_set_breakpoint
 <2> HIDE DEF r
 <2>4. TidyAt(r, c)  BY <1>2, <2>1, <2>2 DEF TidyAt, Armed
 <2> QED  BY <2>2, <2>3, <2>4, ReplyServed DEF Bound
<1>3. CASE c.op = "z"
 <2> DEFINE r == gdb_remove_breakpoint(m, c.a).m
 <2>1. Good(r) /\ Bound(m, r)  BY <1>1, RemoveGood
 <2>2. h = IF c.a \in Low THEN Reply(m) ELSE Reply(r)  BY <1>3 DEF gdb_handle_remove_breakpoint
 <2> HIDE DEF r
 <2>3. TidyAt(r, c)  BY <1>3 DEF TidyAt
 <2> QED  BY <2>1, <2>2, <2>3, ReplyServed DEF Bound
<1> QED  BY <1>2, <1>3

LEMMA AttachServed ==
    ASSUME NEW m, Good(m), NEW on \in BOOLEAN, NEW c, TidyAt(m, c),
           NEW r, r = [m EXCEPT !.d.connected = on, !.d.client = on]
    PROVE  Good(r) /\ Near(m, r) /\ TidyAt(r, c)
<1> DEFINE e == [m.d EXCEPT !.connected = on, !.client = on]
<1>1. m \in Memory /\ m.d \in Dbg  BY Fields DEF Good
<1>2. r = [d |-> e, text |-> m.text]  BY <1>1 DEF Memory, Dbg
<1>3. /\ e \in Dbg /\ e.bps = m.d.bps /\ e.rs = m.d.rs /\ e.pend = m.d.pend
      /\ e.bound = m.d.bound /\ e.ctx = m.d.ctx
  BY <1>1 DEF Dbg
<1> HIDE DEF e
<1>4. PICK d \in Dbg : /\ r = [d |-> d, text |-> m.text] /\ d.bps = m.d.bps /\ d.rs = m.d.rs
                       /\ d.pend = m.d.pend /\ d.bound = m.d.bound /\ d.ctx = m.d.ctx
  BY <1>2, <1>3
<1>5. r \in Memory /\ r.d = d /\ r.text = m.text  BY <1>1, <1>4, Built, Fields
<1>6. Good(r) /\ Same(m, r)  BY <1>4, <1>5, SameGood DEF Same
<1> QED  BY <1>4, <1>5, <1>6, SameTidy DEF Near

LEMMA CommandServed ==
    ASSUME NEW m, Good(m), NEW c \in Sent, TidyAt(m, c),
           NEW h, h \in {Dispatch(m, c), FirstPacket(m)}
    PROVE  Served(m, c, h)
<1>1. CASE h = FirstPacket(m)
 <2> DEFINE r == [m EXCEPT !.d.connected = TRUE, !.d.client = TRUE]
 <2>1. Good(r) /\ Near(m, r) /\ TidyAt(r, c)  BY AttachServed
 <2>2. h = Reply(r)  BY <1>1 DEF FirstPacket, gdb_handle_query
 <2> HIDE DEF r
 <2> QED  BY <2>1, <2>2, ReplyServed DEF Near
<1>2. CASE h = Dispatch(m, c)
 <2>0. CASE c = NoCmd
  <3>1. c.op = "none" /\ h = Reply(m)  BY <1>2, <2>0 DEF Dispatch, gdb_handle_query, NoCmd
  <3> QED  BY <3>1, ReplyServed
 <2>1. CASE c.op = "D"
  <3> DEFINE r == [m EXCEPT !.d.connected = FALSE, !.d.client = FALSE]
  <3>1. Good(r) /\ Near(m, r) /\ TidyAt(r, c)  BY AttachServed
  <3>2. h = [m |-> r, out |-> <<"reply">>, go |-> FALSE]  BY <1>2, <2>1 DEF Dispatch, Detach
  <3> HIDE DEF r
  <3> QED  BY <3>1, <3>2 DEF Near, Served
 <2>2. CASE c \in Cmds /\ c.op = "c"  BY <1>2, <2>2, ContinueServed DEF Dispatch
 <2>3. CASE c \in Cmds /\ c.op \in {"s", "r"}  BY <1>2, <2>3, StepServed DEF Dispatch
 <2>4. CASE c \in Cmds /\ c.op = "P"  BY <1>2, <2>4, RegisterServed DEF Dispatch
 <2>5. CASE c \in Cmds /\ c.op = "M"  BY <1>2, <2>5, WriteServed DEF Dispatch
 <2>6. CASE c \in Cmds /\ c.op \in {"Z", "z"}  BY <1>2, <2>6, BreakpointServed DEF Dispatch
 <2>7. CASE c.op \in {"x", "q"}
  <3>1. h = Reply(m)  BY <1>2, <2>7 DEF Dispatch, gdb_handle_query, gdb_handle_binary_write_memory
  <3> QED  BY <3>1, ReplyServed
 <2>8. c \in Cmds => c.op \in Plain \cup Sited  BY CmdFacts
 <2> QED  BY <2>0, <2>1, <2>2, <2>3, <2>4, <2>5, <2>6, <2>7, <2>8 DEF Plain, Sited, Sent
<1> QED  BY <1>1, <1>2

-----------------------------------------------------------------------------
(* The line                                                                *)

LEMMA TailFacts ==
    ASSUME NEW S, NEW s \in Seq(S), s # <<>>
    PROVE  /\ Tail(s) \in Seq(S) /\ Head(s) = s[1] /\ 1 \in DOMAIN s /\ s[1] \in S
           /\ DOMAIN s \subseteq Nat \ {0} /\ DOMAIN Tail(s) \subseteq Nat \ {0}
           /\ \A i \in DOMAIN Tail(s) : i + 1 \in DOMAIN s /\ Tail(s)[i] = s[i + 1]
<1>1. /\ Len(s) \in Nat /\ Len(s) # 0 /\ DOMAIN s = 1 .. Len(s)  BY EmptySeq, LenProperties
<1>2. /\ Head(s) = s[1] /\ Tail(s) \in Seq(S) /\ Len(Tail(s)) = Len(s) - 1
      /\ \A i \in 1 .. Len(Tail(s)) : Tail(s)[i] = s[i + 1]
  BY HeadTailProperties, ElementOfSeq
<1>3. DOMAIN Tail(s) = 1 .. Len(s) - 1  BY <1>1, <1>2, LenProperties
<1>4. s[1] \in S  BY <1>1, ElementOfSeq
<1> QED  BY <1>1, <1>2, <1>3, <1>4

LEMMA PushFacts ==
    ASSUME NEW S, NEW s \in Seq(S), NEW x \in S, NEW t, t = Append(s, x)
    PROVE  /\ t \in Seq(S) /\ t # <<>> /\ DOMAIN s \subseteq Nat \ {0} /\ DOMAIN t \subseteq Nat \ {0}
           /\ \A i \in DOMAIN t : (i \in DOMAIN s /\ t[i] = s[i]) \/ (i = Len(s) + 1 /\ t[i] = x)
           /\ \A i \in DOMAIN s : i < Len(s) + 1 /\ i \in DOMAIN t /\ t[i] = s[i]
           /\ Len(s) + 1 \in DOMAIN t /\ t[Len(s) + 1] = x
<1>1. Len(s) \in Nat /\ DOMAIN s = 1 .. Len(s)  BY LenProperties
<1>2. /\ t \in Seq(S) /\ Len(t) = Len(s) + 1 /\ \A i \in 1 .. Len(s) : t[i] = s[i]
      /\ t[Len(s) + 1] = x
  BY AppendProperties
<1>3. DOMAIN t = 1 .. Len(s) + 1  BY <1>1, <1>2, LenProperties
<1>4. t # <<>>  BY <1>1, <1>2
<1> QED  BY <1>1, <1>2, <1>3, <1>4

\* A byte is taken or a 0x03 added, a verdict heard or an answer that is none
LEMMA WireKept ==
    ASSUME WireInv, NEW k \in {0, 1}, NEW l \in {0, 1},
           DOMAIN line' \subseteq Nat \ {0}, DOMAIN back' \subseteq Nat \ {0},
           \A i \in DOMAIN line' : line'[i] = BRK \/ (i + k \in DOMAIN line /\ line'[i] = line[i + k]),
           \A i \in DOMAIN back' : back'[i] \in Verdict => i + l \in DOMAIN back /\ back'[i] = back[i + l],
           rx'.st \in {rx.st, 0}, client' = client \/ client.st # "ack"
    PROVE  WireInv'
<1>0. BRK.t = "^C"  BY DEF BRK, OnLine
<1>1. Judged' => Judged  BY DEF Judged
<1>2. ASSUME NEW i \in DOMAIN line', Opens(i)'
      PROVE  /\ i + k \in DOMAIN line /\ Opens(i + k) /\ line'[i] = line[i + k] /\ client.st = "ack" /\ ~Judged
             /\ client' = client
  BY <1>0, <1>2 DEF Opens, WireInv
<1>3. \A i, j \in DOMAIN line' : Opens(i)' /\ Opens(j)' => i = j  BY <1>2 DEF WireInv
<1>4. \A i \in DOMAIN line' :
         Opens(i)' => /\ client'.st = "ack" /\ ~Judged'
                      /\ \A j \in DOMAIN line' : i < j => Matches(j)'
 <2>1. SUFFICES ASSUME NEW i \in DOMAIN line', Opens(i)', NEW j \in DOMAIN line', i < j,
                       line'[j] # BRK
                PROVE  Matches(j)'
   BY <1>0, <1>1, <1>2 DEF Matches
 <2>2. Matches(j + k) /\ line'[j] = line[j + k]  BY <2>1, <1>2 DEF WireInv
 <2> QED  BY <2>1, <2>2, <1>2 DEF Matches
<1>5. \A i, j \in DOMAIN line' : Opens(j)' /\ i < j /\ line'[i] # BRK => rx'.st = 0
  BY <1>2 DEF WireInv
<1>6. \A i \in DOMAIN line' :
         rx'.st # 0 /\ line'[i] # BRK => client'.st = "ack" /\ ~Judged' /\ Matches(i)'
 <2>1. SUFFICES ASSUME NEW i \in DOMAIN line', rx'.st # 0, line'[i] # BRK
                PROVE  client'.st = "ack" /\ ~Judged' /\ Matches(i)'
   OBVIOUS
 <2>2. client.st = "ack" /\ ~Judged /\ Matches(i + k) /\ line'[i] = line[i + k]  BY <2>1 DEF WireInv
 <2> QED  BY <2>2, <1>1 DEF Matches
<1>7. Judged' => client'.st = "ack" /\ rx'.st = 0 /\ \A i \in DOMAIN line' : ~Opens(i)'
  BY <1>1, <1>2 DEF WireInv
<1>8. \A i, j \in DOMAIN back' : back'[i] \in Verdict /\ back'[j] \in Verdict => i = j
  BY DEF WireInv
<1> QED  BY <1>3, <1>4, <1>5, <1>6, <1>7, <1>8 DEF WireInv

\* No packet is under way, and at most one verdict
LEMMA WireSettled ==
    ASSUME \A i \in DOMAIN line' : ~Opens(i)', rx'.st = 0, Judged' => client'.st = "ack",
           \A i, j \in DOMAIN back' : back'[i] \in Verdict /\ back'[j] \in Verdict => i = j
    PROVE  WireInv'
  BY DEF WireInv

\* The stub has begun the packet
LEMMA WireBegun ==
    ASSUME \A i \in DOMAIN line' : ~Opens(i)' /\ Matches(i)', ~Judged', client'.st = "ack"
    PROVE  WireInv'
  BY DEF WireInv, Judged

\* The byte the stub takes belongs to the command the client waits for
LEMMA WireTaken ==
    ASSUME WireType, WireInv, line # <<>>, line' = Tail(line), Head(line) # BRK,
           rx.st # 0 \/ Head(line).t = "$"
    PROVE  /\ client.st = "ack" /\ ~Judged
           /\ Head(line).t \in {"data", "sum"} => Head(line).c = client.cmd
           /\ \A i \in DOMAIN line' : line'[i].t # "$"
           /\ \A i \in DOMAIN line' : line'[i].t \in {"data", "sum"} => line'[i].c = client.cmd
<1>1. /\ Head(line) = line[1] /\ 1 \in DOMAIN line /\ DOMAIN line' \subseteq Nat \ {0}
      /\ \A i \in DOMAIN line' : i + 1 \in DOMAIN line /\ line'[i] = line[i + 1]
  BY TailFacts DEF WireType
<1>2. client.st = "ack" /\ ~Judged  BY <1>1 DEF WireInv, Opens
<1>3. Head(line).t \in {"data", "sum"} => Head(line).c = client.cmd  BY <1>1 DEF WireInv, Matches
<1>4. \A i \in DOMAIN line' : line'[i].t # "$"  BY <1>1 DEF WireInv, Opens
<1>5. ASSUME NEW i \in DOMAIN line', line'[i].t \in {"data", "sum"}  PROVE line'[i].c = client.cmd
 <2>1. line[i + 1] # BRK  BY <1>1, <1>5 DEF BRK, OnLine
 <2>2. Matches(i + 1)
  <3>1. CASE rx.st # 0  BY <1>1, <2>1, <3>1 DEF WireInv
  <3>2. CASE Head(line).t = "$"
   <4>1. Opens(1) /\ 1 < i + 1  BY <1>1, <3>2 DEF Opens
   <4> QED  BY <4>1, <1>1 DEF WireInv
  <3> QED  BY <3>1, <3>2
 <2> QED  BY <1>1, <1>5, <2>2 DEF Matches
<1> QED  BY <1>2, <1>3, <1>4, <1>5

LEMMA PacketFacts ==
    ASSUME NEW c \in Sent
    PROVE  /\ Packet(c) \in Seq(Chars)
           /\ \A i \in DOMAIN Packet(c) :
                 /\ i \in Nat \ {0} /\ (Packet(c)[i].t = "$" => i = 1)
                 /\ Packet(c)[i].t \in {"data", "sum"} => Packet(c)[i].c = c
<1> DEFINE long  == <<OnLine("$", NoCmd), OnLine("data", c), BRK, OnLine("#", NoCmd),
                      OnLine("sum", c), OnLine("sum", c)>>
           short == <<OnLine("$", NoCmd), OnLine("data", c), OnLine("#", NoCmd),
                      OnLine("sum", c), OnLine("sum", c)>>
<1>1. {OnLine("$", NoCmd), OnLine("data", c), BRK, OnLine("#", NoCmd), OnLine("sum", c)} \subseteq Chars
  BY DEF OnLine, BRK, Chars, Sent
<1>2. Packet(c) \in {long, short}  BY DEF Packet
<1>3. long \in Seq(Chars) /\ short \in Seq(Chars)  BY <1>1
<1>4. \A i \in DOMAIN long : /\ i \in Nat \ {0} /\ (long[i].t = "$" => i = 1)
                             /\ long[i].t \in {"data", "sum"} => long[i].c = c
  BY DEF OnLine, BRK
<1>5. \A i \in DOMAIN short : /\ i \in Nat \ {0} /\ (short[i].t = "$" => i = 1)
                              /\ short[i].t \in {"data", "sum"} => short[i].c = c
  BY DEF OnLine
<1> HIDE DEF long, short
<1> QED  BY <1>2, <1>3, <1>4, <1>5

LEMMA WirePacked ==
    ASSUME line \in Seq(Chars), \A i \in DOMAIN line : ~Opens(i), NEW c \in Sent,
           line' = line \o Packet(c), rx' = rx,
           \A i \in DOMAIN line : rx.st # 0 => line[i] = BRK,
           client'.st = "ack", client'.cmd = c, ~Judged'
    PROVE  WireInv' /\ line' \in Seq(Chars)
<1> DEFINE p == Packet(c)
           k == Len(line)
<1>1. /\ p \in Seq(Chars)
      /\ \A i \in DOMAIN p : /\ i \in Nat \ {0} /\ (p[i].t = "$" => i = 1)
                             /\ p[i].t \in {"data", "sum"} => p[i].c = c
  BY PacketFacts
<1>2. line' = line \o p  OBVIOUS
<1> HIDE DEF p
<1>3. /\ line' \in Seq(Chars) /\ Len(line') = k + Len(p)
      /\ \A i \in 1 .. k + Len(p) : line'[i] = IF i <= k THEN line[i] ELSE p[i - k]
  BY <1>1, <1>2, ConcatProperties
<1>4. k \in Nat /\ Len(p) \in Nat /\ DOMAIN line = 1 .. k /\ DOMAIN p = 1 .. Len(p)
  BY <1>1, LenProperties
<1>5. DOMAIN line' = 1 .. k + Len(p)  BY <1>3, LenProperties
<1>6. \A i \in DOMAIN line' : /\ i \in Nat
                              /\ (i \in DOMAIN line /\ line'[i] = line[i] /\ i <= k)
                                   \/ (i > k /\ i - k \in DOMAIN p /\ line'[i] = p[i - k])
  BY <1>3, <1>4, <1>5
<1>7. \A i \in DOMAIN line' : Opens(i)' => i = k + 1  BY <1>1, <1>4, <1>6 DEF Opens
<1>8. \A i \in DOMAIN line' : i > k => Matches(i)'  BY <1>1, <1>4, <1>6 DEF Matches
<1>9. \A i \in DOMAIN line' : i <= k => (rx.st # 0 => line'[i] = BRK)  BY <1>4, <1>6
<1>10. \A i \in DOMAIN line' : i \in Nat /\ k \in Nat  BY <1>4, <1>6
<1> HIDE DEF k
<1>11. \A i \in DOMAIN line' : rx.st # 0 /\ line'[i] # BRK => Matches(i)'  BY <1>8, <1>9, <1>10
<1>12. \A i, j \in DOMAIN line' : Opens(j)' /\ i < j /\ line'[i] # BRK => rx.st = 0
  BY <1>7, <1>9, <1>10
<1>13. \A i, j \in DOMAIN line' : Opens(i)' /\ i < j => Matches(j)'  BY <1>7, <1>8, <1>10
<1> QED  BY <1>3, <1>7, <1>11, <1>12, <1>13 DEF WireInv, Judged

LEMMA IdleOK == RecvOK(Idle) /\ Idle.st = 0
<1>1. <<>> \in Seq(Chars) /\ <<>> \in Seq(Sent) /\ Len(<<>>) = 0  OBVIOUS
<1> QED  BY <1>1, StubConfigOK DEF RecvOK, Receivers, Idle, StubConfigOK

\* What one byte does to the packet under way
LEMMA ByteTaken ==
    ASSUME NEW r, RecvOK(r), NEW b \in Chars, NEW t, t = TakeByte(r, b)
    PROVE  /\ t.ev \in {"more", "brk", "packet", "error"}
           /\ t.ev = "brk" <=> b = BRK
           /\ t.ev = "more" => RecvOK(t.rx) /\ (t.rx.st # 0 => r.st # 0 \/ b.t = "$")
           /\ t.ev \in {"error", "packet"} => r.st # 0
           /\ t.ev = "packet" => b.t = "sum" /\ t.rx.buf[1].c = b.c
<1> DEFINE P(st, buf, sum, ev) == [rx |-> [st |-> st, buf |-> buf, sum |-> sum], ev |-> ev]
           drop(ev) == [rx |-> Idle, ev |-> ev]
           sums == Append(r.sum, b.c)
           good == Len(r.buf) = 1 /\ \A i \in {1, 2} : sums[i] = r.buf[1].c
<1>1. /\ r.st \in 0 .. 2 /\ r.buf \in Seq(Chars) /\ r.sum \in Seq(Sent) /\ Len(r.buf) \in Nat
      /\ Len(r.sum) \in Nat /\ b.c \in Sent /\ Len(r.buf) <= MaxBuf /\ MaxBuf \in Nat
  BY LenProperties, StubConfigOK DEF RecvOK, Receivers, Chars, StubConfigOK
<1>2. <<>> \in Seq(Chars) /\ <<>> \in Seq(Sent) /\ Len(<<>>) = 0  OBVIOUS
<1>3. CASE b = BRK  BY <1>3 DEF TakeByte
<1>4. CASE b # BRK /\ r.st = 0
 <2>1. t = IF b.t = "$" THEN P(1, <<>>, <<>>, "more") ELSE P(0, r.buf, r.sum, "more")
   BY <1>4 DEF TakeByte
 <2> QED  BY <2>1, <1>1, <1>2, <1>4 DEF RecvOK, Receivers
<1>5. CASE b # BRK /\ r.st = 1
 <2>1. t = IF b.t = "#" THEN P(2, r.buf, <<>>, "more")
           ELSE IF Len(r.buf) < MaxBuf THEN P(1, Append(r.buf, b), <<>>, "more") ELSE drop("error")
   BY <1>5 DEF TakeByte
 <2>2. Append(r.buf, b) \in Seq(Chars) /\ Len(Append(r.buf, b)) = Len(r.buf) + 1
   BY <1>1, AppendProperties
 <2> QED  BY <2>1, <2>2, <1>1, <1>2, <1>5 DEF RecvOK, Receivers
<1>6. CASE b # BRK /\ r.st = 2
 <2>1. t = IF b.t # "sum" THEN drop("error")
           ELSE IF Len(sums) < 2 THEN P(2, r.buf, sums, "more")
           ELSE IF good THEN P(0, r.buf, sums, "packet") ELSE drop("error")
   BY <1>6 DEF TakeByte
 <2>2. /\ sums \in Seq(Sent) /\ Len(sums) = Len(r.sum) + 1 /\ Len(sums) \in Nat
       /\ sums[Len(r.sum) + 1] = b.c
   BY <1>1, AppendProperties
 <2>3. Len(r.sum) <= 1  BY <1>6 DEF RecvOK
 <2> HIDE DEF sums
 <2>4. CASE b.t = "sum" /\ Len(sums) < 2
  <3>1. t = P(2, r.buf, sums, "more") /\ Len(sums) <= 1  BY <2>1, <2>2, <2>4
  <3> QED  BY <3>1, <2>2, <1>1, <1>6 DEF RecvOK, Receivers
 <2>5. CASE b.t = "sum" /\ ~(Len(sums) < 2)
  <3>1. Len(r.sum) + 1 = 2  BY <1>1, <2>2, <2>3, <2>5
  <3>2. good => r.buf[1].c = b.c  BY <3>1, <2>2
  <3> QED  BY <3>2, <2>1, <2>5, <1>6
 <2>6. CASE b.t # "sum"  BY <2>1, <2>6, <1>6
 <2> QED  BY <2>4, <2>5, <2>6
<1> QED  BY <1>1, <1>3, <1>4, <1>5, <1>6

-----------------------------------------------------------------------------
(* The steps of the stub                                                   *)

\* The line moves on, or stays
Moves == line' = line \/ (line # <<>> /\ line' = Tail(line))

LEMMA MovesFacts ==
    ASSUME WireType, Moves
    PROVE  /\ line' \in Seq(Chars) /\ DOMAIN line' \subseteq Nat \ {0}
           /\ \E k \in {0, 1} : \A i \in DOMAIN line' : i + k \in DOMAIN line /\ line'[i] = line[i + k]
<1>1. line \in Seq(Chars)  BY DEF WireType
<1>2. CASE line' = line
 <2>1. DOMAIN line = 1 .. Len(line) /\ Len(line) \in Nat  BY <1>1, LenProperties
 <2>2. \A i \in DOMAIN line' : i + 0 \in DOMAIN line /\ line'[i] = line[i + 0]  BY <1>2, <2>1
 <2> QED  BY <1>1, <1>2, <2>1, <2>2
<1>3. CASE line # <<>> /\ line' = Tail(line)  BY <1>1, <1>3, TailFacts
<1> QED  BY <1>2, <1>3 DEF Moves

LEMMA QuietStep ==
    ASSUME StubInv, MachineInv', TidyInv', Moves, RecvOK(rx'), rx'.st \in {rx.st, 0},
           client' = client, n' = n,
           back' = back \/ (frames' # <<>> /\ \E x \in Final : back' = Append(back, x)),
           frames # <<>> => frames' # <<>>
    PROVE  StubInv'
<1>1. WireType /\ WireInv /\ TurnInv  BY DEF StubInv
<1>2. PICK k \in {0, 1} : \A i \in DOMAIN line' : i + k \in DOMAIN line /\ line'[i] = line[i + k]
  BY <1>1, MovesFacts
<1>3. line' \in Seq(Chars) /\ DOMAIN line' \subseteq Nat \ {0}  BY <1>1, MovesFacts
<1>4. /\ back' \in Seq(Verdict \cup Final) /\ DOMAIN back' \subseteq Nat \ {0}
      /\ \A i \in DOMAIN back' : back'[i] \in Verdict => i \in DOMAIN back /\ back'[i] = back[i]
 <2>1. back \in Seq(Verdict \cup Final)  BY <1>1 DEF WireType
 <2>2. CASE back' = back  BY <2>1, <2>2, LenProperties
 <2>3. CASE \E x \in Final : back' = Append(back, x)
  <3>1. PICK x \in Final : back' = Append(back, x)  BY <2>3
  <3>2. x \in Verdict \cup Final /\ x \notin Verdict  BY DEF Verdict, Final
  <3>3. /\ back' \in Seq(Verdict \cup Final) /\ DOMAIN back' \subseteq Nat \ {0}
        /\ \A i \in DOMAIN back' : (i \in DOMAIN back /\ back'[i] = back[i]) \/ back'[i] = x
    BY <2>1, <3>1, <3>2, PushFacts
  <3> QED  BY <3>2, <3>3
 <2> QED  BY <2>2, <2>3
<1>5. WireType'  BY <1>1, <1>3, <1>4 DEF WireType
<1>6. WireInv'
 <2>2. \A i \in DOMAIN back' : back'[i] \in Verdict => i + 0 \in DOMAIN back /\ back'[i] = back[i + 0]
   BY <1>4
 <2>3. PICK l \in {0, 1} : \A i \in DOMAIN back' : back'[i] \in Verdict => i + l \in DOMAIN back /\ back'[i] = back[i + l]
   BY <2>2
 <2> QED  BY <1>1, <1>2, <1>3, <1>4, <2>3, WireKept
<1>7. TurnInv'  BY <1>1 DEF TurnInv
<1> QED  BY <1>5, <1>6, <1>7 DEF StubInv

LEMMA ReceiverKept ==
    ASSUME StubInv, rx' \in {rx, Idle}
    PROVE  RecvOK(rx') /\ rx'.st \in {rx.st, 0}
  BY IdleOK DEF StubInv, WireType

LEMMA CalmTidy ==
    ASSUME NEW m, NEW r, NEW c, TidyAt(m, c), Calm(m, r)
    PROVE  TidyAt(r, c)
  BY DEF TidyAt, Calm

\* While the target runs, the command under way is one to resume
LEMMA RunningTidy ==
    ASSUME TurnInv, frames = <<>>, client.st = "ack", NEW m
    PROVE  TidyAt(m, client.cmd)
  BY DEF TurnInv, TidyAt, Resumes

LEMMA TrappedInv ==
    ASSUME StubInv, NEW f, Trapped(f), f.pc = Outside \/ frames = <<>>, Moves,
           client' = client, n' = n
    PROVE  StubInv'
<1>1. MachineInv /\ TurnInv /\ TidyInv  BY DEF StubInv
<1>2. PICK m : /\ Good(m) /\ Left(m) /\ Stacked(m, frames') /\ prog' \in Progs
               /\ trapped' \in {"no", "stub", "irq"} /\ rx' \in {rx, Idle}
               /\ \/ back' = back
                  \/ back' = Append(back, "stop") /\ frames' # <<>>
               /\ frames # <<>> => frames' # <<>>
               /\ f.pc = Outside => Calm(Now, m)
  BY DEF Trapped
<1>3. MachineInv' /\ Now' = m  BY <1>2, MachineLeft
<1>4. client.st = "ack" => TidyAt(m, client.cmd)  BY <1>1, <1>2, CalmTidy, RunningTidy DEF TidyInv
<1>5. TidyInv'  BY <1>3, <1>4 DEF TidyInv
<1>6. back' = back \/ (frames' # <<>> /\ \E x \in Final : back' = Append(back, x))
  BY <1>2 DEF Final
<1> QED  BY <1>2, <1>3, <1>5, <1>6, ReceiverKept, QuietStep

\* Nothing of the machine changes
LEMMA StillMachine ==
    ASSUME StubInv, UNCHANGED <<dbg, text, prog, frames>>, trapped' \in {"no", "stub", "irq"}
    PROVE  MachineInv' /\ Now' = Now
  BY DEF StubInv, MachineInv, Now

LEMMA StillInv ==
    ASSUME StubInv, UNCHANGED <<dbg, text, prog, frames, back, client, n>>, rx' \in {rx, Idle},
           trapped' \in {"no", "stub", "irq"}, Moves
    PROVE  StubInv'
<1>1. MachineInv' /\ Now' = Now  BY StillMachine
<1>2. TidyInv'  BY <1>1 DEF StubInv, TidyInv
<1> QED  BY <1>1, <1>2, ReceiverKept, QuietStep

LEMMA ExecuteInv ==
    ASSUME StubInv, Execute
    PROVE  StubInv'
<1> DEFINE pc == prog.pc
<1>1. /\ Good(Now) /\ Stacked(Now, frames) /\ pc \in Code /\ prog.tf \in BOOLEAN /\ prog \in Progs
      /\ MachineInv
  BY DEF StubInv, MachineInv, Progs
<1>2. /\ frames = <<>> /\ trapped = "no" /\ line' = line /\ client' = client /\ n' = n /\ Moves
  BY DEF Execute, Moves
<1>3. Len(frames) < MaxNest  BY <1>2, StubConfigOK DEF StubConfigOK
<1>4. \/ text[pc] = "int3" /\ Trap("breakpoint", Frame("prog", pc + 1, prog.tf), rx)
      \/ \E to \in Flow[pc] :
            \/ Trap("checkpoint", Frame("prog", to, FALSE), rx)
            \/ Trap("debug", Frame("prog", to, TRUE), rx)
            \/ /\ prog' \in {[prog EXCEPT !.pc = to], [prog EXCEPT !.tf = FALSE]}
               /\ trapped' \in {"no", "stub"}
               /\ UNCHANGED <<dbg, text, frames, rx, back>>
  BY <1>2 DEF Execute
<1> HIDE DEF pc
<1>5. ASSUME text[pc] = "int3", Trap("breakpoint", Frame("prog", pc + 1, prog.tf), rx)
      PROVE  StubInv'
 <2> DEFINE f == Frame("prog", pc + 1, prog.tf)
 <2>1. f \in Frames /\ f.of = "prog" /\ f.pc - 1 = pc  BY <1>1, CodeFacts DEF Frame, Frames
 <2>2. Now.text = text  BY DEF Now
 <2>3. Set(Now, pc) \/ Armed(Now, pc)  BY <1>1, <1>5, <2>2 DEF Good, TextOK, Set, In
 <2> HIDE DEF f
 <2>4. Trap("breakpoint", f, rx)  BY <1>5 DEF f
 <2>5. f.pc - 1 \in Code /\ (Set(Now, f.pc - 1) \/ Armed(Now, f.pc - 1))  BY <2>1, <2>3, <1>1
 <2>6. Trapped(f)  BY <1>1, <1>3, <2>1, <2>4, <2>5, TrapStep
 <2> QED  BY <1>2, <2>6, TrappedInv
<1>6. ASSUME NEW to \in Code, NEW type \in {"checkpoint", "debug"}, NEW on \in BOOLEAN,
             Trap(type, Frame("prog", to, on), rx)
      PROVE  StubInv'
 <2> DEFINE f == Frame("prog", to, on)
 <2>1. f \in Frames /\ f.of = "prog" /\ f.pc = to  BY CodeFacts DEF Frame, Frames
 <2> HIDE DEF f
 <2>2. Trap(type, f, rx)  BY <1>6 DEF f
 <2>3. Trapped(f)  BY <1>1, <1>3, <2>1, <2>2, TrapStep
 <2> QED  BY <1>2, <2>3, TrappedInv
<1>7. ASSUME NEW to \in Code, trapped' \in {"no", "stub"},
             prog' \in {[prog EXCEPT !.pc = to], [prog EXCEPT !.tf = FALSE]},
             UNCHANGED <<dbg, text, frames, rx, back>>
      PROVE  StubInv'
 <2>1. prog' \in Progs  BY <1>1, <1>7 DEF Progs
 <2>2. MachineInv' /\ Now' = Now  BY <1>7, <2>1 DEF StubInv, MachineInv, Now
 <2>3. TidyInv'  BY <1>2, <2>2 DEF StubInv, TidyInv
 <2> QED  BY <1>2, <1>7, <2>2, <2>3, ReceiverKept, QuietStep
<1>8. Flow[pc] \subseteq Code  BY <1>1, StubConfigOK DEF StubConfigOK
<1> QED  BY <1>1, <1>4, <1>5, <1>6, <1>7, <1>8

LEMMA OutsideFrame ==
    ASSUME NEW of \in {"stub", "irq"}, NEW on \in BOOLEAN, NEW f, f = Frame(of, Outside, on)
    PROVE  f \in Frames /\ f.of # "prog" /\ f.pc = Outside
  BY CodeFacts DEF Frame, Frames

LEMMA OutsideInv ==
    ASSUME StubInv, NEW of \in {"stub", "irq"}, NEW on \in BOOLEAN, Len(frames) < MaxNest,
           NEW kept \in {rx, Idle}, Trap("debug", Frame(of, Outside, on), kept), Moves,
           client' = client, n' = n
    PROVE  StubInv'
<1>1. PICK f : f = Frame(of, Outside, on)  OBVIOUS
<1>2. f \in Frames /\ f.of # "prog" /\ f.pc = Outside  BY <1>1, OutsideFrame
<1>3. Trap("debug", f, kept)  BY <1>1
<1>4. Trapped(f)  BY <1>2, <1>3, TrapStep DEF StubInv
<1> QED  BY <1>2, <1>4, TrappedInv

LEMMA StepOutsideInv ==
    ASSUME StubInv, StepOutside
    PROVE  StubInv'
<1>1. trapped \in {"stub", "irq"} /\ Len(frames) < MaxNest /\ Moves /\ client' = client /\ n' = n
  BY DEF StepOutside, StubInv, MachineInv, Moves
<1>2. CASE Trap("debug", Frame(trapped, Outside, TRUE), rx)  BY <1>1, <1>2, OutsideInv
<1>3. CASE trapped' = "no" /\ UNCHANGED <<dbg, text, prog, frames, rx, back, fresh>>
  BY <1>1, <1>3, StillInv
<1> QED  BY <1>2, <1>3 DEF StepOutside

LEMMA SerialInterruptInv ==
    ASSUME StubInv, SerialInterrupt
    PROVE  StubInv'
<1>1. Moves /\ client' = client /\ n' = n /\ trapped = "no"  BY DEF SerialInterrupt, Moves
<1>2. CASE Len(frames) < MaxNest /\ Trap("debug", Frame("irq", Outside, FALSE), rx)
  BY <1>1, <1>2, OutsideInv
<1>3. CASE UNCHANGED <<dbg, text, prog, frames, trapped, rx, back, fresh>>  BY <1>1, <1>3, StillInv
<1> QED  BY <1>2, <1>3 DEF SerialInterrupt

LEMMA TimeoutInv ==
    ASSUME StubInv, Timeout
    PROVE  StubInv'
<1>1. /\ UNCHANGED <<dbg, text, prog, frames, back, client, n>> /\ rx' = Idle /\ trapped' = trapped /\ Moves
  BY DEF Timeout, Moves
<1>2. trapped \in {"no", "stub", "irq"}  BY DEF StubInv, MachineInv
<1> QED  BY <1>1, <1>2, StillInv

\* What Receive does, by what the byte completes
LEMMA ReceiveMore ==
    ASSUME StubInv, frames # <<>>, line # <<>>, line' = Tail(line),
           NEW t, t = TakeByte(rx, Head(line)), t.ev = "more", rx' = t.rx,
           UNCHANGED <<dbg, text, prog, frames, trapped, back, client, n>>
    PROVE  StubInv'
<1>1. WireType /\ WireInv /\ Moves /\ trapped' \in {"no", "stub", "irq"}
  BY DEF StubInv, MachineInv, Moves
<1>2. MachineInv' /\ Now' = Now  BY <1>1, StillMachine
<1>3. TidyInv'  BY <1>2 DEF StubInv, TidyInv
<1>4. Head(line) \in Chars /\ RecvOK(rx)  BY <1>1, TailFacts DEF WireType
<1>5. Head(line) # BRK /\ RecvOK(rx') /\ (rx'.st # 0 => rx.st # 0 \/ Head(line).t = "$")
  BY <1>4, ByteTaken
<1>6. CASE rx'.st = 0  BY <1>1, <1>2, <1>3, <1>5, <1>6, QuietStep
<1>7. CASE rx'.st # 0
 <2>1. /\ client.st = "ack" /\ ~Judged
       /\ \A i \in DOMAIN line' : line'[i].t # "$"
       /\ \A i \in DOMAIN line' : line'[i].t \in {"data", "sum"} => line'[i].c = client.cmd
   BY <1>1, <1>5, <1>7, WireTaken
 <2>2. \A i \in DOMAIN line' : ~Opens(i)' /\ Matches(i)'  BY <2>1 DEF Opens, Matches
 <2>3. ~Judged' /\ client'.st = "ack"  BY <2>1 DEF Judged
 <2>4. WireInv'  BY <2>2, <2>3, WireBegun
 <2>5. WireType'  BY <1>1, <1>5, MovesFacts DEF WireType
 <2>6. TurnInv'  BY DEF StubInv, TurnInv
 <2> QED  BY <1>2, <1>3, <2>4, <2>5, <2>6 DEF StubInv
<1> QED  BY <1>6, <1>7

\* A new answer ends the packet: x alone, or what follows it is none
LEMMA AnswerFacts ==
    ASSUME StubInv, ~Judged, NEW x \in Verdict, NEW out \in {<<>>, <<"reply">>},
           back' = back \o <<x>> \o out
    PROVE  /\ back' \in Seq(Verdict \cup Final)
           /\ \A i, j \in DOMAIN back' : back'[i] \in Verdict /\ back'[j] \in Verdict => i = j
           /\ out = <<>> => \A i, j \in DOMAIN back' : i < j => back'[i] \notin Verdict
<1> DEFINE S == Verdict \cup Final
           a == Append(back, x)
<1>1. back \in Seq(S) /\ x \in S /\ "reply" \in S /\ "reply" \notin Verdict
  BY DEF StubInv, WireType, Verdict, Final
<1>2. a = back \o <<x>>  BY <1>1, AppendIsConcat
<1>3. /\ a \in Seq(S) /\ DOMAIN a \subseteq Nat \ {0}
      /\ \A i \in DOMAIN a : (i \in DOMAIN back /\ a[i] = back[i]) \/ i = Len(back) + 1
      /\ Len(back) \in Nat /\ DOMAIN back = 1 .. Len(back)
  BY <1>1, PushFacts, LenProperties
<1>4. \A i \in DOMAIN a : a[i] \in Verdict => i = Len(back) + 1  BY <1>3 DEF Judged
<1>5. \A i \in DOMAIN a : i <= Len(back) + 1  BY <1>3
<1> HIDE DEF a, S
<1>6. CASE out = <<>>
 <2>1. back' = a  BY <1>2, <1>3, <1>6, ConcatEmptySeq
 <2>2. \A i, j \in DOMAIN a : i < j => a[i] \notin Verdict  BY <1>3, <1>4, <1>5
 <2>3. a \in Seq(Verdict \cup Final)  BY <1>3 DEF S
 <2> QED  BY <2>1, <2>2, <2>3, <1>4
<1>7. CASE out = <<"reply">>
 <2>1. back' = Append(a, "reply")  BY <1>1, <1>2, <1>3, <1>7, AppendIsConcat
 <2>2. /\ back' \in Seq(S)
       /\ \A i \in DOMAIN back' : (i \in DOMAIN a /\ back'[i] = a[i]) \/ back'[i] = "reply"
   BY <1>1, <1>3, <2>1, PushFacts
 <2>3. out # <<>>  BY <1>7
 <2> QED  BY <2>2, <2>3, <1>1, <1>4 DEF S
<1> QED  BY <1>6, <1>7

\* The packet under way ends, in an error or with its command
LEMMA Ended ==
    ASSUME StubInv, line # <<>>, line' = Tail(line), client' = client, n' = n, rx' = Idle,
           rx.st # 0, Head(line) # BRK, NEW x \in Verdict, NEW out \in {<<>>, <<"reply">>},
           back' = back \o <<x>> \o out
    PROVE  /\ WireType' /\ WireInv' /\ client.st = "ack"
           /\ Head(line).t = "sum" => Head(line).c = client.cmd
           /\ out = <<>> => \A i, j \in DOMAIN back' : i < j => back'[i] \notin Verdict
<1>1. WireType /\ WireInv /\ Moves  BY DEF StubInv, Moves
<1>2. /\ client.st = "ack" /\ ~Judged
      /\ Head(line).t \in {"data", "sum"} => Head(line).c = client.cmd
      /\ \A i \in DOMAIN line' : line'[i].t # "$"
  BY <1>1, WireTaken
<1>3. /\ back' \in Seq(Verdict \cup Final)
      /\ \A i, j \in DOMAIN back' : back'[i] \in Verdict /\ back'[j] \in Verdict => i = j
      /\ out = <<>> => \A i, j \in DOMAIN back' : i < j => back'[i] \notin Verdict
  BY <1>2, AnswerFacts
<1>4. WireType'  BY <1>1, <1>3, IdleOK, MovesFacts DEF WireType
<1>5. WireInv'  BY <1>2, <1>3, IdleOK, WireSettled DEF Opens
<1> QED  BY <1>2, <1>3, <1>4, <1>5

LEMMA AttachedInv ==
    ASSUME StubInv, NEW on \in BOOLEAN, dbg' = [dbg EXCEPT !.connected = on],
           UNCHANGED <<text, prog, frames, trapped, client>>
    PROVE  MachineInv' /\ TidyInv'
<1> DEFINE r == [Now EXCEPT !.d.connected = on]
<1>1. Good(Now) /\ Stacked(Now, frames) /\ prog \in Progs /\ trapped \in {"no", "stub", "irq"} /\ TidyInv
  BY DEF StubInv, MachineInv
<1>2. Good(r) /\ Calm(Now, r) /\ Near(Now, r)  BY <1>1, FlagsGood
<1>3. r = [d |-> dbg', text |-> text']  BY DEF Now
<1> HIDE DEF r
<1>4. Left(r) /\ Stacked(r, frames')  BY <1>1, <1>2, <1>3 DEF Left, Stacked, Near
<1>5. MachineInv' /\ Now' = r  BY <1>1, <1>2, <1>4, MachineLeft
<1>6. TidyInv'  BY <1>1, <1>2, <1>5, CalmTidy DEF TidyInv
<1> QED  BY <1>5, <1>6

LEMMA ReceiveError ==
    ASSUME StubInv, frames # <<>>, line # <<>>, line' = Tail(line),
           NEW t, t = TakeByte(rx, Head(line)), t.ev = "error", rx' = Idle,
           dbg' = [dbg EXCEPT !.connected = FALSE], back' = Append(back, "nack"),
           UNCHANGED <<text, prog, frames, trapped, client, n>>
    PROVE  StubInv'
<1>1. MachineInv' /\ TidyInv'  BY AttachedInv
<1>2. Head(line) \in Chars /\ RecvOK(rx) /\ back \in Seq(Verdict \cup Final)
  BY TailFacts DEF StubInv, WireType
<1>3. rx.st # 0 /\ Head(line) # BRK  BY <1>2, ByteTaken
<1>4. "nack" \in Verdict  BY DEF Verdict
<1>5. back' = back \o <<"nack">> \o <<>>
 <2>1. back' \in Seq(Verdict \cup Final) /\ back' = back \o <<"nack">>
   BY <1>2, <1>4, AppendIsConcat, AppendProperties
 <2> QED  BY <2>1, ConcatEmptySeq
<1>6. WireType' /\ WireInv'
 <2>1. PICK out \in {<<>>, <<"reply">>} : out = <<>>  OBVIOUS
 <2>2. back' = back \o <<"nack">> \o out  BY <1>5, <2>1
 <2> QED  BY <1>3, <1>4, <2>2, Ended
<1>7. TurnInv'  BY DEF TurnInv
<1> QED  BY <1>1, <1>6, <1>7 DEF StubInv

LEMMA ReceiveCommand ==
    ASSUME StubInv, frames # <<>>, line # <<>>, line' = Tail(line),
           NEW t, t = TakeByte(rx, Head(line)), t.ev = "packet", rx' = Idle,
           NEW c, c = t.rx.buf[1].c,
           NEW h, h \in {Dispatch(Now, c), FirstPacket(Now)},
           NEW e, e = [h.m EXCEPT !.d.running = TRUE],
           back' = back \o <<"ack">> \o h.out,
           \/ h.go /\ Left(e) /\ Return(Commit(e, frames))
           \/ ~h.go /\ Left(h.m) /\ UNCHANGED <<prog, frames, trapped, fresh>>,
           client' = client, n' = n
    PROVE  StubInv'
<1>1. Head(line) \in Chars /\ RecvOK(rx)  BY TailFacts DEF StubInv, WireType
<1>2. rx.st # 0 /\ Head(line) # BRK /\ Head(line).t = "sum" /\ c = Head(line).c  BY <1>1, ByteTaken
<1>3. "ack" \in Verdict  BY DEF Verdict
<1>4. /\ Good(Now) /\ Stacked(Now, frames) /\ prog \in Progs /\ trapped \in {"no", "stub", "irq"}
      /\ TidyInv /\ client.cmd \in Sent
  BY DEF StubInv, MachineInv, WireType
<1>5. client.st = "ack" /\ c = client.cmd
 <2>1. WireType /\ WireInv  BY DEF StubInv
 <2> QED  BY <1>2, <2>1, WireTaken
<1>6. TidyAt(Now, c)  BY <1>4, <1>5 DEF TidyInv
<1>7. Served(Now, c, h)  BY <1>4, <1>5, <1>6, CommandServed
<1>8. /\ Good(h.m) /\ h.m.d.bound = dbg.bound /\ h.m.d.ctx.pc \in Code \cup {dbg.ctx.pc}
      /\ h.go \in BOOLEAN /\ h.out \in {<<>>, <<"reply">>}
      /\ h.go => c.op \in Resumes /\ h.out = <<>>
      /\ ~h.go => TidyAt(h.m, c)
  BY <1>7 DEF Served, Now
<1>9. /\ WireType' /\ WireInv'
      /\ h.out = <<>> => \A i, j \in DOMAIN back' : i < j => back'[i] \notin Verdict
  BY <1>2, <1>3, <1>8, Ended
<1>10. Stacked(h.m, frames)  BY <1>4, <1>8 DEF Stacked, Now
<1>11. CASE ~h.go
 <2>1. MachineInv' /\ Now' = h.m
  <3>1. Left(h.m) /\ Stacked(h.m, frames') /\ prog' \in Progs /\ trapped' \in {"no", "stub", "irq"}
    BY <1>4, <1>10, <1>11
  <3> QED  BY <1>8, <3>1, MachineLeft
 <2>2. TidyInv'  BY <1>5, <1>8, <1>11, <2>1 DEF TidyInv
 <2>3. TurnInv'  BY <1>11 DEF TurnInv
 <2> QED  BY <1>9, <2>1, <2>2, <2>3 DEF StubInv
<1>12. CASE h.go
 <2> DEFINE gs == Commit(e, frames)
 <2>1. Good(e) /\ Near(h.m, e)  BY <1>8, FlagsGood DEF SetRunning
 <2>2. Stacked(e, frames)  BY <1>10, <2>1 DEF Stacked, Near
 <2>3. Stacked(e, gs) /\ Len(gs) = Len(frames)
  <3>1. gs = Commit(e, frames)  OBVIOUS
  <3> HIDE DEF gs
  <3> QED  BY <2>1, <2>2, <3>1, CommitStacked
 <2>4. Left(e) /\ Return(gs)  BY <1>12
 <2> HIDE DEF gs
 <2>5. gs # <<>>  BY <2>2, <2>3, EmptySeq, LenProperties DEF Stacked
 <2>6. e.d.bound \in Nat
  <3>1. e \in Memory  BY <2>1 DEF Good
  <3>2. e.d.bound \in 1 .. MaxNest  BY <3>1, Fields
  <3> QED  BY <3>2
 <2>7. Stacked(e, frames') /\ prog' \in Progs /\ trapped' \in {"no", "stub", "irq"}
   BY <1>4, <2>3, <2>4, <2>5, <2>6, ReturnOK
 <2>8. MachineInv'  BY <2>1, <2>4, <2>7, MachineLeft
 <2>9. TidyInv' /\ c.op \in Resumes  BY <1>5, <1>8, <1>12 DEF TidyInv, TidyAt, Resumes
 <2>10. TurnInv'  BY <1>5, <1>8, <1>9, <1>12, <2>9 DEF TurnInv, Verdict
 <2> QED  BY <1>9, <2>8, <2>9, <2>10 DEF StubInv
<1> QED  BY <1>8, <1>11, <1>12

LEMMA ReceiveInv ==
    ASSUME StubInv, Receive
    PROVE  StubInv'
<1> DEFINE t == TakeByte(rx, Head(line))
           c == t.rx.buf[1].c
           h == IF dbg.connected THEN Dispatch(Now, c) ELSE FirstPacket(Now)
           e == [h.m EXCEPT !.d.running = TRUE]
<1>1. /\ frames # <<>> /\ line # <<>> /\ line' = Tail(line) /\ client' = client /\ n' = n /\ Moves
  BY DEF Receive, InStub, Moves
<1>2. \/ /\ t.ev = "more" /\ rx' = t.rx
         /\ UNCHANGED <<dbg, text, prog, frames, trapped, back, fresh>>
      \/ /\ t.ev = "error" /\ rx' = Idle
         /\ dbg' = [dbg EXCEPT !.connected = FALSE]
         /\ back' = Append(back, "nack")
         /\ UNCHANGED <<text, prog, frames, trapped, fresh>>
      \/ /\ rx' = Idle
         /\ dbg' = [dbg EXCEPT !.connected = TRUE]
         /\ back' = IF dbg.client THEN Append(back, "stop") ELSE back
         /\ UNCHANGED <<text, prog, frames, trapped, fresh>>
      \/ /\ Len(frames) < MaxNest
         /\ Trap("debug", Frame("stub", Outside, FALSE), Idle)
      \/ /\ t.ev = "packet" /\ rx' = Idle
         /\ back' = back \o <<"ack">> \o h.out
         /\ \/ h.go /\ Left(e) /\ Return(Commit(e, frames))
            \/ ~h.go /\ Left(h.m) /\ UNCHANGED <<prog, frames, trapped, fresh>>
  BY DEF Receive
<1>3. h \in {Dispatch(Now, c), FirstPacket(Now)}  OBVIOUS
<1> HIDE DEF t, c, h, e
<1>4. CASE t.ev = "more" /\ rx' = t.rx /\ UNCHANGED <<dbg, text, prog, frames, trapped, back, fresh>>
  BY <1>1, <1>4, ReceiveMore DEF t
<1>5. CASE /\ t.ev = "error" /\ rx' = Idle /\ dbg' = [dbg EXCEPT !.connected = FALSE]
           /\ back' = Append(back, "nack") /\ UNCHANGED <<text, prog, frames, trapped, fresh>>
  BY <1>1, <1>5, ReceiveError DEF t
<1>6. CASE /\ rx' = Idle /\ dbg' = [dbg EXCEPT !.connected = TRUE]
           /\ back' = IF dbg.client THEN Append(back, "stop") ELSE back
           /\ UNCHANGED <<text, prog, frames, trapped, fresh>>
 <2>1. MachineInv' /\ TidyInv'  BY <1>1, <1>6, AttachedInv
 <2>2. back' = back \/ (frames' # <<>> /\ \E x \in Final : back' = Append(back, x))
   BY <1>1, <1>6 DEF Final
 <2> QED  BY <1>1, <1>6, <2>1, <2>2, ReceiverKept, QuietStep
<1>7. CASE Len(frames) < MaxNest /\ Trap("debug", Frame("stub", Outside, FALSE), Idle)
  BY <1>1, <1>7, OutsideInv
<1>8. CASE /\ t.ev = "packet" /\ rx' = Idle
           /\ back' = back \o <<"ack">> \o h.out
           /\ \/ h.go /\ Left(e) /\ Return(Commit(e, frames))
              \/ ~h.go /\ Left(h.m) /\ UNCHANGED <<prog, frames, trapped, fresh>>
 <2>1. t = TakeByte(rx, Head(line)) /\ c = t.rx.buf[1].c /\ e = [h.m EXCEPT !.d.running = TRUE]
   BY DEF t, c, e
 <2> QED  BY <1>1, <1>3, <1>8, <2>1, ReceiveCommand
<1> QED  BY <1>2, <1>4, <1>5, <1>6, <1>7, <1>8

-----------------------------------------------------------------------------
(* The steps of the client                                                 *)

LEMMA ClientStep ==
    ASSUME StubInv, UNCHANGED Stub
    PROVE  /\ MachineInv' /\ Now' = Now /\ RecvOK(rx') /\ rx' = rx
           /\ frames' = frames /\ dbg' = dbg /\ text' = text
<1>1. trapped' \in {"no", "stub", "irq"} /\ UNCHANGED <<dbg, text, prog, frames>> /\ rx' = rx
  BY DEF StubInv, MachineInv, Stub
<1>2. RecvOK(rx)  BY DEF StubInv, WireType
<1> QED  BY <1>1, <1>2, StillMachine

LEMMA SendInv ==
    ASSUME Careful, StubInv, NEW c \in Cmds, Send(c)
    PROVE  StubInv'
<1>1. /\ client.st \in {"idle", "off"} /\ Tidy(c) /\ client' = [st |-> "ack", cmd |-> c]
      /\ line' = line \o Packet(c) /\ n' = [n EXCEPT !.cmds = @ + 1] /\ UNCHANGED Stub /\ back' = back
  BY DEF Send
<1>2. WireType /\ WireInv /\ TurnInv /\ Good(Now)  BY DEF StubInv, MachineInv
<1>3. /\ MachineInv' /\ Now' = Now /\ RecvOK(rx') /\ rx' = rx
      /\ frames' = frames /\ dbg' = dbg /\ text' = text
  BY <1>1, ClientStep
<1>4. client'.st = "ack" /\ client'.cmd = c /\ c \in Sent  BY <1>1 DEF Sent
<1>5. ~Judged /\ ~Judged' /\ \A i \in DOMAIN line : ~Opens(i) /\ (rx.st # 0 => line[i] = BRK)
 <2>1. ~Judged /\ \A i \in DOMAIN line : ~Opens(i) /\ (rx.st # 0 => line[i] = BRK)
   BY <1>1, <1>2 DEF WireInv
 <2> QED  BY <2>1, <1>1 DEF Judged
<1>6. WireInv' /\ line' \in Seq(Chars)  BY <1>1, <1>2, <1>3, <1>4, <1>5, WirePacked DEF WireType
<1>7. WireType'
 <2>1. client' \in [st : States, cmd : Sent]  BY <1>1, <1>4 DEF States
 <2>2. n' \in [cmds : Nat, faults : {0}, breaks : Nat]  BY <1>1, <1>2 DEF WireType
 <2> QED  BY <1>1, <1>2, <1>3, <1>6, <2>1, <2>2 DEF WireType
<1>8. TurnInv'
 <2>1. frames # <<>>  BY <1>1, <1>2 DEF TurnInv
 <2> QED  BY <2>1, <1>3 DEF TurnInv
<1>9. TidyAt(Now, c)
 <2>1. c.a \in Code  BY CmdFacts
 <2>2. c.op = "Z" => ~Armed(Now, c.a)  BY <1>1 DEF Tidy, Armed, Now
 <2>3. c.op = "M" => Now.text[c.a] # "int3" /\ ~Set(Now, c.a)  BY <1>1, FindSet DEF Tidy, Now
 <2>4. c.op = "M" => ~Armed(Now, c.a)  BY <1>2, <2>1, <2>3 DEF Good, TextOK
 <2> QED  BY <2>2, <2>3, <2>4 DEF TidyAt
<1>10. TidyInv'  BY <1>3, <1>4, <1>9 DEF TidyInv
<1> QED  BY <1>3, <1>6, <1>7, <1>8, <1>10 DEF StubInv

LEMMA BreakInv ==
    ASSUME StubInv, Break
    PROVE  StubInv'
<1>1. /\ client.st = "run" /\ line' = Append(line, BRK) /\ n' = [n EXCEPT !.breaks = @ + 1]
      /\ UNCHANGED Stub /\ back' = back /\ client' = client
  BY DEF Break
<1>2. WireType /\ WireInv /\ TurnInv  BY DEF StubInv
<1>3. /\ MachineInv' /\ Now' = Now /\ RecvOK(rx') /\ rx' = rx
      /\ frames' = frames /\ dbg' = dbg /\ text' = text
  BY <1>1, ClientStep
<1>4. BRK \in Chars /\ line \in Seq(Chars) /\ back \in Seq(Verdict \cup Final)
  BY <1>2 DEF WireType, BRK, OnLine, Chars, Sent
<1>5. /\ line' \in Seq(Chars) /\ DOMAIN line' \subseteq Nat \ {0} /\ DOMAIN line \subseteq Nat \ {0}
      /\ \A i \in DOMAIN line' : (i \in DOMAIN line /\ line'[i] = line[i]) \/ line'[i] = BRK
  BY <1>1, <1>4, PushFacts
<1>6. WireInv'
 <2>1. PICK k \in {0, 1} : k = 0  OBVIOUS
 <2>2. \A i \in DOMAIN line' : line'[i] = BRK \/ (i + k \in DOMAIN line /\ line'[i] = line[i + k])
   BY <1>5, <2>1
 <2>3. DOMAIN back' \subseteq Nat \ {0}  BY <1>1, <1>4, LenProperties
 <2>4. \A i \in DOMAIN back' : back'[i] \in Verdict => i + k \in DOMAIN back /\ back'[i] = back[i + k]
   BY <1>1, <2>1, <2>3
 <2> QED  BY <1>1, <1>2, <1>3, <1>5, <2>2, <2>3, <2>4, WireKept
<1>7. n' \in [cmds : Nat, faults : {0}, breaks : Nat]  BY <1>1, <1>2 DEF WireType
<1>8. WireType'  BY <1>1, <1>2, <1>3, <1>5, <1>7 DEF WireType
<1>9. TurnInv'  BY <1>1, <1>2, <1>3 DEF TurnInv
<1>10. TidyInv'  BY <1>1, <1>3 DEF StubInv, TidyInv
<1> QED  BY <1>3, <1>6, <1>8, <1>9, <1>10 DEF StubInv

LEMMA ListenInv ==
    ASSUME StubInv, Listen
    PROVE  StubInv'
<1>1. /\ back # <<>> /\ back' = Tail(back) /\ UNCHANGED Stub /\ n' = n
      /\ \/ /\ Head(back) = "ack" /\ line' = line
            /\ client' = IF client.st # "ack" THEN client
                         ELSE [client EXCEPT !.st = IF client.cmd.op \in Resumes THEN "run" ELSE "reply"]
         \/ /\ Head(back) = "nack" /\ client' = client
            /\ line' = IF client.st = "ack" THEN line \o Packet(client.cmd) ELSE line
         \/ /\ Head(back) = "bad"
         \/ /\ Head(back) \in {"reply", "stop"} /\ line' = line
            /\ client' = IF client.st \in {"reply", "run"} THEN Answered ELSE client
  BY DEF Listen
<1>2. WireType /\ WireInv /\ TurnInv  BY DEF StubInv
<1>3. /\ MachineInv' /\ Now' = Now /\ RecvOK(rx') /\ rx' = rx
      /\ frames' = frames /\ dbg' = dbg /\ text' = text
  BY <1>1, ClientStep
<1>4. /\ back' \in Seq(Verdict \cup Final) /\ Head(back) = back[1] /\ 1 \in DOMAIN back
      /\ back[1] \in Verdict \cup Final
      /\ DOMAIN back \subseteq Nat \ {0} /\ DOMAIN back' \subseteq Nat \ {0}
      /\ \A i \in DOMAIN back' : i + 1 \in DOMAIN back /\ back'[i] = back[i + 1]
  BY <1>1, <1>2, TailFacts DEF WireType
<1>5. line \in Seq(Chars) /\ client \in [st : States, cmd : Sent] /\ client.cmd \in Sent
  BY <1>2 DEF WireType
<1>6. ASSUME Head(back) \in Verdict
      PROVE  /\ client.st = "ack" /\ rx.st = 0 /\ ~Judged'
             /\ \A i \in DOMAIN line : ~Opens(i)
 <2>1. Judged  BY <1>4, <1>6 DEF Judged
 <2>2. ~Judged'  BY <1>2, <1>4, <1>6 DEF Judged, WireInv
 <2> QED  BY <1>2, <2>1, <2>2 DEF WireInv
<1>7. CASE Head(back) = "ack"
 <2>1. Head(back) \in Verdict  BY <1>7 DEF Verdict
 <2>2. /\ line' = line
       /\ client' = [client EXCEPT !.st = IF client.cmd.op \in Resumes THEN "run" ELSE "reply"]
   BY <1>1, <1>6, <1>7, <2>1
 <2>3. WireInv'
  <3>1. \A i \in DOMAIN line' : ~Opens(i)'  BY <1>6, <2>1, <2>2 DEF Opens
  <3> QED  BY <3>1, <1>3, <1>6, <2>1, WireSettled DEF Judged
 <2>4. client' \in [st : States, cmd : Sent]  BY <1>5, <2>2 DEF States
 <2>5. WireType'  BY <1>1, <1>2, <1>3, <1>4, <2>2, <2>4 DEF WireType
 <2>6. TurnInv'
  <3>1. client'.st = IF client.cmd.op \in Resumes THEN "run" ELSE "reply"  BY <1>5, <2>2
  <3>2. CASE client.cmd.op \notin Resumes  BY <1>2, <1>3, <1>6, <2>1, <3>2 DEF TurnInv
  <3>3. CASE client.cmd.op \in Resumes
   <4>1. ASSUME NEW i \in DOMAIN back', back'[i] \in Final  PROVE frames # <<>>
    <5>1. i + 1 \in DOMAIN back /\ 1 < i + 1 /\ back[i + 1] \in Final /\ back[1] = "ack"
      BY <1>4, <1>7, <4>1
    <5> QED  BY <5>1, <1>2, <1>4, <1>6, <2>1 DEF TurnInv
   <4> QED  BY <4>1, <3>1, <3>3, <1>3 DEF TurnInv
  <3> QED  BY <3>2, <3>3
 <2>7. TidyInv'  BY <1>5, <2>2 DEF TidyInv
 <2> QED  BY <1>3, <2>3, <2>5, <2>6, <2>7 DEF StubInv
<1>8. CASE Head(back) = "nack"
 <2>1. Head(back) \in Verdict  BY <1>8 DEF Verdict
 <2>2. client' = client /\ client.st = "ack" /\ line' = line \o Packet(client.cmd)
   BY <1>1, <1>6, <1>8, <2>1
 <2>3. WireInv' /\ line' \in Seq(Chars)  BY <1>3, <1>5, <1>6, <2>1, <2>2, WirePacked
 <2>4. WireType'  BY <1>1, <1>2, <1>3, <1>4, <2>2, <2>3 DEF WireType
 <2>5. TurnInv'
  <3>1. ASSUME NEW i \in DOMAIN back', NEW j \in DOMAIN back', i < j, back'[i] = "ack", back'[j] \in Final
        PROVE  frames # <<>>
   <4>1. i + 1 \in DOMAIN back /\ j + 1 \in DOMAIN back /\ i + 1 < j + 1
         /\ back[i + 1] = "ack" /\ back[j + 1] \in Final
     BY <1>4, <3>1
   <4> QED  BY <4>1, <1>2, <2>2 DEF TurnInv
  <3> QED  BY <3>1, <1>2, <1>3, <2>2 DEF TurnInv
 <2>6. TidyInv'  BY <1>3, <2>2 DEF StubInv, TidyInv
 <2> QED  BY <1>3, <2>3, <2>4, <2>5, <2>6 DEF StubInv
<1>9. CASE Head(back) \in {"reply", "stop"}
 <2>1. line' = line /\ client' = IF client.st \in {"reply", "run"} THEN Answered ELSE client
   BY <1>1, <1>9
 <2>2. client' = client \/ client.st # "ack"  BY <2>1
 <2>3. /\ client' \in [st : States, cmd : Sent]
       /\ client.st \in {"reply", "run"} => client'.st \in {"idle", "off"}
   BY <1>5, <2>1 DEF Answered, States
 <2>4. WireInv'
  <3>1. PICK k \in {0, 1}, l \in {0, 1} : k = 0 /\ l = 1  OBVIOUS
  <3>2. DOMAIN line' \subseteq Nat \ {0}  BY <1>5, <2>1, LenProperties
  <3>3. \A i \in DOMAIN line' : line'[i] = BRK \/ (i + k \in DOMAIN line /\ line'[i] = line[i + k])
    BY <2>1, <3>1, <3>2
  <3>4. \A i \in DOMAIN back' : back'[i] \in Verdict => i + l \in DOMAIN back /\ back'[i] = back[i + l]
    BY <1>4, <3>1
  <3> QED  BY <1>2, <1>3, <1>4, <2>2, <3>2, <3>3, <3>4, WireKept
 <2>5. WireType'  BY <1>1, <1>2, <1>3, <1>4, <2>1, <2>3 DEF WireType
 <2>6. TurnInv'
  <3>1. CASE client.st \in {"reply", "run"}
   <4>1. frames # <<>>  BY <1>2, <1>4, <1>9, <3>1 DEF TurnInv, Final
   <4> QED  BY <4>1, <1>3 DEF TurnInv
  <3>2. CASE client.st \notin {"reply", "run"}
   <4>1. client' = client  BY <2>1, <3>2
   <4>2. ASSUME NEW i \in DOMAIN back', NEW j \in DOMAIN back', i < j, back'[i] = "ack", back'[j] \in Final,
                client.st = "ack"
         PROVE  frames # <<>>
    <5>1. i + 1 \in DOMAIN back /\ j + 1 \in DOMAIN back /\ i + 1 < j + 1
          /\ back[i + 1] = "ack" /\ back[j + 1] \in Final
      BY <1>4, <4>2
    <5> QED  BY <5>1, <1>2, <4>2 DEF TurnInv
   <4> QED  BY <4>1, <4>2, <1>2, <1>3, <3>2 DEF TurnInv
  <3> QED  BY <3>1, <3>2
 <2>7. TidyInv'  BY <1>3, <2>1, <2>3 DEF StubInv, TidyInv
 <2> QED  BY <1>3, <2>4, <2>5, <2>6, <2>7 DEF StubInv
<1>10. Head(back) \in {"ack", "nack", "reply", "stop"}  BY <1>4 DEF Verdict, Final
<1> QED  BY <1>7, <1>8, <1>9, <1>10

LEMMA SilenceInv ==
    ASSUME StubInv, Silence
    PROVE  StubInv'
<1>1. /\ line = <<>> /\ back = <<>> /\ back' = back /\ UNCHANGED Stub
      /\ \/ /\ client.st = "ack" /\ line' = Packet(client.cmd) /\ client' = client
            /\ n' = [n EXCEPT !.cmds = @ + 1]
         \/ /\ client.st \in {"ack", "reply"} /\ line' = line /\ n' = n
            /\ client' = IF client.cmd.op \in Resumes THEN [client EXCEPT !.st = "run"] ELSE Answered
  BY DEF Silence
<1>2. WireType /\ WireInv /\ TurnInv  BY DEF StubInv
<1>3. /\ MachineInv' /\ Now' = Now /\ RecvOK(rx') /\ rx' = rx
      /\ frames' = frames /\ dbg' = dbg /\ text' = text
  BY <1>1, ClientStep
<1>4. /\ line \in Seq(Chars) /\ client \in [st : States, cmd : Sent] /\ client.cmd \in Sent
      /\ n \in [cmds : Nat, faults : {0}, breaks : Nat]
  BY <1>2 DEF WireType
<1>5. DOMAIN line = {} /\ DOMAIN back = {}  BY <1>1
<1>6. ~Judged'  BY <1>1, <1>5 DEF Judged
<1>7. CASE client.st = "ack" /\ line' = Packet(client.cmd) /\ client' = client /\ n' = [n EXCEPT !.cmds = @ + 1]
 <2>1. line' = line \o Packet(client.cmd)  BY <1>1, <1>4, <1>7, PacketFacts, ConcatEmptySeq
 <2>2. WireInv' /\ line' \in Seq(Chars)  BY <1>3, <1>4, <1>5, <1>6, <1>7, <2>1, WirePacked
 <2>3. n' \in [cmds : Nat, faults : {0}, breaks : Nat]  BY <1>4, <1>7
 <2>4. WireType'  BY <1>1, <1>2, <1>3, <1>7, <2>2, <2>3 DEF WireType
 <2>5. TurnInv'  BY <1>1, <1>2, <1>3, <1>7 DEF TurnInv
 <2>6. TidyInv'  BY <1>3, <1>7 DEF StubInv, TidyInv
 <2> QED  BY <1>3, <2>2, <2>4, <2>5, <2>6 DEF StubInv
<1>8. CASE /\ client.st \in {"ack", "reply"} /\ line' = line /\ n' = n
           /\ client' = IF client.cmd.op \in Resumes THEN [client EXCEPT !.st = "run"] ELSE Answered
 <2>1. /\ client' \in [st : States, cmd : Sent] /\ client'.st \in {"run", "idle", "off"}
       /\ client.cmd.op \in Resumes <=> client'.st = "run"
   BY <1>4, <1>8 DEF Answered, States
 <2>2. WireInv'  BY <1>5, <1>6, <1>8 DEF WireInv, Judged
 <2>3. WireType'  BY <1>1, <1>2, <1>3, <1>8, <2>1 DEF WireType
 <2>4. TurnInv'
  <3>1. client'.st # "run" => frames # <<>>  BY <1>2, <1>8, <2>1 DEF TurnInv
  <3>2. DOMAIN back' = {}  BY <1>1, <1>5
  <3> QED  BY <3>1, <3>2, <1>3, <2>1 DEF TurnInv
 <2>5. TidyInv'  BY <2>1 DEF TidyInv
 <2> QED  BY <1>3, <2>2, <2>3, <2>4, <2>5 DEF StubInv
<1> QED  BY <1>1, <1>7, <1>8

-----------------------------------------------------------------------------
(* The invariant, and what follows from it                                 *)

LEMMA Single ==
    ASSUME NEW S, NEW x \in S
    PROVE  <<x>> = Append(<<>>, x)
<1>1. <<>> \in Seq(S) /\ <<x>> \in Seq(S)  OBVIOUS
<1>2. Append(<<>>, x) = <<>> \o <<x>>  BY <1>1, AppendIsConcat
<1>3. <<>> \o <<x>> = <<x>>  BY <1>1, ConcatEmptySeq
<1> QED  BY <1>2, <1>3, Zenon

LEMMA OneFrame ==
    ASSUME NEW f \in Frames, NEW fs, fs = Append(<<>>, f)
    PROVE  fs \in Seq(Frames) /\ Len(fs) = 1 /\ fs # <<>> /\ DOMAIN fs = {1} /\ fs[1] = f
<1>1. <<>> \in Seq(Frames) /\ Len(<<>>) = 0  OBVIOUS
<1>2. fs \in Seq(Frames) /\ Len(fs) = 1 /\ fs[1] = f  BY <1>1, AppendProperties
<1>3. DOMAIN fs = 1 .. 1  BY <1>2, LenProperties
<1>4. fs # <<>>  BY <1>1, <1>2
<1> QED  BY <1>2, <1>3, <1>4

LEMMA FirstFrame ==
    ASSUME NEW fs, fs = <<Frame("prog", 0, FALSE)>>
    PROVE  fs \in Seq(Frames) /\ Len(fs) = 1 /\ fs # <<>> /\ DOMAIN fs = {1} /\ fs[1].pc = 0
<1> DEFINE f == Frame("prog", 0, FALSE)
<1>1. f \in Frames /\ f.pc = 0  BY DEF Frame, Frames
<1>2. fs = Append(<<>>, f)  BY <1>1, Single, Zenon
<1> HIDE DEF f
<1>3. fs \in Seq(Frames) /\ Len(fs) = 1 /\ fs # <<>> /\ DOMAIN fs = {1} /\ fs[1] = f
  BY <1>1, <1>2, OneFrame, Zenon
<1> QED  BY <1>1, <1>3, Zenon

LEMMA StubStarts ==
    ASSUME StubInit
    PROVE  StubInv
<1> USE DEF StubInit
<1>1. MaxNest \in Nat /\ MaxNest > 0 /\ MaxBp \in Nat /\ MaxBuf \in Nat /\ 0 \in Code /\ 0 \in Nat
  BY StubConfigOK, CodeFacts DEF StubConfigOK
<1>2. <<>> \in Tables /\ DOMAIN <<>> = {}
 <2>1. <<>> \in [1 .. 0 -> Slots]  OBVIOUS
 <2>2. 0 \in 0 .. MaxBp  BY <1>1
 <2> QED  BY <2>1, <2>2 DEF Tables
<1>3. dbg \in Dbg  BY <1>1, <1>2, NoRangeType DEF Dbg
<1>4. text \in [Code -> Insn]  BY DEF Insn
<1>5. Now \in Memory  BY <1>3, <1>4 DEF Now, Memory
<1>6. Good(Now)
 <2>1. Now.d = dbg /\ Now.text = text /\ dbg.bps = <<>> /\ dbg.pend = 0 /\ dbg.rs = NoRange
   BY DEF Now
 <2> QED  BY <1>2, <1>5, <2>1, NoRangeType DEF Good, SlotsOK, RangeOK, TextOK, In, Armed
<1>7. frames \in Seq(Frames) /\ Len(frames) = 1 /\ frames # <<>> /\ DOMAIN frames = {1} /\ frames[1].pc = 0
 <2>1. frames = <<Frame("prog", 0, FALSE)>>  OBVIOUS
 <2> QED  BY <2>1, FirstFrame
<1>8. Stacked(Now, frames)
 <2>1. Now.d.bound = 1 /\ Now.d.ctx.pc = 0  BY DEF Now
 <2>2. \A i \in DOMAIN frames : frames[i].pc \in Code  BY <1>1, <1>7
 <2>3. Len(frames) <= MaxNest /\ Len(frames) <= Now.d.bound  BY <1>1, <1>7, <2>1
 <2> HIDE DEF StubInit
 <2> QED  BY <1>1, <1>7, <2>1, <2>2, <2>3 DEF Stacked
<1>9. MachineInv  BY <1>1, <1>6, <1>8 DEF MachineInv, Progs
<1>10. line = <<>> /\ DOMAIN line = {} /\ back = <<"stop">> /\ DOMAIN back = {1} /\ back[1] = "stop"
  OBVIOUS
<1>11. WireType
 <2>1. "stop" \in Verdict \cup Final /\ NoCmd \in Sent /\ "run" \in States
   BY DEF Final, Sent, States
 <2>2. line \in Seq(Chars) /\ back \in Seq(Verdict \cup Final)  BY <1>10, <2>1
 <2> QED  BY <2>1, <2>2, IdleOK DEF WireType
<1>12. WireInv  BY <1>10 DEF WireInv, Judged, Verdict
<1>13. TurnInv /\ TidyInv  BY <1>7 DEF TurnInv, TidyInv
<1> QED  BY <1>9, <1>11, <1>12, <1>13 DEF StubInv

LEMMA StubSteps ==
    ASSUME Careful, StubInv, [StubNext]_stubVars, ~Damage
    PROVE  StubInv'
<1>1. CASE Execute  BY <1>1, ExecuteInv
<1>2. CASE StepOutside  BY <1>2, StepOutsideInv
<1>3. CASE SerialInterrupt  BY <1>3, SerialInterruptInv
<1>4. CASE Receive  BY <1>4, ReceiveInv
<1>5. CASE Timeout  BY <1>5, TimeoutInv
<1>6. CASE \E c \in Cmds : Send(c)  BY <1>6, SendInv
<1>7. CASE Break  BY <1>7, BreakInv
<1>8. CASE Listen  BY <1>8, ListenInv
<1>9. CASE Silence  BY <1>9, SilenceInv
<1>10. CASE UNCHANGED stubVars
  BY <1>10 DEF stubVars, StubInv, MachineInv, Now, WireType, WireInv, Opens, Matches, Judged, TurnInv, TidyInv
<1> QED  BY <1>1, <1>2, <1>3, <1>4, <1>5, <1>6, <1>7, <1>8, <1>9, <1>10 DEF StubNext, Stubs

LEMMA StubTyped ==
    ASSUME StubInv
    PROVE  StubTypeOK
<1>1. Good(Now) /\ Stacked(Now, frames) /\ prog \in Progs /\ WireType  BY DEF StubInv, MachineInv
<1>2. Now.d = dbg /\ Now.text = text /\ Now \in Memory  BY <1>1 DEF Now, Good
<1>3. dbg.bps \in Tables /\ text \in [Code -> Insn] /\ dbg.bound \in 1 .. MaxNest  BY <1>2, Fields
<1>4. Len(dbg.bps) <= MaxBp  BY <1>3, TableFacts
<1>5. dbg.pend \in {0} \cup DOMAIN dbg.bps  BY <1>1, <1>2 DEF Good, SlotsOK
<1>6. Len(frames) \in 0 .. MaxNest  BY <1>1, LenProperties, StubConfigOK DEF Stacked, StubConfigOK
<1>7. prog.pc \in Code  BY <1>1 DEF Progs
<1>8. rx.st \in 0 .. 2 /\ Len(rx.buf) <= MaxBuf /\ client.st \in States
  BY <1>1 DEF WireType, RecvOK, Receivers
<1> QED  BY <1>3, <1>4, <1>5, <1>6, <1>7, <1>8 DEF StubTypeOK, Insn, States

LEMMA StubOwned ==
    ASSUME StubInv
    PROVE  OneOwner
<1> DEFINE own(a) == {i \in DOMAIN dbg.bps : dbg.bps[i].addr = a /\ dbg.bps[i].on /\ dbg.bps[i].ins}
<1>1. Good(Now) /\ Now.d = dbg /\ Now.text = text  BY DEF StubInv, MachineInv, Now
<1>2. ASSUME NEW a \in Code
      PROVE  /\ text[a] = "int3" <=> (own(a) # {} \/ (dbg.rs.armed /\ dbg.rs.at = a))
             /\ Cardinality(own(a)) <= 1
             /\ own(a) # {} => ~(dbg.rs.armed /\ dbg.rs.at = a)
             /\ \A i \in own(a) : dbg.bps[i].orig = "insn"
             /\ dbg.rs.armed => dbg.rs.orig = "insn"
 <2>1. own(a) # {} <=> In(Now, a)  BY <1>1 DEF In
 <2>2. text[a] = "int3" <=> (own(a) # {} \/ (dbg.rs.armed /\ dbg.rs.at = a))
   BY <1>1, <2>1 DEF Good, TextOK, Armed
 <2>3. \A i, j \in own(a) : i = j  BY <1>1 DEF Good, SlotsOK
 <2>4. Cardinality(own(a)) <= 1
  <3>1. CASE own(a) = {}  BY <3>1, FS_EmptySet
  <3>2. CASE own(a) # {}
   <4>1. PICK i : own(a) = {i}  BY <2>3, <3>2
   <4>2. Cardinality({i}) = 1  BY FS_Singleton
   <4> HIDE DEF own
   <4> QED  BY <4>1, <4>2
  <3> QED  BY <3>1, <3>2
 <2>5. own(a) # {} => ~(dbg.rs.armed /\ dbg.rs.at = a)  BY <1>1, <2>1 DEF Good, RangeOK, In, Set
 <2>6. \A i \in own(a) : dbg.bps[i].orig = "insn"  BY <1>1 DEF Good, SlotsOK
 <2>7. dbg.rs.armed => dbg.rs.orig = "insn"  BY <1>1 DEF Good, RangeOK
 <2> QED  BY <2>2, <2>4, <2>5, <2>6, <2>7
<1> QED  BY <1>2 DEF OneOwner

\* Until the line damages something the invariant holds
Counters == [cmds : Nat, faults : Nat, breaks : Nat]
Undamaged ==
    /\ n \in Counters /\ n.faults <= MaxFaults
    /\ n.faults = 0 => StubInv

LEMMA CountSteps ==
    ASSUME n \in Counters, n.faults <= MaxFaults, [StubNext]_stubVars
    PROVE  /\ n' \in Counters /\ n'.faults <= MaxFaults
           /\ n'.faults = 0 => n.faults = 0 /\ ~Damage
<1>1. n.faults \in Nat /\ n.cmds \in Nat /\ n.breaks \in Nat /\ MaxFaults \in Nat
  BY StubConfigOK DEF Counters, StubConfigOK
<1>2. CASE Damage
 <2>1. n' = [n EXCEPT !.faults = @ + 1] /\ n.faults < MaxFaults  BY <1>2 DEF Damage
 <2>2. n' \in Counters /\ n'.faults = n.faults + 1  BY <1>1, <2>1 DEF Counters
 <2> QED  BY <1>1, <2>1, <2>2
<1>3. CASE ~Damage
 <2>1. n' \in {n, [n EXCEPT !.cmds = @ + 1], [n EXCEPT !.breaks = @ + 1]}
  <3>1. CASE Stubs  BY <3>1 DEF Stubs, Execute, StepOutside, SerialInterrupt, Receive, Timeout
  <3>2. CASE UNCHANGED stubVars  BY <3>2 DEF stubVars
  <3>3. CASE (\E c \in Cmds : Send(c)) \/ Break \/ Listen \/ Silence
    BY <3>3 DEF Send, Break, Listen, Silence
  <3> QED  BY <1>3, <3>1, <3>2, <3>3 DEF StubNext
 <2>2. n' \in Counters /\ n'.faults = n.faults  BY <1>1, <2>1 DEF Counters
 <2> QED  BY <1>3, <2>2
<1> QED  BY <1>2, <1>3

\* For a client that does what GDB does by default, whatever the program and
\* however the stub nests: the parser, the breakpoint table, the registers and
\* the frames agree with each other until the line damages something.
THEOREM StubInvariance ==
    ASSUME Careful
    PROVE  StubSpec => []Undamaged
<1>1. StubInit => Undamaged
 <2>1. SUFFICES ASSUME StubInit  PROVE Undamaged  OBVIOUS
 <2>2. n = [cmds |-> 0, faults |-> 0, breaks |-> 0]  BY <2>1 DEF StubInit
 <2>3. n \in Counters /\ n.faults <= MaxFaults  BY <2>2, StubConfigOK DEF Counters, StubConfigOK
 <2> QED  BY <2>1, <2>3, StubStarts DEF Undamaged
<1>2. Undamaged /\ [StubNext]_stubVars => Undamaged'
 <2>1. SUFFICES ASSUME Undamaged, [StubNext]_stubVars  PROVE Undamaged'  OBVIOUS
 <2>2. /\ n' \in Counters /\ n'.faults <= MaxFaults
       /\ n'.faults = 0 => n.faults = 0 /\ ~Damage
   BY <2>1, CountSteps DEF Undamaged
 <2>3. n'.faults = 0 => StubInv'  BY <2>1, <2>2, StubSteps DEF Undamaged
 <2> QED  BY <2>2, <2>3 DEF Undamaged
<1> QED  BY <1>1, <1>2, PTL DEF StubSpec

\* On a line that damages nothing every int3 in the program's text belongs to
\* one breakpoint of the stub, which keeps the instruction under it
\* (gdb_breakpoints.cpp 37-47, gdb_protocol.cpp 132-145).
THEOREM Int3sOwned ==
    ASSUME Careful, MaxFaults = 0
    PROVE  StubSpec => []Int3Owned
<1>1. Undamaged => Int3Owned
 <2>1. SUFFICES ASSUME Undamaged  PROVE Int3Owned  OBVIOUS
 <2>2. n.faults = 0  BY <2>1 DEF Undamaged, Counters
 <2> QED  BY <2>1, <2>2, StubTyped, StubOwned DEF Undamaged, Int3Owned
<1> QED  BY <1>1, StubInvariance, PTL
-----------------------------------------------------------------------------
(* What a stop takes out is put back: only the slot noted in pend is out   *)
(* of the text, and it waits in the one frame of the program, or for the   *)
(* trap of the step over it.                                               *)

Pending(m, a) == m.d.bps[m.d.pend].addr = a

\* a is where the slot that is out has its breakpoint
Waits(a) ==
    /\ trapped # "irq"
    /\ frames = <<>> => fresh /\ (trapped = "stub" \/ (prog.tf /\ prog.pc = a))
    /\ frames # <<>> => /\ Len(frames) = 1 /\ frames[1].of = "prog"
                        /\ dbg.bound = 1 /\ dbg.ctx.valid /\ dbg.ctx.pc = a
PutBackInv == SlotsPut(Now) /\ (dbg.pend # 0 => Waits(dbg.bps[dbg.pend].addr))

\* Until the stub has taken it, a command that moves the program, or steps it
\* through a range, finds nothing taken out
Heard == \E i \in DOMAIN back : back[i] = "ack"
HeldInv ==
    client.st = "ack" /\ ~Heard
        => frames # <<>> /\ (client.cmd.op \in {"P", "r"} => dbg.pend = 0)

LEMMA PutKept ==
    ASSUME NEW m, SlotsPut(m), NEW r, r.d.bps = m.d.bps, r.d.pend = m.d.pend
    PROVE  SlotsPut(r)
  BY DEF SlotsPut

LEMMA FinishPut ==
    ASSUME NEW m, Good(m), SlotsPut(m), m.d.pend # 0, NEW r, r = gdb_finish_breakpoint_resume(m)
    PROVE  SlotsPut(r) /\ r.d.pend = 0
<1>1. PICK i, q : i = m.d.pend /\ q = gdb_insert_breakpoint(m, i)  OBVIOUS
<1>2. i \in DOMAIN m.d.bps /\ m.d.bps[i].on  BY <1>1 DEF Good, SlotsOK
<1>3. q \in Memory /\ OnlySlot(m, q, i) /\ q.d.bps[i].ins  BY <1>1, <1>2, InsertGood DEF Good
<1>4. r = [q EXCEPT !.d.pend = 0, !.d.auto = FALSE]  BY <1>1 DEF gdb_finish_breakpoint_resume
<1>5. r.d.pend = 0 /\ r.d.bps = q.d.bps  BY <1>3, <1>4 DEF Memory, Dbg
<1> QED  BY <1>1, <1>3, <1>5 DEF SlotsPut, OnlySlot

\* A debug trap leaves nothing out
LEMMA DebugTrapPut ==
    ASSUME NEW m, Good(m), SlotsPut(m), NEW t, t = DebugTrap(m)
    PROVE  SlotsPut(t.m) /\ t.m.d.pend = 0
<1> DEFINE p  == IF m.d.pend # 0 THEN gdb_finish_breakpoint_resume(m) ELSE m
           pc == p.d.ctx.pc
           q  == gdb_range_step_should_stop(p, pc)
           s  == gdb_prepare_range_step_resume(p, pc)
           Clean(r) == Good(r) /\ r.d.bps = p.d.bps /\ r.d.pend = 0
<1>1. /\ InRange(p, pc) => t = [go |-> TRUE, m |-> SetRunning(SetTf(s.m, ~s.over), TRUE)]
      /\ ~InRange(p, pc) /\ m.d.pend # 0 /\ m.d.auto
           => t = [go |-> TRUE, m |-> SetRunning(SetTf(q, FALSE), TRUE)]
      /\ ~InRange(p, pc) /\ ~(m.d.pend # 0 /\ m.d.auto) => t = [go |-> FALSE, m |-> q]
  BY DEF DebugTrap
<1>2. Good(p) /\ SlotsPut(p) /\ p.d.pend = 0  BY FinishGood, FinishPut
<1> HIDE DEF p
<1>3. Clean(q)  BY <1>2, ClearGood DEF gdb_range_step_should_stop
<1>4. InRange(p, pc) => Clean(s.m) /\ s.over \in BOOLEAN  BY <1>2, PrepareRange DEF InRange, Arms
<1> HIDE DEF q, s
<1>5. ASSUME NEW r, Clean(r), NEW on \in BOOLEAN PROVE Clean(SetRunning(SetTf(r, on), TRUE))
 <2>1. Good(SetTf(r, on)) /\ Same(r, SetTf(r, on))  BY <1>5, FlagsGood
 <2>2. PICK u : u = SetTf(r, on)  OBVIOUS
 <2>3. Good(SetRunning(u, TRUE)) /\ Same(u, SetRunning(u, TRUE))  BY <2>1, <2>2, FlagsGood
 <2> QED  BY <1>5, <2>1, <2>2, <2>3 DEF Same
<1> HIDE DEF Clean
<1>6. Clean(t.m)
 <2>1. CASE InRange(p, pc)
  <3>1. PICK v : v = SetRunning(SetTf(s.m, ~s.over), TRUE)  OBVIOUS
  <3>2. PICK on \in BOOLEAN : on = ~s.over  BY <1>4, <2>1
  <3>3. t = [go |-> TRUE, m |-> v] /\ v = SetRunning(SetTf(s.m, on), TRUE)
    BY <1>1, <2>1, <3>1, <3>2
  <3>4. t.m = v  BY <3>3
  <3>5. Clean(v)  BY <1>4, <1>5, <2>1, <3>3
  <3> QED  BY <3>4, <3>5
 <2>2. CASE ~InRange(p, pc) /\ m.d.pend # 0 /\ m.d.auto
  <3>1. PICK v : v = SetRunning(SetTf(q, FALSE), TRUE)  OBVIOUS
  <3>2. t = [go |-> TRUE, m |-> v]  BY <1>1, <2>2, <3>1
  <3>3. t.m = v  BY <3>2
  <3>4. Clean(v)  BY <1>3, <1>5, <3>1
  <3> QED  BY <3>3, <3>4
 <2>3. CASE ~InRange(p, pc) /\ ~(m.d.pend # 0 /\ m.d.auto)
  <3>1. t = [go |-> FALSE, m |-> q]  BY <1>1, <2>3
  <3> QED  BY <1>3, <3>1
 <2> QED  BY <2>1, <2>2, <2>3
<1> QED  BY <1>2, <1>6, PutKept DEF Clean

LEMMA PreparePut ==
    ASSUME NEW m, Good(m), SlotsPut(m), m.d.pend = 0, NEW a, Set(m, a),
           NEW r, r = gdb_prepare_breakpoint_resume(m, a)
    PROVE  SlotsPut(r) /\ Pending(r, a)
<1>1. \A j \in DOMAIN m.d.bps : j # 0  BY SlotFields DEF Good
<1>2. PICK i \in Find(m, a) : i = CHOOSE j \in Find(m, a) : TRUE  BY FindSet
<1>3. i \in DOMAIN m.d.bps /\ m.d.bps[i].addr = a  BY <1>2 DEF Find
<1>4. PICK q : q = gdb_restore_breakpoint_byte(m, i)  OBVIOUS
<1>5. q \in Memory /\ OnlySlot(m, q, i) /\ ~q.d.bps[i].ins  BY <1>3, <1>4, RestoreGood DEF Good
<1>6. r = [q EXCEPT !.d.pend = i, !.d.auto = FALSE]  BY <1>2, <1>4 DEF gdb_prepare_breakpoint_resume
<1>7. r.d.pend = i /\ r.d.bps = q.d.bps  BY <1>5, <1>6 DEF Memory, Dbg
<1>8. 0 \notin DOMAIN m.d.bps  BY <1>1
<1> QED  BY <1>3, <1>5, <1>7, <1>8 DEF SlotsPut, Pending, OnlySlot

\* A breakpoint trap leaves out the slot it stopped at, or nothing
LEMMA BreakpointTrapPut ==
    ASSUME NEW m, Good(m), SlotsPut(m), m.d.pend = 0, NEW a \in Code, a = m.d.ctx.pc - 1,
           Set(m, a) \/ Armed(m, a), NEW r, r = BreakpointTrap(m)
    PROVE  SlotsPut(r) /\ (r.d.pend # 0 => Pending(r, a))
<1> DEFINE ctx == [m.d.ctx EXCEPT !.pc = a, !.tf = FALSE]
           e == [m.d EXCEPT !.ctx = ctx]
           at == [m EXCEPT !.d.ctx = [@ EXCEPT !.pc = a, !.tf = FALSE]]
<1>1. m \in Memory /\ m.d \in Dbg  BY Fields DEF Good
<1>2. ctx \in [pc : Nat, tf : BOOLEAN, valid : BOOLEAN]  BY <1>1, CodeFacts DEF Dbg
<1>3. at = [d |-> e, text |-> m.text]  BY <1>1 DEF Memory, Dbg
<1>4. r = IF RangeEnd(m, a) THEN gdb_consume_range_step_breakpoint(at, a)
          ELSE IF Find(m, a) = {} THEN m
          ELSE gdb_clear_range_step(gdb_prepare_breakpoint_resume(at, a))
  BY DEF BreakpointTrap
<1> HIDE DEF ctx, at
<1>5. e \in Dbg /\ e.bps = m.d.bps /\ e.rs = m.d.rs /\ e.pend = m.d.pend  BY <1>1, <1>2 DEF Dbg
<1> HIDE DEF e
<1>6. Good(at) /\ Same(m, at)  BY <1>3, <1>5, FlagsOnly
<1>7. SlotsPut(at) /\ at.d.pend = 0  BY <1>6, PutKept DEF Same
<1>8. CASE RangeEnd(m, a)
 <2>1. r = gdb_consume_range_step_breakpoint(at, a) /\ at \in Memory  BY <1>4, <1>6, <1>8 DEF Good
 <2>2. r.d.bps = at.d.bps /\ r.d.pend = at.d.pend
   BY <2>1 DEF gdb_consume_range_step_breakpoint, Memory, Dbg
 <2> QED  BY <1>7, <2>2, PutKept
<1>9. CASE ~RangeEnd(m, a)
 <2> DEFINE q == gdb_prepare_breakpoint_resume(at, a)
 <2>1. Set(at, a) /\ Find(m, a) # {}  BY <1>6, <1>9, FindSet, SameGood DEF RangeEnd, Armed, Good
 <2>2. r = gdb_clear_range_step(q)  BY <1>4, <1>9, <2>1
 <2>3. Good(q) /\ SlotsPut(q) /\ Pending(q, a)  BY <1>6, <1>7, <2>1, PrepareGood, PreparePut
 <2> HIDE DEF q
 <2>4. r.d.bps = q.d.bps /\ r.d.pend = q.d.pend  BY <2>2, <2>3, ClearGood
 <2> QED  BY <2>3, <2>4, PutKept DEF Pending
<1> QED  BY <1>8, <1>9
-----------------------------------------------------------------------------
(* The commands keep what is out, and go on with the step over it.         *)

LEMMA SetTfFields ==
    ASSUME NEW m \in Memory, NEW on, NEW r, r = SetTf(m, on)
    PROVE  /\ r.d.bps = m.d.bps /\ r.d.pend = m.d.pend
           /\ r.d.ctx.pc = m.d.ctx.pc /\ r.d.ctx.valid = m.d.ctx.valid
  BY DEF SetTf, Memory, Dbg

LEMMA SetTfOn ==
    ASSUME NEW m \in Memory, NEW r, r = SetTf(m, TRUE)
    PROVE  r.d.ctx.tf
  BY DEF SetTf, Memory, Dbg

\* What the stub keeps for the slot that is out
Holds(m, r) ==
    /\ PutStays(m, r)
    /\ r.d.pend # 0 => r.d.ctx.pc = m.d.ctx.pc /\ r.d.ctx.valid = m.d.ctx.valid
Retried(m, h) == Holds(m, h.m) /\ (h.go /\ h.m.d.pend # 0 => h.m.d.ctx.tf)

LEMMA AutoFields ==
    ASSUME NEW m \in Memory, NEW on \in BOOLEAN, NEW r, r = [m EXCEPT !.d.auto = on]
    PROVE  r.d.bps = m.d.bps /\ r.d.pend = m.d.pend /\ r.d.ctx = m.d.ctx
  BY DEF Memory, Dbg

LEMMA SameHolds ==
    ASSUME NEW m, NEW r, r.d.bps = m.d.bps, r.d.pend = m.d.pend,
           r.d.pend # 0 => r.d.ctx.pc = m.d.ctx.pc /\ r.d.ctx.valid = m.d.ctx.valid
    PROVE  Holds(m, r)
  BY PutKept DEF Holds, PutStays

LEMMA ReplyRetried ==
    ASSUME NEW m, NEW r, Holds(m, r), NEW h, h = Reply(r)
    PROVE  Retried(m, h)
  BY DEF Reply, Retried

LEMMA ContinueRetried ==
    ASSUME NEW m, Good(m), NEW h, h = gdb_handle_continue(m)
    PROVE  Retried(m, h)
<1>1. PICK r : r = gdb_clear_range_step(m)  OBVIOUS
<1>2. Good(r) /\ r.d.bps = m.d.bps /\ r.d.pend = m.d.pend /\ r.d.ctx = m.d.ctx
  BY <1>1, ClearGood DEF Bound
<1>3. PICK q : q = [r EXCEPT !.d.auto = TRUE]  OBVIOUS
<1>4. Good(q) /\ q.d.bps = r.d.bps /\ q.d.pend = r.d.pend /\ q.d.ctx = r.d.ctx
 <2>1. r \in Memory  BY <1>2 DEF Good
 <2> QED  BY <1>2, <1>3, <2>1, FlagsGood, AutoFields
<1>5. CASE r.d.pend # 0
 <2>1. PICK u : u = SetTf(q, TRUE)  OBVIOUS
 <2>2. h = GoOn(u)  BY <1>1, <1>3, <1>5, <2>1 DEF gdb_handle_continue
 <2>3. q \in Memory  BY <1>4 DEF Good
 <2>4. u.d.bps = q.d.bps /\ u.d.pend = q.d.pend /\ u.d.ctx.pc = q.d.ctx.pc /\ u.d.ctx.valid = q.d.ctx.valid
   BY <2>1, <2>3, SetTfFields
 <2>5. u.d.ctx.tf  BY <2>1, <2>3, SetTfOn
 <2>6. /\ u.d.bps = m.d.bps /\ u.d.pend = m.d.pend
       /\ u.d.ctx.pc = m.d.ctx.pc /\ u.d.ctx.valid = m.d.ctx.valid
   BY <1>2, <1>4, <2>4
 <2>7. Holds(m, u)  BY <2>6, SameHolds
 <2> QED  BY <2>2, <2>5, <2>7 DEF GoOn, Retried
<1>6. CASE r.d.pend = 0
 <2>1. PICK u : u = SetTf(r, FALSE)  OBVIOUS
 <2>2. h = GoOn(u)  BY <1>1, <1>6, <2>1 DEF gdb_handle_continue
 <2>3. r \in Memory  BY <1>2 DEF Good
 <2>4. u.d.bps = m.d.bps /\ u.d.pend = m.d.pend /\ u.d.pend = 0
   BY <1>2, <1>6, <2>1, <2>3, SetTfFields
 <2>5. Holds(m, u)  BY <2>4, SameHolds
 <2> QED  BY <2>2, <2>4, <2>5 DEF GoOn, Retried
<1> QED  BY <1>5, <1>6

LEMMA StepRetried ==
    ASSUME NEW m, Good(m), NEW c \in Cmds, c.op \in {"s", "r"}, c.op = "r" => m.d.pend = 0,
           NEW h, h = gdb_handle_step(m, c)
    PROVE  Retried(m, h)
<1>1. CASE c.op = "s"
 <2>1. PICK r : r = gdb_clear_range_step(m)  OBVIOUS
 <2>2. Good(r) /\ r.d.bps = m.d.bps /\ r.d.pend = m.d.pend /\ r.d.ctx = m.d.ctx
   BY <2>1, ClearGood DEF Bound
 <2>3. PICK q : q = [r EXCEPT !.d.auto = FALSE]  OBVIOUS
 <2>4. r \in Memory  BY <2>2 DEF Good
 <2>5. Good(q) /\ q.d.bps = r.d.bps /\ q.d.pend = r.d.pend /\ q.d.ctx = r.d.ctx
   BY <2>2, <2>3, <2>4, FlagsGood, AutoFields
 <2>6. PICK u : u = SetTf(q, TRUE)  OBVIOUS
 <2>7. h = GoOn(u)  BY <1>1, <2>1, <2>3, <2>6 DEF gdb_handle_step
 <2>8. q \in Memory  BY <2>5 DEF Good
 <2>9. u.d.bps = q.d.bps /\ u.d.pend = q.d.pend /\ u.d.ctx.pc = q.d.ctx.pc /\ u.d.ctx.valid = q.d.ctx.valid
   BY <2>6, <2>8, SetTfFields
 <2>10. u.d.ctx.tf  BY <2>6, <2>8, SetTfOn
 <2>11. /\ u.d.bps = m.d.bps /\ u.d.pend = m.d.pend
        /\ u.d.ctx.pc = m.d.ctx.pc /\ u.d.ctx.valid = m.d.ctx.valid
   BY <2>2, <2>5, <2>9
 <2>12. Holds(m, u)  BY <2>11, SameHolds
 <2> QED  BY <2>7, <2>10, <2>12 DEF GoOn, Retried
<1>2. CASE c.op # "s"
 <2>1. PICK s : s = gdb_activate_range_step(m, m.d.ctx.pc, m.d.ctx.pc, c.a)  OBVIOUS
 <2>2. m.d.ctx.pc \in Nat /\ c.a \in Code  BY CmdFacts, Fields DEF Good
 <2>3. Good(s.m) /\ s.m.d.pend = m.d.pend /\ s.m.d.bps = m.d.bps /\ s.over \in BOOLEAN
   BY <2>1, <2>2, ActivateRange
 <2>4. PICK w, on : w = s.m /\ on = ~s.over  OBVIOUS
 <2>5. PICK q : q = [w EXCEPT !.d.auto = FALSE]  OBVIOUS
 <2>6. w \in Memory /\ Good(w)  BY <2>3, <2>4 DEF Good
 <2>7. Good(q) /\ q.d.bps = w.d.bps /\ q.d.pend = w.d.pend  BY <2>5, <2>6, FlagsGood, AutoFields
 <2>8. PICK u : u = SetTf(q, on)  OBVIOUS
 <2>9. h = IF c.a <= m.d.ctx.pc THEN Reply(m) ELSE GoOn(u)
   BY <1>2, <2>1, <2>4, <2>5, <2>8 DEF gdb_handle_step
 <2>10. q \in Memory  BY <2>7 DEF Good
 <2>11. u.d.bps = m.d.bps /\ u.d.pend = m.d.pend /\ m.d.pend = 0
   BY <1>2, <2>3, <2>4, <2>7, <2>8, <2>10, SetTfFields
 <2>12. Holds(m, u) /\ Holds(m, m)  BY <2>11, SameHolds
 <2> QED  BY <2>9, <2>11, <2>12, ReplyRetried DEF GoOn, Retried
<1> QED  BY <1>1, <1>2

LEMMA CommandRetried ==
    ASSUME NEW m, Good(m), NEW c \in Sent, TidyAt(m, c), c.op \in {"P", "r"} => m.d.pend = 0,
           NEW h, h \in {Dispatch(m, c), FirstPacket(m)}
    PROVE  Retried(m, h)
<1>0. m \in Memory /\ m.d \in Dbg /\ Holds(m, m)  BY Fields, SameHolds DEF Good
<1>1. CASE h = FirstPacket(m)
 <2>1. PICK r : r = [m EXCEPT !.d.connected = TRUE, !.d.client = TRUE]  OBVIOUS
 <2>2. r.d.bps = m.d.bps /\ r.d.pend = m.d.pend /\ r.d.ctx = m.d.ctx  BY <1>0, <2>1 DEF Memory, Dbg
 <2>3. h = Reply(r)  BY <1>1, <2>1 DEF FirstPacket, gdb_handle_query
 <2> QED  BY <2>2, <2>3, SameHolds, ReplyRetried
<1>2. CASE h = Dispatch(m, c)
 <2>0. CASE c = NoCmd
  <3>1. h = Reply(m)  BY <1>2, <2>0 DEF Dispatch, gdb_handle_query, NoCmd
  <3> QED  BY <1>0, <3>1, ReplyRetried
 <2>1. CASE c.op = "D"
  <3>1. PICK r : r = [m EXCEPT !.d.connected = FALSE, !.d.client = FALSE]  OBVIOUS
  <3>2. r.d.bps = m.d.bps /\ r.d.pend = m.d.pend /\ r.d.ctx = m.d.ctx  BY <1>0, <3>1 DEF Memory, Dbg
  <3>3. h = [m |-> r, out |-> <<"reply">>, go |-> FALSE]  BY <1>2, <2>1, <3>1 DEF Dispatch, Detach
  <3> QED  BY <3>2, <3>3, SameHolds DEF Retried
 <2>2. CASE c \in Cmds /\ c.op = "c"  BY <1>2, <2>2, ContinueRetried DEF Dispatch
 <2>3. CASE c \in Cmds /\ c.op \in {"s", "r"}  BY <1>2, <2>3, StepRetried DEF Dispatch
 <2>4. CASE c \in Cmds /\ c.op = "P"
  <3>1. PICK r : r = [m EXCEPT !.d.ctx = [@ EXCEPT !.pc = c.a, !.valid = TRUE]]  OBVIOUS
  <3>2. r.d.bps = m.d.bps /\ r.d.pend = m.d.pend /\ m.d.pend = 0
    BY <1>0, <2>4, <3>1 DEF Memory, Dbg
  <3>3. h = Reply(r)  BY <1>2, <2>4, <3>1 DEF Dispatch, gdb_handle_write_single_register
  <3> QED  BY <3>2, <3>3, SameHolds, ReplyRetried
 <2>5. CASE c \in Cmds /\ c.op = "M"
  <3>1. PICK r : r = [m EXCEPT !.text[c.a] = "insn"]  OBVIOUS
  <3>2. r.d = m.d  BY <1>0, <3>1 DEF Memory
  <3>3. h = Reply(r)  BY <1>2, <2>5, <3>1 DEF Dispatch, gdb_handle_write_memory
  <3> QED  BY <3>2, <3>3, SameHolds, ReplyRetried
 <2>6. CASE c \in Cmds /\ c.op = "Z"
  <3>1. PICK r : r = gdb_add_breakpoint(m, c.a).m  OBVIOUS
  <3>2. c.a \in Code /\ ~Armed(m, c.a)  BY <2>6, CmdFacts DEF TidyAt
  <3>3. PutStays(m, r) /\ r.d.ctx = m.d.ctx  BY <3>1, <3>2, AddGood DEF Bound
  <3>4. h = IF c.a \in Low THEN Reply(m) ELSE Reply(r)
    BY <1>2, <2>6, <3>1 DEF Dispatch, gdb_handle_set_breakpoint
  <3> QED  BY <1>0, <3>3, <3>4, ReplyRetried DEF Holds
 <2>7. CASE c \in Cmds /\ c.op = "z"
  <3>1. PICK r : r = gdb_remove_breakpoint(m, c.a).m  OBVIOUS
  <3>2. c.a \in Code  BY <2>7, CmdFacts
  <3>3. PutStays(m, r) /\ r.d.ctx = m.d.ctx  BY <3>1, <3>2, RemoveGood DEF Bound
  <3>4. h = IF c.a \in Low THEN Reply(m) ELSE Reply(r)
    BY <1>2, <2>7, <3>1 DEF Dispatch, gdb_handle_remove_breakpoint
  <3> QED  BY <1>0, <3>3, <3>4, ReplyRetried DEF Holds
 <2>8. CASE c.op \in {"x", "q"}
  <3>1. h = Reply(m)  BY <1>2, <2>8 DEF Dispatch, gdb_handle_query, gdb_handle_binary_write_memory
  <3> QED  BY <1>0, <3>1, ReplyRetried
 <2>9. c \in Cmds => c.op \in Plain \cup Sited  BY CmdFacts
 <2> QED  BY <2>0, <2>1, <2>2, <2>3, <2>4, <2>5, <2>6, <2>7, <2>8, <2>9 DEF Plain, Sited, Sent
<1> QED  BY <1>1, <1>2
-----------------------------------------------------------------------------
(* Every step keeps the two invariants.                                    *)

\* What is told to the client stays told
LEMMA HeardKept ==
    ASSUME WireType, Heard, back' = back \/ (\E x \in Verdict \cup Final : back' = Append(back, x))
    PROVE  Heard'
<1>1. PICK i \in DOMAIN back : back[i] = "ack"  BY DEF Heard
<1>2. CASE back' = back  BY <1>2 DEF Heard
<1>3. CASE \E x \in Verdict \cup Final : back' = Append(back, x)
 <2>1. PICK x \in Verdict \cup Final : back' = Append(back, x)  BY <1>3
 <2>2. i \in DOMAIN back' /\ back'[i] = back[i]  BY <1>1, <2>1, PushFacts DEF WireType
 <2> QED  BY <1>1, <2>2 DEF Heard
<1> QED  BY <1>2, <1>3

LEMMA HeldKept ==
    ASSUME HeldInv, client' = client, Heard => Heard', frames # <<>> => frames' # <<>>,
           frames # <<>> => dbg'.pend \in {0, dbg.pend}
    PROVE  HeldInv'
  BY DEF HeldInv

\* Nothing of the stub's changes
LEMMA SlotsKept ==
    ASSUME dbg'.bps = dbg.bps, dbg'.pend = dbg.pend, SlotsPut(Now)
    PROVE  SlotsPut(Now')
  BY DEF SlotsPut, Now

LEMMA PutStill ==
    ASSUME PutBackInv, UNCHANGED <<prog, frames, trapped, fresh>>,
           dbg'.bps = dbg.bps, dbg'.pend = dbg.pend, dbg'.ctx = dbg.ctx, dbg'.bound = dbg.bound
    PROVE  PutBackInv'
  BY SlotsKept DEF PutBackInv, Waits

LEMMA NothingOut ==
    ASSUME SlotsPut(Now'), dbg'.pend = 0
    PROVE  PutBackInv'
  BY DEF PutBackInv

LEMMA LeftFields ==
    ASSUME NEW m, Left(m)
    PROVE  Now'.d = m.d /\ dbg' = m.d /\ (SlotsPut(m) => SlotsPut(Now'))
  BY DEF Left, Now, SlotsPut

\* A debug trap puts the breakpoint back
LEMMA DebugPut ==
    ASSUME MachineInv, SlotsPut(Now), NEW f \in Frames, Len(frames) < MaxNest, NEW kept,
           Trap("debug", f, kept)
    PROVE  PutBackInv' /\ dbg'.pend = 0
<1>1. Good(Now) /\ Len(frames) \in Nat  BY LenProperties DEF MachineInv, Stacked
<1>2. PICK e : e = Enter(Now, f, frames)  OBVIOUS
<1>3. Good(e) /\ Same(Now, e)  BY <1>1, <1>2, EnterGood
<1>4. PICK t : t = DebugTrap(e)  OBVIOUS
<1>5. SlotsPut(e)  BY <1>3, PutKept DEF Same
<1>6. SlotsPut(t.m) /\ t.m.d.pend = 0  BY <1>3, <1>4, <1>5, DebugTrapPut
<1>7. Left(t.m)  BY <1>2, <1>4 DEF Trap, Stop
<1> QED  BY <1>6, <1>7, LeftFields, NothingOut

\* A trap's own answer is a stop
LEMMA TrapTold ==
    ASSUME NEW type, NEW f, NEW kept, Trap(type, f, kept)
    PROVE  back' = back \/ (\E x \in Verdict \cup Final : back' = Append(back, x))
<1>1. "stop" \in Verdict \cup Final  BY DEF Final
<1> QED  BY <1>1 DEF Trap, Stop

LEMMA TrapKeepsFrames ==
    ASSUME MachineInv, NEW f \in Frames, f.of # "prog", Len(frames) < MaxNest,
           NEW kept \in {rx, Idle}, Trap("debug", f, kept)
    PROVE  frames # <<>> => frames' # <<>>
<1>1. Trapped(f)  BY TrapStep
<1> QED  BY <1>1 DEF Trapped

\* A trap in the stub or in the handler of the serial interrupt
LEMMA OutsidePut ==
    ASSUME StubInv, PutBackInv, HeldInv, NEW of \in {"stub", "irq"}, NEW on \in BOOLEAN,
           Len(frames) < MaxNest, NEW kept \in {rx, Idle},
           Trap("debug", Frame(of, Outside, on), kept), client' = client
    PROVE  PutBackInv' /\ HeldInv'
<1>1. PICK f : f = Frame(of, Outside, on)  OBVIOUS
<1>2. f \in Frames /\ f.of # "prog" /\ Trap("debug", f, kept)  BY <1>1, OutsideFrame
<1>3. MachineInv /\ SlotsPut(Now) /\ WireType  BY DEF StubInv, PutBackInv
<1>4. PutBackInv' /\ dbg'.pend = 0  BY <1>2, <1>3, DebugPut
<1>5. Heard => Heard'  BY <1>2, <1>3, TrapTold, HeardKept
<1>6. frames # <<>> => frames' # <<>>  BY <1>2, <1>3, TrapKeepsFrames
<1> QED  BY <1>4, <1>5, <1>6, HeldKept

\* An int3 in the text is not the slot that is out
LEMMA TrapNotOut ==
    ASSUME Good(Now), PutBackInv, frames = <<>>, trapped = "no", text[prog.pc] = "int3", prog.pc \in Code
    PROVE  dbg.pend = 0
<1> SUFFICES ASSUME dbg.pend # 0  PROVE FALSE  OBVIOUS
<1> DEFINE i == dbg.pend
<1>1. i \in DOMAIN dbg.bps /\ dbg.bps[i].on /\ ~dbg.bps[i].ins /\ prog.pc = dbg.bps[i].addr
  BY DEF PutBackInv, Waits, SlotsPut, Good, SlotsOK, Now
<1>2. In(Now, prog.pc) \/ Armed(Now, prog.pc)  BY DEF Good, TextOK, Now
<1>3. ~Armed(Now, prog.pc)  BY <1>1 DEF Good, RangeOK, Armed, Set, Now
<1>4. PICK j \in DOMAIN dbg.bps : dbg.bps[j].on /\ dbg.bps[j].ins /\ dbg.bps[j].addr = prog.pc
  BY <1>2, <1>3 DEF In, Now
<1>5. i = j  BY <1>1, <1>4 DEF Good, SlotsOK, Now
<1> QED  BY <1>1, <1>4, <1>5

\* What is committed to a frame leaves whose it is
LEMMA CommitOwner ==
    ASSUME NEW m \in Memory, NEW fs \in Seq(Frames), NEW gs, gs = Commit(m, fs), NEW i \in DOMAIN fs
    PROVE  i \in DOMAIN gs /\ gs[i].of = fs[i].of
<1>1. m.d.ctx.pc \in Nat /\ m.d.ctx.tf \in BOOLEAN /\ fs[i] \in Frames
  BY Fields, ElementOfSeq, LenProperties
<1> DEFINE b == m.d.bound
<1>2. CASE m.d.ctx.valid /\ b \in DOMAIN fs
 <2>1. gs = [fs EXCEPT ![b].pc = m.d.ctx.pc, ![b].tf = m.d.ctx.tf]  BY <1>2 DEF Commit
 <2>2. DOMAIN fs = 1 .. Len(fs) /\ fs \in [1 .. Len(fs) -> Frames]  BY LenProperties
 <2> HIDE DEF b
 <2> QED  BY <1>1, <2>1, <2>2 DEF Frames
<1>3. CASE ~(m.d.ctx.valid /\ b \in DOMAIN fs)  BY <1>3 DEF Commit
<1> QED  BY <1>2, <1>3

\* At a breakpoint the program stops, and its own frame holds the address
LEMMA BreakpointPut ==
    ASSUME MachineInv, PutBackInv, frames = <<>>, trapped = "no", NEW a \in Code, a = prog.pc,
           text[a] = "int3", NEW f, f = Frame("prog", a + 1, prog.tf), NEW kept, Trap("breakpoint", f, kept)
    PROVE  PutBackInv'
<1>1. Good(Now) /\ prog.tf \in BOOLEAN /\ Len(frames) = 0 /\ Len(frames) < MaxNest /\ Now.text = text
  BY StubConfigOK DEF MachineInv, Progs, StubConfigOK, Now
<1>2. f \in Frames /\ f.of = "prog" /\ f.pc - 1 = a  BY <1>1, CodeFacts DEF Frame, Frames
<1>3. Set(Now, a) \/ Armed(Now, a)  BY <1>1 DEF Good, TextOK, Set, In
<1>4. SlotsPut(Now) /\ Now.d.pend = 0  BY <1>1, TrapNotOut DEF PutBackInv, Now
<1>5. PICK e : e = Enter(Now, f, frames)  OBVIOUS
<1>6. /\ Good(e) /\ Same(Now, e) /\ e.d.bound = 1
      /\ e.d.ctx = [pc |-> f.pc, tf |-> f.tf, valid |-> TRUE]
  BY <1>1, <1>2, <1>5, EnterGood
<1>7. /\ e.d.ctx.pc - 1 = a /\ e.d.ctx.valid /\ SlotsPut(e) /\ e.d.pend = 0
      /\ Set(e, a) \/ Armed(e, a)
 <2>1. e.d.ctx.pc - 1 = a /\ e.d.ctx.valid  BY <1>2, <1>6
 <2>2. SlotsPut(e) /\ e.d.pend = 0  BY <1>4, <1>6, PutKept DEF Same
 <2>3. Set(e, a) \/ Armed(e, a)  BY <1>1, <1>3, <1>6, SameGood DEF Good
 <2> QED  BY <2>1, <2>2, <2>3
<1>8. PICK b : b = BreakpointTrap(e)  OBVIOUS
<1>9. Good(b) /\ b.d.ctx.pc = a /\ b.d.ctx.valid /\ b.d.bound = 1
  BY <1>6, <1>7, <1>8, BreakpointTrapGood
<1>10. SlotsPut(b) /\ (b.d.pend # 0 => Pending(b, a))  BY <1>6, <1>7, <1>8, BreakpointTrapPut
<1>11. PICK fs : fs = Append(<<>>, f)  OBVIOUS
<1>12. fs \in Seq(Frames) /\ Len(fs) = 1 /\ DOMAIN fs = {1} /\ fs[1] = f  BY <1>2, <1>11, OneFrame
<1>13. PICK gs : gs = Commit(b, fs)  OBVIOUS
<1>14. Stop(b, gs)  BY <1>5, <1>8, <1>11, <1>13 DEF Trap
<1>15. Len(gs) = 1 /\ gs[1].of = "prog" /\ gs # <<>>
 <2>1. Len(gs) = Len(fs) /\ gs \in Seq(Frames)
  <3>1. Len(fs) <= MaxNest /\ Len(fs) <= b.d.bound  BY <1>9, <1>12, StubConfigOK DEF StubConfigOK
  <3>2. \A i \in DOMAIN fs : i # b.d.bound /\ fs[i].of = "prog" => fs[i].pc \in Code  BY <1>9, <1>12
  <3>3. Stacked(b, gs) /\ Len(gs) = Len(fs)  BY <1>9, <1>12, <1>13, <3>1, <3>2, CommitOK
  <3> QED  BY <3>3 DEF Stacked
 <2>2. gs[1].of = "prog"  BY <1>2, <1>9, <1>12, <1>13, CommitOwner DEF Good
 <2>3. gs # <<>>  BY <2>1, <1>12
 <2> QED  BY <2>1, <2>2, <2>3, <1>12
<1>16. frames' = gs /\ trapped' = "no" /\ Left(b)  BY <1>14 DEF Stop
<1>17. dbg' = b.d /\ SlotsPut(Now')  BY <1>10, <1>16, LeftFields
<1>18. dbg'.pend # 0 => Waits(dbg.bps[dbg.pend].addr)'
  BY <1>9, <1>10, <1>15, <1>16, <1>17 DEF Waits, Pending
<1> QED  BY <1>17, <1>18 DEF PutBackInv

LEMMA ExecutePut ==
    ASSUME StubInv, PutBackInv, HeldInv, Execute
    PROVE  PutBackInv' /\ HeldInv'
<1>1. /\ MachineInv /\ Good(Now) /\ WireType /\ SlotsPut(Now)
      /\ prog \in Progs /\ prog.pc \in Code /\ prog.tf \in BOOLEAN
  BY DEF StubInv, MachineInv, Progs, PutBackInv
<1>2. frames = <<>> /\ trapped = "no" /\ client' = client  BY DEF Execute
<1>3. Len(frames) < MaxNest /\ Len(frames) \in Nat  BY <1>2, StubConfigOK DEF StubConfigOK
<1>4. \/ /\ text[prog.pc] = "int3"
         /\ Trap("breakpoint", Frame("prog", prog.pc + 1, prog.tf), rx)
      \/ \E to \in Flow[prog.pc] :
            \/ ~prog.tf /\ Trap("checkpoint", Frame("prog", to, FALSE), rx)
            \/ /\ prog' = [prog EXCEPT !.tf = FALSE] /\ trapped' = "stub"
               /\ UNCHANGED <<dbg, text, frames, rx, back, fresh>>
            \/ Trap("debug", Frame("prog", to, TRUE), rx)
            \/ ~prog.tf /\ UNCHANGED <<dbg, text, frames, trapped, rx, back>>
  BY DEF Execute
<1>5. ~prog.tf => dbg.pend = 0  BY <1>2 DEF PutBackInv, Waits
<1>6. ASSUME back' = back \/ (\E x \in Verdict \cup Final : back' = Append(back, x))  PROVE HeldInv'
  BY <1>1, <1>2, <1>6, HeardKept, HeldKept
<1>7. CASE text[prog.pc] = "int3" /\ Trap("breakpoint", Frame("prog", prog.pc + 1, prog.tf), rx)
  BY <1>1, <1>2, <1>6, <1>7, BreakpointPut, TrapTold
<1>8. ASSUME NEW to \in Code, ~prog.tf, Trap("checkpoint", Frame("prog", to, FALSE), rx)
      PROVE  PutBackInv' /\ HeldInv'
 <2>1. PICK f : f = Frame("prog", to, FALSE)  OBVIOUS
 <2>2. f \in Frames  BY <2>1, CodeFacts DEF Frame, Frames
 <2>3. PICK e : e = Enter(Now, f, frames)  OBVIOUS
 <2>4. Same(Now, e)  BY <1>1, <1>3, <2>2, <2>3, EnterGood
 <2>5. Left(e)  BY <1>8, <2>1, <2>3 DEF Trap, Stop
 <2>6. SlotsPut(e) /\ e.d.pend = 0  BY <1>1, <1>5, <1>8, <2>4, PutKept DEF Same, Now
 <2>7. PutBackInv'  BY <2>5, <2>6, LeftFields, NothingOut
 <2> QED  BY <1>6, <1>8, <2>7, TrapTold
<1>9. ASSUME NEW to \in Code, Trap("debug", Frame("prog", to, TRUE), rx)
      PROVE  PutBackInv' /\ HeldInv'
 <2>1. PICK f : f = Frame("prog", to, TRUE)  OBVIOUS
 <2>2. f \in Frames /\ Trap("debug", f, rx)  BY <1>9, <2>1, CodeFacts DEF Frame, Frames
 <2> QED  BY <1>1, <1>3, <1>6, <2>2, DebugPut, TrapTold
<1>10. CASE /\ trapped' = "stub"
            /\ UNCHANGED <<dbg, text, frames, rx, back, fresh>>
 <2>1. SlotsPut(Now')  BY <1>1, <1>10, SlotsKept
 <2>2. PutBackInv'  BY <1>2, <1>10, <2>1 DEF PutBackInv, Waits
 <2> QED  BY <1>6, <1>10, <2>2
<1>11. CASE ~prog.tf /\ UNCHANGED <<dbg, text, frames, trapped, rx, back>>
 <2>1. SlotsPut(Now')  BY <1>1, <1>11, SlotsKept
 <2> QED  BY <1>5, <1>6, <1>11, <2>1, NothingOut
<1>12. Flow[prog.pc] \subseteq Code  BY <1>1, StubConfigOK DEF StubConfigOK
<1> QED  BY <1>4, <1>7, <1>8, <1>9, <1>10, <1>11, <1>12

LEMMA StepOutsidePut ==
    ASSUME StubInv, PutBackInv, HeldInv, StepOutside
    PROVE  PutBackInv' /\ HeldInv'
<1>1. trapped \in {"stub", "irq"} /\ Len(frames) < MaxNest /\ client' = client
  BY DEF StepOutside, StubInv, MachineInv
<1>2. CASE Trap("debug", Frame(trapped, Outside, TRUE), rx)  BY <1>1, <1>2, OutsidePut
<1>3. CASE trapped = "irq" /\ trapped' = "no" /\ UNCHANGED <<dbg, text, prog, frames, rx, back, fresh>>
 <2>1. dbg.pend = 0  BY <1>3 DEF PutBackInv, Waits
 <2>2. SlotsPut(Now') /\ dbg'.pend = 0  BY <1>3, <2>1, SlotsKept DEF PutBackInv
 <2> QED  BY <1>1, <1>3, <2>2, NothingOut, HeldKept DEF Heard
<1> QED  BY <1>2, <1>3 DEF StepOutside

LEMMA SerialInterruptPut ==
    ASSUME StubInv, PutBackInv, HeldInv, SerialInterrupt
    PROVE  PutBackInv' /\ HeldInv'
<1>1. client' = client  BY DEF SerialInterrupt
<1>2. CASE Len(frames) < MaxNest /\ Trap("debug", Frame("irq", Outside, FALSE), rx)
  BY <1>1, <1>2, OutsidePut
<1>3. CASE UNCHANGED <<dbg, text, prog, frames, trapped, rx, back, fresh>>
  BY <1>1, <1>3, PutStill, HeldKept DEF Heard
<1> QED  BY <1>2, <1>3 DEF SerialInterrupt

LEMMA Replaced ==
    ASSUME NEW S, NEW s \in Seq(S), NEW b \in 1 .. Len(s), NEW x \in S, NEW r, r = [s EXCEPT ![b] = x]
    PROVE  r \in Seq(S) /\ Len(r) = Len(s) /\ r[b] = x
  BY ExceptSeq

\* The context, into the one frame there is
LEMMA CommitInto ==
    ASSUME NEW m \in Memory, m.d.ctx.valid, m.d.bound = 1, NEW fs \in Seq(Frames), Len(fs) = 1,
           NEW gs, gs = Commit(m, fs)
    PROVE  /\ gs \in Seq(Frames) /\ Len(gs) = 1
           /\ gs[1].of = fs[1].of /\ gs[1].pc = m.d.ctx.pc /\ gs[1].tf = m.d.ctx.tf
<1>1. m.d.ctx.pc \in Nat /\ m.d.ctx.tf \in BOOLEAN  BY Fields
<1>2. DOMAIN fs = 1 .. 1 /\ fs[1] \in Frames /\ 1 \in DOMAIN fs
 <2>1. 1 \in 1 .. Len(fs) /\ DOMAIN fs = 1 .. Len(fs)  BY LenProperties
 <2> QED  BY <2>1, ElementOfSeq
<1>3. gs = [fs EXCEPT ![1].pc = m.d.ctx.pc, ![1].tf = m.d.ctx.tf]  BY <1>2 DEF Commit
<1>4. PICK x : x = [fs[1] EXCEPT !.pc = m.d.ctx.pc, !.tf = m.d.ctx.tf]  OBVIOUS
<1>5. x \in Frames /\ x.of = fs[1].of /\ x.pc = m.d.ctx.pc /\ x.tf = m.d.ctx.tf
  BY <1>1, <1>2, <1>4 DEF Frames
<1>6. gs = [fs EXCEPT ![1] = x]  BY <1>2, <1>3, <1>4
<1>7. gs \in Seq(Frames) /\ Len(gs) = 1 /\ gs[1] = x
 <2>1. PICK b \in 1 .. Len(fs) : b = 1  OBVIOUS
 <2>2. PICK r : r = [fs EXCEPT ![b] = x]  OBVIOUS
 <2>3. x \in Frames  BY <1>5
 <2>4. r \in Seq(Frames) /\ Len(r) = Len(fs) /\ r[b] = x
   BY ONLY fs \in Seq(Frames), <2>1, <2>2, <2>3, Replaced
 <2>5. gs = r  BY <1>6, <2>1, <2>2
 <2> QED  BY <2>1, <2>4, <2>5
<1> QED  BY <1>5, <1>7

\* The answer to a packet begins with its acknowledgement
LEMMA AckTold ==
    ASSUME WireType, NEW out \in {<<>>, <<"reply">>}, back' = back \o <<"ack">> \o out
    PROVE  Heard'
<1> DEFINE S == Verdict \cup Final
<1>1. back \in Seq(S) /\ "ack" \in S /\ "reply" \in S  BY DEF WireType, Verdict, Final
<1>2. PICK a : a = Append(back, "ack")  OBVIOUS
<1>3. a = back \o <<"ack">>  BY <1>1, <1>2, AppendIsConcat
<1>4. a \in Seq(S) /\ Len(back) + 1 \in DOMAIN a /\ a[Len(back) + 1] = "ack"
  BY <1>1, <1>2, PushFacts
<1> HIDE DEF S
<1>5. CASE out = <<>>
 <2>1. back' = a  BY <1>3, <1>4, <1>5, ConcatEmptySeq
 <2> QED  BY <1>4, <2>1 DEF Heard
<1>6. CASE out = <<"reply">>
 <2>1. back' = Append(a, "reply")  BY <1>1, <1>3, <1>4, <1>6, AppendIsConcat
 <2>2. \A i \in DOMAIN a : i \in DOMAIN back' /\ back'[i] = a[i]  BY <1>1, <1>4, <2>1, PushFacts
 <2> QED  BY <1>4, <2>2 DEF Heard
<1> QED  BY <1>5, <1>6

\* The command that is taken is the one the client waits for
LEMMA CommandHeld ==
    ASSUME StubInv, HeldInv, line # <<>>, line' = Tail(line),
           NEW t, t = TakeByte(rx, Head(line)), t.ev = "packet", NEW c, c = t.rx.buf[1].c
    PROVE  c \in Sent /\ TidyAt(Now, c) /\ (c.op \in {"P", "r"} => dbg.pend = 0)
<1>1. Head(line) \in Chars /\ RecvOK(rx) /\ client.cmd \in Sent /\ WireType /\ WireInv /\ TidyInv
  BY TailFacts DEF StubInv, WireType
<1>2. rx.st # 0 /\ Head(line) # BRK /\ Head(line).t = "sum" /\ c = Head(line).c  BY <1>1, ByteTaken
<1>3. client.st = "ack" /\ ~Judged /\ c = client.cmd  BY <1>1, <1>2, WireTaken
<1>4. ~Heard  BY <1>3 DEF Judged, Heard, Verdict
<1> QED  BY <1>1, <1>3, <1>4 DEF TidyInv, HeldInv

\* A command that goes on leaves the program at what is out, with the trap flag
LEMMA GoesOn ==
    ASSUME Stacked(Now, frames), PutBackInv, frames # <<>>,
           NEW e, Good(e), Left(e), SlotsPut(e), e.d.bound = dbg.bound,
           NEW a, Waits(a), e.d.ctx.pc = a, e.d.ctx.valid, e.d.ctx.tf,
           Return(Commit(e, frames))
    PROVE  Waits(a)'
<1>1. Len(frames) = 1 /\ frames[1].of = "prog" /\ e.d.bound = 1  BY DEF Waits
<1>2. PICK gs : gs = Commit(e, frames)  OBVIOUS
<1>3. gs \in Seq(Frames) /\ Len(gs) = 1 /\ gs[1].of = "prog" /\ gs[1].pc = a /\ gs[1].tf = e.d.ctx.tf
  BY <1>1, <1>2, CommitInto DEF Good, Stacked
<1>4. Return(gs)  BY <1>2
<1>5. /\ frames' = SubSeq(gs, 1, 0) /\ prog' = [pc |-> gs[1].pc, tf |-> gs[1].tf]
      /\ trapped' = "no" /\ fresh'
 <2>1. PICK k, f : k = Len(gs) /\ f = gs[k]  OBVIOUS
 <2>2. /\ frames' = SubSeq(gs, 1, k - 1) /\ prog' = IF f.of = "prog" THEN [pc |-> f.pc, tf |-> f.tf] ELSE prog
       /\ trapped' = IF f.of # "prog" /\ f.tf THEN f.of ELSE "no"
       /\ fresh' = TRUE
   BY <1>4, <2>1 DEF Return
 <2>3. k - 1 = 0 /\ f = gs[1] /\ f.of = "prog"  BY <1>3, <2>1
 <2> QED  BY <2>2, <2>3
<1>6. Len(frames') = 0 /\ frames' \in Seq(Frames)  BY <1>3, <1>5, SubSeqProperties
<1>7. frames' = <<>>  BY <1>6, EmptySeq
<1>8. prog'.pc = a /\ prog'.tf  BY <1>3, <1>5
<1> QED  BY <1>5, <1>7, <1>8 DEF Waits

LEMMA RunningFields ==
    ASSUME NEW m, Good(m), NEW e, e = [m EXCEPT !.d.running = TRUE]
    PROVE  Good(e) /\ Same(m, e) /\ e.d.ctx = m.d.ctx /\ e.d.bound = m.d.bound
<1>1. m \in Memory  BY DEF Good
<1>2. e.d.ctx = m.d.ctx  BY <1>1 DEF Memory, Dbg
<1>3. Good(e) /\ Same(m, e) /\ Near(m, e)  BY FlagsGood DEF SetRunning
<1> QED  BY <1>2, <1>3 DEF Near

LEMMA ReceiveCommandPut ==
    ASSUME StubInv, PutBackInv, HeldInv, frames # <<>>, line # <<>>, line' = Tail(line),
           NEW t, t = TakeByte(rx, Head(line)), t.ev = "packet",
           NEW c, c = t.rx.buf[1].c,
           NEW h, h \in {Dispatch(Now, c), FirstPacket(Now)},
           NEW e, e = [h.m EXCEPT !.d.running = TRUE],
           back' = back \o <<"ack">> \o h.out,
           \/ h.go /\ Left(e) /\ Return(Commit(e, frames))
           \/ ~h.go /\ Left(h.m) /\ UNCHANGED <<prog, frames, trapped, fresh>>
    PROVE  PutBackInv' /\ HeldInv'
<1>1. Good(Now) /\ Stacked(Now, frames) /\ WireType /\ SlotsPut(Now) /\ Now.d = dbg
  BY DEF StubInv, MachineInv, PutBackInv, Now
<1>2. c \in Sent /\ TidyAt(Now, c) /\ (c.op \in {"P", "r"} => dbg.pend = 0)  BY CommandHeld
<1>3. Good(h.m) /\ h.m.d.bound = dbg.bound /\ h.out \in {<<>>, <<"reply">>}
  BY <1>1, <1>2, CommandServed DEF Served
<1>4. Retried(Now, h)  BY <1>1, <1>2, CommandRetried
<1>5. HeldInv'  BY <1>1, <1>3, AckTold DEF HeldInv
<1> DEFINE a == dbg.bps[dbg.pend].addr
<1>6. /\ SlotsPut(h.m)
      /\ h.m.d.pend # 0 => /\ h.m.d.pend = dbg.pend /\ Pending(h.m, a) /\ Waits(a)
                           /\ h.m.d.ctx.pc = a /\ h.m.d.ctx.valid
                           /\ h.go => h.m.d.ctx.tf
  BY <1>1, <1>4 DEF Retried, Holds, PutStays, PutBackInv, Pending, Waits
<1> HIDE DEF a
<1>7. CASE ~h.go
 <2>1. dbg' = h.m.d /\ SlotsPut(Now')  BY <1>6, <1>7, LeftFields
 <2>2. CASE dbg'.pend # 0
  <3>1. PICK b : b = a  OBVIOUS
  <3>2. /\ Waits(b) /\ dbg'.bps[dbg'.pend].addr = b
        /\ dbg'.bound = dbg.bound /\ dbg'.ctx.valid /\ dbg'.ctx.pc = b
    BY <1>3, <1>6, <2>1, <2>2, <3>1 DEF Pending
  <3>3. Waits(b)'  BY <1>7, <3>2 DEF Waits
  <3> QED  BY <1>5, <2>1, <3>2, <3>3 DEF PutBackInv, Waits
 <2>3. CASE dbg'.pend = 0  BY <1>5, <2>1, <2>3, NothingOut
 <2> QED  BY <2>2, <2>3
<1>8. CASE h.go
 <2>1. Good(e) /\ Same(h.m, e) /\ e.d.ctx = h.m.d.ctx /\ e.d.bound = dbg.bound
   BY <1>3, RunningFields
 <2>2. SlotsPut(e) /\ e.d.pend = h.m.d.pend /\ e.d.bps = h.m.d.bps  BY <1>6, <2>1, PutKept DEF Same
 <2>3. Left(e) /\ Return(Commit(e, frames))  BY <1>8
 <2>4. dbg' = e.d /\ SlotsPut(Now')  BY <2>2, <2>3, LeftFields
 <2>5. CASE e.d.pend # 0
  <3>1. PICK b : b = a  OBVIOUS
  <3>2. Waits(b) /\ Pending(e, b) /\ e.d.ctx.pc = b /\ e.d.ctx.valid /\ e.d.ctx.tf
    BY <1>6, <1>8, <2>1, <2>2, <2>5, <3>1 DEF Pending
  <3>3. Waits(b)'  BY <1>1, <2>1, <2>2, <2>3, <3>2, GoesOn
  <3>4. dbg'.bps[dbg'.pend].addr = b  BY <2>4, <3>2 DEF Pending
  <3> QED  BY <1>5, <2>4, <3>3, <3>4 DEF PutBackInv, Waits
 <2>6. CASE e.d.pend = 0  BY <1>5, <2>4, <2>6, NothingOut
 <2> QED  BY <2>5, <2>6
<1> QED  BY <1>7, <1>8

\* What changes only whether a client is connected
LEMMA AttachedPut ==
    ASSUME StubInv, PutBackInv, HeldInv, NEW on \in BOOLEAN, dbg' = [dbg EXCEPT !.connected = on],
           UNCHANGED <<prog, frames, trapped, fresh, client>>,
           back' = back \/ (\E x \in Verdict \cup Final : back' = Append(back, x))
    PROVE  PutBackInv' /\ HeldInv'
<1>1. dbg \in Dbg /\ WireType  BY DEF StubInv, MachineInv, Good, Memory, Now
<1>2. dbg'.bps = dbg.bps /\ dbg'.pend = dbg.pend /\ dbg'.ctx = dbg.ctx /\ dbg'.bound = dbg.bound
  BY <1>1 DEF Dbg
<1>3. Heard => Heard'  BY <1>1, HeardKept
<1> QED  BY <1>2, <1>3, PutStill, HeldKept

LEMMA ReceivePut ==
    ASSUME StubInv, PutBackInv, HeldInv, Receive
    PROVE  PutBackInv' /\ HeldInv'
<1> DEFINE t == TakeByte(rx, Head(line))
           c == t.rx.buf[1].c
           h == IF dbg.connected THEN Dispatch(Now, c) ELSE FirstPacket(Now)
           e == [h.m EXCEPT !.d.running = TRUE]
<1>1. frames # <<>> /\ line # <<>> /\ line' = Tail(line) /\ client' = client  BY DEF Receive, InStub
<1>2. \/ UNCHANGED <<dbg, text, prog, frames, trapped, back, fresh>>
      \/ /\ dbg' = [dbg EXCEPT !.connected = FALSE] /\ back' = Append(back, "nack")
         /\ UNCHANGED <<text, prog, frames, trapped, fresh>>
      \/ /\ dbg' = [dbg EXCEPT !.connected = TRUE]
         /\ back' = IF dbg.client THEN Append(back, "stop") ELSE back
         /\ UNCHANGED <<text, prog, frames, trapped, fresh>>
      \/ Len(frames) < MaxNest /\ Trap("debug", Frame("stub", Outside, FALSE), Idle)
      \/ /\ t.ev = "packet"
         /\ back' = back \o <<"ack">> \o h.out
         /\ \/ h.go /\ Left(e) /\ Return(Commit(e, frames))
            \/ ~h.go /\ Left(h.m) /\ UNCHANGED <<prog, frames, trapped, fresh>>
  BY DEF Receive
<1>3. h \in {Dispatch(Now, c), FirstPacket(Now)}  OBVIOUS
<1> HIDE DEF t, c, h, e
<1>4. CASE UNCHANGED <<dbg, text, prog, frames, trapped, back, fresh>>
  BY <1>1, <1>4, PutStill, HeldKept DEF Heard
<1>5. CASE /\ dbg' = [dbg EXCEPT !.connected = FALSE] /\ back' = Append(back, "nack")
           /\ UNCHANGED <<text, prog, frames, trapped, fresh>>
 <2>1. "nack" \in Verdict \cup Final  BY DEF Verdict
 <2> QED  BY <1>1, <1>5, <2>1, AttachedPut
<1>6. CASE /\ dbg' = [dbg EXCEPT !.connected = TRUE]
           /\ back' = IF dbg.client THEN Append(back, "stop") ELSE back
           /\ UNCHANGED <<text, prog, frames, trapped, fresh>>
 <2>1. "stop" \in Verdict \cup Final  BY DEF Final
 <2>2. back' = back \/ (\E x \in Verdict \cup Final : back' = Append(back, x))  BY <1>6, <2>1
 <2> QED  BY <1>1, <1>6, <2>2, AttachedPut
<1>7. CASE Len(frames) < MaxNest /\ Trap("debug", Frame("stub", Outside, FALSE), Idle)
  BY <1>1, <1>7, OutsidePut
<1>8. CASE /\ t.ev = "packet"
           /\ back' = back \o <<"ack">> \o h.out
           /\ \/ h.go /\ Left(e) /\ Return(Commit(e, frames))
              \/ ~h.go /\ Left(h.m) /\ UNCHANGED <<prog, frames, trapped, fresh>>
 <2>1. t = TakeByte(rx, Head(line)) /\ c = t.rx.buf[1].c /\ e = [h.m EXCEPT !.d.running = TRUE]
   BY DEF t, c, e
 <2> QED  BY <1>1, <1>3, <1>8, <2>1, ReceiveCommandPut
<1> QED  BY <1>2, <1>4, <1>5, <1>6, <1>7, <1>8

\* The client's steps leave the stub alone, and send only what it can take
LEMMA ClientPut ==
    ASSUME PutBackInv, UNCHANGED Stub
    PROVE  PutBackInv' /\ UNCHANGED <<dbg, frames>>
<1>1. UNCHANGED <<dbg, text, prog, frames, trapped, fresh>>  BY DEF Stub
<1> QED  BY <1>1, PutStill

LEMMA SendPut ==
    ASSUME Careful, StubInv, PutBackInv, NEW c \in Cmds, Send(c)
    PROVE  PutBackInv' /\ HeldInv'
<1>1. client.st \in {"idle", "off"} /\ Tidy(c) /\ client' = [st |-> "ack", cmd |-> c] /\ UNCHANGED Stub
  BY DEF Send
<1>2. PutBackInv' /\ UNCHANGED <<dbg, frames>>  BY <1>1, ClientPut
<1>3. frames # <<>>  BY <1>1 DEF StubInv, TurnInv
<1>4. client'.cmd = c /\ (c.op \in {"P", "r"} => dbg.pend = 0)  BY <1>1 DEF Tidy
<1> QED  BY <1>2, <1>3, <1>4 DEF HeldInv

LEMMA BreakPut ==
    ASSUME StubInv, PutBackInv, HeldInv, Break
    PROVE  PutBackInv' /\ HeldInv'
<1>1. UNCHANGED Stub /\ back' = back /\ client' = client  BY DEF Break
<1>2. PutBackInv' /\ UNCHANGED <<dbg, frames>>  BY <1>1, ClientPut
<1> QED  BY <1>1, <1>2, HeldKept DEF Heard

LEMMA ListenPut ==
    ASSUME StubInv, PutBackInv, HeldInv, Listen
    PROVE  PutBackInv' /\ HeldInv'
<1>1. /\ back # <<>> /\ back' = Tail(back) /\ UNCHANGED Stub
      /\ \/ /\ Head(back) = "ack"
            /\ client' = IF client.st # "ack" THEN client
                         ELSE [client EXCEPT !.st = IF client.cmd.op \in Resumes THEN "run" ELSE "reply"]
         \/ Head(back) = "nack" /\ client' = client
         \/ Head(back) = "bad"
         \/ /\ Head(back) \in {"reply", "stop"}
            /\ client' = IF client.st \in {"reply", "run"} THEN Answered ELSE client
  BY DEF Listen
<1>2. PutBackInv' /\ UNCHANGED <<dbg, frames>>  BY <1>1, ClientPut
<1>3. /\ Head(back) = back[1] /\ 1 \in DOMAIN back /\ back[1] \in Verdict \cup Final
      /\ back \in Seq(Verdict \cup Final) /\ client \in [st : States, cmd : Sent] /\ WireInv
  BY <1>1, TailFacts DEF StubInv, WireType
<1>4. SUFFICES ASSUME client'.st = "ack", ~Heard' PROVE client' = client /\ ~Heard
  BY <1>2, <1>4 DEF HeldInv
<1>5. CASE Head(back) = "ack"  BY <1>1, <1>3, <1>4, <1>5 DEF States
<1>6. CASE Head(back) = "nack"
 <2>1. ~Heard  BY <1>3, <1>6 DEF Heard, WireInv, Verdict
 <2> QED  BY <1>1, <1>6, <2>1
<1>7. CASE Head(back) \in {"reply", "stop"}
 <2>1. client' = client  BY <1>1, <1>3, <1>4, <1>7 DEF Answered, States
 <2>2. ASSUME Heard  PROVE FALSE
  <3>1. PICK i \in DOMAIN back : back[i] = "ack"  BY <2>2 DEF Heard
  <3>2. DOMAIN back = 1 .. Len(back) /\ Len(back) \in Nat  BY <1>3, LenProperties
  <3>3. i - 1 \in 1 .. Len(back) - 1  BY <1>3, <1>7, <3>1, <3>2
  <3>4. i - 1 \in DOMAIN Tail(back) /\ Tail(back)[i - 1] = back[i]
   <4>1. /\ Len(Tail(back)) = Len(back) - 1 /\ Tail(back) \in Seq(Verdict \cup Final)
         /\ \A j \in 1 .. Len(Tail(back)) : Tail(back)[j] = back[j + 1]
     BY <1>1, <1>3, HeadTailProperties
   <4>2. DOMAIN Tail(back) = 1 .. Len(back) - 1  BY <4>1, LenProperties
   <4>3. (i - 1) + 1 = i  BY <3>2
   <4> QED  BY <3>3, <4>1, <4>2, <4>3
  <3> QED  BY <1>1, <1>4, <3>1, <3>4 DEF Heard
 <2> QED  BY <2>1, <2>2
<1> QED  BY <1>3, <1>5, <1>6, <1>7 DEF Verdict, Final

LEMMA SilencePut ==
    ASSUME StubInv, PutBackInv, HeldInv, Silence
    PROVE  PutBackInv' /\ HeldInv'
<1>1. /\ back = <<>> /\ UNCHANGED Stub /\ client \in [st : States, cmd : Sent]
      /\ \/ client' = client
         \/ client' = IF client.cmd.op \in Resumes THEN [client EXCEPT !.st = "run"] ELSE Answered
  BY DEF Silence, StubInv, WireType
<1>2. PutBackInv' /\ UNCHANGED <<dbg, frames>>  BY <1>1, ClientPut
<1>3. ~Heard  BY <1>1 DEF Heard
<1>4. client' = client \/ client'.st # "ack"  BY <1>1 DEF Answered, States
<1> QED  BY <1>2, <1>3, <1>4 DEF HeldInv

LEMMA PutSteps ==
    ASSUME Careful, StubInv, PutBackInv, HeldInv, [StubNext]_stubVars, ~Damage
    PROVE  PutBackInv' /\ HeldInv'
<1>1. CASE Execute  BY <1>1, ExecutePut
<1>2. CASE StepOutside  BY <1>2, StepOutsidePut
<1>3. CASE SerialInterrupt  BY <1>3, SerialInterruptPut
<1>4. CASE Receive  BY <1>4, ReceivePut
<1>5. CASE Timeout
 <2>1. UNCHANGED <<dbg, prog, frames, trapped, back, client, fresh>>  BY <1>5 DEF Timeout
 <2> QED  BY <2>1, PutStill, HeldKept DEF Heard
<1>6. CASE \E c \in Cmds : Send(c)  BY <1>6, SendPut
<1>7. CASE Break  BY <1>7, BreakPut
<1>8. CASE Listen  BY <1>8, ListenPut
<1>9. CASE Silence  BY <1>9, SilencePut
<1>10. CASE UNCHANGED stubVars
 <2>1. UNCHANGED <<dbg, prog, frames, trapped, back, client, fresh>>  BY <1>10 DEF stubVars
 <2> QED  BY <2>1, PutStill, HeldKept DEF Heard
<1> QED  BY <1>1, <1>2, <1>3, <1>4, <1>5, <1>6, <1>7, <1>8, <1>9, <1>10 DEF StubNext, Stubs

\* Until the line damages something only the slot the program stopped at is
\* out of its text
PutBack == Undamaged /\ (n.faults = 0 => PutBackInv /\ HeldInv)

LEMMA PutBackInvariance ==
    ASSUME Careful
    PROVE  StubSpec => []PutBack
<1>1. StubInit => PutBackInv /\ HeldInv
 <2>1. SUFFICES ASSUME StubInit  PROVE PutBackInv /\ HeldInv  OBVIOUS
 <2>2. dbg.bps = <<>> /\ dbg.pend = 0 /\ client.st = "run"  BY <2>1 DEF StubInit
 <2>3. DOMAIN dbg.bps = {}  BY <2>2
 <2> QED  BY <2>2, <2>3 DEF PutBackInv, SlotsPut, HeldInv, Now
<1>2. Undamaged /\ Undamaged' /\ PutBack /\ [StubNext]_stubVars => PutBack'
 <2>1. SUFFICES ASSUME Undamaged, Undamaged', PutBack, [StubNext]_stubVars, n'.faults = 0
                PROVE  PutBackInv' /\ HeldInv'
   BY DEF PutBack
 <2>2. n.faults = 0 /\ ~Damage  BY <2>1, CountSteps DEF Undamaged
 <2> QED  BY <2>1, <2>2, PutSteps DEF PutBack, Undamaged
<1>3. StubInit /\ Undamaged => PutBack  BY <1>1 DEF PutBack
<1> QED  BY <1>2, <1>3, StubInvariance, PTL DEF StubSpec

\* For a client that does what GDB does by default, on a line that damages
\* nothing, the program executes the instruction under a breakpoint only as
\* the first one after a stop there, whatever it sends in between
\* (debugger_handle_breakpoint_trap, debugger_handle_debug_trap).
THEOREM NeverRunsThrough ==
    ASSUME Careful
    PROVE  StubSpec => NoRunThrough
<1>1. PutBack /\ [StubNext]_stubVars =>
         [ (Execute /\ text[prog.pc] # "int3" /\ ~fresh /\ n.faults = 0)
           => \A i \in DOMAIN dbg.bps : Enabled(i) => dbg.bps[i].addr # prog.pc ]_stubVars
 <2>1. SUFFICES ASSUME PutBack, Execute, text[prog.pc] # "int3", ~fresh, n.faults = 0,
                       NEW i \in DOMAIN dbg.bps, Enabled(i), dbg.bps[i].addr = prog.pc
                PROVE  FALSE
   OBVIOUS
 <2>2. StubInv /\ PutBackInv /\ Good(Now) /\ prog.pc \in Code
   BY <2>1 DEF PutBack, Undamaged, StubInv, MachineInv, Progs
 <2>3. dbg.bps[i].on /\ Now.d = dbg /\ Now.text = text /\ frames = <<>>
   BY <2>1 DEF Enabled, Now, Execute
 <2>4. ~dbg.bps[i].ins  BY <2>1, <2>2, <2>3 DEF Good, TextOK, In
 <2>5. i = dbg.pend /\ i # 0
  <3>1. Now \in Memory  BY <2>2 DEF Good
  <3>2. i \in 1 .. Len(dbg.bps)  BY <2>3, <3>1, SlotFields
  <3> QED  BY <2>2, <2>3, <2>4, <3>2 DEF PutBackInv, SlotsPut
 <2>6. Waits(dbg.bps[dbg.pend].addr)  BY <2>2, <2>5 DEF PutBackInv
 <2> QED  BY <2>1, <2>3, <2>6 DEF Waits
<1> QED  BY <1>1, PutBackInvariance, PTL DEF StubSpec, NoRunThrough
=============================================================================
