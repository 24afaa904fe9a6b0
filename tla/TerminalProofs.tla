--------------------------- MODULE TerminalProofs ---------------------------
(* Theorems about Terminal, for every set of processes, keys and counts,   *)
(* and every size of the rings and of Canonb.                              *)
EXTENDS Terminal, SequenceTheorems, FiniteSetTheorems, WellFoundedInduction, TLAPS

-----------------------------------------------------------------------------
(* The inductive invariant.                                                *)

InsidePCs == {"canon", "sleep", "woken", "sleepset", "take", "takenext", "delct", "delctstore",
              "put", "pass", "passnext", "nfrele"}
PCs == {"user", "nflock", "lockwait", "writewait", "write", "dying", "dead"} \cup InsidePCs

Ring  == [buf : [0 .. Size - 1 -> Chars], head : 0 .. Size - 1, tail : 0 .. Size - 1]
Local == [pc : PCs, count : Nat, want : Nat, work : Seq(Chars), ch : Chars,
          at : 0 .. Size - 1, num : Int, own : BOOLEAN]
Hist  == [typed : Seq(Chars), taken : Seq(Chars), reads : Nat, flushed : BOOLEAN,
          full : BOOLEAN, bells : Nat, broken : BOOLEAN, missed : BOOLEAN, aborted : BOOLEAN,
          split : BOOLEAN]
PrefixCodes == {"0", "E0", "E1", "100"}

TypeInv ==
    /\ raw \in Ring /\ can \in Ring
    /\ delct \in Int
    /\ inode \in [lock : BOOLEAN, want : BOOLEAN]
    /\ u \in [Procs -> Local]
    /\ cpu \in Procs \cup {NoProc}
    /\ sig \subseteq Procs \ {Shell}
    /\ kb.pre \in PrefixCodes
    /\ hist \in Hist

\* A read has not more to do than it was asked, and Canonb has room: for one
\* character more while Canon fills it
BoundsInv == \A p \in Procs :
    /\ u[p].count <= u[p].want
    /\ Len(u[p].work) <= MaxLine
    /\ u[p].pc \in {"take", "takenext"} => Len(u[p].work) < MaxLine

\* LockHeld, of single processes
LockInv ==
    ~hist.broken =>
        /\ \A p, q \in Inside : p = q
        /\ Inside # {} => inode.lock
        /\ inode.lock /\ ~hist.aborted => Inside # {}
        /\ Waiting # {} => inode.lock /\ inode.want

\* A reader that was woken finds a line: nobody else is there to take it
WakeInv ==
    ~hist.flushed /\ ~hist.broken => \A p \in Procs :
        /\ u[p].pc = "sleep" => delct = 0
        /\ u[p].pc = "woken" => delct > 0
        /\ u[p].pc # "sleepset"

IndInv == TypeInv /\ BoundsInv /\ LockInv /\ WakeInv
-----------------------------------------------------------------------------
(* Rings and the keyboard.                                                 *)

LEMMA ModRange ==
    ASSUME NEW x \in Int
    PROVE  Mod(x) \in 0 .. Size - 1
  BY TerminalAssumption DEF Mod

LEMMA PutCharType ==
    ASSUME NEW q \in Ring, NEW c \in Chars
    PROVE  PutChar(q, c) \in Ring
<1> DEFINE r == [q EXCEPT !.buf[q.head] = c]
<1>1. r \in Ring
 <2>1. [q.buf EXCEPT ![q.head] = c] \in [0 .. Size - 1 -> Chars]  BY DEF Ring
 <2>2. r = [q EXCEPT !.buf = [q.buf EXCEPT ![q.head] = c]]  OBVIOUS
 <2> QED  BY <2>1, <2>2 DEF Ring
<1>2. PutChar(q, c) = [r EXCEPT !.head = Mod(r.head + 1)]  BY DEF PutChar
<1> HIDE DEF r
<1>3. Mod(r.head + 1) \in 0 .. Size - 1
 <2>1. r.head + 1 \in Int  BY <1>1, TerminalAssumption DEF Ring
 <2> QED  BY <2>1, ModRange
<1> QED  BY <1>1, <1>2, <1>3 DEF Ring

LEMMA TailType ==
    ASSUME NEW q \in Ring, NEW t \in 0 .. Size - 1
    PROVE  [q EXCEPT !.tail = Mod(t + 1)] \in Ring
<1>1. Mod(t + 1) \in 0 .. Size - 1  BY TerminalAssumption, ModRange
<1> QED  BY <1>1 DEF Ring

\* What the handler holds between two codes
IsCodeState(s) == /\ s = [pre |-> s.pre, mode |-> s.mode, ch |-> s.ch]
                  /\ s.pre \in PrefixCodes /\ s.ch \in Chars \cup {"intr"}

LEMMA TranslateType ==
    ASSUME NEW mode, NEW key, NEW expand
    PROVE  ScanCodeTranslate(mode, key, expand) \in Chars \cup {"intr"}
  BY DEF ScanCodeTranslate, Chars, Letters, Control, Plain, Keypad

LEMMA HandledType ==
    ASSUME NEW s, IsCodeState(s), NEW code, NEW expand
    PROVE  IsCodeState(Handled(s, code, expand))
<1>1. PICK h : h = HandleScanCode(s.mode, code, expand)  OBVIOUS
<1>2. h.ch \in Chars \cup {"intr"}
 <2>1. ScanCodeTranslate(s.mode, code.key, expand) \in Chars \cup {"intr"}  BY TranslateType
 <2>2. h.ch \in {"nul", ScanCodeTranslate(s.mode, code.key, expand)}  BY <1>1 DEF HandleScanCode
 <2> QED  BY <2>1, <2>2 DEF Chars
<1>3. Handled(s, code, expand)
         = [pre |-> "0", mode |-> h.mode, ch |-> IF h.ch = "nul" THEN s.ch ELSE h.ch]
  BY <1>1 DEF Handled
<1> QED  BY <1>2, <1>3 DEF IsCodeState, PrefixCodes

LEMMA NextCodeType ==
    ASSUME NEW s, IsCodeState(s), NEW code
    PROVE  IsCodeState(NextCode(s, code))
<1>1. CASE Expand(s, code) = "none"
 <2>1. Prefix(s, code) \in PrefixCodes  BY <1>1 DEF Expand, Prefix, PrefixCodes
 <2>2. NextCode(s, code) = [s EXCEPT !.pre = Prefix(s, code)]  BY <1>1 DEF NextCode
 <2> QED  BY <2>1, <2>2 DEF IsCodeState
<1>2. CASE Expand(s, code) # "none"  BY <1>2, HandledType DEF NextCode
<1> QED  BY <1>1, <1>2

LEMMA HandleCodesType ==
    ASSUME NEW s, IsCodeState(s), NEW codes
    PROVE  IsCodeState(HandleCodes(s, codes))
<1> DEFINE After(i, t) == IF i \in DOMAIN codes THEN NextCode(t, codes[i]) ELSE t
<1>1. ASSUME NEW t, IsCodeState(t), NEW i PROVE IsCodeState(After(i, t))  BY <1>1, NextCodeType
<1>2. HandleCodes(s, codes)
         = After(6, After(5, After(4, After(3, After(2, After(1, s))))))
  BY DEF HandleCodes
<1> HIDE DEF After
<1> QED  BY <1>1, <1>2
-----------------------------------------------------------------------------
(* What the steps of a process have in common.                             *)

\* p goes on as r says
Becomes(p, r) == u' = [u EXCEPT ![p] = r]
Bounded(r) == /\ r.count <= r.want
              /\ Len(r.work) <= MaxLine
              /\ r.pc \in {"take", "takenext"} => Len(r.work) < MaxLine

LEMMA BecomesType ==
    ASSUME TypeInv, BoundsInv, NEW p \in Procs, NEW r \in Local, Bounded(r), Becomes(p, r)
    PROVE  /\ u' \in [Procs -> Local] /\ BoundsInv'
           /\ u'[p] = r /\ \A q \in Procs : q # p => u'[q] = u[q]
  BY DEF TypeInv, BoundsInv, Becomes, Bounded

\* Only the place changes
LEMMA PcType ==
    ASSUME TypeInv, BoundsInv, NEW p \in Procs, NEW l \in PCs \ {"take", "takenext"},
           u' = Pc(p, l)
    PROVE  /\ u' \in [Procs -> Local] /\ BoundsInv'
           /\ u'[p].pc = l /\ \A q \in Procs : q # p => u'[q] = u[q]
<1> DEFINE r == [u[p] EXCEPT !.pc = l]
<1>1. u[p] \in Local  BY DEF TypeInv
<1>2. r \in Local /\ r.pc = l /\ r.count = u[p].count /\ r.want = u[p].want
      /\ r.work = u[p].work
  BY <1>1 DEF Local
<1>3. Bounded(r)  BY <1>2 DEF Bounded, BoundsInv
<1>4. Becomes(p, r)  BY DEF Pc, Becomes
<1> HIDE DEF r
<1> QED  BY <1>2, <1>3, <1>4, BecomesType

\* Release and Wake move those who wait, and change nothing else
LEMMA WakeType ==
    ASSUME NEW f \in [Procs -> Local], NEW from \in PCs, NEW to \in PCs \ {"take", "takenext"}
    PROVE  /\ Wake(f, from, to) \in [Procs -> Local]
           /\ \A q \in Procs : /\ Bounded(f[q]) => Bounded(Wake(f, from, to)[q])
                               /\ Wake(f, from, to)[q].pc = IF f[q].pc = from THEN to ELSE f[q].pc
<1> SUFFICES ASSUME NEW q \in Procs
             PROVE  /\ Wake(f, from, to)[q] \in Local
                    /\ Bounded(f[q]) => Bounded(Wake(f, from, to)[q])
                    /\ Wake(f, from, to)[q].pc = IF f[q].pc = from THEN to ELSE f[q].pc
  BY DEF Wake
<1>1. Wake(f, from, to)[q] = IF f[q].pc = from THEN [f[q] EXCEPT !.pc = to] ELSE f[q]  BY DEF Wake
<1>2. f[q] \in Local  OBVIOUS
<1> QED  BY <1>1, <1>2 DEF Local, Bounded

LEMMA ReleaseType ==
    ASSUME TypeInv, BoundsInv
    PROVE  /\ Release(u) \in [Procs -> Local]
           /\ \A q \in Procs :
                 /\ Bounded(Release(u)[q])
                 /\ Release(u)[q].pc = IF ~inode.want THEN u[q].pc
                                       ELSE IF u[q].pc = "lockwait" THEN "nflock"
                                       ELSE IF u[q].pc = "writewait" THEN "write"
                                       ELSE u[q].pc
<1> DEFINE w == Wake(u, "lockwait", "nflock")
<1>1. u \in [Procs -> Local] /\ \A q \in Procs : Bounded(u[q])  BY DEF TypeInv, BoundsInv, Bounded
<1>2. "lockwait" \in PCs /\ "writewait" \in PCs /\ "nflock" \in PCs \ {"take", "takenext"}
      /\ "write" \in PCs \ {"take", "takenext"}
  BY DEF PCs
<1>3. /\ w \in [Procs -> Local]
      /\ \A q \in Procs : /\ Bounded(w[q])
                          /\ w[q].pc = IF u[q].pc = "lockwait" THEN "nflock" ELSE u[q].pc
  BY <1>1, <1>2, WakeType
<1> HIDE DEF w
<1>4. /\ Wake(w, "writewait", "write") \in [Procs -> Local]
      /\ \A q \in Procs :
            /\ Bounded(Wake(w, "writewait", "write")[q])
            /\ Wake(w, "writewait", "write")[q].pc =
                  IF w[q].pc = "writewait" THEN "write" ELSE w[q].pc
  BY <1>2, <1>3, WakeType
<1>5. Release(u) = IF inode.want THEN Wake(w, "writewait", "write") ELSE u  BY DEF Release, w
<1> QED  BY <1>1, <1>3, <1>4, <1>5

\* A process in the driver goes on, and does not sleep
LEMMA StaysInside ==
    ASSUME IndInv, NEW p \in Procs, u[p].pc \in InsidePCs,
           u'[p].pc \in InsidePCs \ {"sleep", "woken", "sleepset"},
           \A q \in Procs : q # p => u'[q] = u[q],
           inode' = inode, hist'.broken = hist.broken, hist'.aborted = hist.aborted,
           hist'.flushed = hist.flushed
    PROVE  LockInv' /\ WakeInv'
<1>1. Inside' = Inside /\ p \in Inside  BY DEF Inside, InsidePCs
<1>2. Waiting' = Waiting  BY DEF Waiting, InsidePCs
<1>3. LockInv'  BY <1>1, <1>2 DEF IndInv, LockInv
<1>4. WakeInv'
 <2>1. ~hist.broken => \A q \in Procs : q # p => u'[q].pc \notin {"sleep", "woken", "sleepset"}
   BY <1>1 DEF IndInv, LockInv, Inside
 <2> QED  BY <2>1 DEF WakeInv
<1> QED  BY <1>3, <1>4

\* A process outside the driver goes on outside, or waits for who is inside
LEMMA StaysOutside ==
    ASSUME IndInv, NEW p \in Procs, u[p].pc \notin InsidePCs,
           u'[p].pc \notin InsidePCs,
           u'[p].pc \in {"lockwait", "writewait"} => inode'.lock /\ inode'.want,
           \A q \in Procs : q # p => u'[q] = u[q], delct' = delct,
           inode'.lock = inode.lock, inode.want => inode'.want,
           hist'.broken = hist.broken, hist'.aborted = hist.aborted,
           hist'.flushed = hist.flushed
    PROVE  LockInv' /\ WakeInv'
<1>1. Inside' = Inside  BY DEF Inside, InsidePCs
<1>2. Waiting' # {} => Waiting # {} \/ (inode'.lock /\ inode'.want)  BY DEF Waiting
<1>3. LockInv'  BY <1>1, <1>2 DEF IndInv, LockInv
<1>4. WakeInv'  BY DEF IndInv, WakeInv, InsidePCs
<1> QED  BY <1>3, <1>4

-----------------------------------------------------------------------------
(* Every step of a process.                                                *)

LEMMA ReadInv ==
    ASSUME IndInv, NEW p \in Procs, Read(p)
    PROVE  IndInv'
<1>1. PICK c \in Counts :
         u' = [u EXCEPT ![p].pc = "nflock", ![p].count = c, ![p].want = c]
  BY DEF Read
<1>2. /\ u[p].pc = "user" /\ cpu' = p /\ hist' = [hist EXCEPT !.reads = @ + 1]
      /\ UNCHANGED <<raw, can, delct, inode, sig, kb, held, keys>>
  BY DEF Read, Enter, Keyboard
<1>3. TypeInv /\ BoundsInv /\ u[p] \in Local /\ Bounded(u[p]) /\ c \in Nat
  BY TerminalAssumption DEF IndInv, TypeInv, BoundsInv, Bounded
<1> DEFINE r == [u[p] EXCEPT !.pc = "nflock", !.count = c, !.want = c]
<1>4. r \in Local /\ Bounded(r) /\ r.pc = "nflock"
 <2>1. "nflock" \in PCs  BY DEF PCs
 <2>2. /\ r \in Local /\ r.pc = "nflock" /\ r.count = c /\ r.want = c
       /\ r.work = u[p].work
   BY <1>3, <2>1 DEF Local
 <2> HIDE DEF r
 <2> QED  BY <1>3, <2>2 DEF Bounded
<1>5. Becomes(p, r)  BY <1>1 DEF Becomes
<1> HIDE DEF r
<1>6. /\ u' \in [Procs -> Local] /\ BoundsInv'
      /\ u'[p].pc = "nflock" /\ \A q \in Procs : q # p => u'[q] = u[q]
  BY <1>3, <1>4, <1>5, BecomesType
<1>7. hist' \in Hist /\ hist'.broken = hist.broken /\ hist'.aborted = hist.aborted
      /\ hist'.flushed = hist.flushed
  BY <1>2, <1>3 DEF TypeInv, Hist
<1>8. TypeInv'  BY <1>2, <1>3, <1>6, <1>7 DEF TypeInv
<1>9. LockInv' /\ WakeInv'  BY <1>2, <1>6, <1>7, StaysOutside DEF InsidePCs
<1> QED  BY <1>6, <1>8, <1>9 DEF IndInv

LEMMA NFlockWaitInv ==
    ASSUME IndInv, NEW p \in Procs, NFlockWait(p)
    PROVE  IndInv'
<1>1. /\ u[p].pc = "nflock" /\ inode.lock /\ u' = Pc(p, "lockwait") /\ cpu' = NoProc
      /\ inode' = [inode EXCEPT !.want = TRUE]
      /\ UNCHANGED <<raw, can, delct, sig, kb, held, keys, hist>>
  BY DEF NFlockWait, Keyboard
<1>2. TypeInv /\ BoundsInv /\ "lockwait" \in PCs \ {"take", "takenext"}  BY DEF IndInv, PCs
<1>3. /\ u' \in [Procs -> Local] /\ BoundsInv'
      /\ u'[p].pc = "lockwait" /\ \A q \in Procs : q # p => u'[q] = u[q]
  BY <1>1, <1>2, PcType
<1>4. inode' \in [lock : BOOLEAN, want : BOOLEAN] /\ inode'.lock = inode.lock /\ inode'.want
  BY <1>1, <1>2 DEF TypeInv
<1>5. TypeInv'  BY <1>1, <1>2, <1>3, <1>4 DEF TypeInv
<1>6. LockInv' /\ WakeInv'  BY <1>1, <1>3, <1>4, StaysOutside DEF InsidePCs
<1> QED  BY <1>3, <1>5, <1>6 DEF IndInv

\* The lock is free: nobody is inside, and p enters
LEMMA NFlockInv ==
    ASSUME IndInv, NEW p \in Procs, NFlock(p)
    PROVE  IndInv'
<1> DEFINE l == IF CharNum(can) # 0 THEN "pass" ELSE "canon"
<1>1. /\ u[p].pc = "nflock" /\ ~inode.lock /\ u' = Pc(p, l) /\ cpu' = p
      /\ inode' = [inode EXCEPT !.lock = TRUE]
      /\ UNCHANGED <<raw, can, delct, sig, kb, held, keys, hist>>
  BY DEF NFlock, Keyboard
<1>2. TypeInv /\ BoundsInv /\ l \in PCs \ {"take", "takenext"} /\ l \in {"pass", "canon"}
  BY DEF IndInv, PCs, InsidePCs
<1> HIDE DEF l
<1>3. /\ u' \in [Procs -> Local] /\ BoundsInv'
      /\ u'[p].pc = l /\ \A q \in Procs : q # p => u'[q] = u[q]
  BY <1>1, <1>2, PcType
<1>4. inode' \in [lock : BOOLEAN, want : BOOLEAN] /\ inode'.lock  BY <1>1, <1>2 DEF TypeInv
<1>5. TypeInv'  BY <1>1, <1>2, <1>3, <1>4 DEF TypeInv
<1>6. Inside' = Inside \cup {p} /\ Waiting' = Waiting  BY <1>1, <1>2, <1>3 DEF Inside, Waiting
<1>7. LockInv'  BY <1>1, <1>4, <1>6 DEF IndInv, LockInv
<1>8. WakeInv'  BY <1>1, <1>2, <1>3 DEF IndInv, WakeInv
<1> QED  BY <1>3, <1>5, <1>7, <1>8 DEF IndInv

\* A signal takes p out of Canon, and the lock stays
LEMMA AbortInv ==
    ASSUME IndInv, NEW p \in Procs, u[p].pc \in InsidePCs, Abort(p),
           UNCHANGED <<raw, can, delct, inode, sig, kb, held, keys>>
    PROVE  IndInv'
<1>1. u' = Pc(p, "dying") /\ cpu' = NoProc /\ hist' = [hist EXCEPT !.aborted = TRUE]  BY DEF Abort
<1>2. TypeInv /\ BoundsInv /\ "dying" \in PCs \ {"take", "takenext"}  BY DEF IndInv, PCs
<1>3. /\ u' \in [Procs -> Local] /\ BoundsInv'
      /\ u'[p].pc = "dying" /\ \A q \in Procs : q # p => u'[q] = u[q]
  BY <1>1, <1>2, PcType
<1>4. hist' \in Hist /\ hist'.broken = hist.broken /\ hist'.aborted
      /\ hist'.flushed = hist.flushed
  BY <1>1, <1>2 DEF TypeInv, Hist
<1>5. TypeInv'  BY <1>1, <1>2, <1>3, <1>4 DEF TypeInv
<1>6. Inside' = Inside \ {p} /\ p \in Inside /\ Waiting' = Waiting
  BY <1>3 DEF Inside, Waiting, InsidePCs
<1>7. LockInv'  BY <1>4, <1>6 DEF IndInv, LockInv
<1>8. WakeInv'  BY <1>3, <1>4 DEF IndInv, WakeInv
<1> QED  BY <1>3, <1>5, <1>7, <1>8 DEF IndInv

\* p goes to sleep for a line when none is counted
LEMMA GoToSleepInv ==
    ASSUME IndInv, NEW p \in Procs, u[p].pc \in {"canon", "sleepset"}, GoToSleep(p),
           u[p].pc = "canon" => delct = 0,
           UNCHANGED <<raw, can, delct, inode, sig, kb, held, keys>>
    PROVE  IndInv'
<1>1. CASE Abort(p)  BY <1>1, AbortInv DEF InsidePCs
<1>2. CASE u' = Pc(p, "sleep") /\ cpu' = NoProc /\ UNCHANGED hist
 <2>1. TypeInv /\ BoundsInv /\ "sleep" \in PCs \ {"take", "takenext"}  BY DEF IndInv, PCs, InsidePCs
 <2>2. /\ u' \in [Procs -> Local] /\ BoundsInv'
       /\ u'[p].pc = "sleep" /\ \A q \in Procs : q # p => u'[q] = u[q]
   BY <1>2, <2>1, PcType
 <2>3. TypeInv'  BY <1>2, <2>1, <2>2 DEF TypeInv
 <2>4. Inside' = Inside /\ Waiting' = Waiting  BY <2>2 DEF Inside, Waiting
 <2>5. LockInv'  BY <1>2, <2>4 DEF IndInv, LockInv
 <2>6. WakeInv'  BY <1>2, <2>2 DEF IndInv, WakeInv
 <2> QED  BY <2>2, <2>3, <2>5, <2>6 DEF IndInv
<1> QED  BY <1>1, <1>2 DEF GoToSleep

\* Canon passes the look at t_delct, or will sleep: then it has no line
LEMMA CanonGoesOnInv ==
    ASSUME IndInv, NEW p \in Procs, u[p].pc \in {"canon", "woken"},
           u' = [u EXCEPT ![p].pc = IF delct # 0 THEN "take" ELSE "sleepset", ![p].work = <<>>],
           u[p].pc = "canon" => delct # 0,
           UNCHANGED <<raw, can, delct, inode, sig, kb, held, keys, hist>>, cpu' \in {cpu, p}
    PROVE  IndInv'
<1> DEFINE r == [u[p] EXCEPT !.pc = IF delct # 0 THEN "take" ELSE "sleepset", !.work = <<>>]
<1>1. TypeInv /\ BoundsInv /\ u[p] \in Local /\ Bounded(u[p])
  BY DEF IndInv, TypeInv, BoundsInv, Bounded
<1>2. <<>> \in Seq(Chars) /\ Len(<<>>) = 0  OBVIOUS
<1>3. /\ r \in Local /\ r.pc = IF delct # 0 THEN "take" ELSE "sleepset"
      /\ r.work = <<>> /\ r.count = u[p].count /\ r.want = u[p].want
  BY <1>1, <1>2 DEF Local, PCs, InsidePCs
<1>4. Bounded(r)  BY <1>1, <1>2, <1>3, TerminalAssumption DEF Bounded
<1>5. Becomes(p, r)  BY DEF Becomes
<1> HIDE DEF r
<1>6. /\ u' \in [Procs -> Local] /\ BoundsInv'
      /\ u'[p].pc = (IF delct # 0 THEN "take" ELSE "sleepset")
      /\ \A q \in Procs : q # p => u'[q] = u[q]
  BY <1>1, <1>3, <1>4, <1>5, BecomesType
<1>7. TypeInv'  BY <1>1, <1>6 DEF TypeInv
<1>8. LockInv' /\ WakeInv'
 <2>1. CASE delct # 0  BY <1>6, <2>1, StaysInside DEF InsidePCs
 <2>2. CASE delct = 0
  <3>1. Inside' = Inside /\ Waiting' = Waiting  BY <1>6, <2>2 DEF Inside, Waiting
  <3>2. hist.flushed \/ hist.broken  BY <2>2 DEF IndInv, WakeInv
  <3> QED  BY <3>1, <3>2 DEF IndInv, LockInv, WakeInv
 <2> QED  BY <2>1, <2>2
<1> QED  BY <1>6, <1>7, <1>8 DEF IndInv

LEMMA CanonTestInv ==
    ASSUME IndInv, NEW p \in Procs, CanonTest(p)
    PROVE  IndInv'
<1>1. u[p].pc = "canon" /\ UNCHANGED <<raw, can, delct, inode, sig, kb, held, keys>>
  BY DEF CanonTest, At, Keyboard
<1>2. CASE delct # 0
 <2>1. u' = [u EXCEPT ![p].pc = IF delct # 0 THEN "take" ELSE "sleepset", ![p].work = <<>>]
   BY <1>2 DEF CanonTest
 <2>2. UNCHANGED <<cpu, hist>>  BY <1>2 DEF CanonTest
 <2> QED  BY <1>1, <1>2, <2>1, <2>2, CanonGoesOnInv
<1>3. CASE delct = 0  BY <1>1, <1>3, GoToSleepInv DEF CanonTest
<1> QED  BY <1>2, <1>3

LEMMA CanonAgainInv ==
    ASSUME IndInv, NEW p \in Procs, CanonAgain(p)
    PROVE  IndInv'
<1>1. u[p].pc = "woken" /\ UNCHANGED <<raw, can, delct, inode, sig, kb, held, keys>>
  BY DEF CanonAgain, Keyboard
<1>2. CASE Abort(p)  BY <1>1, <1>2, AbortInv DEF InsidePCs
<1>3. CASE /\ u' = [u EXCEPT ![p].pc = IF delct # 0 THEN "take" ELSE "sleepset",
                             ![p].work = <<>>]
           /\ cpu' = p /\ UNCHANGED hist
  BY <1>1, <1>3, CanonGoesOnInv
<1> QED  BY <1>2, <1>3 DEF CanonAgain

LEMMA CanonSleepInv ==
    ASSUME IndInv, NEW p \in Procs, CanonSleep(p)
    PROVE  IndInv'
  BY GoToSleepInv DEF CanonSleep, At, Keyboard

LEMMA TakeReadInv ==
    ASSUME IndInv, NEW p \in Procs, TakeRead(p)
    PROVE  IndInv'
<1>1. u[p].pc = "take" /\ UNCHANGED <<raw, can, delct, inode, cpu, sig, kb, held, keys, hist>>
  BY DEF TakeRead, At, Keyboard
<1>2. TypeInv /\ BoundsInv /\ u[p] \in Local /\ Bounded(u[p])
  BY DEF IndInv, TypeInv, BoundsInv, Bounded
<1>3. /\ u' \in [Procs -> Local] /\ BoundsInv'
      /\ u'[p].pc \in {"put", "takenext"} /\ \A q \in Procs : q # p => u'[q] = u[q]
 <2>1. CASE CharNum(raw) = 0
  <3>1. u' = Pc(p, "put") /\ "put" \in PCs \ {"take", "takenext"}
    BY <2>1 DEF TakeRead, PCs, InsidePCs
  <3> QED  BY <1>2, <3>1, PcType
 <2>2. CASE CharNum(raw) # 0
  <3> DEFINE r == [u[p] EXCEPT !.pc = "takenext", !.ch = raw.buf[raw.tail],
                               !.at = raw.tail]
  <3>1. Becomes(p, r)  BY <2>2 DEF TakeRead, Becomes
  <3>2. raw.buf[raw.tail] \in Chars /\ raw.tail \in 0 .. Size - 1 /\ "takenext" \in PCs
    BY <1>2 DEF TypeInv, Ring, PCs, InsidePCs
  <3>3. /\ r \in Local /\ r.pc = "takenext" /\ r.work = u[p].work
        /\ r.count = u[p].count /\ r.want = u[p].want
    BY <1>2, <3>2 DEF Local
  <3> HIDE DEF r
  <3>4. Bounded(r)  BY <1>1, <1>2, <3>3 DEF Bounded
  <3> QED  BY <1>2, <3>1, <3>3, <3>4, BecomesType
 <2> QED  BY <2>1, <2>2
<1>4. TypeInv'  BY <1>1, <1>2, <1>3 DEF TypeInv
<1>5. LockInv' /\ WakeInv'  BY <1>1, <1>3, StaysInside DEF InsidePCs
<1> QED  BY <1>3, <1>4, <1>5 DEF IndInv

\* Canonb grows by one character at most
LEMMA CanonizeType ==
    ASSUME NEW w \in Seq(Chars), NEW c \in Chars
    PROVE  Canonize(w, c) \in Seq(Chars) /\ Len(Canonize(w, c)) <= Len(w) + 1
<1>1. Append(w, c) \in Seq(Chars) /\ Len(Append(w, c)) = Len(w) + 1  OBVIOUS
<1>2. ASSUME w # <<>> PROVE Front(w) \in Seq(Chars) /\ Len(Front(w)) = Len(w) - 1
 <2>1. Len(w) \in Nat /\ Len(w) >= 1  BY <1>2
 <2>2. PICK n \in Nat : n = Len(w) - 1  BY <2>1
 <2>3. \A i \in 1 .. n : w[i] \in Chars  BY <2>1, <2>2
 <2>4. SubSeq(w, 1, n) \in Seq(Chars)
       /\ Len(SubSeq(w, 1, n)) = IF 1 <= n THEN n - 1 + 1 ELSE 0
   BY <2>3, SubSeqProperties
 <2>5. Len(SubSeq(w, 1, n)) = n  BY <2>4
 <2> QED  BY <2>2, <2>4, <2>5 DEF Front
<1>3. <<>> \in Seq(Chars) /\ Len(<<>>) = 0 /\ Len(w) \in Nat  OBVIOUS
<1>4. \/ Canonize(w, c) = Append(w, c) \/ Canonize(w, c) = w \/ Canonize(w, c) = <<>>
      \/ w # <<>> /\ Canonize(w, c) = Front(w)
  BY DEF Canonize
<1> HIDE DEF Canonize
<1>5. CASE Canonize(w, c) = Append(w, c)  BY <1>1, <1>3, <1>5
<1>6. CASE Canonize(w, c) = w  BY <1>3, <1>6
<1>7. CASE Canonize(w, c) = <<>>
 <2>1. 0 <= Len(w) + 1  BY <1>3
 <2> QED  BY <1>3, <1>7, <2>1, Zenon
<1>8. CASE w # <<>> /\ Canonize(w, c) = Front(w)  BY <1>2, <1>3, <1>8
<1> QED  BY <1>4, <1>5, <1>6, <1>7, <1>8

LEMMA TakeNextInv ==
    ASSUME IndInv, NEW p \in Procs, TakeNext(p)
    PROVE  IndInv'
<1> DEFINE work == Canonize(u[p].work, u[p].ch)
           full == u[p].ch # "bell" /\ Len(work) = MaxLine
<1>1. /\ u[p].pc = "takenext" /\ UNCHANGED <<can, delct, inode, cpu, sig, kb, held, keys>>
      /\ hist' = [hist EXCEPT !.split = @ \/ full]
      /\ u' = IF u[p].ch = "bell" THEN [u EXCEPT ![p].pc = "delct"]
              ELSE [u EXCEPT ![p].work = work, ![p].pc = IF full THEN "put" ELSE "take"]
  BY DEF TakeNext, At, Keyboard
<1>2. PICK t \in {u[p].at, raw.tail} : raw' = [raw EXCEPT !.tail = Mod(t + 1)]  BY DEF TakeNext
<1>3. /\ TypeInv /\ BoundsInv /\ u[p] \in Local /\ Bounded(u[p])
      /\ raw \in Ring /\ t \in 0 .. Size - 1
 <2>1. TypeInv /\ BoundsInv /\ u[p] \in Local /\ raw \in Ring  BY DEF IndInv, TypeInv
 <2>2. Bounded(u[p])  BY <2>1 DEF BoundsInv, Bounded
 <2>3. u[p].at \in 0 .. Size - 1 /\ raw.tail \in 0 .. Size - 1  BY <2>1 DEF Local, Ring
 <2> QED  BY <2>1, <2>2, <2>3
<1>4. raw' \in Ring  BY <1>2, <1>3, TailType
<1>5. u[p].work \in Seq(Chars) /\ u[p].ch \in Chars /\ Len(u[p].work) < MaxLine
  BY <1>1, <1>3 DEF Local, Bounded
<1>6. work \in Seq(Chars) /\ Len(work) <= MaxLine
 <2>1. work \in Seq(Chars) /\ Len(work) <= Len(u[p].work) + 1  BY <1>5, CanonizeType
 <2>2. Len(work) \in Nat /\ Len(u[p].work) \in Nat /\ MaxLine \in Nat
   BY <1>5, <2>1, LenProperties, TerminalAssumption
 <2> HIDE DEF work
 <2> QED  BY <1>5, <2>1, <2>2
<1> HIDE DEF work
<1>7. /\ u' \in [Procs -> Local] /\ BoundsInv'
      /\ u'[p].pc \in {"delct", "put", "take"} /\ \A q \in Procs : q # p => u'[q] = u[q]
 <2>1. CASE u[p].ch = "bell"
  <3>1. u' = Pc(p, "delct") /\ "delct" \in PCs \ {"take", "takenext"}
    BY <1>1, <2>1 DEF Pc, PCs, InsidePCs
  <3> QED  BY <1>3, <3>1, PcType
 <2>2. CASE u[p].ch # "bell"
  <3> DEFINE l == IF full THEN "put" ELSE "take"
             r == [u[p] EXCEPT !.work = work, !.pc = l]
  <3>1. Becomes(p, r)  BY <1>1, <2>2 DEF Becomes
  <3>2. l \in PCs  BY DEF PCs, InsidePCs
  <3>3. /\ r \in Local /\ r.pc = l /\ r.work = work
        /\ r.count = u[p].count /\ r.want = u[p].want
    BY <1>3, <1>6, <3>2 DEF Local
  <3>4. Len(work) = MaxLine <=> l = "put"  BY <2>2
  <3>5. Len(work) \in Nat /\ MaxLine \in Nat  BY <1>6, TerminalAssumption
  <3> HIDE DEF r, l
  <3>6. Bounded(r)  BY <1>3, <1>6, <3>3, <3>4, <3>5 DEF Bounded
  <3>7. r.pc \in {"put", "take"}  BY <3>3 DEF l
  <3> QED  BY <1>3, <3>1, <3>3, <3>6, <3>7, BecomesType
 <2> QED  BY <2>1, <2>2
<1>8. hist' \in Hist /\ hist'.broken = hist.broken /\ hist'.aborted = hist.aborted
      /\ hist'.flushed = hist.flushed
  BY <1>1, <1>3 DEF TypeInv, Hist
<1>9. TypeInv'  BY <1>1, <1>3, <1>4, <1>7, <1>8 DEF TypeInv
<1>10. LockInv' /\ WakeInv'  BY <1>1, <1>7, <1>8, StaysInside DEF InsidePCs
<1> QED  BY <1>7, <1>9, <1>10 DEF IndInv

LEMMA DelctLoadInv ==
    ASSUME IndInv, NEW p \in Procs, DelctLoad(p)
    PROVE  IndInv'
<1> DEFINE r == [u[p] EXCEPT !.pc = "delctstore", !.num = delct]
<1>1. /\ u[p].pc = "delct" /\ Becomes(p, r)
      /\ UNCHANGED <<raw, can, delct, inode, cpu, sig, kb, held, keys, hist>>
  BY DEF DelctLoad, At, Keyboard, Becomes
<1>2. TypeInv /\ BoundsInv /\ u[p] \in Local /\ Bounded(u[p]) /\ "delctstore" \in PCs
      /\ delct \in Int
  BY DEF IndInv, TypeInv, BoundsInv, Bounded, PCs, InsidePCs
<1>3. /\ r \in Local /\ r.pc = "delctstore" /\ r.work = u[p].work
      /\ r.count = u[p].count /\ r.want = u[p].want
  BY <1>2 DEF Local
<1> HIDE DEF r
<1>4. Bounded(r)  BY <1>2, <1>3 DEF Bounded
<1>5. /\ u' \in [Procs -> Local] /\ BoundsInv'
      /\ u'[p].pc = "delctstore" /\ \A q \in Procs : q # p => u'[q] = u[q]
  BY <1>1, <1>2, <1>3, <1>4, BecomesType
<1>6. TypeInv'  BY <1>1, <1>2, <1>5 DEF TypeInv
<1>7. LockInv' /\ WakeInv'  BY <1>1, <1>5, StaysInside DEF InsidePCs
<1> QED  BY <1>5, <1>6, <1>7 DEF IndInv

\* t_delct changes under nobody who waits for it: who sleeps is not in the driver alone
LEMMA DelctStoreInv ==
    ASSUME IndInv, NEW p \in Procs, DelctStore(p)
    PROVE  IndInv'
<1>1. /\ u[p].pc = "delctstore" /\ u' = Pc(p, "put") /\ delct' = u[p].num - 1
      /\ hist' = [hist EXCEPT !.missed = @ \/ delct # u[p].num]
      /\ UNCHANGED <<raw, can, inode, cpu, sig, kb, held, keys>>
  BY DEF DelctStore, At, Keyboard
<1>2. TypeInv /\ BoundsInv /\ u[p].num \in Int /\ "put" \in PCs \ {"take", "takenext"}
  BY DEF IndInv, TypeInv, Local, PCs, InsidePCs
<1>3. /\ u' \in [Procs -> Local] /\ BoundsInv'
      /\ u'[p].pc = "put" /\ \A q \in Procs : q # p => u'[q] = u[q]
  BY <1>1, <1>2, PcType
<1>4. hist' \in Hist /\ hist'.broken = hist.broken /\ hist'.aborted = hist.aborted
      /\ hist'.flushed = hist.flushed
 <2>1. PICK m \in BOOLEAN : hist' = [hist EXCEPT !.missed = m]  BY <1>1, Zenon
 <2> QED  BY <1>2, <2>1 DEF TypeInv, Hist
<1>5. TypeInv'  BY <1>1, <1>2, <1>3, <1>4 DEF TypeInv
<1>6. LockInv' /\ WakeInv'  BY <1>1, <1>3, <1>4, StaysInside DEF InsidePCs
<1> QED  BY <1>3, <1>5, <1>6 DEF IndInv

LEMMA PutCookedInv ==
    ASSUME IndInv, NEW p \in Procs, PutCooked(p)
    PROVE  IndInv'
<1>1. u[p].pc = "put" /\ UNCHANGED <<raw, delct, inode, cpu, sig, kb, held, keys>>
  BY DEF PutCooked, At, Keyboard
<1>2. TypeInv /\ BoundsInv /\ u[p] \in Local /\ Bounded(u[p]) /\ can \in Ring
  BY DEF IndInv, TypeInv, BoundsInv, Bounded
<1>3. /\ u' \in [Procs -> Local] /\ BoundsInv' /\ can' \in Ring
      /\ u'[p].pc \in {"put", "pass"} /\ \A q \in Procs : q # p => u'[q] = u[q]
 <2>1. CASE u[p].work = <<>>
  <3>1. u' = Pc(p, "pass") /\ can' = can /\ "pass" \in PCs \ {"take", "takenext"}
    BY <2>1 DEF PutCooked, PCs, InsidePCs
  <3> QED  BY <1>2, <3>1, PcType
 <2>2. CASE u[p].work # <<>>
  <3> DEFINE r == [u[p] EXCEPT !.work = Tail(@)]
  <3>1. Becomes(p, r) /\ can' = PutChar(can, Head(u[p].work))  BY <2>2 DEF PutCooked, Becomes
  <3>2. u[p].work \in Seq(Chars)  BY <1>2 DEF Local
  <3>3. /\ Head(u[p].work) \in Chars /\ Tail(u[p].work) \in Seq(Chars)
        /\ Len(Tail(u[p].work)) = Len(u[p].work) - 1 /\ Len(u[p].work) \in Nat
    BY <2>2, <3>2
  <3>4. can' \in Ring  BY <1>2, <3>1, <3>3, PutCharType
  <3>5. /\ r \in Local /\ r.pc = "put" /\ r.work = Tail(u[p].work)
        /\ r.count = u[p].count /\ r.want = u[p].want
    BY <1>1, <1>2, <3>3 DEF Local
  <3> HIDE DEF r
  <3>6. Bounded(r)  BY <1>2, <3>3, <3>5, TerminalAssumption DEF Bounded
  <3> QED  BY <1>2, <3>1, <3>4, <3>5, <3>6, BecomesType
 <2> QED  BY <2>1, <2>2
<1>4. /\ hist' \in Hist /\ hist'.broken = hist.broken /\ hist'.aborted = hist.aborted
      /\ hist'.flushed = hist.flushed
  BY <1>2 DEF PutCooked, TypeInv, Hist
<1>5. TypeInv'  BY <1>1, <1>2, <1>3, <1>4 DEF TypeInv
<1>6. LockInv' /\ WakeInv'  BY <1>1, <1>3, <1>4, StaysInside DEF InsidePCs
<1> QED  BY <1>3, <1>5, <1>6 DEF IndInv

LEMMA PassReadInv ==
    ASSUME IndInv, NEW p \in Procs, PassRead(p)
    PROVE  IndInv'
<1>1. u[p].pc = "pass" /\ UNCHANGED <<raw, can, delct, inode, cpu, sig, kb, held, keys, hist>>
  BY DEF PassRead, At, Keyboard
<1>2. TypeInv /\ BoundsInv /\ u[p] \in Local /\ Bounded(u[p])
  BY DEF IndInv, TypeInv, BoundsInv, Bounded
<1>3. /\ u' \in [Procs -> Local] /\ BoundsInv'
      /\ u'[p].pc \in {"nfrele", "passnext"} /\ \A q \in Procs : q # p => u'[q] = u[q]
 <2>1. CASE CharNum(can) = 0
  <3>1. u' = Pc(p, "nfrele") /\ "nfrele" \in PCs \ {"take", "takenext"}
    BY <2>1 DEF PassRead, PCs, InsidePCs
  <3> QED  BY <1>2, <3>1, PcType
 <2>2. CASE CharNum(can) # 0
  <3> DEFINE r == [u[p] EXCEPT !.pc = "passnext", !.ch = can.buf[can.tail],
                               !.at = can.tail]
  <3>1. Becomes(p, r)  BY <2>2 DEF PassRead, Becomes
  <3>2. can.buf[can.tail] \in Chars /\ can.tail \in 0 .. Size - 1 /\ "passnext" \in PCs
    BY <1>2 DEF TypeInv, Ring, PCs, InsidePCs
  <3>3. /\ r \in Local /\ r.pc = "passnext" /\ r.work = u[p].work
        /\ r.count = u[p].count /\ r.want = u[p].want
    BY <1>2, <3>2 DEF Local
  <3> HIDE DEF r
  <3>4. Bounded(r)  BY <1>2, <3>3 DEF Bounded
  <3> QED  BY <1>2, <3>1, <3>3, <3>4, BecomesType
 <2> QED  BY <2>1, <2>2
<1>4. TypeInv'  BY <1>1, <1>2, <1>3 DEF TypeInv
<1>5. LockInv' /\ WakeInv'  BY <1>1, <1>3, StaysInside DEF InsidePCs
<1> QED  BY <1>3, <1>4, <1>5 DEF IndInv

LEMMA PassNextInv ==
    ASSUME IndInv, NEW p \in Procs, PassNext(p)
    PROVE  IndInv'
<1>1. /\ u[p].pc = "passnext" /\ UNCHANGED <<raw, delct, inode, cpu, sig, kb, held, keys>>
      /\ hist' = [hist EXCEPT !.taken = Append(@, u[p].ch)]
  BY DEF PassNext, At, Keyboard
<1>2. PICK t \in {u[p].at, can.tail} : can' = [can EXCEPT !.tail = Mod(t + 1)]  BY DEF PassNext
<1>3. /\ TypeInv /\ BoundsInv /\ u[p] \in Local /\ Bounded(u[p])
      /\ can \in Ring /\ t \in 0 .. Size - 1
 <2>1. TypeInv /\ BoundsInv /\ u[p] \in Local /\ Bounded(u[p]) /\ can \in Ring
   BY DEF IndInv, TypeInv, BoundsInv, Bounded
 <2>2. u[p].at \in 0 .. Size - 1 /\ can.tail \in 0 .. Size - 1  BY <2>1 DEF Local, Ring
 <2> QED  BY <2>1, <2>2
<1>4. can' \in Ring  BY <1>2, <1>3, TailType
<1>5. /\ u' \in [Procs -> Local] /\ BoundsInv'
      /\ u'[p].pc \in {"pass", "nfrele"} /\ \A q \in Procs : q # p => u'[q] = u[q]
 <2>1. CASE u[p].count > 0
  <3> DEFINE r == [u[p] EXCEPT !.pc = "pass", !.count = @ - 1]
  <3>1. Becomes(p, r)  BY <2>1 DEF PassNext, Becomes
  <3>2. "pass" \in PCs /\ u[p].count - 1 \in Nat /\ u[p].want \in Nat /\ u[p].count \in Nat
    BY <1>3, <2>1 DEF PCs, InsidePCs, Local
  <3>3. /\ r \in Local /\ r.pc = "pass" /\ r.work = u[p].work
        /\ r.count = u[p].count - 1 /\ r.want = u[p].want
    BY <1>3, <3>2 DEF Local
  <3> HIDE DEF r
  <3>4. Bounded(r)  BY <1>1, <1>3, <3>2, <3>3 DEF Bounded
  <3> QED  BY <1>3, <3>1, <3>3, <3>4, BecomesType
 <2>2. CASE ~(u[p].count > 0)
  <3>1. u' = Pc(p, "nfrele") /\ "nfrele" \in PCs \ {"take", "takenext"}
    BY <2>2 DEF PassNext, PCs, InsidePCs
  <3> QED  BY <1>3, <3>1, PcType
 <2> QED  BY <2>1, <2>2
<1>6. hist' \in Hist /\ hist'.broken = hist.broken /\ hist'.aborted = hist.aborted
      /\ hist'.flushed = hist.flushed
 <2>1. u[p].ch \in Chars /\ hist.taken \in Seq(Chars) /\ hist \in Hist
   BY <1>3 DEF TypeInv, Local, Hist
 <2>2. Append(hist.taken, u[p].ch) \in Seq(Chars)  BY <2>1
 <2> QED  BY <1>1, <2>1, <2>2 DEF Hist
<1>7. TypeInv'  BY <1>1, <1>3, <1>4, <1>5, <1>6 DEF TypeInv
<1>8. LockInv' /\ WakeInv'  BY <1>1, <1>5, <1>6, StaysInside DEF InsidePCs
<1> QED  BY <1>5, <1>7, <1>8 DEF IndInv

\* Who unlocks the inode wakes all who wait for it
LEMMA UnlockType ==
    ASSUME TypeInv, BoundsInv, NEW p \in Procs, NEW l \in {"user", "dead"},
           NEW own \in BOOLEAN,
           \/ u' = [Release(u) EXCEPT ![p].pc = l]
           \/ u' = [Release(u) EXCEPT ![p].pc = l, ![p].own = own]
    PROVE  /\ u' \in [Procs -> Local] /\ BoundsInv'
           /\ u'[p].pc = l
           /\ \A q \in Procs : q # p => u'[q].pc = Release(u)[q].pc
<1> PICK f \in [Procs -> Local] : f = Release(u)  BY ReleaseType
<1>1. \A q \in Procs : Bounded(f[q])  BY ReleaseType
<1>2. l \in PCs /\ l \notin {"take", "takenext"}  BY DEF PCs
<1>3. PICK r \in Local : /\ u' = [f EXCEPT ![p] = r] /\ r.pc = l /\ Bounded(r)
 <2> DEFINE r1 == [f[p] EXCEPT !.pc = l]
            r2 == [f[p] EXCEPT !.pc = l, !.own = own]
 <2>1. f[p] \in Local  OBVIOUS
 <2>2. /\ r1 \in Local /\ r1.pc = l /\ r1.work = f[p].work /\ r1.count = f[p].count
       /\ r1.want = f[p].want
   BY <1>2, <2>1 DEF Local
 <2>3. /\ r2 \in Local /\ r2.pc = l /\ r2.work = f[p].work /\ r2.count = f[p].count
       /\ r2.want = f[p].want
   BY <1>2, <2>1 DEF Local
 <2>4. u' = [f EXCEPT ![p] = r1] \/ u' = [f EXCEPT ![p] = r2]  OBVIOUS
 <2> HIDE DEF r1, r2
 <2>5. Bounded(r1) /\ Bounded(r2)  BY <1>1, <1>2, <2>2, <2>3 DEF Bounded
 <2> QED  BY <2>2, <2>3, <2>4, <2>5
<1>4. u' \in [Procs -> Local] /\ u'[p] = r /\ \A q \in Procs : q # p => u'[q] = f[q]  BY <1>3
<1>5. BoundsInv'  BY <1>1, <1>3, <1>4 DEF BoundsInv, Bounded
<1> QED  BY <1>3, <1>4, <1>5

\* and if nobody else is inside then nobody waits any more
LEMMA UnlockInv ==
    ASSUME IndInv, NEW p \in Procs, u'[p].pc \in {"user", "dead"}, inode' = Unlocked,
           \A q \in Procs : q # p => u'[q].pc = Release(u)[q].pc,
           hist.broken => hist'.broken,
           ~hist'.broken => u[p].pc \in InsidePCs \/ ~inode.lock
    PROVE  LockInv' /\ WakeInv'
<1>1. TypeInv /\ BoundsInv  BY DEF IndInv
<1>2. ASSUME ~hist'.broken PROVE Inside' = {} /\ Waiting' = {}
 <2>1. /\ Inside \subseteq {p}
       /\ ~inode.want => Waiting = {}
   BY <1>2 DEF IndInv, LockInv, Inside, InsidePCs
 <2>2. ASSUME NEW q \in Procs, q # p PROVE u'[q].pc \notin InsidePCs \cup {"lockwait", "writewait"}
  <3>1. u'[q].pc = IF ~inode.want THEN u[q].pc
                   ELSE IF u[q].pc = "lockwait" THEN "nflock"
                   ELSE IF u[q].pc = "writewait" THEN "write"
                   ELSE u[q].pc
    BY <1>1, <2>2, ReleaseType
  <3>2. u[q].pc \notin InsidePCs  BY <2>1, <2>2 DEF Inside, InsidePCs
  <3>3. ~inode.want => u[q].pc \notin {"lockwait", "writewait"}  BY <2>1 DEF Waiting
  <3> QED  BY <3>1, <3>2, <3>3 DEF InsidePCs
 <2> QED  BY <2>2 DEF Inside, Waiting, InsidePCs
<1>3. LockInv'  BY <1>2 DEF LockInv, Unlocked
<1>4. WakeInv'  BY <1>2 DEF WakeInv, Inside
<1> QED  BY <1>3, <1>4

LEMMA NFreleInv ==
    ASSUME IndInv, NEW p \in Procs, NFrele(p)
    PROVE  IndInv'
<1>1. /\ u[p].pc = "nfrele" /\ u' = [Release(u) EXCEPT ![p].pc = "user"]
      /\ inode' = Unlocked /\ cpu' = NoProc
      /\ UNCHANGED <<raw, can, delct, sig, kb, held, keys, hist>>
  BY DEF NFrele, At, Keyboard
<1>2. TypeInv /\ BoundsInv  BY DEF IndInv
<1>3. /\ u' \in [Procs -> Local] /\ BoundsInv'
      /\ u'[p].pc = "user"
      /\ \A q \in Procs : q # p => u'[q].pc = Release(u)[q].pc
  BY <1>1, <1>2, UnlockType
<1>4. TypeInv'  BY <1>1, <1>2, <1>3 DEF TypeInv, Unlocked
<1>5. LockInv' /\ WakeInv'  BY <1>1, <1>3, UnlockInv DEF InsidePCs
<1> QED  BY <1>3, <1>4, <1>5 DEF IndInv

LEMMA WriteInv ==
    ASSUME IndInv, NEW p \in Procs, Write(p)
    PROVE  IndInv'
<1>1. /\ u[p].pc \in {"user", "write"}
      /\ UNCHANGED <<raw, can, delct, cpu, sig, kb, held, keys, hist>>
  BY DEF Write, Enter, Keyboard
<1>2. PICK l \in {"writewait", "user"} :
         /\ u' = Pc(p, l)
         /\ l = "writewait" => inode.lock /\ inode' = [inode EXCEPT !.want = TRUE]
         /\ l = "user" => inode' = inode
  BY DEF Write
<1>3. TypeInv /\ BoundsInv /\ l \in PCs \ {"take", "takenext"}  BY DEF IndInv, PCs
<1>4. /\ u' \in [Procs -> Local] /\ BoundsInv'
      /\ u'[p].pc = l /\ \A q \in Procs : q # p => u'[q] = u[q]
  BY <1>2, <1>3, PcType
<1>5. /\ inode' \in [lock : BOOLEAN, want : BOOLEAN] /\ inode'.lock = inode.lock
      /\ inode.want => inode'.want
      /\ l = "writewait" => inode'.lock /\ inode'.want
  BY <1>2, <1>3 DEF TypeInv
<1>6. TypeInv'  BY <1>1, <1>3, <1>4, <1>5 DEF TypeInv
<1>7. LockInv' /\ WakeInv'  BY <1>1, <1>4, <1>5, StaysOutside DEF InsidePCs
<1> QED  BY <1>4, <1>6, <1>7 DEF IndInv

LEMMA PutInv ==
    ASSUME IndInv, NEW p \in Procs, NEW l \in {"user", "dead"}, Put(p, l)
    PROVE  IndInv'
<1>1. /\ inode' = Unlocked
      /\ u' = [Release(u) EXCEPT ![p].pc = l, ![p].own = FALSE]
      /\ hist' = [hist EXCEPT !.broken = @ \/ inode.lock]
      /\ UNCHANGED <<raw, can, delct, cpu, sig, kb, held, keys>>
  BY DEF Put, Keyboard
<1>2. TypeInv /\ BoundsInv  BY DEF IndInv
<1>3. /\ u' \in [Procs -> Local] /\ BoundsInv'
      /\ u'[p].pc = l
      /\ \A q \in Procs : q # p => u'[q].pc = Release(u)[q].pc
  BY <1>1, <1>2, UnlockType
<1>4. /\ hist' \in Hist /\ (hist.broken => hist'.broken)
      /\ ~hist'.broken => ~inode.lock
 <2>1. PICK m \in BOOLEAN : /\ hist' = [hist EXCEPT !.broken = m]
                            /\ (hist.broken => m) /\ (~m => ~inode.lock)
   BY <1>1, Zenon
 <2> QED  BY <1>2, <2>1 DEF TypeInv, Hist
<1>5. TypeInv'  BY <1>1, <1>2, <1>3, <1>4 DEF TypeInv, Unlocked
<1>6. LockInv' /\ WakeInv'  BY <1>1, <1>3, <1>4, UnlockInv
<1> QED  BY <1>3, <1>5, <1>6 DEF IndInv

LEMMA ExitInv ==
    ASSUME IndInv, NEW p \in Procs, Exit(p)
    PROVE  IndInv'
<1>1. CASE Put(p, "dead")  BY <1>1, PutInv
<1>2. CASE /\ u' = Pc(p, "dead")
           /\ UNCHANGED <<raw, can, delct, inode, cpu, sig, Keyboard, hist>>
 <2>1. u[p].pc \in {"dying", "user"} /\ UNCHANGED <<kb, held, keys>>  BY <1>2 DEF Exit, Keyboard
 <2>2. TypeInv /\ BoundsInv /\ "dead" \in PCs \ {"take", "takenext"}  BY DEF IndInv, PCs
 <2>3. /\ u' \in [Procs -> Local] /\ BoundsInv'
       /\ u'[p].pc = "dead" /\ \A q \in Procs : q # p => u'[q] = u[q]
   BY <1>2, <2>2, PcType
 <2>4. TypeInv'  BY <1>2, <2>1, <2>2, <2>3 DEF TypeInv
 <2>5. LockInv' /\ WakeInv'  BY <1>2, <2>1, <2>3, StaysOutside DEF InsidePCs
 <2> QED  BY <2>3, <2>4, <2>5 DEF IndInv
<1> QED  BY <1>1, <1>2 DEF Exit

-----------------------------------------------------------------------------
(* The keyboard.                                                           *)

\* Ctrl-C
LEMMA FlushTTyInv ==
    ASSUME IndInv, FlushTTy, UNCHANGED <<inode, cpu>>, kb'.pre \in PrefixCodes
    PROVE  IndInv'
<1>1. TypeInv /\ BoundsInv /\ raw \in Ring /\ can \in Ring  BY DEF IndInv, TypeInv
<1>2. raw' \in Ring /\ can' \in Ring /\ delct' = 0 /\ sig' \subseteq Procs \ {Shell}
  BY <1>1 DEF FlushTTy, Drain, Ring
<1>3. u' = [p \in Procs |-> IF p # Shell /\ u[p].pc = "sleep"
                            THEN [u[p] EXCEPT !.pc = "woken"] ELSE u[p]]
  BY DEF FlushTTy
<1>4. ASSUME NEW p \in Procs
      PROVE  /\ u'[p] \in Local /\ Bounded(u'[p])
             /\ u'[p].pc = u[p].pc \/ (u[p].pc = "sleep" /\ u'[p].pc = "woken")
 <2>1. u[p] \in Local /\ Bounded(u[p]) /\ "woken" \in PCs
   BY <1>1 DEF TypeInv, BoundsInv, Bounded, PCs, InsidePCs
 <2>2. u'[p] = u[p] \/ (u[p].pc = "sleep" /\ u'[p] = [u[p] EXCEPT !.pc = "woken"])  BY <1>3
 <2> QED  BY <2>1, <2>2 DEF Local, Bounded
<1>5. u' \in [Procs -> Local] /\ BoundsInv'  BY <1>3, <1>4 DEF BoundsInv, Bounded
<1>6. hist' \in Hist /\ hist'.broken = hist.broken /\ hist'.aborted = hist.aborted
      /\ hist'.flushed
  BY <1>1 DEF FlushTTy, TypeInv, Hist
<1>7. TypeInv'  BY <1>1, <1>2, <1>5, <1>6 DEF TypeInv
<1>8. Inside' = Inside /\ Waiting' = Waiting  BY <1>4 DEF Inside, Waiting
<1>9. LockInv'  BY <1>6, <1>8 DEF IndInv, LockInv
<1>10. WakeInv'  BY <1>6 DEF WakeInv
<1> QED  BY <1>5, <1>7, <1>9, <1>10 DEF IndInv

\* A character, and at the end of a line everybody who sleeps for one is woken
LEMMA TTyInputInv ==
    ASSUME IndInv, NEW c \in Chars, TTyInput(c), UNCHANGED <<inode, cpu>>, kb'.pre \in PrefixCodes
    PROVE  IndInv'
<1> DEFINE line == c \in {"nl", "eot"}
<1>1. TypeInv /\ BoundsInv /\ raw \in Ring /\ can \in Ring /\ "bell" \in Chars
  BY DEF IndInv, TypeInv, Chars
<1>2. raw' \in Ring  BY <1>1, PutCharType DEF TTyInput
<1>3. /\ delct' = IF line THEN delct + 1 ELSE delct
      /\ u' = IF line THEN Wake(u, "sleep", "woken") ELSE u
      /\ UNCHANGED <<can, sig>>
  BY DEF TTyInput
<1>4. /\ u' \in [Procs -> Local]
      /\ \A q \in Procs :
            /\ Bounded(u'[q])
            /\ u'[q].pc = IF line /\ u[q].pc = "sleep" THEN "woken" ELSE u[q].pc
 <2>1. u \in [Procs -> Local] /\ \A q \in Procs : Bounded(u[q])
   BY <1>1 DEF TypeInv, BoundsInv, Bounded
 <2>2. "sleep" \in PCs /\ "woken" \in PCs \ {"take", "takenext"}  BY DEF PCs, InsidePCs
 <2>3. /\ Wake(u, "sleep", "woken") \in [Procs -> Local]
       /\ \A q \in Procs :
             /\ Bounded(Wake(u, "sleep", "woken")[q])
             /\ Wake(u, "sleep", "woken")[q].pc
                   = IF u[q].pc = "sleep" THEN "woken" ELSE u[q].pc
   BY <2>1, <2>2, WakeType
 <2> QED  BY <1>3, <2>1, <2>3
<1>5. BoundsInv'  BY <1>4 DEF BoundsInv, Bounded
<1>6. hist' \in Hist /\ hist'.broken = hist.broken /\ hist'.aborted = hist.aborted
      /\ hist'.flushed = hist.flushed
 <2>1. PICK s, m, b : /\ hist' = [hist EXCEPT !.typed = s, !.full = m, !.bells = b]
                      /\ s = hist.typed \o (IF line THEN <<c, "bell">> ELSE <<c>>)
                      /\ m = (hist.full \/ CharNum(raw) + (IF line THEN 2 ELSE 1) >= Size)
                      /\ b = IF c = "bell" THEN hist.bells + 1 ELSE hist.bells
   BY DEF TTyInput
 <2>2. hist \in Hist /\ hist.typed \in Seq(Chars) /\ hist.bells \in Nat  BY <1>1 DEF TypeInv, Hist
 <2>3. s \in Seq(Chars)  BY <1>1, <2>1, <2>2
 <2>4. m \in BOOLEAN /\ b \in Nat  BY <2>1, <2>2
 <2> QED  BY <2>1, <2>2, <2>3, <2>4 DEF Hist
<1>7. delct \in Int /\ delct' \in Int  BY <1>1, <1>3 DEF TypeInv
<1>8. TypeInv'  BY <1>1, <1>2, <1>3, <1>4, <1>6, <1>7 DEF TypeInv
<1>9. Inside' = Inside /\ Waiting' = Waiting  BY <1>4 DEF Inside, Waiting
<1>10. LockInv'  BY <1>6, <1>9 DEF IndInv, LockInv
<1>11. WakeInv'  BY <1>3, <1>4, <1>6, <1>7 DEF IndInv, WakeInv
<1> QED  BY <1>5, <1>8, <1>10, <1>11 DEF IndInv

LEMMA KeyboardInv ==
    ASSUME IndInv, NEW k, NEW up, KeyboardHandler(k, up)
    PROVE  IndInv'
<1> DEFINE start == [pre |-> kb.pre, mode |-> kb.mode, ch |-> "nul"]
           end == HandleCodes(start, Codes(k, up))
<1>1. IsCodeState(start)  BY DEF IsCodeState, IndInv, TypeInv, Chars
<1>2. IsCodeState(end)  BY <1>1, HandleCodesType
<1>3. /\ kb' = [pre |-> end.pre, mode |-> end.mode] /\ UNCHANGED <<inode, cpu>>
      /\ CASE end.ch = "nul"  -> UNCHANGED <<raw, can, delct, u, sig, hist>>
           [] end.ch = "intr" -> FlushTTy
           [] OTHER           -> TTyInput(end.ch)
  BY DEF KeyboardHandler
<1> HIDE DEF end, start
<1>4. kb'.pre \in PrefixCodes /\ end.ch \in Chars \cup {"intr"}  BY <1>2, <1>3 DEF IsCodeState
<1>5. CASE end.ch = "nul"
 <2>1. UNCHANGED <<raw, can, delct, u, sig, hist, inode, cpu>>  BY <1>3, <1>5
 <2> QED  BY <1>4, <2>1 DEF IndInv, TypeInv, BoundsInv, LockInv, WakeInv, Inside, Waiting
<1>6. CASE end.ch = "intr"  BY <1>3, <1>4, <1>6, FlushTTyInv
<1>7. CASE end.ch \notin {"nul", "intr"}  BY <1>3, <1>4, <1>7, TTyInputInv
<1> QED  BY <1>5, <1>6, <1>7

-----------------------------------------------------------------------------
(* The theorems of the lock and of sleeping.                               *)

LEMMA NextInv == IndInv /\ [Next]_vars => IndInv'
<1> SUFFICES ASSUME IndInv, [Next]_vars PROVE IndInv'  OBVIOUS
<1>1. ASSUME NEW p \in Procs, Read(p) \/ Step(p) \/ Write(p) \/ Close(p) \/ Exit(p) PROVE IndInv'
  BY <1>1, ReadInv, NFlockWaitInv, NFlockInv, CanonTestInv, CanonAgainInv, CanonSleepInv,
     TakeReadInv, TakeNextInv, DelctLoadInv, DelctStoreInv, PutCookedInv, PassReadInv,
     PassNextInv, NFreleInv, WriteInv, PutInv, ExitInv DEF Step, Close
<1>2. ASSUME NEW k \in Keys, Press(k) \/ Lift(k) PROVE IndInv'  BY <1>2, KeyboardInv DEF Press, Lift
<1>3. CASE UNCHANGED vars
  BY <1>3 DEF vars, IndInv, TypeInv, BoundsInv, LockInv, WakeInv, Inside, Waiting
<1> QED  BY <1>1, <1>2, <1>3 DEF Next

LEMMA InitInv == Init => IndInv
<1> SUFFICES ASSUME Init PROVE IndInv  OBVIOUS
<1>1. raw \in Ring /\ can \in Ring  BY TerminalAssumption DEF Init, EmptyRing, Ring, Chars
<1>2. <<>> \in Seq(Chars) /\ Len(<<>>) = 0  OBVIOUS
<1>3. u \in [Procs -> Local]  BY <1>2, TerminalAssumption DEF Init, Local, PCs, Chars
<1>4. \A p \in Procs : u[p].pc = "user" /\ u[p].count = 0 /\ u[p].want = 0 /\ u[p].work = <<>>
  BY DEF Init
<1>5. hist \in Hist  BY <1>2 DEF Init, Hist
<1>6. TypeInv  BY <1>1, <1>3, <1>5 DEF Init, TypeInv, PrefixCodes
<1>7. BoundsInv  BY <1>2, <1>4, TerminalAssumption DEF BoundsInv
<1>8. Inside = {} /\ Waiting = {}  BY <1>4 DEF Inside, Waiting
<1>9. LockInv /\ WakeInv  BY <1>4, <1>8 DEF Init, LockInv, WakeInv
<1> QED  BY <1>6, <1>7, <1>9 DEF IndInv

\* The invariant is inductive: for any number of processes and keys, however the
\* keyboard's interrupt and the readers interleave
THEOREM Invariance == Spec => []IndInv
  BY InitInv, NextInv, PTL DEF Spec

\* The rings hold characters and their pointers stay inside, whatever the interrupt does
\* between two steps of GetChar, and Canonb is not overrun
THEOREM TypeCorrect == Spec => []TypeOK
<1>1. IndInv => TypeOK
 <2> SUFFICES ASSUME IndInv PROVE TypeOK  OBVIOUS
 <2>1. TypeInv /\ BoundsInv  BY DEF IndInv
 <2>2. \A q \in {raw, can} : /\ q.buf \in [0 .. Size - 1 -> Chars]
                             /\ {q.head, q.tail} \subseteq 0 .. Size - 1
   BY <2>1 DEF TypeInv, Ring
 <2>3. ASSUME NEW p \in Procs
       PROVE  /\ u[p].pc \in {"user", "nflock", "lockwait", "writewait", "write",
                              "dying", "dead"} \/ p \in Inside
              /\ u[p].count \in 0 .. u[p].want
              /\ Len(u[p].work) <= MaxLine
   BY <2>1 DEF TypeInv, BoundsInv, Local, PCs, InsidePCs, Inside
 <2> QED  BY <2>1, <2>2, <2>3 DEF TypeInv, TypeOK, PrefixCodes
<1> QED  BY <1>1, Invariance, PTL

\* One process at a time is in the driver, and whoever waits for the inode is going to be
\* woken by who is inside: NFlock and NFrele exclude each other, and the two ways round
\* them, a close and a signal, are the only ones
THEOREM DriverIsLocked == Spec => []LockHeld
<1>1. IndInv => OneInside
 <2> SUFFICES ASSUME LockInv, ~hist.broken PROVE Cardinality(Inside) <= 1
   BY DEF IndInv, OneInside, LockInv
 <2>1. CASE Inside = {}  BY <2>1, FS_EmptySet
 <2>2. CASE Inside # {}
  <3>1. PICK p \in Inside : TRUE  BY <2>2
  <3>2. Inside = {p}  BY <3>1 DEF LockInv
  <3> QED  BY <3>2, FS_Singleton
 <2> QED  BY <2>1, <2>2
<1> QED  BY <1>1, Invariance, TypeCorrect, PTL DEF LockHeld

\* Nobody sleeps for a line while one is counted: between the reader's look at t_delct
\* and its sleep no line can end without waking it
THEOREM NoWakeIsMissed == Spec => []NoMissedWake
<1>1. IndInv => NoMissedWake  BY DEF IndInv, WakeInv, NoMissedWake
<1> QED  BY <1>1, Invariance, PTL

-----------------------------------------------------------------------------
(* Induction over a number, for what is defined along one.                 *)

\* Less, as the relation that WFMin wants
Lower == {ij \in Nat \X Nat : ij[1] < ij[2]}
LEMMA Lowest ==
  ASSUME NEW T, T \subseteq Nat, T # {}
  PROVE  \E x \in T : \A y \in T : ~(y < x)
<1>1. IsWellFoundedOn(Lower, Nat)  BY NatLessThanWellFounded, Zenon DEF OpToRel, Lower
<1>2. PICK x \in T : \A y \in T : ~(<<y, x>> \in Lower)  BY <1>1, WFMin, Zenon
<1> QED  BY <1>2 DEF Lower

\* Induction, said of a set
LEMMA FromZero ==
  ASSUME NEW T, 0 \in T, \A k \in Nat : k \in T => k + 1 \in T
  PROVE  \A k \in Nat : k \in T
<1> SUFFICES ASSUME NEW k \in Nat, k \notin T PROVE FALSE  OBVIOUS
<1>1. PICK x \in Nat \ T : \A y \in Nat \ T : ~(y < x)  BY Lowest
<1>2. x # 0 /\ x - 1 \in Nat /\ x - 1 < x  BY <1>1
<1>3. x - 1 \in T  BY <1>1, <1>2
<1>4. (x - 1) + 1 \in T  BY <1>2, <1>3
<1> QED  BY <1>1, <1>4

\* What Cooking says of itself
Begun(w) == [out |-> <<>>, work |-> w]
CookStep(f, w, s, i) == IF i = 0 THEN Begun(w) ELSE CookChar(f[i - 1], s[i])
Cooks(f, w, s, n) == f = [i \in 0 .. n |-> CookStep(f, w, s, i)]

LEMMA CooksFor ==
  ASSUME NEW w, NEW s, NEW n \in Nat
  PROVE  \E f : Cooks(f, w, s, n)
<1> DEFINE T == {k \in Nat : \E f : Cooks(f, w, s, k)}
<1>1. 0 \in T
 <2>1. PICK f : f = [i \in 0 .. 0 |-> Begun(w)]  OBVIOUS
 <2>2. \A i \in 0 .. 0 : CookStep(f, w, s, i) = Begun(w)  BY DEF CookStep
 <2>3. Cooks(f, w, s, 0)  BY <2>1, <2>2 DEF Cooks
 <2> QED  BY <2>3
<1>2. ASSUME NEW k \in Nat, k \in T PROVE k + 1 \in T
 <2>1. PICK f : Cooks(f, w, s, k)  BY <1>2
 <2>2. PICK g : g = [i \in 0 .. k + 1 |-> IF i = k + 1 THEN CookChar(f[k], s[k + 1]) ELSE f[i]]
   OBVIOUS
 <2>3. ASSUME NEW i \in 0 .. k + 1 PROVE g[i] = CookStep(g, w, s, i)
  <3>1. CASE i = k + 1
   <4>1. i # 0 /\ i - 1 = k /\ k \in 0 .. k + 1 /\ k # k + 1  BY <3>1
   <4>2. g[k] = f[k] /\ g[i] = CookChar(f[k], s[i])  BY <2>2, <3>1, <4>1
   <4> QED  BY <4>1, <4>2 DEF CookStep
  <3>2. CASE i # k + 1
   <4>1. i \in 0 .. k /\ (i # 0 => i - 1 \in 0 .. k + 1 /\ i - 1 # k + 1)  BY <3>2
   <4>2. g[i] = f[i] /\ (i # 0 => g[i - 1] = f[i - 1])  BY <2>2, <3>2, <4>1
   <4>3. f[i] = CookStep(f, w, s, i)  BY <2>1, <4>1 DEF Cooks
   <4> QED  BY <4>2, <4>3 DEF CookStep
  <3> QED  BY <3>1, <3>2
 <2>4. g = [i \in 0 .. k + 1 |-> g[i]]  BY <2>2
 <2>5. Cooks(g, w, s, k + 1)  BY <2>3, <2>4 DEF Cooks
 <2> QED  BY <2>5
<1> HIDE DEF T
<1>3. n \in T  BY <1>1, <1>2, FromZero
<1> QED  BY <1>3 DEF T

LEMMA CookingIs ==
  ASSUME NEW w, NEW s, Len(s) \in Nat
  PROVE  Cooks(Cooking(w, s), w, s, Len(s))
<1>1. \E f : Cooks(f, w, s, Len(s))  BY CooksFor
<1>2. Cooks(CHOOSE f : Cooks(f, w, s, Len(s)), w, s, Len(s))  BY <1>1
<1>3. Cooking(w, s) = CHOOSE f : Cooks(f, w, s, Len(s))  BY DEF Cooking, Cooks, CookStep, Begun
<1> QED  BY <1>2, <1>3

-----------------------------------------------------------------------------
(* What a ring holds: the remainder is taken of numbers that are at most   *)
(* one round off.                                                          *)

LEMMA ModIs ==
  ASSUME NEW x \in Int, -Size < x, x < 2 * Size
  PROVE  Mod(x) = IF x < 0 THEN x + Size ELSE IF x < Size THEN x ELSE x - Size
<1>1. Size \in Nat /\ Size > 0  BY TerminalAssumption
<1>2. Mod(x) = x % Size  BY DEF Mod
<1>3. x = Size * (x \div Size) + (x % Size) /\ x % Size \in 0 .. Size - 1 /\ x \div Size \in Int
  BY <1>1
<1>4. x \div Size \in {-1, 0, 1}  BY <1>1, <1>3
<1> QED  BY <1>1, <1>2, <1>3, <1>4

LEMMA ContentIs ==
  ASSUME NEW q \in Ring
  PROVE  /\ CharNum(q) \in 0 .. Size - 1
         /\ CharNum(q) = IF q.tail <= q.head THEN q.head - q.tail ELSE q.head - q.tail + Size
         /\ Content(q) \in Seq(Chars) /\ Len(Content(q)) = CharNum(q)
         /\ \A i \in 1 .. CharNum(q) : Content(q)[i] = q.buf[Mod(q.tail + i - 1)]
<1>1. PICK a, b : a = q.head /\ b = q.tail  OBVIOUS
<1>2. a \in 0 .. Size - 1 /\ b \in 0 .. Size - 1 /\ Size \in Nat /\ Size > 0
  BY <1>1, TerminalAssumption DEF Ring
<1>3. CharNum(q) = IF b <= a THEN a - b ELSE a - b + Size
 <2>1. Mod(a - b) = IF a - b < 0 THEN a - b + Size ELSE IF a - b < Size THEN a - b ELSE a - b - Size
   BY <1>2, ModIs
 <2> QED  BY <1>1, <1>2, <2>1 DEF CharNum
<1>4. CharNum(q) \in 0 .. Size - 1  BY <1>2, <1>3
<1>5. \A i \in 1 .. CharNum(q) : q.buf[Mod(q.tail + i - 1)] \in Chars
 <2> SUFFICES ASSUME NEW i \in 1 .. CharNum(q) PROVE q.buf[Mod(q.tail + i - 1)] \in Chars  OBVIOUS
 <2>1. q.tail + i - 1 \in Int  BY <1>1, <1>2, <1>4
 <2>2. Mod(q.tail + i - 1) \in 0 .. Size - 1  BY <2>1, ModRange
 <2> QED  BY <2>2 DEF Ring
<1>6. Content(q) \in [1 .. CharNum(q) -> Chars]  BY <1>5 DEF Content
<1>7. Content(q) \in Seq(Chars) /\ Len(Content(q)) = CharNum(q)  BY <1>4, <1>6
<1>8. \A i \in 1 .. CharNum(q) : Content(q)[i] = q.buf[Mod(q.tail + i - 1)]  BY DEF Content
<1> QED  BY <1>1, <1>3, <1>4, <1>7, <1>8

\* A sequence is what its elements are
LEMMA SameSeq ==
  ASSUME NEW s \in Seq(Chars), NEW t \in Seq(Chars), Len(s) = Len(t),
         \A i \in 1 .. Len(s) : s[i] = t[i]
  PROVE  s = t
  OBVIOUS

LEMMA ContentPut ==
  ASSUME NEW q \in Ring, NEW c \in Chars, CharNum(q) + 1 < Size
  PROVE  /\ PutChar(q, c) \in Ring /\ CharNum(PutChar(q, c)) = CharNum(q) + 1
         /\ Content(PutChar(q, c)) = Append(Content(q), c)
         /\ PutChar(q, c).tail = q.tail
         /\ CharNum(q) # 0 => PutChar(q, c).buf[q.tail] = q.buf[q.tail]
<1>1. PICK r : r = PutChar(q, c)  OBVIOUS
<1>2. r \in Ring  BY <1>1, PutCharType
<1>3. PICK a, b, n : a = q.head /\ b = q.tail /\ n = CharNum(q)  OBVIOUS
<1>4. a \in 0 .. Size - 1 /\ b \in 0 .. Size - 1 /\ Size \in Nat /\ Size > 0
  BY <1>3, TerminalAssumption DEF Ring
<1>5. n \in 0 .. Size - 1 /\ n = IF b <= a THEN a - b ELSE a - b + Size  BY <1>3, ContentIs
<1>6. /\ r.tail = b /\ r.head = Mod(a + 1) /\ r.buf[a] = c
      /\ \A k \in 0 .. Size - 1 : k # a => r.buf[k] = q.buf[k]
  BY <1>1, <1>3, <1>4 DEF PutChar, Ring
<1>7. Mod(a + 1) = IF a + 1 < Size THEN a + 1 ELSE a + 1 - Size
 <2>1. a + 1 \in Int /\ -Size < a + 1 /\ a + 1 < 2 * Size /\ ~(a + 1 < 0)  BY <1>4
 <2> QED  BY <1>4, <2>1, ModIs
<1>8. CharNum(r) = n + 1
 <2>1. CharNum(r) = IF b <= r.head THEN r.head - b ELSE r.head - b + Size  BY <1>2, <1>6, ContentIs
 <2>2. n + 1 < Size  BY <1>3
 <2> QED  BY <1>4, <1>5, <1>6, <1>7, <2>1, <2>2
<1>9. ASSUME NEW i \in 1 .. n + 1 PROVE Content(r)[i] = Append(Content(q), c)[i]
 <2>1. PICK k : k = Mod(b + i - 1)  OBVIOUS
 <2>2. k = IF b + i - 1 < Size THEN b + i - 1 ELSE b + i - 1 - Size
  <3>1. PICK x : x = b + i - 1  OBVIOUS
  <3>2. x \in Int /\ -Size < x /\ x < 2 * Size /\ ~(x < 0)  BY <1>3, <1>4, <1>5, <3>1
  <3> QED  BY <1>4, <2>1, <3>1, <3>2, ModIs
 <2>3. Content(r)[i] = r.buf[k]  BY <1>2, <1>6, <1>8, <2>1, ContentIs
 <2>4. CASE i = n + 1
  <3>1. k = a  BY <1>4, <1>5, <2>2, <2>4
  <3>2. Append(Content(q), c)[i] = c  BY <1>3, <2>4, ContentIs
  <3> QED  BY <1>6, <2>3, <3>1, <3>2
 <2>5. CASE i # n + 1
  <3>1. i \in 1 .. n  BY <1>5, <2>5
  <3>2. k # a /\ k \in 0 .. Size - 1
   <4>1. n + 1 < Size  BY <1>3
   <4> QED  BY <1>4, <1>5, <2>2, <3>1, <4>1
  <3>3. Append(Content(q), c)[i] = Content(q)[i]  BY <1>3, <3>1, ContentIs
  <3>4. Content(q)[i] = q.buf[k]  BY <1>3, <2>1, <3>1, ContentIs
  <3> QED  BY <1>6, <2>3, <3>2, <3>3, <3>4
 <2> QED  BY <2>4, <2>5
<1>10. /\ Content(r) \in Seq(Chars) /\ Len(Content(r)) = n + 1
       /\ Append(Content(q), c) \in Seq(Chars) /\ Len(Append(Content(q), c)) = n + 1
  BY <1>2, <1>3, <1>8, ContentIs
<1>11. Content(r) = Append(Content(q), c)  BY <1>9, <1>10, SameSeq
<1>12. CharNum(q) # 0 => r.buf[b] = q.buf[b]
 <2>1. n # 0 => b # a  BY <1>4, <1>5
 <2> QED  BY <1>3, <1>4, <1>6, <2>1
<1> QED  BY <1>1, <1>2, <1>3, <1>6, <1>8, <1>11, <1>12

LEMMA ContentTake ==
  ASSUME NEW q \in Ring, CharNum(q) # 0, NEW r, r = [q EXCEPT !.tail = Mod(q.tail + 1)]
  PROVE  /\ r \in Ring /\ CharNum(r) = CharNum(q) - 1
         /\ Content(q) # <<>> /\ Head(Content(q)) = q.buf[q.tail]
         /\ Content(r) = Tail(Content(q))
<1>3. PICK a, b, n : a = q.head /\ b = q.tail /\ n = CharNum(q)  OBVIOUS
<1>4. a \in 0 .. Size - 1 /\ b \in 0 .. Size - 1 /\ Size \in Nat /\ Size > 0
  BY <1>3, TerminalAssumption DEF Ring
<1>2. r \in Ring  BY <1>3, <1>4, TailType
<1>5. n \in 1 .. Size - 1 /\ n = IF b <= a THEN a - b ELSE a - b + Size  BY <1>3, ContentIs
<1>6. r.tail = Mod(b + 1) /\ r.head = a /\ r.buf = q.buf  BY <1>3 DEF Ring
<1>7. Mod(b + 1) = IF b + 1 < Size THEN b + 1 ELSE b + 1 - Size
 <2>1. b + 1 \in Int /\ -Size < b + 1 /\ b + 1 < 2 * Size /\ ~(b + 1 < 0)  BY <1>4
 <2> QED  BY <1>4, <2>1, ModIs
<1>8. CharNum(r) = n - 1
 <2>1. CharNum(r) = IF r.tail <= a THEN a - r.tail ELSE a - r.tail + Size  BY <1>2, <1>6, ContentIs
 <2> QED  BY <1>4, <1>5, <1>6, <1>7, <2>1
<1>9. Content(q) \in Seq(Chars) /\ Len(Content(q)) = n /\ Content(q) # <<>>
  BY <1>3, <1>5, ContentIs
<1>10. Head(Content(q)) = q.buf[b]
 <2>1. Head(Content(q)) = Content(q)[1]  BY <1>9
 <2>2. Content(q)[1] = q.buf[Mod(b + 1 - 1)]  BY <1>3, <1>5, ContentIs
 <2>3. b + 1 - 1 = b /\ Mod(b) = b  BY <1>4, ModIs
 <2> QED  BY <2>1, <2>2, <2>3
<1>11. ASSUME NEW i \in 1 .. n - 1 PROVE Content(r)[i] = Tail(Content(q))[i]
 <2>1. Content(r)[i] = q.buf[Mod(r.tail + i - 1)]  BY <1>2, <1>6, <1>8, ContentIs
 <2>2. Tail(Content(q))[i] = Content(q)[i + 1]  BY <1>9
 <2>3. Content(q)[i + 1] = q.buf[Mod(b + (i + 1) - 1)]  BY <1>3, <1>5, ContentIs
 <2>4. Mod(r.tail + i - 1) = Mod(b + (i + 1) - 1)
  <3>1. PICK x, y : x = r.tail + i - 1 /\ y = b + (i + 1) - 1  OBVIOUS
  <3>2. /\ x \in Int /\ y \in Int /\ -Size < x /\ -Size < y /\ x < 2 * Size /\ y < 2 * Size
        /\ ~(x < 0) /\ ~(y < 0)
    BY <1>4, <1>5, <1>6, <1>7, <3>1
  <3>3. /\ Mod(x) = IF x < Size THEN x ELSE x - Size
        /\ Mod(y) = IF y < Size THEN y ELSE y - Size
    BY <3>2, ModIs
  <3>4. Mod(x) = Mod(y)  BY <1>4, <1>5, <1>6, <1>7, <3>1, <3>3
  <3> QED  BY <3>1, <3>4
 <2> QED  BY <2>1, <2>2, <2>3, <2>4
<1>12. /\ Content(r) \in Seq(Chars) /\ Len(Content(r)) = n - 1
       /\ Tail(Content(q)) \in Seq(Chars) /\ Len(Tail(Content(q))) = n - 1
 <2>1. Content(r) \in Seq(Chars) /\ Len(Content(r)) = n - 1  BY <1>2, <1>8, ContentIs
 <2> QED  BY <1>9, <2>1
<1>13. Content(r) = Tail(Content(q))  BY <1>11, <1>12, SameSeq
<1> QED  BY <1>2, <1>3, <1>8, <1>9, <1>10, <1>13

-----------------------------------------------------------------------------
(* Cooking a sequence: character by character from either end.             *)

Acc == [out : Seq(Chars), work : Seq(Chars)]
\* What comes of all of s, with w in Canonb before it
End(w, s) == Cooking(w, s)[Len(s)]

LEMMA CookCharIs ==
  ASSUME NEW a \in Acc, NEW c \in Chars
  PROVE  /\ CookChar(a, c) \in Acc
         /\ c = "bell" => CookChar(a, c) = [out |-> a.out \o a.work, work |-> <<>>]
         /\ c # "bell" /\ Len(Canonize(a.work, c)) = MaxLine
              => CookChar(a, c) = [out |-> a.out \o Canonize(a.work, c), work |-> <<>>]
         /\ c # "bell" /\ Len(Canonize(a.work, c)) # MaxLine
              => CookChar(a, c) = [out |-> a.out, work |-> Canonize(a.work, c)]
<1>1. a.out \in Seq(Chars) /\ a.work \in Seq(Chars)  BY DEF Acc
<1>2. PICK w : w = Canonize(a.work, c)  OBVIOUS
<1>3. w \in Seq(Chars)  BY <1>1, <1>2, CanonizeType
<1>4. a.out \o a.work \in Seq(Chars) /\ a.out \o w \in Seq(Chars) /\ <<>> \in Seq(Chars)
  BY <1>1, <1>3
<1>5. CookChar(a, c) = IF c = "bell" THEN [out |-> a.out \o a.work, work |-> <<>>]
                       ELSE IF Len(w) = MaxLine THEN [out |-> a.out \o w, work |-> <<>>]
                       ELSE [out |-> a.out, work |-> w]
  BY <1>2 DEF CookChar
<1> QED  BY <1>1, <1>2, <1>3, <1>4, <1>5 DEF Acc

LEMMA CookingAt ==
  ASSUME NEW w \in Seq(Chars), NEW s \in Seq(Chars)
  PROVE  /\ Cooking(w, s)[0] = Begun(w)
         /\ \A i \in 1 .. Len(s) : Cooking(w, s)[i] = CookChar(Cooking(w, s)[i - 1], s[i])
         /\ \A i \in 0 .. Len(s) : Cooking(w, s)[i] \in Acc
<1>1. PICK f, n : f = Cooking(w, s) /\ n = Len(s)  OBVIOUS
<1>2. n \in Nat  BY <1>1
<1>3. f = [i \in 0 .. n |-> CookStep(f, w, s, i)]  BY <1>1, CookingIs DEF Cooks
<1>4. f[0] = Begun(w)
 <2>1. 0 \in 0 .. n  BY <1>2
 <2>2. f[0] = CookStep(f, w, s, 0)  BY <1>3, <2>1
 <2> QED  BY <2>2 DEF CookStep
<1>5. ASSUME NEW i \in 1 .. n PROVE f[i] = CookChar(f[i - 1], s[i])
 <2>1. i \in 0 .. n /\ i # 0  BY <1>2
 <2>2. f[i] = CookStep(f, w, s, i)  BY <1>3, <2>1
 <2> QED  BY <2>1, <2>2 DEF CookStep
<1> DEFINE T == {k \in Nat : k <= n => f[k] \in Acc}
<1>6. 0 \in T
 <2>1. <<>> \in Seq(Chars)  OBVIOUS
 <2>2. f[0] \in Acc  BY <1>4, <2>1 DEF Begun, Acc
 <2> QED  BY <2>2
<1>7. ASSUME NEW k \in Nat, k \in T PROVE k + 1 \in T
 <2> SUFFICES ASSUME k + 1 <= n PROVE f[k + 1] \in Acc  OBVIOUS
 <2>1. k <= n /\ k + 1 \in 1 .. n /\ (k + 1) - 1 = k  BY <1>2
 <2>2. f[k] \in Acc  BY <1>7, <2>1
 <2>3. f[k + 1] = CookChar(f[k], s[k + 1])  BY <1>5, <2>1
 <2>4. s[k + 1] \in Chars  BY <1>1, <2>1
 <2> QED  BY <2>2, <2>3, <2>4, CookCharIs
<1> HIDE DEF T
<1>8. \A k \in Nat : k \in T  BY <1>6, <1>7, FromZero
<1>9. ASSUME NEW i \in 0 .. n PROVE f[i] \in Acc  BY <1>2, <1>8 DEF T
<1> QED  BY <1>1, <1>4, <1>5, <1>9

LEMMA CookingNext ==
  ASSUME NEW w \in Seq(Chars), NEW s \in Seq(Chars), NEW k \in Nat, k + 1 <= Len(s)
  PROVE  Cooking(w, s)[k + 1] = CookChar(Cooking(w, s)[k], s[k + 1])
<1>1. PICK i : i = k + 1  OBVIOUS
<1>2. i \in 1 .. Len(s) /\ i - 1 = k  BY <1>1
<1>3. Cooking(w, s)[i] = CookChar(Cooking(w, s)[i - 1], s[i])  BY <1>2, CookingAt
<1> QED  BY <1>1, <1>2, <1>3

LEMMA Assoc ==
  ASSUME NEW a \in Seq(Chars), NEW b \in Seq(Chars), NEW c \in Seq(Chars)
  PROVE  (a \o b) \o c = a \o (b \o c)
  OBVIOUS

LEMMA EndIs ==
  ASSUME NEW w \in Seq(Chars), NEW s \in Seq(Chars)
  PROVE  End(w, s) \in Acc /\ (s = <<>> => End(w, s) = Begun(w))
<1>1. Len(s) \in 0 .. Len(s) /\ (s = <<>> => Len(s) = 0)  OBVIOUS
<1> QED  BY <1>1, CookingAt DEF End

LEMMA CookAppend ==
  ASSUME NEW w \in Seq(Chars), NEW s \in Seq(Chars), NEW c \in Chars
  PROVE  End(w, Append(s, c)) = CookChar(End(w, s), c)
<1>1. PICK t, n : t = Append(s, c) /\ n = Len(s)  OBVIOUS
<1>2. /\ t \in Seq(Chars) /\ n \in Nat /\ Len(t) = n + 1 /\ t[n + 1] = c
      /\ \A i \in 1 .. n : t[i] = s[i]
  BY <1>1
<1> DEFINE T == {k \in Nat : k <= n => Cooking(w, t)[k] = Cooking(w, s)[k]}
<1>3. 0 \in T  BY <1>2, CookingAt
<1>4. ASSUME NEW k \in Nat, k \in T PROVE k + 1 \in T
 <2> SUFFICES ASSUME k + 1 <= n PROVE Cooking(w, t)[k + 1] = Cooking(w, s)[k + 1]  OBVIOUS
 <2>1. k <= n /\ k + 1 \in 1 .. n /\ k + 1 \in 1 .. n + 1 /\ (k + 1) - 1 = k  BY <1>2
 <2>2. Cooking(w, t)[k] = Cooking(w, s)[k]  BY <1>4, <2>1
 <2>3. Cooking(w, t)[k + 1] = CookChar(Cooking(w, t)[k], t[k + 1])
  <3>1. k + 1 <= Len(t)  BY <1>2
  <3> QED  BY <1>2, <3>1, CookingNext
 <2>4. Cooking(w, s)[k + 1] = CookChar(Cooking(w, s)[k], s[k + 1])  BY <1>1, CookingNext
 <2> QED  BY <1>2, <2>1, <2>2, <2>3, <2>4
<1> HIDE DEF T
<1>5. n \in T  BY <1>2, <1>3, <1>4, FromZero
<1>6. Cooking(w, t)[n] = End(w, s)  BY <1>1, <1>2, <1>5 DEF T, End
<1>7. Cooking(w, t)[n + 1] = CookChar(Cooking(w, t)[n], t[n + 1])
 <2>1. n + 1 \in 1 .. Len(t) /\ (n + 1) - 1 = n  BY <1>2
 <2> QED  BY <1>2, <2>1, CookingAt
<1> QED  BY <1>1, <1>2, <1>6, <1>7 DEF End

\* What was sent on before the first character has no part in the rest
Behind(o, x) == [out |-> o \o x.out, work |-> x.work]

LEMMA CookBehind ==
  ASSUME NEW o \in Seq(Chars), NEW x \in Acc, NEW c \in Chars
  PROVE  CookChar(Behind(o, x), c) = Behind(o, CookChar(x, c))
<1>1. x.out \in Seq(Chars) /\ x.work \in Seq(Chars)  BY DEF Acc
<1>2. PICK w : w = Canonize(x.work, c)  OBVIOUS
<1>3. w \in Seq(Chars)  BY <1>1, <1>2, CanonizeType
<1>4. \A v \in Seq(Chars) : (o \o x.out) \o v = o \o (x.out \o v)  BY <1>1, Assoc
<1>5. Behind(o, x).out = o \o x.out /\ Behind(o, x).work = x.work  BY DEF Behind
<1>6. CookChar(Behind(o, x), c) =
         IF c = "bell" THEN [out |-> (o \o x.out) \o x.work, work |-> <<>>]
         ELSE IF Len(w) = MaxLine THEN [out |-> (o \o x.out) \o w, work |-> <<>>]
         ELSE [out |-> o \o x.out, work |-> w]
  BY <1>2, <1>5 DEF CookChar
<1>7. CookChar(x, c) = IF c = "bell" THEN [out |-> x.out \o x.work, work |-> <<>>]
                       ELSE IF Len(w) = MaxLine THEN [out |-> x.out \o w, work |-> <<>>]
                       ELSE [out |-> x.out, work |-> w]
  BY <1>2 DEF CookChar
<1> QED
 <2>1. (o \o x.out) \o x.work = o \o (x.out \o x.work) /\ (o \o x.out) \o w = o \o (x.out \o w)
   BY <1>1, <1>3, <1>4
 <2>2. CASE c = "bell"
  <3>1. CookChar(Behind(o, x), c) = [out |-> (o \o x.out) \o x.work, work |-> <<>>]  BY <1>6, <2>2
  <3>2. CookChar(x, c) = [out |-> x.out \o x.work, work |-> <<>>]  BY <1>7, <2>2
  <3> QED  BY <2>1, <3>1, <3>2 DEF Behind
 <2>3. CASE c # "bell" /\ Len(w) = MaxLine
  <3>1. CookChar(Behind(o, x), c) = [out |-> (o \o x.out) \o w, work |-> <<>>]  BY <1>6, <2>3
  <3>2. CookChar(x, c) = [out |-> x.out \o w, work |-> <<>>]  BY <1>7, <2>3
  <3> QED  BY <2>1, <3>1, <3>2 DEF Behind
 <2>4. CASE c # "bell" /\ Len(w) # MaxLine
  <3>1. CookChar(Behind(o, x), c) = [out |-> o \o x.out, work |-> w]  BY <1>6, <2>4
  <3>2. CookChar(x, c) = [out |-> x.out, work |-> w]  BY <1>7, <2>4
  <3> QED  BY <3>1, <3>2 DEF Behind
 <2> QED  BY <2>2, <2>3, <2>4

LEMMA CookTail ==
  ASSUME NEW w \in Seq(Chars), NEW s \in Seq(Chars), s # <<>>
  PROVE  LET a == CookChar(Begun(w), Head(s))
         IN  a \in Acc /\ End(w, s) = Behind(a.out, End(a.work, Tail(s)))
<1>1. PICK t, n : t = Tail(s) /\ n = Len(t)  OBVIOUS
<1>2. /\ t \in Seq(Chars) /\ n \in Nat /\ Len(s) = n + 1 /\ Head(s) \in Chars /\ s[1] = Head(s)
      /\ \A i \in 1 .. n : t[i] = s[i + 1]
  BY <1>1
<1>3. PICK a : a = CookChar(Begun(w), Head(s))  OBVIOUS
<1>4. Begun(w) \in Acc
 <2>1. <<>> \in Seq(Chars)  OBVIOUS
 <2> QED  BY <2>1 DEF Begun, Acc
<1>5. a \in Acc  BY <1>2, <1>3, <1>4, CookCharIs
<1>6. a.out \in Seq(Chars) /\ a.work \in Seq(Chars)  BY <1>5 DEF Acc
<1> DEFINE T == {k \in Nat : k <= n => Cooking(w, s)[k + 1] = Behind(a.out, Cooking(a.work, t)[k])}
<1>7. 0 \in T
 <2>1. Cooking(w, s)[1] = CookChar(Cooking(w, s)[0], s[1])
  <3>1. 1 \in 1 .. Len(s) /\ 1 - 1 = 0  BY <1>2
  <3> QED  BY <3>1, CookingAt
 <2>2. Cooking(w, s)[1] = a  BY <1>2, <1>3, <2>1, CookingAt
 <2>3. Cooking(a.work, t)[0] = Begun(a.work)  BY <1>2, <1>6, CookingAt
 <2>4. Behind(a.out, Begun(a.work)) = a
  <3>1. a.out \o <<>> = a.out  BY <1>6
  <3> QED  BY <1>5, <3>1 DEF Behind, Begun, Acc
 <2>5. 0 + 1 = 1  OBVIOUS
 <2> QED  BY <2>2, <2>3, <2>4, <2>5
<1>8. ASSUME NEW k \in Nat, k \in T PROVE k + 1 \in T
 <2> SUFFICES ASSUME k + 1 <= n
              PROVE  Cooking(w, s)[(k + 1) + 1] = Behind(a.out, Cooking(a.work, t)[k + 1])
   OBVIOUS
 <2>1. /\ k <= n /\ k + 1 \in 1 .. n /\ (k + 1) + 1 \in 1 .. n + 1 /\ (k + 1) - 1 = k
       /\ ((k + 1) + 1) - 1 = k + 1 /\ k \in 0 .. n
   BY <1>2
 <2>2. PICK x : x = Cooking(a.work, t)[k]  OBVIOUS
 <2>3. x \in Acc  BY <1>1, <1>2, <1>6, <2>1, <2>2, CookingAt
 <2>4. Cooking(w, s)[k + 1] = Behind(a.out, x)  BY <1>8, <2>1, <2>2
 <2>5. t[k + 1] = s[(k + 1) + 1] /\ t[k + 1] \in Chars  BY <1>1, <1>2, <2>1
 <2>6. Cooking(w, s)[(k + 1) + 1] = CookChar(Cooking(w, s)[k + 1], s[(k + 1) + 1])
  <3>1. (k + 1) + 1 \in 1 .. Len(s)  BY <1>2, <2>1
  <3> QED  BY <2>1, <3>1, CookingAt
 <2>7. Cooking(a.work, t)[k + 1] = CookChar(x, t[k + 1])  BY <1>1, <1>2, <1>6, <2>2, CookingNext
 <2> QED  BY <1>6, <2>3, <2>4, <2>5, <2>6, <2>7, CookBehind
<1> HIDE DEF T
<1>9. n \in T  BY <1>2, <1>7, <1>8, FromZero
<1>10. Cooking(w, s)[n + 1] = Behind(a.out, Cooking(a.work, t)[n])  BY <1>2, <1>9 DEF T
<1> QED  BY <1>1, <1>2, <1>3, <1>5, <1>10 DEF End

-----------------------------------------------------------------------------
(* Delimiters are counted one by one.                                      *)

Bells(s) == {i \in 1 .. Len(s) : s[i] = "bell"}

LEMMA BellsCounted ==
  ASSUME NEW s \in Seq(Chars)
  PROVE  /\ IsFiniteSet(Bells(s)) /\ Delimiters(s) = Cardinality(Bells(s)) /\ Delimiters(s) \in Nat
         /\ s = <<>> => Delimiters(s) = 0
<1>1. DOMAIN s = 1 .. Len(s) /\ Len(s) \in Nat  OBVIOUS
<1>2. Delimiters(s) = Cardinality(Bells(s))  BY <1>1 DEF Delimiters, Bells
<1>3. IsFiniteSet(1 .. Len(s))  BY <1>1, FS_Interval
<1>4. IsFiniteSet(Bells(s))
 <2>1. Bells(s) \in SUBSET (1 .. Len(s))  BY DEF Bells
 <2> QED  BY <1>3, <2>1, FS_Subset
<1>5. Cardinality(Bells(s)) \in Nat  BY <1>4, FS_CardinalityType
<1>6. s = <<>> => Bells(s) = {}  BY DEF Bells
<1> QED  BY <1>2, <1>4, <1>5, <1>6, FS_EmptySet

LEMMA DelimitersAppend ==
  ASSUME NEW s \in Seq(Chars), NEW c \in Chars
  PROVE  Delimiters(Append(s, c)) = IF c = "bell" THEN Delimiters(s) + 1 ELSE Delimiters(s)
<1>1. PICK t, n : t = Append(s, c) /\ n = Len(s)  OBVIOUS
<1>2. /\ t \in Seq(Chars) /\ n \in Nat /\ Len(t) = n + 1 /\ t[n + 1] = c
      /\ \A i \in 1 .. n : t[i] = s[i]
  BY <1>1
<1>3. n + 1 \notin Bells(s)  BY <1>1, <1>2 DEF Bells
<1>4. IsFiniteSet(Bells(s)) /\ Delimiters(s) = Cardinality(Bells(s))  BY BellsCounted
<1>5. CASE c = "bell"
 <2>1. Bells(t) = Bells(s) \cup {n + 1}
  <3>1. \A i \in Bells(t) : i \in Bells(s) \cup {n + 1}  BY <1>1, <1>2 DEF Bells
  <3>2. \A i \in Bells(s) : i \in Bells(t)  BY <1>1, <1>2 DEF Bells
  <3>3. n + 1 \in Bells(t)  BY <1>2, <1>5 DEF Bells
  <3> QED  BY <3>1, <3>2, <3>3
 <2>2. Cardinality(Bells(t)) = Cardinality(Bells(s)) + 1  BY <1>3, <1>4, <2>1, FS_AddElement
 <2> QED  BY <1>1, <1>2, <1>4, <1>5, <2>2, BellsCounted
<1>6. CASE c # "bell"
 <2>1. Bells(t) = Bells(s)
  <3>1. \A i \in Bells(t) : i \in Bells(s)  BY <1>1, <1>2, <1>6 DEF Bells
  <3>2. \A i \in Bells(s) : i \in Bells(t)  BY <1>1, <1>2 DEF Bells
  <3> QED  BY <3>1, <3>2
 <2> QED  BY <1>1, <1>2, <1>4, <1>6, <2>1, BellsCounted
<1> QED  BY <1>5, <1>6

LEMMA DelimitersTail ==
  ASSUME NEW s \in Seq(Chars), s # <<>>
  PROVE  Delimiters(s) = IF Head(s) = "bell" THEN Delimiters(Tail(s)) + 1 ELSE Delimiters(Tail(s))
<1>1. PICK t, n : t = Tail(s) /\ n = Len(t)  OBVIOUS
<1>2. /\ t \in Seq(Chars) /\ n \in Nat /\ Len(s) = n + 1 /\ s[1] = Head(s)
      /\ \A i \in 1 .. n : t[i] = s[i + 1]
  BY <1>1
<1>3. IsFiniteSet(Bells(t)) /\ Delimiters(t) = Cardinality(Bells(t))  BY <1>2, BellsCounted
<1> DEFINE S == {i \in Bells(s) : i # 1}
<1>4. /\ \A i \in Bells(t) : i \in 1 .. n /\ i + 1 \in S
      /\ \A i \in S : i - 1 \in Bells(t) /\ i \in Nat
  BY <1>1, <1>2 DEF Bells
<1>5. ExistsBijection(Bells(t), S)
 <2>1. PICK f : f = [i \in Bells(t) |-> i + 1]  OBVIOUS
 <2> HIDE DEF S
 <2>2. f \in [Bells(t) -> S]  BY <1>4, <2>1
 <2>3. \A i, j \in Bells(t) : f[i] = f[j] => i = j  BY <1>4, <2>1
 <2>4. \A j \in S : \E i \in Bells(t) : f[i] = j
  <3> SUFFICES ASSUME NEW j \in S PROVE \E i \in Bells(t) : f[i] = j  OBVIOUS
  <3>1. j - 1 \in Bells(t) /\ f[j - 1] = j  BY <1>4, <2>1
  <3> QED  BY <3>1
 <2>5. f \in Bijection(Bells(t), S)
   BY <2>2, <2>3, <2>4 DEF Bijection, Injection, Surjection, IsInjective
 <2> QED  BY <2>5 DEF ExistsBijection
<1>6. IsFiniteSet(S) /\ Cardinality(S) = Cardinality(Bells(t))
 <2> HIDE DEF S
 <2> QED  BY <1>3, <1>5, FS_Bijection
<1>7. 1 \in Bells(s) <=> Head(s) = "bell"  BY <1>2 DEF Bells
<1>8. CASE Head(s) = "bell"
 <2>1. Bells(s) = S \cup {1} /\ 1 \notin S  BY <1>7, <1>8
 <2> HIDE DEF S
 <2>2. Cardinality(Bells(s)) = Cardinality(S) + 1  BY <1>6, <2>1, FS_AddElement
 <2> QED  BY <1>1, <1>3, <1>6, <1>8, <2>2, BellsCounted
<1>9. CASE Head(s) # "bell"
 <2>1. Bells(s) = S  BY <1>7, <1>9
 <2> HIDE DEF S
 <2> QED  BY <1>1, <1>3, <1>6, <1>9, <2>1, BellsCounted
<1> QED  BY <1>8, <1>9

-----------------------------------------------------------------------------
(* No character is lost.  Between taking the first character of a line and *)
(* leaving the driver a reader keeps the processor, so what is said of the *)
(* one who has it says all.                                                *)

DataPCs == {"take", "takenext", "delct", "delctstore", "put", "pass", "passnext", "nfrele"}
RunPCs  == DataPCs \cup {"canon", "sleepset"}
WantPCs == InsidePCs \cup {"nflock", "lockwait"}
CtlInv ==
    /\ \A p \in Procs : u[p].pc \in RunPCs => cpu = p
    /\ cpu # NoProc => u[cpu].pc \in RunPCs \cup {"nflock"}
    /\ \A p \in Procs : u[p].pc \in WantPCs => u[p].want > 0

Nobody == [pc |-> "user", count |-> 0, want |-> 0, work |-> <<>>, ch |-> "nul",
           at |-> 0, num |-> 0, own |-> FALSE]
Me == IF cpu = NoProc THEN Nobody ELSE u[cpu]

\* Neither Ctrl-C nor a ring that ran over
Calm == ~hist.full /\ ~hist.flushed
\* What was loaded is still at the tail of its ring
HandOK == Calm =>
    /\ Me.pc = "takenext" => CharNum(raw) # 0 /\ Me.at = raw.tail /\ Me.ch = raw.buf[raw.tail]
    /\ Me.pc = "passnext" => CharNum(can) # 0 /\ Me.at = can.tail /\ Me.ch = can.buf[can.tail]

\* The delimiter that is taken and not yet counted down
Half == IF Me.pc \in {"delct", "delctstore"} THEN 1 ELSE 0
CountOK == Calm =>
    /\ delct \in 0 .. Delimiters(Content(raw)) + Half
    /\ hist.missed \/ Delimiters(Content(raw)) + Half = delct + hist.bells
    /\ Me.pc \in {"take", "takenext", "delct", "delctstore"} => delct > 0
    /\ Me.pc = "delctstore" => Me.num \in 1 .. delct

\* Lines end with a newline and fit; then the delimiter comes after something
Tame == Calm /\ ~hist.split /\ hist.bells = 0 /\ ~Typed("eot")
LineOK == Tame =>
    /\ \A i \in 1 .. CharNum(raw) - 1 : Content(raw)[i + 1] = "bell" => Content(raw)[i] = "nl"
    /\ CharNum(raw) # 0 /\ Content(raw)[1] = "bell" => Me.pc \in {"take", "takenext"} /\ Me.work # <<>>
    /\ Me.pc \in {"delct", "delctstore"} => Me.work # <<>>
    /\ Me.pc = "put" => Me.work # <<>> \/ CharNum(can) # 0
    /\ Me.pc = "pass" => Me.count < Me.want \/ CharNum(can) # 0
    /\ Me.pc = "nfrele" => Me.count < Me.want

\* The line in Canonb before its delimiter was met, and after
Canonb == IF Me.pc \in {"take", "takenext"} THEN Me.work ELSE <<>>
Ended  == IF Me.pc \in {"delct", "delctstore", "put"} THEN Me.work ELSE <<>>
DataOK == Calm =>
    End(<<>>, hist.typed) = Behind((hist.taken \o Content(can)) \o Ended, End(Canonb, Content(raw)))

LineInv == CtlInv /\ HandOK /\ CountOK /\ LineOK /\ DataOK

LEMMA MeType ==
  ASSUME TypeInv, CtlInv
  PROVE  /\ Me \in Local /\ Canonb \in Seq(Chars) /\ Ended \in Seq(Chars)
         /\ Me.pc \in WantPCs => Me.want > 0
<1>1. Nobody \in Local
 <2>1. 0 \in 0 .. Size - 1  BY TerminalAssumption
 <2>2. "user" \in PCs /\ "nul" \in Chars /\ <<>> \in Seq(Chars)  BY DEF PCs, Chars
 <2> QED  BY <2>1, <2>2 DEF Nobody, Local
<1>2. cpu # NoProc => cpu \in Procs  BY DEF TypeInv
<1>3. Me \in Local  BY <1>1, <1>2 DEF Me, TypeInv
<1>4. Canonb \in Seq(Chars) /\ Ended \in Seq(Chars)
 <2>1. Me.work \in Seq(Chars) /\ <<>> \in Seq(Chars)  BY <1>3 DEF Local
 <2> QED  BY <2>1 DEF Canonb, Ended
<1>5. Me.pc \in WantPCs => Me.want > 0
 <2>1. CASE cpu = NoProc
  <3>1. Me.pc = "user"  BY <2>1 DEF Me, Nobody
  <3> QED  BY <3>1 DEF WantPCs, InsidePCs
 <2>2. CASE cpu # NoProc  BY <1>2, <2>2 DEF CtlInv, Me
 <2> QED  BY <2>1, <2>2
<1> QED  BY <1>3, <1>4, <1>5

\* What p's step may do to another process: wake it
Others(p) == \A q \in Procs : q # p =>
    \/ u'[q] = u[q]
    \/ /\ u'[q].want = u[q].want
       /\ u[q].pc \in {"lockwait", "writewait", "sleep"}
       /\ u'[q].pc \in {"nflock", "write", "woken"}
       /\ u'[q].pc = "woken" => u[q].pc = "sleep"
       /\ u'[q].pc = "nflock" => u[q].pc = "lockwait"

LEMMA CtlKept ==
  ASSUME TypeInv, CtlInv, NEW p \in Procs, Others(p), cpu \in {p, NoProc}, cpu' \in {p, NoProc},
         u'[p].pc \in RunPCs => cpu' = p,
         cpu' = p => u'[p].pc \in RunPCs \cup {"nflock"},
         u'[p].pc \in WantPCs => u'[p].want > 0
  PROVE  CtlInv'
<1>1. ASSUME NEW q \in Procs, q # p PROVE u[q].pc \notin RunPCs /\ u'[q].pc \notin RunPCs
 <2>1. NoProc \notin Procs  BY TerminalAssumption
 <2>2. u[q].pc \notin RunPCs  BY <1>1, <2>1 DEF CtlInv
 <2> QED  BY <1>1, <2>2 DEF Others, RunPCs, DataPCs
<1>2. ASSUME NEW q \in Procs, q # p, u'[q].pc \in WantPCs PROVE u'[q].want > 0
 <2>1. u[q].pc \in WantPCs /\ u'[q].want = u[q].want  BY <1>2 DEF Others, WantPCs, InsidePCs
 <2> QED  BY <2>1 DEF CtlInv
<1> QED  BY <1>1, <1>2 DEF CtlInv

\* Steps that leave the rings alone, and nobody in the data
LEMMA AsideKept ==
  ASSUME LineInv, UNCHANGED <<raw, can, delct>>,
         hist'.typed = hist.typed, hist'.taken = hist.taken, hist'.full = hist.full,
         hist'.flushed = hist.flushed, hist'.bells = hist.bells, hist'.missed = hist.missed,
         hist'.split = hist.split, Me.pc \notin DataPCs, Me'.pc \notin DataPCs
  PROVE  HandOK' /\ CountOK' /\ LineOK' /\ DataOK'
<1>1. (Calm' <=> Calm) /\ (Tame' <=> Tame)  BY DEF Calm, Tame, Typed
<1>2. /\ CharNum(raw)' = CharNum(raw) /\ CharNum(can)' = CharNum(can)
      /\ Content(raw)' = Content(raw) /\ Content(can)' = Content(can)
  OBVIOUS
<1>3. Half' = 0 /\ Half = 0 /\ Canonb' = <<>> /\ Canonb = <<>> /\ Ended' = <<>> /\ Ended = <<>>
  BY DEF Half, Canonb, Ended, DataPCs
<1>4. HandOK'  BY DEF HandOK, DataPCs
<1>5. CountOK'  BY <1>1, <1>2, <1>3 DEF CountOK, LineInv, DataPCs
<1>6. LineOK'  BY <1>1, <1>2 DEF LineOK, LineInv, DataPCs
<1>7. DataOK'  BY <1>1, <1>2, <1>3 DEF DataOK, LineInv
<1> QED  BY <1>4, <1>5, <1>6, <1>7

LEMMA MeIs ==
  ASSUME NEW p \in Procs
  PROVE  /\ cpu = p => Me = u[p]
         /\ cpu' = p => Me' = u'[p]
         /\ cpu = NoProc => Me = Nobody
         /\ cpu' = NoProc => Me' = Nobody
  BY TerminalAssumption DEF Me

LEMMA AsideStep ==
  ASSUME TypeInv, LineInv, NEW p \in Procs, Others(p), cpu \in {p, NoProc}, cpu' \in {p, NoProc},
         UNCHANGED <<raw, can, delct>>,
         hist'.typed = hist.typed, hist'.taken = hist.taken, hist'.full = hist.full,
         hist'.flushed = hist.flushed, hist'.bells = hist.bells, hist'.missed = hist.missed,
         hist'.split = hist.split,
         u[p].pc \notin DataPCs, u'[p].pc \notin DataPCs,
         u'[p].pc \in {"canon", "sleepset"} => cpu' = p,
         cpu' = p => u'[p].pc \in {"canon", "sleepset", "nflock"},
         u'[p].pc \in WantPCs => u'[p].want > 0
  PROVE  LineInv'
<1>1. CtlInv'  BY CtlKept DEF LineInv, RunPCs
<1>2. Me.pc \notin DataPCs /\ Me'.pc \notin DataPCs
 <2>1. Nobody.pc \notin DataPCs  BY DEF Nobody, DataPCs
 <2> QED  BY <2>1, MeIs
<1>3. HandOK' /\ CountOK' /\ LineOK' /\ DataOK'  BY <1>2, AsideKept
<1> QED  BY <1>1, <1>3 DEF LineInv

LEMMA PcIs ==
  ASSUME TypeInv, NEW p \in Procs, NEW l, u' = Pc(p, l)
  PROVE  /\ Others(p)
         /\ u'[p].pc = l /\ u'[p].want = u[p].want /\ u'[p].count = u[p].count
         /\ u'[p].work = u[p].work /\ u'[p].ch = u[p].ch /\ u'[p].at = u[p].at
         /\ u'[p].num = u[p].num
<1>1. u'[p] = [u[p] EXCEPT !.pc = l] /\ \A q \in Procs : q # p => u'[q] = u[q]  BY DEF Pc, TypeInv
<1>2. u[p] \in Local  BY DEF TypeInv
<1> QED  BY <1>1, <1>2 DEF Others, Local

\* Release wakes those who wait for the lock
LEMMA ReleaseIs ==
  ASSUME TypeInv, NEW p \in Procs, NEW l,
         \/ u' = [Release(u) EXCEPT ![p].pc = l]
         \/ u' = [Release(u) EXCEPT ![p].pc = l, ![p].own = FALSE]
  PROVE  Others(p) /\ u'[p].pc = l
<1> DEFINE v == Wake(u, "lockwait", "nflock")
<1> DEFINE w == Wake(v, "writewait", "write")
<1>1. \A q \in Procs : u[q] \in Local  BY DEF TypeInv
<1>2. \A q \in Procs : v[q] = IF u[q].pc = "lockwait" THEN [u[q] EXCEPT !.pc = "nflock"] ELSE u[q]
  BY DEF Wake
<1>3. \A q \in Procs : w[q] = IF v[q].pc = "writewait" THEN [v[q] EXCEPT !.pc = "write"] ELSE v[q]
  BY DEF Wake
<1>4. DOMAIN w = Procs /\ DOMAIN u = Procs  BY DEF Wake, TypeInv
<1>5. Release(u) \in {u, w}  BY DEF Release
<1> HIDE DEF v, w
<1>6. ASSUME NEW q \in Procs
      PROVE  \/ w[q] = u[q]
             \/ /\ w[q].want = u[q].want /\ u[q].pc \in {"lockwait", "writewait"}
                /\ w[q].pc \in {"nflock", "write"}
                /\ w[q].pc = "nflock" => u[q].pc = "lockwait"
 <2>1. CASE u[q].pc = "lockwait"
  <3>1. v[q].pc = "nflock" /\ v[q].want = u[q].want  BY <1>1, <1>2, <2>1 DEF Local
  <3> QED  BY <1>3, <2>1, <3>1
 <2>2. CASE u[q].pc # "lockwait"
  <3>1. v[q] = u[q]  BY <1>2, <2>2
  <3>2. CASE u[q].pc = "writewait"
   <4>1. w[q] = [u[q] EXCEPT !.pc = "write"]  BY <1>3, <3>1, <3>2
   <4>2. w[q].pc = "write" /\ w[q].want = u[q].want  BY <1>1, <4>1 DEF Local
   <4> QED  BY <3>2, <4>2
  <3>3. CASE u[q].pc # "writewait"  BY <1>3, <3>1, <3>3
  <3> QED  BY <3>2, <3>3
 <2> QED  BY <2>1, <2>2
<1>7. PICK f : f = Release(u) /\ f \in {u, w}  BY <1>5
<1>8. \A q \in Procs : q # p => u'[q] = f[q]  BY <1>4, <1>7
<1>9. u'[p].pc = l
 <2>1. p \in DOMAIN f /\ DOMAIN f[p] = DOMAIN u[p] /\ "pc" \in DOMAIN u[p]
  <3>1. w[p] = u[p] \/ w[p] \in Local
   <4>1. v[p] \in [pc : PCs \cup {"nflock"}, count : Nat, want : Nat, work : Seq(Chars), ch : Chars,
                   at : 0 .. Size - 1, num : Int, own : BOOLEAN]
     BY <1>1, <1>2 DEF Local
   <4>2. {"nflock", "write"} \subseteq PCs  BY DEF PCs
   <4> QED  BY <1>3, <4>1, <4>2 DEF Local
  <3> QED  BY <1>1, <1>4, <1>7, <3>1 DEF Local
 <2> QED  BY <1>7, <2>1
<1>10. Others(p)  BY <1>6, <1>7, <1>8 DEF Others
<1> QED  BY <1>9, <1>10

LEMMA ReadLine ==
  ASSUME IndInv, LineInv, NEW p \in Procs, Read(p)
  PROVE  LineInv'
<1>1. PICK c \in Counts : u' = [u EXCEPT ![p].pc = "nflock", ![p].count = c, ![p].want = c]
  BY DEF Read
<1>2. /\ u[p].pc = "user" /\ cpu = NoProc /\ cpu' = p /\ hist' = [hist EXCEPT !.reads = @ + 1]
      /\ UNCHANGED <<raw, can, delct>>
  BY DEF Read, Enter
<1>3. TypeInv /\ u[p] \in Local /\ hist \in Hist /\ c > 0  BY TerminalAssumption DEF IndInv, TypeInv
<1>4. u'[p].pc = "nflock" /\ u'[p].want > 0 /\ \A q \in Procs : q # p => u'[q] = u[q]
  BY <1>1, <1>3 DEF TypeInv, Local
<1>5. Others(p)  BY <1>4 DEF Others
<1>6. "user" \notin DataPCs /\ "nflock" \notin DataPCs  BY DEF DataPCs
<1>7. /\ hist'.typed = hist.typed /\ hist'.taken = hist.taken /\ hist'.full = hist.full
      /\ hist'.flushed = hist.flushed /\ hist'.bells = hist.bells /\ hist'.missed = hist.missed
      /\ hist'.split = hist.split
  BY <1>2, <1>3 DEF Hist
<1> QED  BY <1>2, <1>3, <1>4, <1>5, <1>6, <1>7, AsideStep

\* Steps of a process to another place, outside the data
LEMMA PlaceStep ==
  ASSUME TypeInv, LineInv, NEW p \in Procs, NEW l, u' = Pc(p, l),
         cpu \in {p, NoProc}, cpu' \in {p, NoProc}, UNCHANGED <<raw, can, delct>>,
         hist' \in {hist, [hist EXCEPT !.aborted = TRUE], [hist EXCEPT !.broken = TRUE]},
         u[p].pc \notin DataPCs, l \notin DataPCs,
         l \in {"canon", "sleepset"} => cpu' = p,
         cpu' = p => l \in {"canon", "sleepset", "nflock"},
         l \in WantPCs => u[p].pc \in WantPCs
  PROVE  LineInv'
<1>1. /\ hist'.typed = hist.typed /\ hist'.taken = hist.taken /\ hist'.full = hist.full
      /\ hist'.flushed = hist.flushed /\ hist'.bells = hist.bells /\ hist'.missed = hist.missed
      /\ hist'.split = hist.split
  BY DEF Hist, TypeInv
<1>2. Others(p) /\ u'[p].pc = l /\ u'[p].want = u[p].want  BY PcIs
<1>3. u[p].pc \in WantPCs => u[p].want > 0  BY DEF LineInv, CtlInv
<1> QED  BY <1>1, <1>2, <1>3, AsideStep

LEMMA NFlockWaitLine ==
  ASSUME IndInv, LineInv, NEW p \in Procs, NFlockWait(p)
  PROVE  LineInv'
<1>1. "nflock" \notin DataPCs /\ "lockwait" \notin DataPCs /\ "nflock" \in WantPCs
  BY DEF DataPCs, WantPCs
<1>2. /\ u[p].pc = "nflock" /\ cpu \in {p, NoProc} /\ cpu' = NoProc /\ hist' = hist
      /\ UNCHANGED <<raw, can, delct>> /\ u' = Pc(p, "lockwait")
  BY DEF NFlockWait
<1> QED  BY <1>1, <1>2, PlaceStep, TerminalAssumption DEF IndInv

LEMMA AbortLine ==
  ASSUME IndInv, LineInv, NEW p \in Procs, u[p].pc \notin DataPCs, cpu \in {p, NoProc}, Abort(p),
         UNCHANGED <<raw, can, delct>>
  PROVE  LineInv'
<1>1. "dying" \notin DataPCs /\ "dying" \notin WantPCs  BY DEF DataPCs, WantPCs, InsidePCs
<1>2. cpu' = NoProc /\ hist' = [hist EXCEPT !.aborted = TRUE] /\ u' = Pc(p, "dying")  BY DEF Abort
<1> QED  BY <1>1, <1>2, PlaceStep, TerminalAssumption DEF IndInv

LEMMA GoToSleepLine ==
  ASSUME IndInv, LineInv, NEW p \in Procs, u[p].pc \in {"canon", "sleepset"}, cpu = p, GoToSleep(p),
         UNCHANGED <<raw, can, delct>>
  PROVE  LineInv'
<1>1. u[p].pc \notin DataPCs /\ "sleep" \notin DataPCs /\ u[p].pc \in WantPCs
  BY DEF DataPCs, WantPCs, InsidePCs
<1>2. CASE Abort(p)  BY <1>1, <1>2, AbortLine
<1>3. CASE u' = Pc(p, "sleep") /\ cpu' = NoProc /\ UNCHANGED hist
  BY <1>1, <1>3, PlaceStep, TerminalAssumption DEF IndInv
<1> QED  BY <1>2, <1>3 DEF GoToSleep

LEMMA CanonSleepLine ==
  ASSUME IndInv, LineInv, NEW p \in Procs, CanonSleep(p)
  PROVE  LineInv'
  BY GoToSleepLine DEF CanonSleep, At

LEMMA WriteLine ==
  ASSUME IndInv, LineInv, NEW p \in Procs, Write(p)
  PROVE  LineInv'
<1>1. /\ "user" \notin DataPCs /\ "write" \notin DataPCs /\ "writewait" \notin DataPCs
      /\ "user" \notin WantPCs /\ "writewait" \notin WantPCs
  BY DEF DataPCs, WantPCs, InsidePCs
<1>2. /\ u[p].pc \in {"user", "write"} /\ cpu = NoProc /\ cpu' = NoProc /\ hist' = hist
      /\ UNCHANGED <<raw, can, delct>>
  BY DEF Write, Enter
<1>3. PICK l \in {"user", "writewait"} : u' = Pc(p, l)  BY DEF Write
<1> QED  BY <1>1, <1>2, <1>3, PlaceStep, TerminalAssumption DEF IndInv

LEMMA PutLine ==
  ASSUME IndInv, LineInv, NEW p \in Procs, NEW l \in {"user", "dead"}, Put(p, l),
         u[p].pc \in {"user", "dying"}, cpu = NoProc
  PROVE  LineInv'
<1>1. u[p].pc \notin DataPCs /\ l \notin DataPCs /\ l \notin WantPCs /\ l \notin RunPCs
  BY DEF DataPCs, WantPCs, InsidePCs, RunPCs
<1>2. cpu' = NoProc /\ UNCHANGED <<raw, can, delct>> /\ hist' = [hist EXCEPT !.broken = @ \/ inode.lock]
  BY DEF Put
<1>3. /\ hist'.typed = hist.typed /\ hist'.taken = hist.taken /\ hist'.full = hist.full
      /\ hist'.flushed = hist.flushed /\ hist'.bells = hist.bells /\ hist'.missed = hist.missed
      /\ hist'.split = hist.split
  BY <1>2 DEF Hist, IndInv, TypeInv
<1>4. Others(p) /\ u'[p].pc = l  BY ReleaseIs DEF Put, IndInv
<1>5. TypeInv /\ NoProc # p  BY TerminalAssumption DEF IndInv
<1>6. l \notin {"canon", "sleepset"}  OBVIOUS
<1> QED  BY <1>1, <1>2, <1>3, <1>4, <1>5, <1>6, AsideStep

LEMMA ExitLine ==
  ASSUME IndInv, LineInv, NEW p \in Procs, Exit(p)
  PROVE  LineInv'
<1>1. cpu = NoProc /\ u[p].pc \in {"user", "dying"}  BY DEF Exit
<1>2. CASE Put(p, "dead")  BY <1>1, <1>2, PutLine
<1>3. CASE u' = Pc(p, "dead") /\ UNCHANGED <<raw, can, delct, cpu, hist>>
 <2>1. u[p].pc \notin DataPCs /\ "dead" \notin DataPCs /\ "dead" \notin WantPCs
   BY <1>1 DEF DataPCs, WantPCs, InsidePCs
 <2> QED  BY <1>1, <1>3, <2>1, PlaceStep, TerminalAssumption DEF IndInv
<1> QED  BY <1>2, <1>3 DEF Exit

-----------------------------------------------------------------------------
(* The steps of a process, and the line in its hands.                      *)

\* Steps of the reader that has the processor
LEMMA CtlStep ==
  ASSUME TypeInv, LineInv, NEW p \in Procs, Others(p), cpu = p, cpu' = p,
         u[p].pc \in RunPCs \cup {"nflock"}, u'[p].pc \in RunPCs, u'[p].want = u[p].want
  PROVE  CtlInv' /\ Me = u[p] /\ Me' = u'[p]
<1>1. u[p].pc \in WantPCs  BY DEF RunPCs, DataPCs, WantPCs, InsidePCs
<1>2. u[p].want > 0  BY <1>1 DEF LineInv, CtlInv
<1> QED  BY <1>2, CtlKept, MeIs DEF LineInv

\* To a place in the data from outside, without a line in hand
LEMMA EnterStep ==
  ASSUME TypeInv, LineInv, UNCHANGED <<raw, can, delct, hist>>,
         Me.pc \notin DataPCs, CtlInv',
         \/ Me'.pc = "take" /\ Me'.work = <<>> /\ delct > 0
         \/ Me'.pc = "pass" /\ CharNum(can) # 0
  PROVE  LineInv'
<1>1. (Calm' <=> Calm) /\ (Tame' <=> Tame)  BY DEF Calm, Tame, Typed
<1>2. /\ CharNum(raw)' = CharNum(raw) /\ CharNum(can)' = CharNum(can)
      /\ Content(raw)' = Content(raw) /\ Content(can)' = Content(can)
  OBVIOUS
<1>3. Half' = 0 /\ Half = 0 /\ Canonb' = <<>> /\ Canonb = <<>> /\ Ended' = <<>> /\ Ended = <<>>
  BY DEF Half, Canonb, Ended, DataPCs
<1>4. HandOK'  BY DEF HandOK
<1>5. CountOK'  BY <1>1, <1>2, <1>3 DEF CountOK, LineInv
<1>6. LineOK'
 <2>1. Me.pc \notin {"take", "takenext"}  BY DEF DataPCs
 <2> QED  BY <1>1, <1>2, <2>1 DEF LineOK, LineInv
<1>7. DataOK'  BY <1>1, <1>2, <1>3 DEF DataOK, LineInv
<1> QED  BY <1>4, <1>5, <1>6, <1>7 DEF LineInv

LEMMA NFlockLine ==
  ASSUME IndInv, LineInv, NEW p \in Procs, NFlock(p)
  PROVE  LineInv'
<1>1. /\ u[p].pc = "nflock" /\ cpu \in {p, NoProc} /\ cpu' = p
      /\ UNCHANGED <<raw, can, delct, hist>>
      /\ u' = Pc(p, IF CharNum(can) # 0 THEN "pass" ELSE "canon")
  BY DEF NFlock
<1>2. TypeInv  BY DEF IndInv
<1>3. "nflock" \in WantPCs /\ "nflock" \notin DataPCs /\ "canon" \notin DataPCs
  BY DEF WantPCs, DataPCs
<1>4. CASE CharNum(can) = 0
 <2>1. u' = Pc(p, "canon")  BY <1>1, <1>4
 <2> QED  BY <1>1, <1>2, <1>3, <2>1, PlaceStep
<1>5. CASE CharNum(can) # 0
 <2>1. u' = Pc(p, "pass")  BY <1>1, <1>5
 <2>2. Others(p) /\ u'[p].pc = "pass" /\ u'[p].want = u[p].want  BY <1>2, <2>1, PcIs
 <2>3. "pass" \in RunPCs /\ u[p].want > 0  BY <1>1, <1>3 DEF RunPCs, DataPCs, LineInv, CtlInv
 <2>4. CtlInv'  BY <1>1, <1>2, <2>2, <2>3, CtlKept DEF LineInv
 <2>5. Me'.pc = "pass"  BY <1>1, <2>2, MeIs
 <2>6. Me.pc \notin DataPCs
  <3>1. Nobody.pc \notin DataPCs  BY DEF Nobody, DataPCs
  <3> QED  BY <1>1, <1>3, <3>1, MeIs
 <2> QED  BY <1>1, <1>2, <1>5, <2>4, <2>5, <2>6, EnterStep
<1> QED  BY <1>4, <1>5

\* The look at t_delct, at the first turn and after the sleep
LEMMA CanonGoesOnLine ==
  ASSUME IndInv, LineInv, NEW p \in Procs, u[p].pc \in {"canon", "woken"}, cpu \in {p, NoProc},
         u' = [u EXCEPT ![p].pc = IF delct # 0 THEN "take" ELSE "sleepset", ![p].work = <<>>],
         u[p].pc = "canon" => delct # 0,
         cpu' = p, UNCHANGED <<raw, can, delct, hist>>, hist.full \/ hist.flushed \/ delct >= 0
  PROVE  LineInv'
<1>1. TypeInv /\ u[p] \in Local  BY DEF IndInv, TypeInv
<1>2. /\ u'[p].pc = (IF delct # 0 THEN "take" ELSE "sleepset") /\ u'[p].work = <<>>
      /\ u'[p].want = u[p].want /\ \A q \in Procs : q # p => u'[q] = u[q]
  BY <1>1 DEF TypeInv, Local
<1>3. Others(p)  BY <1>2 DEF Others
<1>4. /\ u[p].pc \notin DataPCs /\ "sleepset" \notin DataPCs /\ u[p].pc \in WantPCs
      /\ "take" \in RunPCs /\ "sleepset" \in RunPCs
  BY DEF DataPCs, WantPCs, InsidePCs, RunPCs
<1>5. u[p].want > 0  BY <1>4 DEF LineInv, CtlInv
<1>6. CtlInv'  BY <1>1, <1>2, <1>3, <1>4, <1>5, CtlKept DEF LineInv
<1>7. CASE delct = 0
 <2>1. u'[p].pc = "sleepset"  BY <1>2, <1>7
 <2> QED  BY <1>1, <1>2, <1>3, <1>4, <1>5, <2>1, AsideStep
<1>8. CASE delct # 0
 <2>1. Me'.pc = "take" /\ Me'.work = <<>>  BY <1>2, <1>8, MeIs
 <2>2. Me.pc \notin DataPCs
  <3>1. Nobody.pc \notin DataPCs  BY DEF Nobody, DataPCs
  <3> QED  BY <1>4, <3>1, MeIs
 <2>3. CASE Calm
  <3>1. delct > 0  BY <1>1, <1>8, <2>3 DEF Calm, TypeInv
  <3> QED  BY <1>1, <1>6, <2>1, <2>2, <3>1, EnterStep
 <2>4. CASE ~Calm
  <3>1. ~Calm'  BY <2>4 DEF Calm
  <3> QED  BY <1>6, <3>1 DEF LineInv, HandOK, CountOK, LineOK, DataOK, Tame
 <2> QED  BY <2>3, <2>4
<1> QED  BY <1>7, <1>8

LEMMA DelctNotNegative ==
  ASSUME LineInv
  PROVE  hist.full \/ hist.flushed \/ delct >= 0
  BY DEF LineInv, CountOK, Calm

LEMMA CanonTestLine ==
  ASSUME IndInv, LineInv, NEW p \in Procs, CanonTest(p)
  PROVE  LineInv'
<1>1. u[p].pc = "canon" /\ cpu = p /\ UNCHANGED <<raw, can, delct>>  BY DEF CanonTest, At
<1>2. CASE delct # 0 /\ u' = [u EXCEPT ![p].pc = "take", ![p].work = <<>>] /\ UNCHANGED <<cpu, hist>>
  BY <1>1, <1>2, CanonGoesOnLine, DelctNotNegative
<1>3. CASE GoToSleep(p)  BY <1>1, <1>3, GoToSleepLine
<1> QED  BY <1>2, <1>3 DEF CanonTest

LEMMA CanonAgainLine ==
  ASSUME IndInv, LineInv, NEW p \in Procs, CanonAgain(p)
  PROVE  LineInv'
<1>1. u[p].pc = "woken" /\ cpu = NoProc /\ UNCHANGED <<raw, can, delct>>  BY DEF CanonAgain
<1>2. CASE Abort(p)
 <2>1. u[p].pc \notin DataPCs  BY <1>1 DEF DataPCs
 <2> QED  BY <1>1, <1>2, <2>1, AbortLine
<1>3. CASE /\ u' = [u EXCEPT ![p].pc = IF delct # 0 THEN "take" ELSE "sleepset", ![p].work = <<>>]
           /\ cpu' = p /\ UNCHANGED hist
  BY <1>1, <1>3, CanonGoesOnLine, DelctNotNegative
<1> QED  BY <1>2, <1>3 DEF CanonAgain

LEMMA Uncalm ==
  ASSUME CtlInv', ~Calm'
  PROVE  LineInv'
  BY DEF LineInv, HandOK, CountOK, LineOK, DataOK, Tame

LEMMA BehindBehind ==
  ASSUME NEW o \in Seq(Chars), NEW v \in Seq(Chars), NEW x \in Acc
  PROVE  Behind(o, Behind(v, x)) = Behind(o \o v, x)
<1>1. x.out \in Seq(Chars)  BY DEF Acc
<1>2. o \o (v \o x.out) = (o \o v) \o x.out  BY <1>1, Assoc
<1> QED  BY <1>2 DEF Behind

LEMMA TakeReadLine ==
  ASSUME IndInv, LineInv, NEW p \in Procs, TakeRead(p)
  PROVE  LineInv'
<1>1. u[p].pc = "take" /\ cpu = p /\ cpu' = p /\ UNCHANGED <<raw, can, delct, hist>>
  BY DEF TakeRead, At
<1>2. TypeInv /\ u[p] \in Local /\ raw \in Ring  BY DEF IndInv, TypeInv
<1>3. "take" \in RunPCs /\ "takenext" \in RunPCs /\ "put" \in RunPCs  BY DEF RunPCs, DataPCs
<1>4. Calm' <=> Calm  BY <1>1 DEF Calm
<1>5. CASE CharNum(raw) = 0
 <2>1. u' = Pc(p, "put")  BY <1>5 DEF TakeRead
 <2>2. Others(p) /\ u'[p].pc = "put" /\ u'[p].want = u[p].want  BY <1>2, <2>1, PcIs
 <2>3. CtlInv' /\ Me = u[p]  BY <1>1, <1>2, <1>3, <2>2, CtlStep
 <2>4. ~Calm
  <3> SUFFICES ASSUME Calm PROVE FALSE  OBVIOUS
  <3>1. Delimiters(Content(raw)) = 0
   <4>1. Content(raw) \in Seq(Chars) /\ Len(Content(raw)) = 0  BY <1>2, <1>5, ContentIs
   <4>2. Content(raw) = <<>>  BY <4>1
   <4> QED  BY <4>1, <4>2, BellsCounted
  <3>2. Half = 0 /\ Me.pc = "take"  BY <1>1, <2>3 DEF Half
  <3> QED  BY <3>1, <3>2 DEF LineInv, CountOK
 <2> QED  BY <1>4, <2>3, <2>4, Uncalm
<1>6. CASE CharNum(raw) # 0
 <2>1. /\ u'[p].pc = "takenext" /\ u'[p].ch = raw.buf[raw.tail] /\ u'[p].at = raw.tail
       /\ u'[p].want = u[p].want /\ u'[p].work = u[p].work
       /\ \A q \in Procs : q # p => u'[q] = u[q]
  <3>1. u' = [u EXCEPT ![p].pc = "takenext", ![p].ch = raw.buf[raw.tail], ![p].at = raw.tail]
    BY <1>6 DEF TakeRead
  <3> QED  BY <1>2, <3>1 DEF TypeInv, Local
 <2>2. Others(p)  BY <2>1 DEF Others
 <2>3. CtlInv' /\ Me = u[p] /\ Me' = u'[p]  BY <1>1, <1>2, <1>3, <2>1, <2>2, CtlStep
 <2>4. Half = 0 /\ Half' = 0 /\ Canonb' = Canonb /\ Ended = <<>> /\ Ended' = <<>>
   BY <1>1, <2>1, <2>3 DEF Half, Canonb, Ended
 <2>5. /\ CharNum(raw)' = CharNum(raw) /\ CharNum(can)' = CharNum(can)
       /\ Content(raw)' = Content(raw) /\ Content(can)' = Content(can)
       /\ (Tame' <=> Tame)
   BY <1>1 DEF Tame, Calm, Typed
 <2>6. HandOK'  BY <1>1, <1>6, <2>1, <2>3, <2>5 DEF HandOK
 <2>7. CountOK'  BY <1>1, <1>4, <2>1, <2>3, <2>4, <2>5 DEF CountOK, LineInv
 <2>8. LineOK'  BY <1>1, <2>1, <2>3, <2>5 DEF LineOK, LineInv
 <2>9. DataOK'  BY <1>1, <1>4, <2>4, <2>5 DEF DataOK, LineInv
 <2> QED  BY <2>3, <2>6, <2>7, <2>8, <2>9 DEF LineInv
<1> QED  BY <1>5, <1>6

LEMMA DelctLoadLine ==
  ASSUME IndInv, LineInv, NEW p \in Procs, DelctLoad(p)
  PROVE  LineInv'
<1>1. u[p].pc = "delct" /\ cpu = p /\ cpu' = p /\ UNCHANGED <<raw, can, delct, hist>>
  BY DEF DelctLoad, At
<1>2. TypeInv /\ u[p] \in Local /\ delct \in Int  BY DEF IndInv, TypeInv
<1>3. /\ u'[p].pc = "delctstore" /\ u'[p].num = delct
      /\ u'[p].want = u[p].want /\ u'[p].work = u[p].work
      /\ \A q \in Procs : q # p => u'[q] = u[q]
 <2>1. u' = [u EXCEPT ![p].pc = "delctstore", ![p].num = delct]  BY DEF DelctLoad
 <2> QED  BY <1>2, <2>1 DEF TypeInv, Local
<1>4. "delct" \in RunPCs /\ "delctstore" \in RunPCs  BY DEF RunPCs, DataPCs
<1>5. Others(p)  BY <1>3 DEF Others
<1>6. CtlInv' /\ Me = u[p] /\ Me' = u'[p]  BY <1>1, <1>2, <1>3, <1>4, <1>5, CtlStep
<1>7. Half = 1 /\ Half' = 1 /\ Canonb' = Canonb /\ Ended' = Ended
  BY <1>1, <1>3, <1>6 DEF Half, Canonb, Ended
<1>8. /\ CharNum(raw)' = CharNum(raw) /\ CharNum(can)' = CharNum(can)
      /\ Content(raw)' = Content(raw) /\ Content(can)' = Content(can)
      /\ (Tame' <=> Tame) /\ (Calm' <=> Calm)
  BY <1>1 DEF Tame, Calm, Typed
<1>9. HandOK'  BY <1>3, <1>6 DEF HandOK
<1>10. CountOK'  BY <1>1, <1>2, <1>3, <1>6, <1>7, <1>8 DEF CountOK, LineInv
<1>11. LineOK'  BY <1>1, <1>3, <1>6, <1>8 DEF LineOK, LineInv
<1>12. DataOK'  BY <1>1, <1>7, <1>8 DEF DataOK, LineInv
<1> QED  BY <1>6, <1>9, <1>10, <1>11, <1>12 DEF LineInv

LEMMA DelctStoreLine ==
  ASSUME IndInv, LineInv, NEW p \in Procs, DelctStore(p)
  PROVE  LineInv'
<1>1. /\ u[p].pc = "delctstore" /\ cpu = p /\ cpu' = p /\ UNCHANGED <<raw, can>>
      /\ delct' = u[p].num - 1 /\ u' = Pc(p, "put")
      /\ hist' = [hist EXCEPT !.missed = @ \/ delct # u[p].num]
  BY DEF DelctStore, At
<1>2. TypeInv /\ u[p] \in Local /\ delct \in Int /\ hist \in Hist /\ raw \in Ring
  BY DEF IndInv, TypeInv
<1>3. Others(p) /\ u'[p].pc = "put" /\ u'[p].want = u[p].want /\ u'[p].work = u[p].work
  BY <1>1, <1>2, PcIs
<1>4. "put" \in RunPCs /\ "delctstore" \in RunPCs  BY DEF RunPCs, DataPCs
<1>5. CtlInv' /\ Me = u[p] /\ Me' = u'[p]  BY <1>1, <1>2, <1>3, <1>4, CtlStep
<1>6. Half = 1 /\ Half' = 0 /\ Canonb' = Canonb /\ Ended' = Ended
  BY <1>1, <1>3, <1>5 DEF Half, Canonb, Ended
<1>7. /\ hist'.typed = hist.typed /\ hist'.taken = hist.taken /\ hist'.full = hist.full
      /\ hist'.flushed = hist.flushed /\ hist'.bells = hist.bells
      /\ hist'.split = hist.split /\ (hist'.missed <=> hist.missed \/ delct # u[p].num)
  BY <1>1, <1>2 DEF Hist
<1>8. /\ CharNum(raw)' = CharNum(raw) /\ CharNum(can)' = CharNum(can)
      /\ Content(raw)' = Content(raw) /\ Content(can)' = Content(can)
      /\ (Tame' <=> Tame) /\ (Calm' <=> Calm)
  BY <1>1, <1>7 DEF Tame, Calm, Typed
<1>9. HandOK'  BY <1>3, <1>5 DEF HandOK
<1>10. CountOK'
 <2>1. Delimiters(Content(raw)) \in Nat /\ hist.bells \in Nat
   BY <1>2, ContentIs, BellsCounted DEF Hist
 <2>2. Calm => u[p].num \in 1 .. delct  BY <1>1, <1>5 DEF CountOK, LineInv
 <2> SUFFICES ASSUME Calm
              PROVE  /\ delct' \in 0 .. Delimiters(Content(raw)) + 0
                     /\ hist'.missed \/ Delimiters(Content(raw)) + 0 = delct' + hist.bells
   BY <1>3, <1>5, <1>6, <1>7, <1>8 DEF CountOK
 <2>3. /\ delct \in 0 .. Delimiters(Content(raw)) + 1
       /\ hist.missed \/ Delimiters(Content(raw)) + 1 = delct + hist.bells
   BY <1>6 DEF CountOK, LineInv
 <2>4. delct' \in 0 .. Delimiters(Content(raw)) + 0  BY <1>1, <1>2, <2>1, <2>2, <2>3
 <2>5. ~hist'.missed => Delimiters(Content(raw)) + 0 = delct' + hist.bells
   BY <1>1, <1>2, <1>7, <2>1, <2>2, <2>3
 <2> QED  BY <2>4, <2>5
<1>11. LineOK'  BY <1>1, <1>3, <1>5, <1>8 DEF LineOK, LineInv
<1>12. DataOK'  BY <1>6, <1>7, <1>8 DEF DataOK, LineInv
<1> QED  BY <1>5, <1>9, <1>10, <1>11, <1>12 DEF LineInv

\* The first character of raw is taken
LEMMA LineAfterTake ==
  ASSUME TypeInv, LineOK, Tame, Me.pc = "takenext", CharNum(raw) # 0, Content(raw)[1] = Me.ch,
         NEW d, d = Tail(Content(raw)), NEW n, n = CharNum(raw) - 1
  PROVE  /\ \A i \in 1 .. n - 1 : d[i + 1] = "bell" => d[i] = "nl"
         /\ n # 0 /\ d[1] = "bell" => Me.ch = "nl"
         /\ Me.ch = "bell" => Me.work # <<>>
<1>1. raw \in Ring  BY DEF TypeInv
<1>2. PICK s, m : s = Content(raw) /\ m = CharNum(raw)  OBVIOUS
<1>3. s \in Seq(Chars) /\ Len(s) = m /\ m \in Nat /\ m # 0  BY <1>1, <1>2, ContentIs
<1>4. \A i \in 1 .. m - 1 : d[i] = s[i + 1]  BY <1>2, <1>3
<1>5. \A i \in 1 .. m - 1 : s[i + 1] = "bell" => s[i] = "nl"  BY <1>2 DEF LineOK
<1>6. ASSUME NEW i \in 1 .. n - 1, d[i + 1] = "bell" PROVE d[i] = "nl"
 <2>1. i + 1 \in 1 .. m - 1 /\ i \in 1 .. m - 1  BY <1>2, <1>3
 <2>2. d[i + 1] = s[(i + 1) + 1] /\ d[i] = s[i + 1]  BY <1>4, <2>1
 <2> QED  BY <1>5, <1>6, <2>1, <2>2
<1>7. ASSUME n # 0, d[1] = "bell" PROVE Me.ch = "nl"
 <2>1. 1 \in 1 .. m - 1  BY <1>2, <1>3, <1>7
 <2>2. d[1] = s[1 + 1]  BY <1>4, <2>1
 <2>3. s[1] = "nl"  BY <1>5, <1>7, <2>1, <2>2
 <2> QED  BY <1>2, <2>3
<1>8. Me.ch = "bell" => Me.work # <<>>  BY DEF LineOK
<1> QED  BY <1>6, <1>7, <1>8

LEMMA TakeNextLine ==
  ASSUME IndInv, LineInv, NEW p \in Procs, TakeNext(p)
  PROVE  LineInv'
<1>1. PICK c, v, w : c = u[p].ch /\ v = u[p].work /\ w = Canonize(v, c)  OBVIOUS
<1>2. PICK full : full = (c # "bell" /\ Len(w) = MaxLine)  OBVIOUS
<1>3. /\ u[p].pc = "takenext" /\ cpu = p /\ cpu' = p /\ UNCHANGED <<can, delct>>
      /\ hist' = [hist EXCEPT !.split = @ \/ (c # "bell" /\ Len(w) = MaxLine)]
      /\ u' = IF c = "bell" THEN [u EXCEPT ![p].pc = "delct"]
              ELSE [u EXCEPT ![p].work = w,
                             ![p].pc = IF c # "bell" /\ Len(w) = MaxLine THEN "put" ELSE "take"]
  BY <1>1 DEF TakeNext, At
<1>4. /\ TypeInv /\ u[p] \in Local /\ delct \in Int /\ hist \in Hist /\ raw \in Ring
      /\ c \in Chars /\ v \in Seq(Chars)
  BY <1>1 DEF IndInv, TypeInv, Local
<1>5. w \in Seq(Chars)  BY <1>1, <1>4, CanonizeType
<1>6. /\ u'[p].pc = IF c = "bell" THEN "delct" ELSE IF Len(w) = MaxLine THEN "put" ELSE "take"
      /\ u'[p].work = IF c = "bell" THEN v ELSE w
      /\ u'[p].want = u[p].want
      /\ \A q \in Procs : q # p => u'[q] = u[q]
 <2>1. CASE c = "bell"
  <3>1. u' = [u EXCEPT ![p].pc = "delct"]  BY <1>3, <2>1
  <3> QED  BY <1>1, <1>4, <2>1, <3>1 DEF TypeInv, Local
 <2>2. CASE c # "bell"
  <3>1. PICK l : l = IF Len(w) = MaxLine THEN "put" ELSE "take"  OBVIOUS
  <3>2. u' = [u EXCEPT ![p].work = w, ![p].pc = l]  BY <1>3, <2>2, <3>1
  <3>3. /\ u'[p].pc = l /\ u'[p].work = w /\ u'[p].want = u[p].want
        /\ \A q \in Procs : q # p => u'[q] = u[q]
    BY <1>4, <3>2 DEF TypeInv, Local
  <3> QED  BY <2>2, <3>1, <3>3
 <2> QED  BY <2>1, <2>2
<1>7. Others(p)  BY <1>6 DEF Others
<1>8. "takenext" \in RunPCs /\ "delct" \in RunPCs /\ "put" \in RunPCs /\ "take" \in RunPCs
  BY DEF RunPCs, DataPCs
<1>9. CtlInv' /\ Me = u[p] /\ Me' = u'[p]  BY <1>3, <1>4, <1>6, <1>7, <1>8, CtlStep
<1>10. /\ hist'.typed = hist.typed /\ hist'.taken = hist.taken /\ hist'.full = hist.full
       /\ hist'.flushed = hist.flushed /\ hist'.bells = hist.bells /\ hist'.missed = hist.missed
       /\ (hist'.split <=> hist.split \/ (c # "bell" /\ Len(w) = MaxLine))
  BY <1>3, <1>4 DEF Hist
<1>11. Calm' <=> Calm  BY <1>10 DEF Calm
<1>12. CASE ~Calm  BY <1>9, <1>11, <1>12, Uncalm
<1>13. CASE Calm
 <2>1. CharNum(raw) # 0 /\ u[p].at = raw.tail /\ c = raw.buf[raw.tail]
   BY <1>1, <1>3, <1>9, <1>13 DEF LineInv, HandOK
 <2>2. raw' = [raw EXCEPT !.tail = Mod(raw.tail + 1)]  BY <2>1 DEF TakeNext
 <2>3. PICK s, d : s = Content(raw) /\ d = Content(raw')  OBVIOUS
 <2>4. s # <<>> /\ Head(s) = c /\ d = Tail(s) /\ CharNum(raw') = CharNum(raw) - 1
   BY <1>4, <2>1, <2>2, <2>3, ContentTake
 <2>5. s \in Seq(Chars) /\ d \in Seq(Chars) /\ s[1] = c  BY <1>4, <2>3, <2>4, ContentIs
 <2>6. HandOK'  BY <1>6, <1>9 DEF HandOK
 <2>7. Half = 0 /\ Half' = IF c = "bell" THEN 1 ELSE 0  BY <1>3, <1>6, <1>9 DEF Half
 <2>8. Delimiters(s) = Delimiters(d) + Half'
  <3>1. Delimiters(d) \in Nat  BY <2>5, BellsCounted
  <3> QED  BY <2>4, <2>5, <2>7, <3>1, DelimitersTail
 <2>9. CountOK'
  <3>1. Delimiters(d) \in Nat  BY <2>5, BellsCounted
  <3>2. /\ delct \in 0 .. Delimiters(s) + 0 /\ delct > 0
        /\ hist.missed \/ Delimiters(s) + 0 = delct + hist.bells
    BY <1>3, <1>9, <1>13, <2>3, <2>7 DEF LineInv, CountOK
  <3>3. /\ delct \in 0 .. Delimiters(d) + Half' /\ delct > 0
        /\ hist.missed \/ Delimiters(d) + Half' = delct + hist.bells
    BY <2>7, <2>8, <3>1, <3>2
  <3> QED  BY <1>3, <1>6, <1>9, <1>10, <2>3, <3>3 DEF CountOK
 <2>10. LineOK'
  <3> SUFFICES ASSUME Tame' PROVE LineOK'  BY DEF LineOK
  <3>1. Tame /\ ~(c # "bell" /\ Len(w) = MaxLine)  BY <1>10, <1>13 DEF Tame, Typed
  <3>2. LineOK /\ Me.pc = "takenext" /\ Me.ch = c /\ Me.work = v  BY <1>1, <1>3, <1>9 DEF LineInv
  <3>3. PICK n : n = CharNum(raw) - 1  OBVIOUS
  <3>4. /\ \A i \in 1 .. n - 1 : d[i + 1] = "bell" => d[i] = "nl"
        /\ n # 0 /\ d[1] = "bell" => c = "nl"
        /\ c = "bell" => v # <<>>
    BY <1>4, <2>1, <2>3, <2>4, <2>5, <3>1, <3>2, <3>3, LineAfterTake
  <3>5. c = "nl" => w # <<>>
   <4>1. c = "nl" => w = Append(v, c)  BY <1>1 DEF Canonize
   <4>2. Append(v, c) # <<>>
    <5>1. Len(Append(v, c)) = Len(v) + 1 /\ Len(v) \in Nat /\ Len(<<>>) = 0  BY <1>4
    <5> QED  BY <5>1
   <4> QED  BY <4>1, <4>2
  <3>6. CASE c = "bell"  BY <1>6, <1>9, <2>3, <2>4, <3>3, <3>4, <3>6 DEF LineOK
  <3>7. CASE c # "bell"
   <4>1. Me'.pc = "take" /\ Me'.work = w  BY <1>6, <1>9, <3>1, <3>7
   <4> QED  BY <2>3, <2>4, <3>3, <3>4, <3>5, <4>1 DEF LineOK
  <3> QED  BY <3>6, <3>7
 <2>11. DataOK'
  <3>1. PICK x, a, e : /\ x = hist.taken \o Content(can) /\ a = CookChar(Begun(v), c)
                       /\ e = End(a.work, d)
    OBVIOUS
  <3>2. x \in Seq(Chars)
   <4>1. hist.taken \in Seq(Chars) /\ Content(can) \in Seq(Chars)
     BY <1>4, ContentIs DEF Hist, TypeInv
   <4> QED  BY <3>1, <4>1
  <3>3. a \in Acc /\ End(v, s) = Behind(a.out, e)  BY <1>4, <2>4, <2>5, <3>1, CookTail
  <3>4. a.work \in Seq(Chars) /\ a.out \in Seq(Chars)  BY <3>3 DEF Acc
  <3>5. e \in Acc  BY <2>5, <3>1, <3>4, EndIs
  <3>6. Canonb = v /\ Ended = <<>>  BY <1>1, <1>3, <1>9 DEF Canonb, Ended
  <3>7. End(<<>>, hist.typed) = Behind(x \o <<>>, Behind(a.out, e))
    BY <1>13, <2>3, <3>1, <3>3, <3>6 DEF LineInv, DataOK
  <3>8. x \o <<>> = x  BY <3>2
  <3>9. End(<<>>, hist.typed) = Behind(x \o a.out, e)  BY <3>2, <3>4, <3>5, <3>7, <3>8, BehindBehind
  <3>10. a.out = Ended' /\ a.work = Canonb'
   <4>2. <<>> \o v = v /\ <<>> \o w = w  BY <1>4, <1>5
   <4>6. a = CookChar([out |-> <<>>, work |-> v], c)  BY <3>1 DEF Begun
   <4>7. a = IF c = "bell" THEN [out |-> <<>> \o v, work |-> <<>>]
             ELSE IF Len(w) = MaxLine THEN [out |-> <<>> \o w, work |-> <<>>]
             ELSE [out |-> <<>>, work |-> w]
     BY <1>1, <4>6 DEF CookChar
   <4>3. CASE c = "bell"
    <5>1. a.out = v /\ a.work = <<>>
     <6>1. a = [out |-> <<>> \o v, work |-> <<>>]  BY <4>3, <4>7
     <6> QED  BY <4>2, <6>1
    <5>2. Ended' = v /\ Canonb' = <<>>  BY <1>6, <1>9, <4>3 DEF Ended, Canonb
    <5> QED  BY <5>1, <5>2
   <4>4. CASE c # "bell" /\ Len(w) = MaxLine
    <5>1. a.out = w /\ a.work = <<>>
     <6>1. a = [out |-> <<>> \o w, work |-> <<>>]  BY <4>4, <4>7
     <6> QED  BY <4>2, <6>1
    <5>2. Ended' = w /\ Canonb' = <<>>  BY <1>6, <1>9, <4>4 DEF Ended, Canonb
    <5> QED  BY <5>1, <5>2
   <4>5. CASE c # "bell" /\ Len(w) # MaxLine
    <5>1. a.out = <<>> /\ a.work = w
     <6>1. a = [out |-> <<>>, work |-> w]  BY <4>5, <4>7
     <6> QED  BY <6>1
    <5>2. Ended' = <<>> /\ Canonb' = w  BY <1>6, <1>9, <4>5 DEF Ended, Canonb
    <5> QED  BY <5>1, <5>2
   <4> QED  BY <4>3, <4>4, <4>5
  <3>11. Content(can)' = Content(can)  BY <1>3
  <3> QED  BY <1>10, <2>3, <3>1, <3>9, <3>10, <3>11 DEF DataOK
 <2> QED  BY <1>9, <2>6, <2>9, <2>10, <2>11 DEF LineInv
<1> QED  BY <1>12, <1>13

LEMMA SeqSplit ==
  ASSUME NEW s \in Seq(Chars), s # <<>>
  PROVE  /\ Head(s) \in Chars /\ Tail(s) \in Seq(Chars)
         /\ \A a \in Seq(Chars) : Append(a, Head(s)) \o Tail(s) = a \o s
<1>1. Head(s) \in Chars /\ Tail(s) \in Seq(Chars) /\ Len(s) # 0 /\ Len(s) \in Nat  OBVIOUS
<1>2. ASSUME NEW a \in Seq(Chars) PROVE Append(a, Head(s)) \o Tail(s) = a \o s
 <2>1. PICK x, y : x = Append(a, Head(s)) \o Tail(s) /\ y = a \o s  OBVIOUS
 <2>2. x \in Seq(Chars) /\ y \in Seq(Chars) /\ Len(x) = Len(a) + Len(s) /\ Len(y) = Len(a) + Len(s)
   BY <1>1, <2>1
 <2>3. ASSUME NEW i \in 1 .. Len(x) PROVE x[i] = y[i]  BY <1>1, <2>1, <2>2
 <2> QED  BY <2>1, <2>2, <2>3, SameSeq
<1> QED  BY <1>1, <1>2

LEMMA PutCookedLine ==
  ASSUME IndInv, LineInv, NEW p \in Procs, PutCooked(p)
  PROVE  LineInv'
<1>1. u[p].pc = "put" /\ cpu = p /\ cpu' = p /\ UNCHANGED <<raw, delct>>  BY DEF PutCooked, At
<1>2. TypeInv /\ u[p] \in Local /\ hist \in Hist /\ raw \in Ring /\ can \in Ring
  BY DEF IndInv, TypeInv
<1>3. "put" \in RunPCs /\ "pass" \in RunPCs  BY DEF RunPCs, DataPCs
<1>4. CASE u[p].work = <<>>
 <2>1. can' = can /\ u' = Pc(p, "pass") /\ hist' = hist  BY <1>4 DEF PutCooked
 <2>2. Others(p) /\ u'[p].pc = "pass" /\ u'[p].want = u[p].want  BY <1>2, <2>1, PcIs
 <2>3. CtlInv' /\ Me = u[p] /\ Me' = u'[p]  BY <1>1, <1>2, <1>3, <2>2, CtlStep
 <2>4. /\ CharNum(raw)' = CharNum(raw) /\ CharNum(can)' = CharNum(can)
       /\ Content(raw)' = Content(raw) /\ Content(can)' = Content(can)
       /\ (Tame' <=> Tame) /\ (Calm' <=> Calm)
   BY <1>1, <2>1 DEF Tame, Calm, Typed
 <2>5. Half = 0 /\ Half' = 0 /\ Canonb = <<>> /\ Canonb' = <<>> /\ Ended = <<>> /\ Ended' = <<>>
   BY <1>1, <1>4, <2>2, <2>3 DEF Half, Canonb, Ended
 <2>6. HandOK'  BY <2>2, <2>3 DEF HandOK
 <2>7. CountOK'  BY <1>1, <2>1, <2>2, <2>3, <2>4, <2>5 DEF CountOK, LineInv
 <2>8. LineOK'  BY <1>1, <1>4, <2>2, <2>3, <2>4 DEF LineOK, LineInv
 <2>9. DataOK'  BY <2>1, <2>4, <2>5 DEF DataOK, LineInv
 <2> QED  BY <2>3, <2>6, <2>7, <2>8, <2>9 DEF LineInv
<1>5. CASE u[p].work # <<>>
 <2>1. PICK s : s = u[p].work  OBVIOUS
 <2>2. s \in Seq(Chars) /\ s # <<>> /\ Head(s) \in Chars /\ Tail(s) \in Seq(Chars)
   BY <1>2, <1>5, <2>1, SeqSplit DEF Local
 <2>3. /\ can' = PutChar(can, Head(s)) /\ u' = [u EXCEPT ![p].work = Tail(@)]
       /\ hist' = [hist EXCEPT !.full = @ \/ CharNum(can) + 1 >= Size]
   BY <1>5, <2>1 DEF PutCooked
 <2>4. /\ u'[p].pc = "put" /\ u'[p].want = u[p].want /\ u'[p].work = Tail(s)
       /\ \A q \in Procs : q # p => u'[q] = u[q]
   BY <1>1, <1>2, <2>1, <2>3 DEF TypeInv, Local
 <2>5. Others(p)  BY <2>4 DEF Others
 <2>6. CtlInv' /\ Me = u[p] /\ Me' = u'[p]  BY <1>1, <1>2, <1>3, <2>4, <2>5, CtlStep
 <2>7. /\ hist'.typed = hist.typed /\ hist'.taken = hist.taken
       /\ (hist'.full <=> hist.full \/ CharNum(can) + 1 >= Size)
       /\ hist'.flushed = hist.flushed /\ hist'.bells = hist.bells
       /\ hist'.missed = hist.missed /\ hist'.split = hist.split
   BY <1>2, <2>3 DEF Hist
 <2>8. CASE ~Calm'  BY <2>6, <2>8, Uncalm
 <2>9. CASE Calm'
  <3>1. Calm /\ ~(CharNum(can) + 1 >= Size) /\ (Tame' => Tame)  BY <2>7, <2>9 DEF Calm, Tame, Typed
  <3>2. CharNum(can) \in Nat /\ CharNum(can) + 1 < Size
   <4>1. CharNum(can) \in 0 .. Size - 1 /\ Size \in Nat  BY <1>2, ContentIs, TerminalAssumption
   <4> QED  BY <3>1, <4>1
  <3>3. CharNum(can)' = CharNum(can) + 1 /\ Content(can)' = Append(Content(can), Head(s))
    BY <1>2, <2>2, <2>3, <3>2, ContentPut
  <3>4. CharNum(raw)' = CharNum(raw) /\ Content(raw)' = Content(raw)  BY <1>1
  <3>5. /\ Half = 0 /\ Half' = 0 /\ Canonb = <<>> /\ Canonb' = <<>>
        /\ Ended = s /\ Ended' = Tail(s)
    BY <1>1, <2>1, <2>4, <2>6 DEF Half, Canonb, Ended
  <3>6. HandOK'  BY <2>4, <2>6 DEF HandOK
  <3>7. CountOK'  BY <1>1, <2>4, <2>6, <2>7, <3>1, <3>4, <3>5 DEF CountOK, LineInv
  <3>8. LineOK'
   <4>1. CharNum(can)' # 0  BY <3>2, <3>3
   <4> QED  BY <1>1, <2>4, <2>6, <3>1, <3>4, <4>1 DEF LineOK, LineInv
  <3>9. DataOK'
   <4>1. hist.taken \in Seq(Chars) /\ Content(can) \in Seq(Chars)  BY <1>2, ContentIs DEF Hist
   <4>2. PICK t, k : t = hist.taken /\ k = Content(can)  OBVIOUS
   <4>3. t \in Seq(Chars) /\ k \in Seq(Chars)  BY <4>1, <4>2
   <4>4. (t \o Append(k, Head(s))) \o Tail(s) = (t \o k) \o s
    <5>1. Append(k, Head(s)) \in Seq(Chars) /\ Tail(s) \in Seq(Chars)  BY <2>2, <4>3
    <5>2. (t \o Append(k, Head(s))) \o Tail(s) = t \o (Append(k, Head(s)) \o Tail(s))
      BY <4>3, <5>1, Assoc
    <5>3. Append(k, Head(s)) \o Tail(s) = k \o s  BY <2>2, <4>3, SeqSplit
    <5>4. (t \o k) \o s = t \o (k \o s)  BY <2>2, <4>3, Assoc
    <5> QED  BY <5>2, <5>3, <5>4
   <4>5. (hist.taken \o Content(can)) \o s = (hist'.taken \o Content(can)') \o Tail(s)
     BY <2>7, <3>3, <4>2, <4>4
   <4> QED  BY <2>7, <3>1, <3>4, <3>5, <4>5 DEF DataOK, LineInv
  <3> QED  BY <2>6, <3>6, <3>7, <3>8, <3>9 DEF LineInv
 <2> QED  BY <2>8, <2>9
<1> QED  BY <1>4, <1>5

LEMMA PassReadLine ==
  ASSUME IndInv, LineInv, NEW p \in Procs, PassRead(p)
  PROVE  LineInv'
<1>1. u[p].pc = "pass" /\ cpu = p /\ cpu' = p /\ UNCHANGED <<raw, can, delct, hist>>
  BY DEF PassRead, At
<1>2. TypeInv /\ u[p] \in Local  BY DEF IndInv, TypeInv
<1>3. "pass" \in RunPCs /\ "passnext" \in RunPCs /\ "nfrele" \in RunPCs  BY DEF RunPCs, DataPCs
<1>4. /\ u'[p].pc = IF CharNum(can) = 0 THEN "nfrele" ELSE "passnext"
      /\ u'[p].want = u[p].want /\ u'[p].count = u[p].count
      /\ CharNum(can) # 0 => u'[p].ch = can.buf[can.tail] /\ u'[p].at = can.tail
      /\ Others(p)
 <2>1. CASE CharNum(can) = 0
  <3>1. u' = Pc(p, "nfrele")  BY <2>1 DEF PassRead
  <3> QED  BY <1>2, <2>1, <3>1, PcIs
 <2>2. CASE CharNum(can) # 0
  <3>1. u' = [u EXCEPT ![p].pc = "passnext", ![p].ch = can.buf[can.tail], ![p].at = can.tail]
    BY <2>2 DEF PassRead
  <3>2. /\ u'[p].pc = "passnext" /\ u'[p].ch = can.buf[can.tail] /\ u'[p].at = can.tail
        /\ u'[p].want = u[p].want /\ u'[p].count = u[p].count
        /\ \A q \in Procs : q # p => u'[q] = u[q]
    BY <1>2, <3>1 DEF TypeInv, Local
  <3> QED  BY <2>2, <3>2 DEF Others
 <2> QED  BY <2>1, <2>2
<1>5. CtlInv' /\ Me = u[p] /\ Me' = u'[p]  BY <1>1, <1>2, <1>3, <1>4, CtlStep
<1>6. /\ CharNum(raw)' = CharNum(raw) /\ CharNum(can)' = CharNum(can)
      /\ Content(raw)' = Content(raw) /\ Content(can)' = Content(can)
      /\ (Tame' <=> Tame) /\ (Calm' <=> Calm)
  BY <1>1 DEF Tame, Calm, Typed
<1>7. Half = 0 /\ Half' = 0 /\ Canonb = <<>> /\ Canonb' = <<>> /\ Ended = <<>> /\ Ended' = <<>>
  BY <1>1, <1>4, <1>5 DEF Half, Canonb, Ended
<1>8. HandOK'  BY <1>1, <1>4, <1>5, <1>6 DEF HandOK
<1>9. CountOK'  BY <1>1, <1>4, <1>5, <1>6, <1>7 DEF CountOK, LineInv
<1>10. LineOK'  BY <1>1, <1>4, <1>5, <1>6 DEF LineOK, LineInv
<1>11. DataOK'  BY <1>1, <1>6, <1>7 DEF DataOK, LineInv
<1> QED  BY <1>5, <1>8, <1>9, <1>10, <1>11 DEF LineInv

LEMMA PassNextLine ==
  ASSUME IndInv, LineInv, NEW p \in Procs, PassNext(p)
  PROVE  LineInv'
<1>1. /\ u[p].pc = "passnext" /\ cpu = p /\ cpu' = p /\ UNCHANGED <<raw, delct>>
      /\ hist' = [hist EXCEPT !.taken = Append(@, u[p].ch)]
  BY DEF PassNext, At
<1>2. /\ TypeInv /\ u[p] \in Local /\ hist \in Hist /\ raw \in Ring /\ can \in Ring
      /\ u[p].ch \in Chars
  BY DEF IndInv, TypeInv, Local
<1>3. "pass" \in RunPCs /\ "passnext" \in RunPCs /\ "nfrele" \in RunPCs  BY DEF RunPCs, DataPCs
<1>4. u[p].count \in Nat /\ u[p].want \in Nat /\ u[p].count <= u[p].want
  BY <1>2 DEF Local, IndInv, BoundsInv
<1>5. /\ u'[p].pc = IF u[p].count > 0 THEN "pass" ELSE "nfrele"
      /\ u'[p].want = u[p].want
      /\ u'[p].count = IF u[p].count > 0 THEN u[p].count - 1 ELSE u[p].count
      /\ Others(p)
 <2>1. CASE u[p].count > 0
  <3>1. u' = [u EXCEPT ![p].pc = "pass", ![p].count = @ - 1]  BY <2>1 DEF PassNext
  <3>2. /\ u'[p].pc = "pass" /\ u'[p].want = u[p].want /\ u'[p].count = u[p].count - 1
        /\ \A q \in Procs : q # p => u'[q] = u[q]
    BY <1>2, <3>1 DEF TypeInv, Local
  <3> QED  BY <2>1, <3>2 DEF Others
 <2>2. CASE ~(u[p].count > 0)
  <3>1. u' = Pc(p, "nfrele")  BY <2>2 DEF PassNext
  <3> QED  BY <1>2, <2>2, <3>1, PcIs
 <2> QED  BY <2>1, <2>2
<1>6. CtlInv' /\ Me = u[p] /\ Me' = u'[p]  BY <1>1, <1>2, <1>3, <1>5, CtlStep
<1>7. /\ hist'.typed = hist.typed /\ hist'.taken = Append(hist.taken, u[p].ch)
      /\ hist'.full = hist.full /\ hist'.flushed = hist.flushed /\ hist'.bells = hist.bells
      /\ hist'.missed = hist.missed /\ hist'.split = hist.split
  BY <1>1, <1>2 DEF Hist
<1>8. (Calm' <=> Calm) /\ (Tame' <=> Tame)  BY <1>7 DEF Calm, Tame, Typed
<1>9. CASE ~Calm  BY <1>6, <1>8, <1>9, Uncalm
<1>10. CASE Calm
 <2>1. CharNum(can) # 0 /\ u[p].at = can.tail /\ u[p].ch = can.buf[can.tail]
   BY <1>1, <1>6, <1>10 DEF LineInv, HandOK
 <2>2. can' = [can EXCEPT !.tail = Mod(can.tail + 1)]  BY <2>1 DEF PassNext
 <2>3. PICK s, d, t : s = Content(can) /\ d = Content(can') /\ t = hist.taken  OBVIOUS
 <2>4. s # <<>> /\ Head(s) = u[p].ch /\ d = Tail(s)  BY <1>2, <2>1, <2>2, <2>3, ContentTake
 <2>5. s \in Seq(Chars) /\ t \in Seq(Chars)  BY <1>2, <2>3, ContentIs DEF Hist
 <2>6. CharNum(raw)' = CharNum(raw) /\ Content(raw)' = Content(raw)  BY <1>1
 <2>7. Half = 0 /\ Half' = 0 /\ Canonb = <<>> /\ Canonb' = <<>> /\ Ended = <<>> /\ Ended' = <<>>
   BY <1>1, <1>5, <1>6 DEF Half, Canonb, Ended
 <2>8. HandOK'  BY <1>5, <1>6 DEF HandOK
 <2>9. CountOK'  BY <1>1, <1>5, <1>6, <1>7, <1>8, <2>6, <2>7 DEF CountOK, LineInv
 <2>10. LineOK'
  <3>1. u[p].want > 0
   <4>1. u[p].pc \in WantPCs  BY <1>1 DEF WantPCs, InsidePCs
   <4> QED  BY <4>1 DEF LineInv, CtlInv
  <3>2. u'[p].count < u'[p].want  BY <1>4, <1>5, <3>1
  <3> QED  BY <1>1, <1>5, <1>6, <1>8, <2>6, <3>2 DEF LineOK, LineInv
 <2>11. DataOK'
  <3>1. Append(t, Head(s)) \o Tail(s) = t \o s  BY <2>4, <2>5, SeqSplit
  <3>2. hist'.taken \o Content(can)' = hist.taken \o Content(can)  BY <1>7, <2>3, <2>4, <3>1
  <3> QED  BY <1>7, <1>8, <2>6, <2>7, <3>2 DEF DataOK, LineInv
 <2> QED  BY <1>6, <2>8, <2>9, <2>10, <2>11 DEF LineInv
<1> QED  BY <1>9, <1>10

LEMMA NFreleLine ==
  ASSUME IndInv, LineInv, NEW p \in Procs, NFrele(p)
  PROVE  LineInv'
<1>1. /\ u[p].pc = "nfrele" /\ cpu = p /\ cpu' = NoProc /\ UNCHANGED <<raw, can, delct, hist>>
      /\ u' = [Release(u) EXCEPT ![p].pc = "user"]
  BY DEF NFrele, At
<1>2. TypeInv /\ NoProc # p  BY TerminalAssumption DEF IndInv
<1>3. Others(p) /\ u'[p].pc = "user"  BY <1>1, <1>2, ReleaseIs
<1>4. "user" \notin RunPCs /\ "user" \notin WantPCs  BY DEF RunPCs, DataPCs, WantPCs, InsidePCs
<1>5. CtlInv'  BY <1>1, <1>2, <1>3, <1>4, CtlKept DEF LineInv
<1>6. Me = u[p] /\ Me' = Nobody  BY <1>1, MeIs
<1>7. Me'.pc = "user"  BY <1>6 DEF Nobody
<1>8. /\ CharNum(raw)' = CharNum(raw) /\ CharNum(can)' = CharNum(can)
      /\ Content(raw)' = Content(raw) /\ Content(can)' = Content(can)
      /\ (Tame' <=> Tame) /\ (Calm' <=> Calm)
  BY <1>1 DEF Tame, Calm, Typed
<1>9. Half = 0 /\ Half' = 0 /\ Canonb = <<>> /\ Canonb' = <<>> /\ Ended = <<>> /\ Ended' = <<>>
  BY <1>1, <1>6, <1>7 DEF Half, Canonb, Ended
<1>10. HandOK'  BY <1>7 DEF HandOK
<1>11. CountOK'  BY <1>1, <1>7, <1>8, <1>9 DEF CountOK, LineInv
<1>12. LineOK'  BY <1>1, <1>6, <1>7, <1>8 DEF LineOK, LineInv
<1>13. DataOK'  BY <1>1, <1>8, <1>9 DEF DataOK, LineInv
<1> QED  BY <1>5, <1>10, <1>11, <1>12, <1>13 DEF LineInv

-----------------------------------------------------------------------------
(* The interrupt.                                                          *)

\* It may come at any time: it finds no reader asleep with the processor
LEMMA InterruptCtl ==
  ASSUME TypeInv, CtlInv, cpu' = cpu,
         \A q \in Procs : \/ u'[q] = u[q]
                          \/ u[q].pc = "sleep" /\ u'[q] = [u[q] EXCEPT !.pc = "woken"]
  PROVE  CtlInv' /\ Me' = Me
<1>1. \A q \in Procs : u[q] \in Local  BY DEF TypeInv
<1>2. /\ "sleep" \notin RunPCs \cup {"nflock"} /\ "woken" \notin RunPCs \cup {"nflock"}
      /\ "sleep" \in WantPCs
  BY DEF RunPCs, DataPCs, WantPCs, InsidePCs
<1>3. ASSUME NEW q \in Procs
      PROVE  \/ u'[q] = u[q]
             \/ u[q].pc = "sleep" /\ u'[q].pc = "woken" /\ u'[q].want = u[q].want
  BY <1>1 DEF Local
<1>4. \A q \in Procs : u'[q].pc \in RunPCs => cpu = q  BY <1>2, <1>3 DEF CtlInv
<1>5. \A q \in Procs : u'[q].pc \in WantPCs => u'[q].want > 0  BY <1>2, <1>3 DEF CtlInv
<1>6. cpu # NoProc => u'[cpu] = u[cpu]
 <2>1. cpu # NoProc => cpu \in Procs /\ u[cpu].pc \in RunPCs \cup {"nflock"}  BY DEF CtlInv, TypeInv
 <2> QED  BY <1>2, <1>3, <2>1
<1> QED  BY <1>4, <1>5, <1>6 DEF CtlInv, Me

LEMMA FlushTTyLine ==
  ASSUME IndInv, LineInv, FlushTTy, UNCHANGED <<inode, cpu>>
  PROVE  LineInv'
<1>1. TypeInv /\ CtlInv  BY DEF IndInv, LineInv
<1>2. \A q \in Procs : u'[q] = IF q # Shell /\ u[q].pc = "sleep"
                               THEN [u[q] EXCEPT !.pc = "woken"] ELSE u[q]
  BY DEF FlushTTy
<1>3. CtlInv'  BY <1>1, <1>2, InterruptCtl
<1>4. ~Calm'  BY <1>1 DEF FlushTTy, Calm, TypeInv, Hist
<1> QED  BY <1>3, <1>4, Uncalm

\* What TTyInput appends to a sequence
Added(s, c, j) == IF j = 2 THEN Append(Append(s, c), "bell") ELSE Append(s, c)

LEMMA AddedIs ==
  ASSUME NEW s \in Seq(Chars), NEW c \in Chars, NEW j \in {1, 2}
  PROVE  /\ Added(s, c, j) \in Seq(Chars) /\ Len(s) \in Nat
         /\ Len(Added(s, c, j)) = Len(s) + j
         /\ \A i \in 1 .. Len(s) : Added(s, c, j)[i] = s[i]
         /\ Added(s, c, j)[Len(s) + 1] = c
<1> DEFINE n == Len(s)
           d == Added(s, c, j)
<1> HIDE DEF n, d
<1>1. "bell" \in Chars  BY DEF Chars
<1>2. PICK a : a = Append(s, c)  OBVIOUS
<1>0. n = Len(s)  BY DEF n
<1>3. /\ a \in Seq(Chars) /\ n \in Nat /\ Len(a) = n + 1 /\ a[n + 1] = c
      /\ \A i \in 1 .. n : a[i] = s[i]
  BY <1>0, <1>2
<1>4. PICK b : b = Append(a, "bell")  OBVIOUS
<1>5. /\ b \in Seq(Chars) /\ Len(b) = (n + 1) + 1
      /\ \A i \in 1 .. n + 1 : b[i] = a[i]
  BY <1>1, <1>3, <1>4
<1>6. (n + 1) + 1 = n + 2 /\ n + 1 \in 1 .. n + 1 /\ \A i \in 1 .. n : i \in 1 .. n + 1  BY <1>3
<1>7. b[n + 1] = c /\ \A i \in 1 .. n : b[i] = s[i]  BY <1>3, <1>5, <1>6
<1>8. d = IF j = 2 THEN b ELSE a  BY <1>2, <1>4 DEF Added, d
<1>9. /\ d \in Seq(Chars) /\ n \in Nat /\ Len(d) = n + j
      /\ \A i \in 1 .. n : d[i] = s[i]
      /\ d[n + 1] = c
 <2>1. CASE j = 2  BY <1>3, <1>5, <1>6, <1>7, <1>8, <2>1
 <2>2. CASE j = 1  BY <1>3, <1>8, <2>2
 <2> QED  BY <2>1, <2>2
<1> QED  BY <1>9 DEF n, d

LEMMA AddedPut ==
  ASSUME NEW q \in Ring, NEW c \in Chars, NEW j \in {1, 2},
         CharNum(q) + j < Size,
         NEW r, r = IF j = 2 THEN PutChar(PutChar(q, c), "bell") ELSE PutChar(q, c)
  PROVE  /\ CharNum(r) = CharNum(q) + j /\ CharNum(q) \in Nat
         /\ Content(r) = Added(Content(q), c, j)
         /\ r.tail = q.tail
         /\ CharNum(q) # 0 => r.buf[q.tail] = q.buf[q.tail]
<1>1. "bell" \in Chars  BY DEF Chars
<1>2. CharNum(q) \in Nat /\ Size \in Nat  BY ContentIs, TerminalAssumption
<1>3. PICK a : a = PutChar(q, c)  OBVIOUS
<1>4. CharNum(q) + 1 < Size  BY <1>2
<1>5. /\ a \in Ring /\ CharNum(a) = CharNum(q) + 1 /\ Content(a) = Append(Content(q), c)
      /\ a.tail = q.tail /\ (CharNum(q) # 0 => a.buf[q.tail] = q.buf[q.tail])
  BY <1>3, <1>4, ContentPut
<1>6. CASE j = 2
 <2>1. CharNum(a) + 1 < Size /\ CharNum(a) # 0  BY <1>2, <1>5, <1>6
 <2>2. r = PutChar(a, "bell")  BY <1>3, <1>6
 <2>3. /\ CharNum(r) = CharNum(a) + 1 /\ Content(r) = Append(Content(a), "bell")
       /\ r.tail = a.tail /\ r.buf[a.tail] = a.buf[a.tail]
   BY <1>1, <1>5, <2>1, <2>2, ContentPut
 <2>4. CharNum(r) = CharNum(q) + 2  BY <1>2, <1>5, <2>3
 <2>5. Content(r) = Added(Content(q), c, j)  BY <1>5, <1>6, <2>3 DEF Added
 <2> QED  BY <1>2, <1>5, <1>6, <2>3, <2>4, <2>5
<1>7. CASE j = 1  BY <1>2, <1>3, <1>5, <1>7 DEF Added
<1> QED  BY <1>6, <1>7

LEMMA EndAppended ==
  ASSUME NEW t \in Seq(Chars), NEW x \in Seq(Chars), NEW w \in Seq(Chars), NEW s \in Seq(Chars),
         NEW c \in Chars, End(<<>>, t) = Behind(x, End(w, s))
  PROVE  End(<<>>, Append(t, c)) = Behind(x, End(w, Append(s, c)))
<1>1. <<>> \in Seq(Chars)  OBVIOUS
<1>2. End(w, s) \in Acc  BY EndIs
<1>3. End(<<>>, Append(t, c)) = CookChar(End(<<>>, t), c)  BY <1>1, CookAppend
<1>4. End(w, Append(s, c)) = CookChar(End(w, s), c)  BY CookAppend
<1> QED  BY <1>2, <1>3, <1>4, CookBehind

LEMMA EndAdded ==
  ASSUME NEW t \in Seq(Chars), NEW x \in Seq(Chars), NEW w \in Seq(Chars), NEW s \in Seq(Chars),
         NEW c \in Chars, NEW j \in {1, 2}, End(<<>>, t) = Behind(x, End(w, s))
  PROVE  End(<<>>, Added(t, c, j)) = Behind(x, End(w, Added(s, c, j)))
<1>1. End(<<>>, Append(t, c)) = Behind(x, End(w, Append(s, c)))  BY EndAppended
<1>2. Append(t, c) \in Seq(Chars) /\ Append(s, c) \in Seq(Chars) /\ "bell" \in Chars  BY DEF Chars
<1>3. End(<<>>, Append(Append(t, c), "bell")) = Behind(x, End(w, Append(Append(s, c), "bell")))
 <2>1. PICK a, b, e : a = Append(t, c) /\ b = Append(s, c) /\ e = "bell"  OBVIOUS
 <2>2. a \in Seq(Chars) /\ b \in Seq(Chars) /\ e \in Chars /\ End(<<>>, a) = Behind(x, End(w, b))
   BY <1>1, <1>2, <2>1
 <2>3. End(<<>>, Append(a, e)) = Behind(x, End(w, Append(b, e)))  BY <2>2, EndAppended
 <2> QED  BY <2>1, <2>3
<1> QED  BY <1>1, <1>3 DEF Added

LEMMA DelimitersAdded ==
  ASSUME NEW s \in Seq(Chars), NEW c \in Chars, NEW j \in {1, 2}
  PROVE  Delimiters(Added(s, c, j)) =
            Delimiters(s) + (IF c = "bell" THEN 1 ELSE 0) + (j - 1)
<1>1. Append(s, c) \in Seq(Chars) /\ "bell" \in Chars  BY DEF Chars
<1>2. Delimiters(s) \in Nat  BY BellsCounted
<1>3. Delimiters(Append(s, c)) = Delimiters(s) + (IF c = "bell" THEN 1 ELSE 0)
  BY <1>2, DelimitersAppend
<1>4. Delimiters(Append(Append(s, c), "bell")) = Delimiters(Append(s, c)) + 1
  BY <1>1, DelimitersAppend
<1> QED  BY <1>2, <1>3, <1>4 DEF Added

\* The lines stay lines, when no CEOT and no Ctrl-G comes
LEMMA LinesAdded ==
  ASSUME NEW s \in Seq(Chars), NEW c \in Chars, NEW j \in {1, 2}, j = 2 => c = "nl", c # "bell",
         \A i \in 1 .. Len(s) - 1 : s[i + 1] = "bell" => s[i] = "nl"
  PROVE  /\ \A i \in 1 .. Len(Added(s, c, j)) - 1 :
                Added(s, c, j)[i + 1] = "bell" => Added(s, c, j)[i] = "nl"
         /\ Added(s, c, j)[1] = "bell" => Len(s) # 0 /\ s[1] = "bell"
<1> DEFINE n == Len(s)
           d == Added(s, c, j)
           m == Len(d)
<1>5. \A i \in 1 .. n - 1 : s[i + 1] = "bell" => s[i] = "nl"  OBVIOUS
<1>6. /\ d \in Seq(Chars) /\ n \in Nat /\ Len(d) = n + j
      /\ \A i \in 1 .. n : d[i] = s[i]
      /\ d[n + 1] = c
  BY AddedIs
<1>7. m = Len(d)  OBVIOUS
<1> HIDE DEF n, d, m
<1>2. /\ n \in Nat /\ m = n + j
      /\ \A i \in 1 .. n : d[i] = s[i]
      /\ d[n + 1] = c
  BY <1>6, <1>7
<1>3. ASSUME NEW i \in 1 .. m - 1, d[i + 1] = "bell" PROVE d[i] = "nl"
 <2>1. PICK y : y = i + 1  OBVIOUS
 <2>2. i \in Nat /\ y \in Nat /\ i >= 1 /\ (y <= n \/ y = n + 1 \/ (j = 2 /\ i = n + 1))
   BY <1>2, <2>1
 <2>3. CASE y <= n
  <3>1. i \in 1 .. n - 1 /\ i \in 1 .. n /\ y \in 1 .. n  BY <1>2, <2>1, <2>2, <2>3
  <3>2. d[i] = s[i] /\ d[y] = s[y]  BY <1>2, <3>1
  <3> QED  BY <1>3, <1>5, <2>1, <3>1, <3>2
 <2>4. CASE y = n + 1  BY <1>2, <1>3, <2>1, <2>4
 <2>5. CASE j = 2 /\ i = n + 1  BY <1>2, <2>5
 <2> QED  BY <2>2, <2>3, <2>4, <2>5
<1>4. ASSUME d[1] = "bell" PROVE n # 0 /\ s[1] = "bell"
 <2>1. CASE n = 0
  <3>1. n + 1 = 1  BY <2>1
  <3> QED  BY <1>2, <1>4, <3>1
 <2>2. CASE n # 0
  <3>1. 1 \in 1 .. n  BY <1>2, <2>2
  <3> QED  BY <1>2, <1>4, <2>2, <3>1
 <2> QED  BY <2>1, <2>2
<1> QED  BY <1>3, <1>4 DEF n, d, m

LEMMA TTyInputLine ==
  ASSUME IndInv, LineInv, NEW c \in Chars, TTyInput(c), UNCHANGED <<inode, cpu>>
  PROVE  LineInv'
<1>1. PICK j : j = IF c \in {"nl", "eot"} THEN 2 ELSE 1  OBVIOUS
<1>2. j \in {1, 2}  BY <1>1
<1>3. /\ raw' = (IF j = 2 THEN PutChar(PutChar(raw, c), "bell") ELSE PutChar(raw, c))
      /\ delct' = (IF j = 2 THEN delct + 1 ELSE delct)
      /\ u' = (IF j = 2 THEN Wake(u, "sleep", "woken") ELSE u)
      /\ hist' = [hist EXCEPT !.typed = @ \o (IF j = 2 THEN <<c, "bell">> ELSE <<c>>),
                              !.full = @ \/ CharNum(raw) + j >= Size,
                              !.bells = IF c = "bell" THEN @ + 1 ELSE @]
      /\ can' = can
 <2>1. (j = 2) = (c \in {"nl", "eot"}) /\ (IF c \in {"nl", "eot"} THEN 2 ELSE 1) = j  BY <1>1
 <2> QED  BY <2>1, Zenon DEF TTyInput
<1>4. TypeInv /\ CtlInv /\ hist \in Hist /\ raw \in Ring /\ can \in Ring /\ delct \in Int
  BY DEF IndInv, TypeInv, LineInv
<1>5. \A q \in Procs : \/ u'[q] = u[q]
                       \/ u[q].pc = "sleep" /\ u'[q] = [u[q] EXCEPT !.pc = "woken"]
  BY <1>3 DEF Wake
<1>6. CtlInv' /\ Me' = Me  BY <1>4, <1>5, InterruptCtl
<1>7. /\ hist'.typed = hist.typed \o (IF j = 2 THEN <<c, "bell">> ELSE <<c>>)
      /\ (hist'.full <=> hist.full \/ CharNum(raw) + j >= Size)
      /\ hist'.bells = (IF c = "bell" THEN hist.bells + 1 ELSE hist.bells)
      /\ hist'.taken = hist.taken /\ hist'.flushed = hist.flushed
      /\ hist'.missed = hist.missed /\ hist'.split = hist.split
  BY <1>3, <1>4 DEF Hist
<1>8. CASE ~Calm'  BY <1>6, <1>8, Uncalm
<1>9. CASE Calm'
 <2>1. PICK s, d, t, n : s = Content(raw) /\ d = Content(raw') /\ t = hist.typed /\ n = CharNum(raw)
   OBVIOUS
 <2>2. s \in Seq(Chars) /\ t \in Seq(Chars) /\ Len(s) = n  BY <1>4, <2>1, ContentIs DEF Hist
 <2>3. Calm /\ ~(n + j >= Size)  BY <1>7, <1>9, <2>1 DEF Calm
 <2>4. n + j < Size
  <3>1. n \in 0 .. Size - 1 /\ Size \in Nat  BY <1>4, <2>1, ContentIs, TerminalAssumption
  <3> QED  BY <1>2, <2>3, <3>1
 <2>5. /\ CharNum(raw') = n + j /\ n \in Nat
       /\ d = Added(s, c, j)
       /\ raw'.tail = raw.tail
       /\ n # 0 => raw'.buf[raw.tail] = raw.buf[raw.tail]
   BY <1>2, <1>3, <1>4, <2>1, <2>4, AddedPut
 <2>6. CharNum(can)' = CharNum(can) /\ Content(can)' = Content(can)  BY <1>3
 <2>7. Half' = Half /\ Canonb' = Canonb /\ Ended' = Ended  BY <1>6 DEF Half, Canonb, Ended
 <2>8. hist'.typed = Added(t, c, j)
  <3>1. t \o <<c, "bell">> = Append(Append(t, c), "bell") /\ t \o <<c>> = Append(t, c)
   <4>1. "bell" \in Chars  BY DEF Chars
   <4> QED  BY <2>2, <4>1
  <3> QED  BY <1>7, <2>1, <3>1 DEF Added
 <2>9. HandOK'
  <3>1. CharNum(raw') # 0  BY <1>2, <2>5
  <3> QED  BY <1>3, <1>6, <2>1, <2>3, <2>5, <2>6, <3>1 DEF HandOK, LineInv
 <2>10. CountOK'
  <3>1. Delimiters(d) = Delimiters(s) + (IF c = "bell" THEN 1 ELSE 0) + (j - 1)
    BY <1>2, <2>2, <2>5, DelimitersAdded
  <3>2. Delimiters(s) \in Nat /\ Half \in Nat /\ hist.bells \in Nat
    BY <1>4, <2>2, BellsCounted DEF Half, Hist
  <3>3. c = "bell" => j = 1  BY <1>1
  <3>4. PICK x, y, b : x = Delimiters(s) + Half /\ y = Delimiters(d) + Half /\ b = hist.bells
    OBVIOUS
  <3>5. /\ delct \in 0 .. x
        /\ hist.missed \/ x = delct + b
        /\ Me.pc \in {"take", "takenext", "delct", "delctstore"} => delct > 0
        /\ Me.pc = "delctstore" => Me.num \in 1 .. delct
    BY <2>1, <2>3, <3>4 DEF LineInv, CountOK
  <3>6. x \in Nat /\ y = x + (IF c = "bell" THEN 1 ELSE 0) + (j - 1)  BY <1>2, <3>1, <3>2, <3>4
  <3>7. /\ delct' \in 0 .. y
        /\ hist.missed \/ y = delct' + hist'.bells
   <4>1. b \in Nat /\ hist'.bells = (IF c = "bell" THEN b + 1 ELSE b)  BY <1>7, <3>2, <3>4
   <4>2. delct' \in 0 .. y  BY <1>2, <1>3, <1>4, <3>5, <3>6
   <4>3. x = delct + b => y = delct' + hist'.bells  BY <1>2, <1>3, <1>4, <3>3, <3>6, <4>1
   <4> QED  BY <3>5, <4>2, <4>3
  <3>8. delct' >= delct  BY <1>3, <1>4
  <3>9. Me.pc \in {"take", "takenext", "delct", "delctstore"} => delct' > 0
    BY <1>3, <1>4, <3>5, <3>8
  <3>10. Me.pc = "delctstore" => Me.num \in 1 .. delct'  BY <1>3, <1>4, <3>5, <3>8
  <3> QED  BY <1>6, <1>7, <2>1, <2>7, <3>4, <3>7, <3>9, <3>10 DEF CountOK
 <2>11. LineOK'
  <3> SUFFICES ASSUME Tame' PROVE LineOK'  BY DEF LineOK
  <3>1. PICK e, k : e = hist'.typed /\ k = Len(t)  OBVIOUS
  <3>2. /\ e \in Seq(Chars) /\ Len(e) = k + j
        /\ \A i \in 1 .. k : e[i] = t[i]
        /\ e[k + 1] = c
   <4>1. e = Added(t, c, j)  BY <2>8, <3>1
   <4>2. /\ Added(t, c, j) \in Seq(Chars) /\ Len(t) \in Nat
         /\ Len(Added(t, c, j)) = Len(t) + j
         /\ \A i \in 1 .. Len(t) : Added(t, c, j)[i] = t[i]
         /\ Added(t, c, j)[Len(t) + 1] = c
     BY <1>2, <2>2, AddedIs
   <4> QED  BY <3>1, <4>1, <4>2
  <3>3. k \in Nat /\ DOMAIN t = 1 .. k /\ DOMAIN e = 1 .. Len(e)  BY <2>2, <3>1, <3>2
  <3>4. \A i \in DOMAIN e : e[i] # "eot"  BY <3>1 DEF Tame, Typed
  <3>5. c # "eot"
   <4>1. k + 1 \in DOMAIN e  BY <1>2, <3>2, <3>3
   <4> QED  BY <3>2, <3>4, <4>1
  <3>6. ~Typed("eot")
   <4> SUFFICES ASSUME NEW i \in DOMAIN t, t[i] = "eot" PROVE FALSE  BY <2>1 DEF Typed
   <4>1. i \in 1 .. k /\ i \in DOMAIN e  BY <1>2, <3>2, <3>3
   <4> QED  BY <3>2, <3>4, <4>1
  <3>7. c # "bell" /\ hist.bells = 0
   <4>1. hist'.bells = 0 /\ hist.bells \in Nat  BY <1>4 DEF Tame, Hist
   <4> QED  BY <1>7, <4>1
  <3>8. Tame /\ (j = 2 => c = "nl")  BY <1>1, <1>7, <2>3, <3>5, <3>6, <3>7 DEF Tame
  <3>9. /\ \A i \in 1 .. n - 1 : s[i + 1] = "bell" => s[i] = "nl"
        /\ n # 0 /\ s[1] = "bell" => Me.pc \in {"take", "takenext"} /\ Me.work # <<>>
    BY <2>1, <3>8 DEF LineOK, LineInv
  <3>14. PICK m : m = CharNum(raw')  OBVIOUS
  <3>11. m = Len(d)
   <4>1. d = Added(s, c, j) /\ n = Len(s)  BY <2>2, <2>5
   <4>2. Len(Added(s, c, j)) = Len(s) + j  BY <1>2, <2>2, AddedIs
   <4> QED  BY <2>5, <3>14, <4>1, <4>2
  <3>10. /\ \A i \in 1 .. m - 1 : d[i + 1] = "bell" => d[i] = "nl"
         /\ d[1] = "bell" => n # 0 /\ s[1] = "bell"
   <4>1. d = Added(s, c, j) /\ n = Len(s)  BY <2>2, <2>5
   <4>2. \A i \in 1 .. Len(s) - 1 : s[i + 1] = "bell" => s[i] = "nl"  BY <3>9, <4>1
   <4>3. /\ \A i \in 1 .. Len(Added(s, c, j)) - 1 :
               Added(s, c, j)[i + 1] = "bell" => Added(s, c, j)[i] = "nl"
         /\ Added(s, c, j)[1] = "bell" => Len(s) # 0 /\ s[1] = "bell"
     BY <1>2, <2>2, <3>7, <3>8, <4>2, LinesAdded
   <4> QED  BY <3>11, <4>1, <4>3
  <3>12. d[1] = "bell" => Me.pc \in {"take", "takenext"} /\ Me.work # <<>>  BY <2>2, <3>9, <3>10
  <3>13. /\ Me.pc \in {"delct", "delctstore"} => Me.work # <<>>
         /\ Me.pc = "put" => Me.work # <<>> \/ CharNum(can) # 0
         /\ Me.pc = "pass" => Me.count < Me.want \/ CharNum(can) # 0
         /\ Me.pc = "nfrele" => Me.count < Me.want
    BY <3>8 DEF LineOK, LineInv
  <3> QED  BY <1>6, <2>1, <2>6, <3>10, <3>12, <3>13, <3>14 DEF LineOK
 <2>12. DataOK'
  <3>1. PICK x, w : x = (hist.taken \o Content(can)) \o Ended /\ w = Canonb  OBVIOUS
  <3>2. x \in Seq(Chars) /\ w \in Seq(Chars)
   <4>1. /\ hist.taken \in Seq(Chars) /\ Content(can) \in Seq(Chars)
         /\ Ended \in Seq(Chars) /\ Canonb \in Seq(Chars)
     BY <1>4, ContentIs, MeType DEF Hist
   <4> QED  BY <3>1, <4>1
  <3>3. End(<<>>, t) = Behind(x, End(w, s))  BY <2>1, <2>3, <3>1 DEF DataOK, LineInv
  <3>4. End(<<>>, Added(t, c, j)) = Behind(x, End(w, Added(s, c, j)))
    BY <1>2, <2>2, <3>2, <3>3, EndAdded
  <3> QED  BY <1>7, <2>1, <2>5, <2>6, <2>7, <2>8, <3>1, <3>4 DEF DataOK
 <2> QED  BY <1>6, <2>9, <2>10, <2>11, <2>12 DEF LineInv
<1> QED  BY <1>8, <1>9

LEMMA SameLine ==
  ASSUME LineInv, UNCHANGED <<raw, can, delct, u, cpu, hist>>
  PROVE  LineInv'
<1>1. CtlInv'  BY DEF LineInv, CtlInv
<1>2. Me' = Me  BY DEF Me
<1>3. (Calm' <=> Calm) /\ (Tame' <=> Tame)  BY DEF Calm, Tame, Typed
<1>4. /\ CharNum(raw)' = CharNum(raw) /\ CharNum(can)' = CharNum(can)
      /\ Content(raw)' = Content(raw) /\ Content(can)' = Content(can)
  OBVIOUS
<1>5. Half' = Half /\ Canonb' = Canonb /\ Ended' = Ended  BY <1>2 DEF Half, Canonb, Ended
<1>6. HandOK'  BY <1>2, <1>3, <1>4 DEF HandOK, LineInv
<1>7. CountOK'  BY <1>2, <1>3, <1>4, <1>5 DEF CountOK, LineInv
<1>8. LineOK'  BY <1>2, <1>3, <1>4 DEF LineOK, LineInv
<1>9. DataOK'  BY <1>3, <1>4, <1>5 DEF DataOK, LineInv
<1> QED  BY <1>1, <1>6, <1>7, <1>8, <1>9 DEF LineInv

LEMMA KeyboardLine ==
  ASSUME IndInv, LineInv, NEW k, NEW up, KeyboardHandler(k, up)
  PROVE  LineInv'
<1> DEFINE start == [pre |-> kb.pre, mode |-> kb.mode, ch |-> "nul"]
           end == HandleCodes(start, Codes(k, up))
<1>1. IsCodeState(start)  BY DEF IsCodeState, IndInv, TypeInv, Chars
<1>2. IsCodeState(end)  BY <1>1, HandleCodesType
<1>3. /\ UNCHANGED <<inode, cpu>>
      /\ CASE end.ch = "nul"  -> UNCHANGED <<raw, can, delct, u, sig, hist>>
           [] end.ch = "intr" -> FlushTTy
           [] OTHER           -> TTyInput(end.ch)
  BY DEF KeyboardHandler
<1> HIDE DEF end, start
<1>4. end.ch \in Chars \cup {"intr"}  BY <1>2 DEF IsCodeState
<1>5. CASE end.ch = "nul"
 <2>1. UNCHANGED <<raw, can, delct, u, hist, cpu>>  BY <1>3, <1>5
 <2> QED  BY <2>1, SameLine
<1>6. CASE end.ch = "intr"  BY <1>3, <1>6, FlushTTyLine
<1>7. CASE end.ch \notin {"nul", "intr"}  BY <1>3, <1>4, <1>7, TTyInputLine
<1> QED  BY <1>5, <1>6, <1>7

LEMMA NextLine == IndInv /\ LineInv /\ [Next]_vars => LineInv'
<1> SUFFICES ASSUME IndInv, LineInv, [Next]_vars PROVE LineInv'  OBVIOUS
<1>1. ASSUME NEW p \in Procs, Step(p) PROVE LineInv'
  BY <1>1, NFlockWaitLine, NFlockLine, CanonTestLine, CanonAgainLine, CanonSleepLine,
     TakeReadLine, TakeNextLine, DelctLoadLine, DelctStoreLine, PutCookedLine, PassReadLine,
     PassNextLine, NFreleLine DEF Step
<1>2. ASSUME NEW p \in Procs, Close(p) PROVE LineInv'  BY <1>2, PutLine DEF Close, Enter
<1>3. ASSUME NEW p \in Procs, Read(p) \/ Write(p) \/ Exit(p) PROVE LineInv'
  BY <1>3, ReadLine, WriteLine, ExitLine
<1>4. ASSUME NEW k \in Keys, Press(k) \/ Lift(k) PROVE LineInv'
  BY <1>4, KeyboardLine DEF Press, Lift
<1>5. CASE UNCHANGED vars
 <2>1. UNCHANGED <<raw, can, delct, u, cpu, hist>>  BY <1>5 DEF vars
 <2> QED  BY <2>1, SameLine
<1> QED  BY <1>1, <1>2, <1>3, <1>4, <1>5 DEF Next

LEMMA InitLine == Init => LineInv
<1> SUFFICES ASSUME Init PROVE LineInv  OBVIOUS
<1>1. TypeInv  BY InitInv DEF IndInv
<1>2. /\ cpu = NoProc /\ delct = 0 /\ raw = EmptyRing /\ can = EmptyRing
      /\ hist.typed = <<>> /\ hist.taken = <<>> /\ hist.bells = 0
      /\ \A p \in Procs : u[p].pc = "user"
  BY DEF Init
<1>3. "user" \notin RunPCs /\ "user" \notin WantPCs  BY DEF RunPCs, DataPCs, WantPCs, InsidePCs
<1>4. CtlInv  BY <1>2, <1>3 DEF CtlInv
<1>5. Me.pc = "user"  BY <1>2 DEF Me, Nobody
<1>6. Half = 0 /\ Canonb = <<>> /\ Ended = <<>>  BY <1>5 DEF Half, Canonb, Ended
<1>7. CharNum(raw) = 0 /\ Content(raw) = <<>> /\ Content(can) = <<>>
 <2>1. /\ raw \in Ring /\ can \in Ring /\ raw.head = 0 /\ raw.tail = 0
       /\ can.head = 0 /\ can.tail = 0
   BY <1>1, <1>2 DEF TypeInv, EmptyRing
 <2>2. CharNum(raw) = 0 /\ CharNum(can) = 0  BY <2>1, ContentIs
 <2>3. /\ Content(raw) \in Seq(Chars) /\ Len(Content(raw)) = 0
       /\ Content(can) \in Seq(Chars) /\ Len(Content(can)) = 0
   BY <2>1, <2>2, ContentIs
 <2> QED  BY <2>2, <2>3
<1>8. <<>> \in Seq(Chars)  OBVIOUS
<1>9. HandOK  BY <1>5 DEF HandOK
<1>10. CountOK
 <2>1. Delimiters(Content(raw)) = 0  BY <1>7, <1>8, BellsCounted
 <2> QED  BY <1>2, <1>5, <1>6, <2>1 DEF CountOK
<1>11. LineOK  BY <1>5, <1>7 DEF LineOK
<1>12. DataOK
 <2>1. End(<<>>, <<>>) = Begun(<<>>)  BY <1>8, EndIs
 <2>2. (<<>> \o <<>>) \o <<>> = <<>>  OBVIOUS
 <2>3. Behind(<<>>, Begun(<<>>)) = Begun(<<>>)  BY <1>8 DEF Behind, Begun
 <2> QED  BY <1>2, <1>6, <1>7, <2>1, <2>2, <2>3 DEF DataOK
<1> QED  BY <1>4, <1>9, <1>10, <1>11, <1>12 DEF LineInv

\* Half is the number of those who have a delimiter in hand
LEMMA HalfCounted ==
  ASSUME TypeInv, CtlInv
  PROVE  Cardinality({p \in Procs : u[p].pc \in {"delct", "delctstore"}}) = Half
<1> DEFINE S == {p \in Procs : u[p].pc \in {"delct", "delctstore"}}
<1>1. \A p \in S : cpu = p /\ p \in Procs  BY DEF CtlInv, RunPCs, DataPCs
<1>2. CASE Me.pc \in {"delct", "delctstore"}
 <2>1. cpu # NoProc  BY <1>2 DEF Me, Nobody
 <2>2. cpu \in S  BY <1>2, <2>1 DEF Me, TypeInv
 <2>3. S = {cpu}  BY <1>1, <2>2
 <2>4. Cardinality({cpu}) = 1  BY FS_Singleton
 <2> QED  BY <1>2, <2>3, <2>4 DEF Half
<1>3. CASE Me.pc \notin {"delct", "delctstore"}
 <2>1. S = {}
  <3> SUFFICES ASSUME NEW p \in S PROVE FALSE  OBVIOUS
  <3>1. cpu = p /\ p # NoProc  BY <1>1, TerminalAssumption
  <3>2. Me = u[p]  BY <3>1 DEF Me
  <3> QED  BY <1>3, <3>2
 <2> QED  BY <1>3, <2>1, FS_EmptySet DEF Half
<1> QED  BY <1>2, <1>3

LEMMA LineCounts == IndInv /\ LineInv => CountSound
<1> SUFFICES ASSUME IndInv, LineInv, Calm
             PROVE  delct \in 0 .. Pending /\ (hist.missed \/ Pending = delct + hist.bells)
  BY DEF CountSound, Calm
<1>1. TypeInv /\ CtlInv  BY DEF IndInv, LineInv
<1>2. Pending = Delimiters(Content(raw)) + Half  BY <1>1, HalfCounted DEF Pending
<1> QED  BY <1>2 DEF LineInv, CountOK

\* What is in hand is the line in Canonb, behind its delimiter or before it
LEMMA InHandIs ==
  ASSUME TypeInv, CtlInv
  PROVE  InHand = Ended \o (End(Canonb, Content(raw)).out \o End(Canonb, Content(raw)).work)
<1>1. PICK s, k : s = Content(raw) /\ k = <<>>  OBVIOUS
<1>2. s \in Seq(Chars) /\ k \in Seq(Chars)  BY <1>1, ContentIs DEF TypeInv
<1>3. \A w : Cooked(w, s) = End(w, s).out \o End(w, s).work  BY DEF Cooked, End
<1>4. \A w \in Seq(Chars) : Cooked(w, s) \in Seq(Chars) /\ <<>> \o Cooked(w, s) = Cooked(w, s)
 <2> SUFFICES ASSUME NEW w \in Seq(Chars)
              PROVE  Cooked(w, s) \in Seq(Chars) /\ <<>> \o Cooked(w, s) = Cooked(w, s)
   OBVIOUS
 <2>1. End(w, s) \in Acc  BY <1>2, EndIs
 <2>2. End(w, s).out \in Seq(Chars) /\ End(w, s).work \in Seq(Chars)  BY <2>1 DEF Acc
 <2>3. Cooked(w, s) \in Seq(Chars)
  <3>1. PICK o, v : o = End(w, s).out /\ v = End(w, s).work  OBVIOUS
  <3>2. o \o v \in Seq(Chars)  BY <2>2, <3>1
  <3>3. Cooked(w, s) = o \o v  BY <3>1 DEF Cooked, End
  <3> QED  BY <3>2, <3>3
 <2> QED  BY <2>3
<1>5. Canonb \in Seq(Chars) /\ Ended \in Seq(Chars)  BY MeType
<1>6. SUFFICES InHand = Ended \o Cooked(Canonb, s)  BY <1>1, <1>3
<1>7. CASE cpu = NoProc
 <2>1. Canonb = <<>> /\ Ended = <<>>  BY <1>7 DEF Me, Nobody, Canonb, Ended
 <2>2. InHand = Cooked(<<>>, s)  BY <1>1, <1>7 DEF InHand
 <2> QED  BY <1>1, <1>2, <1>4, <2>1, <2>2
<1>8. CASE cpu # NoProc /\ u[cpu].pc \in {"take", "takenext"}
 <2>1. Canonb = u[cpu].work /\ Ended = <<>>  BY <1>8 DEF Me, Canonb, Ended
 <2>2. InHand = Cooked(u[cpu].work, s)  BY <1>1, <1>8 DEF InHand
 <2> QED  BY <1>4, <1>5, <2>1, <2>2
<1>9. CASE cpu # NoProc /\ u[cpu].pc \in {"delct", "delctstore", "put"}
 <2>1. Canonb = <<>> /\ Ended = u[cpu].work  BY <1>9 DEF Me, Canonb, Ended
 <2>2. InHand = u[cpu].work \o Cooked(<<>>, s)  BY <1>1, <1>9 DEF InHand
 <2> QED  BY <2>1, <2>2
<1>10. CASE /\ cpu # NoProc
            /\ u[cpu].pc \notin {"take", "takenext", "delct", "delctstore", "put"}
 <2>1. Canonb = <<>> /\ Ended = <<>>  BY <1>10 DEF Me, Canonb, Ended
 <2>2. InHand = Cooked(<<>>, s)  BY <1>1, <1>10 DEF InHand
 <2> QED  BY <1>1, <1>2, <1>4, <2>1, <2>2
<1> QED  BY <1>7, <1>8, <1>9, <1>10

LEMMA LineConserves == IndInv /\ LineInv => InputConserved
<1> SUFFICES ASSUME IndInv, LineInv, Calm
             PROVE  hist.taken \o Content(can) \o InHand = Cooked(<<>>, hist.typed)
  BY LineCounts DEF InputConserved, Calm
<1>1. TypeInv /\ CtlInv /\ hist \in Hist /\ raw \in Ring /\ can \in Ring
  BY DEF IndInv, LineInv, TypeInv
<1>2. PICK x, e, d : /\ x = hist.taken \o Content(can) /\ d = Ended
                     /\ e = End(Canonb, Content(raw))
  OBVIOUS
<1>3. /\ hist.taken \in Seq(Chars) /\ Content(can) \in Seq(Chars) /\ Content(raw) \in Seq(Chars)
      /\ Canonb \in Seq(Chars) /\ Ended \in Seq(Chars)
  BY <1>1, ContentIs, MeType DEF Hist
<1>4. e \in Acc /\ x \in Seq(Chars) /\ d \in Seq(Chars)  BY <1>2, <1>3, EndIs
<1>5. e.out \in Seq(Chars) /\ e.work \in Seq(Chars)  BY <1>4 DEF Acc
<1>6. InHand = d \o (e.out \o e.work)  BY <1>1, <1>2, InHandIs
<1>7. End(<<>>, hist.typed) = Behind(x \o d, e)  BY <1>2 DEF LineInv, DataOK
<1>8. Cooked(<<>>, hist.typed) = End(<<>>, hist.typed).out \o End(<<>>, hist.typed).work
  BY DEF Cooked, End
<1>9. Cooked(<<>>, hist.typed) = ((x \o d) \o e.out) \o e.work
 <2>1. PICK a, o, w : a = End(<<>>, hist.typed) /\ o = (x \o d) \o e.out /\ w = e.work  OBVIOUS
 <2>2. a = [out |-> o, work |-> w]  BY <1>7, <2>1 DEF Behind
 <2>3. a.out = o /\ a.work = w  BY <2>2
 <2>4. Cooked(<<>>, hist.typed) = a.out \o a.work  BY <2>1 DEF Cooked, End
 <2> QED  BY <2>1, <2>3, <2>4
<1>10. x \o (d \o (e.out \o e.work)) = ((x \o d) \o e.out) \o e.work
 <2>1. PICK o, w : o = e.out /\ w = e.work  OBVIOUS
 <2>2. o \in Seq(Chars) /\ w \in Seq(Chars)  BY <1>5, <2>1
 <2>3. x \o d \in Seq(Chars) /\ o \o w \in Seq(Chars)  BY <1>4, <2>2
 <2>4. x \o (d \o (o \o w)) = (x \o d) \o (o \o w)  BY <1>4, <2>3, Assoc
 <2>5. (x \o d) \o (o \o w) = ((x \o d) \o o) \o w  BY <2>2, <2>3, Assoc
 <2> QED  BY <2>1, <2>4, <2>5
<1> QED  BY <1>2, <1>6, <1>9, <1>10

\* Only the end of a read that has the processor leads out of the driver
LEMMA EndOfRead ==
  ASSUME IndInv, LineInv, NEW p \in Procs, [Next]_vars, u[p].pc = "nfrele", u'[p].pc = "user",
         u[p].count = u[p].want
  PROVE  Typed("eot") \/ hist.bells > 0 \/ hist.split \/ hist.flushed \/ hist.full
<1>1. cpu = p /\ u[p].want > 0 /\ TypeInv
  BY DEF IndInv, LineInv, CtlInv, RunPCs, DataPCs, WantPCs, InsidePCs
<1>2. Me = u[p]  BY <1>1, MeIs
<1>3. u[p].count \in Nat /\ u[p].want \in Nat /\ hist \in Hist  BY <1>1 DEF TypeInv, Local
<1>4. ~Tame  BY <1>2, <1>3 DEF LineInv, LineOK
<1> QED  BY <1>3, <1>4 DEF Tame, Calm, Hist

LEMMA LineInvariance == Spec => [](IndInv /\ LineInv)
<1>1. Init => IndInv /\ LineInv  BY InitInv, InitLine
<1>2. IndInv /\ LineInv /\ [Next]_vars => (IndInv /\ LineInv)'  BY NextInv, NextLine
<1> QED  BY <1>1, <1>2, PTL DEF Spec

\* No character is lost, doubled or out of place between the keyboard and the readers,
\* however the interrupt falls into GetChar, Canon and t_delct--, and t_delct never
\* promises a line that is not there: the processor stays with a reader from the first
\* character it takes to the end, and PutChar only touches the other end of the ring
THEOREM NothingTypedIsLost == Spec => []InputConserved
  BY LineInvariance, LineConserves, PTL

\* A read that returns nothing has met CEOT, Ctrl-G, a line that did not fit, Ctrl-C or a
\* ring that ran over: every other delimiter comes right after the newline of its line,
\* so Canon hands on at least that newline
THEOREM EndOfFileIsMeant == Spec => NoFalseEnd
<1>1. IndInv /\ LineInv /\ [Next]_vars =>
        [\A p \in Procs :
           u[p].pc = "nfrele" /\ u'[p].pc = "user" /\ u[p].count = u[p].want
             => Typed("eot") \/ hist.bells > 0 \/ hist.split \/ hist.flushed \/ hist.full]_vars
  BY EndOfRead
<1> QED  BY <1>1, LineInvariance, PTL DEF Spec, NoFalseEnd

-----------------------------------------------------------------------------
(* The cooked ring has room.  Nobody looks before PutChar, and nobody needs*)
(* to: Canon is called with the ring empty, and a line fits.               *)

FillPCs == {"canon", "sleep", "woken", "sleepset", "take", "takenext", "delct", "delctstore"}
RoomInv == ~hist.broken /\ ~hist.flushed => \A p \in Procs :
    /\ u[p].pc \in FillPCs => CharNum(can) = 0
    /\ u[p].pc = "put" => CharNum(can) + Len(u[p].work) <= MaxLine
    /\ u[p].pc = "passnext" => CharNum(can) # 0 /\ u[p].at = can.tail

\* Steps that leave the ring alone
LEMMA RoomStep ==
  ASSUME IndInv, BoundsInv', RoomInv, NEW p \in Procs, Others(p), can' = can,
         hist.broken \/ hist.flushed => hist'.broken \/ hist'.flushed,
         u'[p].pc \in FillPCs => u[p].pc \in FillPCs \/ CharNum(can) = 0,
         u'[p].pc = "put" => u[p].pc \in FillPCs,
         u'[p].pc = "passnext" => CharNum(can) # 0 /\ u'[p].at = can.tail,
         u' \in [Procs -> Local]
  PROVE  RoomInv'
<1> SUFFICES ASSUME ~hist.broken /\ ~hist.flushed, NEW q \in Procs
             PROVE  /\ u'[q].pc \in FillPCs => CharNum(can) = 0
                    /\ u'[q].pc = "put" => CharNum(can) + Len(u'[q].work) <= MaxLine
                    /\ u'[q].pc = "passnext" => CharNum(can) # 0 /\ u'[q].at = can.tail
  BY DEF RoomInv
<1>1. /\ u[q].pc \in FillPCs => CharNum(can) = 0
      /\ u[q].pc = "put" => CharNum(can) + Len(u[q].work) <= MaxLine
      /\ u[q].pc = "passnext" => CharNum(can) # 0 /\ u[q].at = can.tail
  BY DEF RoomInv
<1>2. CASE q # p
 <2>1. \/ u'[q] = u[q]
       \/ u'[q].pc \in {"nflock", "write"}
       \/ u'[q].pc = "woken" /\ u[q].pc = "sleep"
   BY <1>2 DEF Others
 <2> QED  BY <1>1, <2>1 DEF FillPCs
<1>3. CASE q = p
 <2>1. u'[p].pc \in FillPCs => CharNum(can) = 0  BY <1>1, <1>3
 <2>2. ASSUME u'[p].pc = "put" PROVE CharNum(can) + Len(u'[p].work) <= MaxLine
  <3>1. CharNum(can) = 0  BY <1>1, <1>3, <2>2
  <3>2. Len(u'[p].work) <= MaxLine /\ u'[p].work \in Seq(Chars)  BY DEF BoundsInv, Local
  <3>3. Len(u'[p].work) \in Nat  BY <3>2
  <3> QED  BY <3>1, <3>2, <3>3
 <2> QED  BY <1>3, <2>1, <2>2
<1> QED  BY <1>2, <1>3

LEMMA RoomPlace ==
  ASSUME IndInv, IndInv', RoomInv, NEW p \in Procs, NEW l, u' = Pc(p, l), can' = can,
         hist' \in {hist, [hist EXCEPT !.aborted = TRUE]},
         l \in FillPCs => u[p].pc \in FillPCs \/ CharNum(can) = 0, l \notin {"put", "passnext"}
  PROVE  RoomInv'
<1>1. TypeInv /\ BoundsInv' /\ u' \in [Procs -> Local] /\ hist \in Hist  BY DEF IndInv, TypeInv
<1>2. Others(p) /\ u'[p].pc = l  BY <1>1, PcIs
<1>3. hist'.broken = hist.broken /\ hist'.flushed = hist.flushed  BY <1>1 DEF Hist
<1> QED  BY <1>1, <1>2, <1>3, RoomStep

LEMMA CanonRoom ==
  ASSUME IndInv, IndInv', RoomInv, NEW p \in Procs,
         CanonTest(p) \/ CanonAgain(p) \/ CanonSleep(p)
  PROVE  RoomInv'
<1>1. u[p].pc \in FillPCs /\ can' = can  BY DEF CanonTest, CanonAgain, CanonSleep, At, FillPCs
<1>2. CASE u' = Pc(p, "dying") /\ hist' = [hist EXCEPT !.aborted = TRUE]
 <2>1. "dying" \notin FillPCs  BY DEF FillPCs
 <2> QED  BY <1>1, <1>2, <2>1, RoomPlace
<1>3. CASE u' = Pc(p, "sleep") /\ hist' = hist  BY <1>1, <1>3, RoomPlace
<1>4. ASSUME NEW l \in {"take", "sleepset"}, u' = [u EXCEPT ![p].pc = l, ![p].work = <<>>],
             hist' = hist
      PROVE  RoomInv'
 <2>1. BoundsInv' /\ u' \in [Procs -> Local] /\ u \in [Procs -> Local]  BY DEF IndInv, TypeInv
 <2>2. u'[p].pc = l /\ \A q \in Procs : q # p => u'[q] = u[q]  BY <1>4, <2>1 DEF Local
 <2>3. Others(p)  BY <2>2 DEF Others
 <2> QED  BY <1>1, <1>4, <2>1, <2>2, <2>3, RoomStep
<1>5. \/ u' = Pc(p, "dying") /\ hist' = [hist EXCEPT !.aborted = TRUE]
      \/ u' = Pc(p, "sleep") /\ hist' = hist
      \/ \E l \in {"take", "sleepset"} :
            u' = [u EXCEPT ![p].pc = l, ![p].work = <<>>] /\ hist' = hist
  BY DEF CanonTest, CanonAgain, CanonSleep, GoToSleep, Abort
<1> QED  BY <1>2, <1>3, <1>4, <1>5

\* The loop over the raw ring
LEMMA FillRoom ==
  ASSUME IndInv, IndInv', RoomInv, NEW p \in Procs,
         TakeRead(p) \/ TakeNext(p) \/ DelctLoad(p) \/ DelctStore(p)
  PROVE  RoomInv'
<1>1. u[p].pc \in FillPCs /\ can' = can
  BY DEF TakeRead, TakeNext, DelctLoad, DelctStore, At, FillPCs
<1>2. TypeInv /\ BoundsInv' /\ u' \in [Procs -> Local] /\ u \in [Procs -> Local] /\ hist \in Hist
  BY DEF IndInv, TypeInv
<1>3. hist'.broken = hist.broken /\ hist'.flushed = hist.flushed
  BY <1>2 DEF TakeRead, TakeNext, DelctLoad, DelctStore, Hist
<1>4. ASSUME NEW r, u' = [u EXCEPT ![p] = r], r.pc \in FillPCs \cup {"put"} PROVE RoomInv'
 <2>1. u'[p] = r /\ \A q \in Procs : q # p => u'[q] = u[q]  BY <1>2, <1>4
 <2>2. Others(p)  BY <2>1 DEF Others
 <2>3. u'[p].pc # "passnext"  BY <1>4, <2>1 DEF FillPCs
 <2> QED  BY <1>1, <1>2, <1>3, <2>1, <2>2, <2>3, RoomStep
<1>5. \E r : u' = [u EXCEPT ![p] = r] /\ r.pc \in FillPCs \cup {"put"}
 <2>1. u[p] \in Local  BY <1>2
 <2>2. CASE TakeRead(p)
  <3>1. CASE CharNum(raw) = 0
   <4>1. u' = [u EXCEPT ![p] = [u[p] EXCEPT !.pc = "put"]]  BY <2>2, <3>1 DEF TakeRead, Pc
   <4>2. [u[p] EXCEPT !.pc = "put"].pc = "put"  BY <2>1 DEF Local
   <4> QED  BY <4>1, <4>2
  <3>2. CASE CharNum(raw) # 0
   <4> DEFINE r == [u[p] EXCEPT !.pc = "takenext", !.ch = raw.buf[raw.tail], !.at = raw.tail]
   <4>1. u' = [u EXCEPT ![p] = r]  BY <2>2, <3>2 DEF TakeRead
   <4>2. r.pc = "takenext"  BY <2>1 DEF Local
   <4> QED  BY <4>1, <4>2 DEF FillPCs
  <3> QED  BY <3>1, <3>2
 <2>3. CASE TakeNext(p)
  <3>1. PICK w, l : /\ l \in {"put", "take"}
                    /\ \/ u' = [u EXCEPT ![p].pc = "delct"]
                       \/ u' = [u EXCEPT ![p].work = w, ![p].pc = l]
   <4>1. PICK w, f, l : /\ w = Canonize(u[p].work, u[p].ch)
                        /\ f = (u[p].ch # "bell" /\ Len(w) = MaxLine)
                        /\ l = IF u[p].ch # "bell" /\ Len(w) = MaxLine THEN "put" ELSE "take"
     OBVIOUS
   <4>2. u' = IF u[p].ch = "bell" THEN [u EXCEPT ![p].pc = "delct"]
              ELSE [u EXCEPT ![p].work = w, ![p].pc = l]
     BY <2>3, <4>1 DEF TakeNext
   <4> QED  BY <4>1, <4>2
  <3>2. CASE u' = [u EXCEPT ![p].pc = "delct"]
   <4>1. u' = [u EXCEPT ![p] = [u[p] EXCEPT !.pc = "delct"]]  BY <3>2
   <4>2. [u[p] EXCEPT !.pc = "delct"].pc = "delct"  BY <2>1 DEF Local
   <4> QED  BY <4>1, <4>2 DEF FillPCs
  <3>3. CASE u' = [u EXCEPT ![p].work = w, ![p].pc = l]
   <4>1. u' = [u EXCEPT ![p] = [u[p] EXCEPT !.work = w, !.pc = l]]  BY <3>3
   <4>2. [u[p] EXCEPT !.work = w, !.pc = l].pc = l  BY <2>1 DEF Local
   <4> QED  BY <3>1, <4>1, <4>2 DEF FillPCs
  <3> QED  BY <3>1, <3>2, <3>3
 <2>4. CASE DelctLoad(p)
  <3> DEFINE r == [u[p] EXCEPT !.pc = "delctstore", !.num = delct]
  <3>1. u' = [u EXCEPT ![p] = r]  BY <2>4 DEF DelctLoad
  <3>2. r.pc = "delctstore"  BY <2>1 DEF Local
  <3> QED  BY <3>1, <3>2 DEF FillPCs
 <2>5. CASE DelctStore(p)
  <3>1. u' = [u EXCEPT ![p] = [u[p] EXCEPT !.pc = "put"]]  BY <2>5 DEF DelctStore, Pc
  <3>2. [u[p] EXCEPT !.pc = "put"].pc = "put"  BY <2>1 DEF Local
  <3> QED  BY <3>1, <3>2
 <2> QED  BY <2>2, <2>3, <2>4, <2>5
<1> QED  BY <1>4, <1>5

\* Who fills the ring or empties it is alone
LEMMA RoomAlone ==
  ASSUME IndInv, NEW p \in Procs, u[p].pc \in InsidePCs, \A q \in Procs : q # p => u'[q] = u[q],
         hist'.broken = hist.broken,
         u'[p].pc = "put" => CharNum(can)' + Len(u'[p].work) <= MaxLine,
         u'[p].pc \notin FillPCs \cup {"passnext"}
  PROVE  RoomInv'
<1> SUFFICES ASSUME ~hist.broken, NEW q \in Procs
             PROVE  /\ u'[q].pc \in FillPCs => CharNum(can)' = 0
                    /\ u'[q].pc = "put" => CharNum(can)' + Len(u'[q].work) <= MaxLine
                    /\ u'[q].pc = "passnext" => CharNum(can)' # 0 /\ u'[q].at = can'.tail
  BY DEF RoomInv
<1>1. CASE q # p
 <2>1. p \in Inside /\ q \notin Inside  BY <1>1 DEF IndInv, LockInv, Inside, InsidePCs
 <2>2. u'[q].pc \notin InsidePCs  BY <1>1, <2>1 DEF Inside, InsidePCs
 <2> QED  BY <2>2 DEF InsidePCs, FillPCs
<1>2. CASE q = p  BY <1>2
<1> QED  BY <1>1, <1>2

LEMMA LineFits ==
  ASSUME MaxLine < Size, IndInv, RoomInv, NEW p \in Procs, u[p].pc = "put", u[p].work # <<>>,
         ~hist.broken, ~hist.flushed
  PROVE  CharNum(can) + Len(u[p].work) <= MaxLine /\ CharNum(can) + 1 < Size
<1>1. can \in Ring /\ u[p].work \in Seq(Chars)  BY DEF IndInv, TypeInv, Local
<1>2. CharNum(can) \in Nat /\ Len(u[p].work) \in Nat /\ Len(u[p].work) # 0
      /\ Size \in Nat /\ MaxLine \in Nat
  BY <1>1, ContentIs, TerminalAssumption
<1>3. CharNum(can) + Len(u[p].work) <= MaxLine  BY DEF RoomInv
<1> QED  BY <1>2, <1>3

LEMMA PutCookedRoom ==
  ASSUME MaxLine < Size, IndInv, IndInv', RoomInv, NEW p \in Procs, PutCooked(p)
  PROVE  RoomInv'
<1>1. u[p].pc = "put"  BY DEF PutCooked, At
<1>2. TypeInv /\ u[p] \in Local /\ u \in [Procs -> Local] /\ hist \in Hist /\ can \in Ring
  BY DEF IndInv, TypeInv
<1>3. hist'.broken = hist.broken /\ hist'.flushed = hist.flushed  BY <1>2 DEF PutCooked, Hist
<1>4. CASE u[p].work = <<>>
 <2>1. u' = Pc(p, "pass") /\ can' = can /\ hist' = hist  BY <1>4 DEF PutCooked
 <2>2. "pass" \notin FillPCs  BY DEF FillPCs
 <2> QED  BY <2>1, <2>2, RoomPlace
<1>5. CASE u[p].work # <<>> /\ (hist.broken \/ hist.flushed)  BY <1>3, <1>5 DEF RoomInv
<1>6. CASE u[p].work # <<>> /\ ~hist.broken /\ ~hist.flushed
 <2>1. PICK w : w = u[p].work  OBVIOUS
 <2>2. w \in Seq(Chars) /\ w # <<>>  BY <1>2, <1>6, <2>1 DEF Local
 <2>3. Head(w) \in Chars /\ Len(Tail(w)) = Len(w) - 1 /\ Len(w) \in Nat  BY <2>2
 <2>4. CharNum(can) + Len(w) <= MaxLine /\ CharNum(can) + 1 < Size  BY <1>1, <1>6, <2>1, LineFits
 <2>5. can' = PutChar(can, Head(w)) /\ u' = [u EXCEPT ![p].work = Tail(@)]
   BY <1>6, <2>1 DEF PutCooked
 <2>6. CharNum(can)' = CharNum(can) + 1 /\ CharNum(can) \in Nat
   BY <1>2, <2>3, <2>4, <2>5, ContentPut, ContentIs
 <2>7. u'[p].pc = "put" /\ u'[p].work = Tail(w) /\ \A q \in Procs : q # p => u'[q] = u[q]
   BY <1>1, <1>2, <2>1, <2>5 DEF Local
 <2>8. CharNum(can)' + Len(u'[p].work) <= MaxLine  BY <2>3, <2>4, <2>6, <2>7, TerminalAssumption
 <2>9. u[p].pc \in InsidePCs /\ u'[p].pc \notin FillPCs \cup {"passnext"}
   BY <1>1, <2>7 DEF InsidePCs, FillPCs
 <2> QED  BY <1>3, <2>7, <2>8, <2>9, RoomAlone
<1> QED  BY <1>4, <1>5, <1>6

LEMMA PassRoom ==
  ASSUME IndInv, IndInv', RoomInv, NEW p \in Procs, PassRead(p) \/ PassNext(p)
  PROVE  RoomInv'
<1>1. u[p].pc \in InsidePCs  BY DEF PassRead, PassNext, At, InsidePCs
<1>2. TypeInv /\ BoundsInv' /\ u' \in [Procs -> Local] /\ u \in [Procs -> Local] /\ hist \in Hist
  BY DEF IndInv, TypeInv
<1>3. /\ "nfrele" \notin FillPCs \cup {"put", "passnext"}
      /\ "pass" \notin FillPCs \cup {"put", "passnext"}
      /\ "passnext" \notin FillPCs \cup {"put"}
  BY DEF FillPCs
<1>4. CASE PassRead(p) /\ CharNum(can) = 0
 <2>1. u' = Pc(p, "nfrele") /\ can' = can /\ hist' = hist  BY <1>4 DEF PassRead
 <2> QED  BY <1>3, <2>1, RoomPlace
<1>5. CASE PassRead(p) /\ CharNum(can) # 0
 <2>1. /\ u' = [u EXCEPT ![p].pc = "passnext", ![p].ch = can.buf[can.tail], ![p].at = can.tail]
       /\ can' = can /\ hist' = hist
   BY <1>5 DEF PassRead
 <2>2. u'[p].pc = "passnext" /\ u'[p].at = can.tail /\ \A q \in Procs : q # p => u'[q] = u[q]
   BY <1>2, <2>1 DEF Local
 <2>3. Others(p)  BY <2>2 DEF Others
 <2> QED  BY <1>2, <1>3, <1>5, <2>1, <2>2, <2>3, RoomStep
<1>6. CASE PassNext(p)
 <2>1. hist'.broken = hist.broken  BY <1>2, <1>6 DEF PassNext, Hist
 <2>2. u'[p].pc \in {"pass", "nfrele"} /\ \A q \in Procs : q # p => u'[q] = u[q]
  <3>1. CASE u[p].count > 0
   <4>1. u' = [u EXCEPT ![p].pc = "pass", ![p].count = @ - 1]  BY <1>6, <3>1 DEF PassNext
   <4> QED  BY <1>2, <4>1 DEF Local
  <3>2. CASE ~(u[p].count > 0)
   <4>1. u' = Pc(p, "nfrele")  BY <1>6, <3>2 DEF PassNext
   <4> QED  BY <1>2, <4>1 DEF Local, Pc
  <3> QED  BY <3>1, <3>2
 <2> QED  BY <1>1, <1>3, <2>1, <2>2, RoomAlone
<1> QED  BY <1>4, <1>5, <1>6

\* The rest does not touch the ring and leads to no place in the driver but its beginning
LEMMA OutsideRoom ==
  ASSUME IndInv, IndInv', RoomInv, NEW p \in Procs,
         Read(p) \/ NFlockWait(p) \/ NFlock(p) \/ NFrele(p) \/ Write(p) \/ Close(p) \/ Exit(p)
  PROVE  RoomInv'
<1>1. can' = can  BY DEF Read, NFlockWait, NFlock, NFrele, Write, Close, Exit, Put
<1>2. TypeInv /\ BoundsInv' /\ u' \in [Procs -> Local] /\ u \in [Procs -> Local] /\ hist \in Hist
  BY DEF IndInv, TypeInv
<1>3. \A l \in {"user", "nflock", "lockwait", "writewait", "dead", "pass"} :
          l \notin FillPCs \cup {"put", "passnext"}
  BY DEF FillPCs
<1>4. ASSUME NEW l \in {"user", "lockwait", "writewait", "dead", "pass"}, u' = Pc(p, l),
             hist' = hist
      PROVE  RoomInv'
  BY <1>1, <1>3, <1>4, RoomPlace
<1>5. CASE Read(p)
 <2>1. PICK c \in Counts : u' = [u EXCEPT ![p].pc = "nflock", ![p].count = c, ![p].want = c]
   BY <1>5 DEF Read
 <2>2. u'[p].pc = "nflock" /\ \A q \in Procs : q # p => u'[q] = u[q]  BY <1>2, <2>1 DEF Local
 <2>3. Others(p)  BY <2>2 DEF Others
 <2>4. hist'.broken = hist.broken /\ hist'.flushed = hist.flushed  BY <1>2, <1>5 DEF Read, Hist
 <2> QED  BY <1>1, <1>2, <1>3, <2>2, <2>3, <2>4, RoomStep
<1>6. CASE NFlock(p)
 <2>1. u' = Pc(p, IF CharNum(can) # 0 THEN "pass" ELSE "canon") /\ hist' = hist  BY <1>6 DEF NFlock
 <2>2. CASE CharNum(can) # 0  BY <1>4, <2>1, <2>2
 <2>3. CASE CharNum(can) = 0
  <3>1. u' = Pc(p, "canon")  BY <2>1, <2>3
  <3> QED  BY <1>1, <2>1, <2>3, <3>1, RoomPlace
 <2> QED  BY <2>2, <2>3
<1>7. ASSUME NEW l \in {"user", "dead"},
             \/ u' = [Release(u) EXCEPT ![p].pc = l]
             \/ u' = [Release(u) EXCEPT ![p].pc = l, ![p].own = FALSE],
             hist' \in {hist, [hist EXCEPT !.broken = @ \/ inode.lock]}
      PROVE  RoomInv'
 <2>1. Others(p) /\ u'[p].pc = l  BY <1>2, <1>7, ReleaseIs
 <2>2. hist.broken \/ hist.flushed => hist'.broken \/ hist'.flushed  BY <1>2, <1>7 DEF Hist
 <2> QED  BY <1>1, <1>2, <1>3, <2>1, <2>2, RoomStep
<1>8. CASE NFlockWait(p)
 <2>1. u' = Pc(p, "lockwait") /\ hist' = hist  BY <1>8 DEF NFlockWait
 <2> QED  BY <1>4, <2>1
<1>9. CASE NFrele(p)
 <2>1. u' = [Release(u) EXCEPT ![p].pc = "user"] /\ hist' = hist  BY <1>9 DEF NFrele
 <2> QED  BY <1>7, <2>1
<1>10. CASE Write(p)
 <2>1. (u' = Pc(p, "writewait") \/ u' = Pc(p, "user")) /\ hist' = hist  BY <1>10 DEF Write
 <2> QED  BY <1>4, <2>1
<1>11. CASE Close(p) \/ Exit(p)
 <2>1. \/ u' = Pc(p, "dead") /\ hist' = hist
       \/ \E l \in {"user", "dead"} :
             /\ u' = [Release(u) EXCEPT ![p].pc = l, ![p].own = FALSE]
             /\ hist' = [hist EXCEPT !.broken = @ \/ inode.lock]
   BY <1>11 DEF Close, Exit, Put
 <2> QED  BY <1>4, <1>7, <2>1
<1> QED  BY <1>5, <1>6, <1>8, <1>9, <1>10, <1>11

LEMMA KeyboardRoom ==
  ASSUME IndInv, RoomInv, NEW k, NEW up, KeyboardHandler(k, up)
  PROVE  RoomInv'
<1>1. PICK c : CASE c = "nul"  -> UNCHANGED <<raw, can, delct, u, sig, hist>>
                 [] c = "intr" -> FlushTTy
                 [] OTHER      -> TTyInput(c)
  BY DEF KeyboardHandler
<1>2. TypeInv /\ hist \in Hist /\ u \in [Procs -> Local]  BY DEF IndInv, TypeInv
<1>3. CASE c = "nul"
 <2>1. UNCHANGED <<can, u, hist>>  BY <1>1, <1>3
 <2> QED  BY <2>1 DEF RoomInv
<1>4. CASE c = "intr"
 <2>1. hist' = [hist EXCEPT !.flushed = TRUE]  BY <1>1, <1>4 DEF FlushTTy
 <2>2. hist'.flushed  BY <1>2, <2>1 DEF Hist
 <2> QED  BY <2>2 DEF RoomInv
<1>5. CASE c \notin {"nul", "intr"}
 <2>1. TTyInput(c)  BY <1>1, <1>5
 <2>2. can' = can /\ hist'.broken = hist.broken /\ hist'.flushed = hist.flushed
   BY <1>2, <2>1 DEF TTyInput, Hist
 <2>3. \A q \in Procs : \/ u'[q] = u[q]
                        \/ u[q].pc = "sleep" /\ u'[q] = [u[q] EXCEPT !.pc = "woken"]
   BY <2>1 DEF TTyInput, Wake
 <2>4. \A q \in Procs : u'[q] = u[q] \/ (u[q].pc = "sleep" /\ u'[q].pc = "woken")
  <3>1. \A q \in Procs : u[q] \in Local  BY <1>2
  <3>2. ASSUME NEW q \in Procs, u'[q] # u[q] PROVE u[q].pc = "sleep" /\ u'[q].pc = "woken"
   <4>1. u[q].pc = "sleep" /\ u'[q] = [u[q] EXCEPT !.pc = "woken"]  BY <2>3, <3>2
   <4>2. [u[q] EXCEPT !.pc = "woken"].pc = "woken"  BY <3>1 DEF Local
   <4> QED  BY <4>1, <4>2
  <3> QED  BY <3>2
 <2> QED  BY <2>2, <2>4 DEF RoomInv, FillPCs
<1> QED  BY <1>3, <1>4, <1>5

LEMMA NextRoom ==
  ASSUME MaxLine < Size, IndInv, IndInv', RoomInv, [Next]_vars
  PROVE  RoomInv'
<1>1. ASSUME NEW p \in Procs, Read(p) \/ Step(p) \/ Write(p) \/ Close(p) \/ Exit(p) PROVE RoomInv'
  BY <1>1, CanonRoom, FillRoom, PutCookedRoom, PassRoom, OutsideRoom DEF Step
<1>2. ASSUME NEW k \in Keys, Press(k) \/ Lift(k) PROVE RoomInv'
  BY <1>2, KeyboardRoom DEF Press, Lift
<1>3. CASE UNCHANGED vars  BY <1>3 DEF vars, RoomInv
<1> QED  BY <1>1, <1>2, <1>3 DEF Next

\* TTRead never asks whether the cooked ring is full, and with a line shorter than the ring
\* it need not: a character that Canon hands on has room, unless Ctrl-C emptied the ring
\* under a reader or a lock was broken.  Only the raw ring, which takes any number of lines,
\* can run over.
THEOREM LineHasRoom ==
  ASSUME MaxLine < Size
  PROVE  Spec => [][\A p \in Procs :
                      PutCooked(p) /\ ~hist.broken /\ ~hist.flushed => hist'.full = hist.full]_vars
<1>1. Init => RoomInv  BY DEF Init, RoomInv, FillPCs
<1>2. IndInv /\ IndInv' /\ RoomInv /\ [Next]_vars => RoomInv'  BY NextRoom
<1>3. IndInv /\ RoomInv =>
        \A p \in Procs : PutCooked(p) /\ ~hist.broken /\ ~hist.flushed => hist'.full = hist.full
 <2> SUFFICES ASSUME IndInv, RoomInv, NEW p \in Procs, PutCooked(p), ~hist.broken, ~hist.flushed
              PROVE  hist'.full = hist.full
   OBVIOUS
 <2>1. u[p].pc = "put" /\ hist \in Hist  BY DEF PutCooked, At, IndInv, TypeInv
 <2>2. CASE u[p].work = <<>>  BY <2>2 DEF PutCooked
 <2>3. CASE u[p].work # <<>>
  <3>1. CharNum(can) + 1 < Size /\ CharNum(can) \in Nat /\ Size \in Nat
    BY <2>1, <2>3, LineFits, ContentIs, TerminalAssumption DEF IndInv, TypeInv
  <3>2. ~(CharNum(can) + 1 >= Size)  BY <3>1
  <3>3. hist' = [hist EXCEPT !.full = @ \/ CharNum(can) + 1 >= Size]  BY <2>3 DEF PutCooked
  <3> QED  BY <2>1, <3>2, <3>3 DEF Hist
 <2> QED  BY <2>2, <2>3
<1>4. IndInv /\ RoomInv /\ [Next]_vars =>
        [\A p \in Procs : PutCooked(p) /\ ~hist.broken /\ ~hist.flushed => hist'.full = hist.full]_vars
  BY <1>3
<1> QED  BY <1>1, <1>2, <1>4, Invariance, PTL DEF Spec

=============================================================================
