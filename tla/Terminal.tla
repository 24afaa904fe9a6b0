------------------------------ MODULE Terminal ------------------------------
(***************************************************************************)
(* The input half of the terminal: the keyboard's interrupt                *)
(* (tty/Keyboard.cpp), which turns scan codes into characters and puts     *)
(* them into the raw ring, and the processes that read (tty/TTy.cpp), with *)
(* the lock of the terminal's inode that read holds meanwhile.             *)
(*                                                                         *)
(*  - The kernel is not preemptive, but TTRead and Canon run with          *)
(*    interrupts open: the keyboard comes between any two of their steps.  *)
(*    The kernel is compiled without optimisation, so `x = x + 1` loads    *)
(*    and stores, and an interrupt may come in between.                    *)
(*  - A scan code is a key going down or up, or one of the prefixes.       *)
(*  - t_flags is ECHO, as Open leaves it (SgTTy does nothing): RAW, CRMOD  *)
(*    and LCASE are never set.  The echo, and the output, are left out.    *)
(***************************************************************************)
EXTENDS Integers, Sequences, FiniteSets, SequencesExt

CONSTANTS
    Procs,     \* the processes that use the terminal
    NoProc,    \* nobody
    Shell,     \* the one with p_pid = 1, which Ctrl-C spares
    Openers,   \* those with a second descriptor, of a file they opened themselves
    Keys,      \* the keys that are pressed, see Letters, Toggles, Holds
    Counts,    \* the m_Count of reads
    Size,      \* TTY_BUF_SIZE
    MaxLine,   \* CANBSIZ - 2
    MaxKeys,   \* bound: keys going down
    MaxReads   \* bound: calls of read

ASSUME TerminalAssumption ==
    /\ NoProc \notin Procs /\ Shell \in Procs /\ Openers \subseteq Procs
    /\ Counts \subseteq Nat \ {0}
    /\ {Size, MaxLine, MaxKeys, MaxReads} \subseteq Nat \ {0}

VARIABLES
    raw, can,  \* t_rawq, t_canq
    delct,     \* t_delct
    inode,     \* ILOCK and IWANT of the terminal's inode
    u,         \* per process: where it is, and its local variables
    cpu,       \* the process in the kernel, or NoProc
    sig,       \* the processes whose p_sig is SIGINT
    kb,        \* pre_state and Mode
    held,      \* the keys that are down
    keys,      \* how many keys went down
    hist       \* what was typed and read, and which accidents happened

vars == <<raw, can, delct, inode, u, cpu, sig, kb, held, keys, hist>>

-----------------------------------------------------------------------------
(* Rings.  A full ring looks empty: nobody asks before PutChar.            *)

Mod(x)      == x % Size
CharNum(q)  == Mod(q.head - q.tail)
PutChar(q, c) == [q EXCEPT !.buf[q.head] = c, !.head = Mod(@ + 1)]
Content(q)  == [i \in 1 .. CharNum(q) |-> q.buf[Mod(q.tail + i - 1)]]
Drain(q)    == [q EXCEPT !.tail = q.head]
EmptyRing   == [buf |-> [i \in 0 .. Size - 1 |-> "nul"], head |-> 0, tail |-> 0]

Delimiters(s) == Cardinality({i \in DOMAIN s : s[i] = "bell"})
-----------------------------------------------------------------------------
(* The keyboard.                                                           *)

Holds   == {"ctrl", "shift", "alt"}           \* with E0: those on the right
Toggles == {"num", "caps", "scroll"}
Control == [c |-> "intr", d |-> "eot", g |-> "bell", u |-> "kill", h |-> "bs", j |-> "nl"]
Letters == DOMAIN Control \cup {"x"}
Keypad  == {"5"}
Plain   == [enter |-> "nl", back |-> "bs", bslash |-> "\\"]

Code(key, up) == [key |-> key, up |-> up]
\* What the keyboard sends.  "rctrl" is an extended key, "pause" has no code
\* when it is released.
Codes(k, up) ==
    CASE k = "rctrl" -> <<Code("E0", FALSE), Code("ctrl", up)>>
      [] k = "pause" -> IF up THEN <<>>
                        ELSE <<Code("E1", FALSE), Code("ctrl", FALSE), Code("num", FALSE),
                               Code("E1", FALSE), Code("ctrl", TRUE), Code("num", TRUE)>>
      [] OTHER       -> <<Code(k, up)>>

Side(key, expand) == <<IF expand = "E0" /\ key # "shift" THEN "right" ELSE "left", key>>
Is(mode, key)     == \E s \in {"left", "right"} : <<s, key>> \in mode
On(key)           == <<"on", key>>
Down(key)         == <<"down", key>>

ScanCodeTranslate(mode, key, expand) ==
    CASE expand = "E1"            -> "pause"
      [] key \in Letters          -> IF Is(mode, "ctrl") /\ key # "x" THEN Control[key] ELSE "x"
      [] key \in DOMAIN Plain     -> Plain[key]
      [] key \in Keypad           -> IF expand # "E0" /\ ((On("num") \in mode) # Is(mode, "shift"))
                                     THEN "x" ELSE "nul"
      [] OTHER                    -> "nul"

\* The mode after a scan code, and the character for TTyInput or "nul".
HandleScanCode(mode, code, expand) ==
    LET key == code.key
    IN  [mode |-> CASE key \in Holds /\ ~code.up -> mode \cup {Side(key, expand)}
                    [] key \in Holds /\ code.up  -> mode \ {Side(key, expand)}
                    [] key \in Toggles /\ ~code.up /\ Down(key) \notin mode ->
                          (IF On(key) \in mode THEN mode \ {On(key)} ELSE mode \cup {On(key)})
                             \cup {Down(key)}
                    [] key \in Toggles /\ code.up -> mode \ {Down(key)}
                    [] OTHER -> mode,
         ch   |-> IF code.up /\ expand # "E1" THEN "nul"
                  ELSE ScanCodeTranslate(mode, key, expand)]

\* HandleScanCode is called with the prefix there was; a character goes to TTyInput.
Handled(k, code, expand) ==
    LET h == HandleScanCode(k.mode, code, expand)
    IN  [pre |-> "0", mode |-> h.mode, ch |-> IF h.ch = "nul" THEN k.ch ELSE h.ch]

\* One turn of KeyboardHandler's loop, the state machine of the prefixes: a
\* code is handled, or is a prefix (or a code out of place) and only kept.
Expand(k, code) ==
    IF k.pre = "0" /\ code.key \notin {"E0", "E1"} THEN "0"
    ELSE IF k.pre = "100" /\ code = Code("num", FALSE) THEN "E1"
    ELSE IF k.pre = "E0" THEN "E0" ELSE "none"
Prefix(k, code) ==
    IF k.pre = "0" THEN code.key
    ELSE IF k.pre = "E1" /\ code.key = "ctrl" THEN "100" ELSE "0"
NextCode(k, code) ==
    IF Expand(k, code) = "none" THEN [k EXCEPT !.pre = Prefix(k, code)]
    ELSE Handled(k, code, Expand(k, code))

\* All the codes of a key, six at most.
HandleCodes(k, codes) ==
    LET After(i, s) == IF i \in DOMAIN codes THEN NextCode(s, codes[i]) ELSE s
    IN  After(6, After(5, After(4, After(3, After(2, After(1, k))))))
-----------------------------------------------------------------------------
(* The processes.                                                          *)

Init ==
    /\ raw = EmptyRing /\ can = EmptyRing
    /\ delct = 0
    /\ inode = [lock |-> FALSE, want |-> FALSE]
    /\ u = [p \in Procs |-> [pc |-> "user", count |-> 0, want |-> 0, work |-> <<>>,
                             ch |-> "nul", at |-> 0, num |-> 0, own |-> p \in Openers]]
    /\ cpu = NoProc
    /\ sig = {}
    /\ keys = 0
    /\ kb = [pre |-> "0", mode |-> {}]
    /\ held = {}
    /\ hist = [typed |-> <<>>, taken |-> <<>>, reads |-> 0,
               flushed |-> FALSE, full |-> FALSE, bells |-> 0, broken |-> FALSE,
               missed |-> FALSE, aborted |-> FALSE, split |-> FALSE]

At(p, l)     == u[p].pc = l /\ cpu = p
Enter(p)     == u[p].pc = "user" /\ cpu = NoProc /\ p \notin sig
Pc(p, l)     == [u EXCEPT ![p].pc = l]
Keyboard     == <<kb, held, keys>>
\* WakeUpAll: who sleeps at one place goes on at another.
Wake(f, from, to) == [p \in Procs |-> IF f[p].pc = from THEN [f[p] EXCEPT !.pc = to] ELSE f[p]]
Release(f)   == IF inode.want
                THEN Wake(Wake(f, "lockwait", "nflock"), "writewait", "write") ELSE f
Unlocked     == [lock |-> FALSE, want |-> FALSE]

\* read on the terminal: Rdwr up to the lock.
Read(p) ==
    /\ Enter(p)
    /\ hist.reads < MaxReads
    /\ \E c \in Counts : u' = [u EXCEPT ![p].pc = "nflock", ![p].count = c, ![p].want = c]
    /\ cpu' = p
    /\ hist' = [hist EXCEPT !.reads = @ + 1]
    /\ UNCHANGED <<raw, can, delct, inode, sig, Keyboard>>

NFlockWait(p) ==
    /\ u[p].pc = "nflock" /\ cpu \in {p, NoProc} /\ inode.lock
    /\ inode' = [inode EXCEPT !.want = TRUE]
    /\ u' = Pc(p, "lockwait")
    /\ cpu' = NoProc
    /\ UNCHANGED <<raw, can, delct, sig, Keyboard, hist>>

\* Mutant: TTRead does not call Canon.
NFlockRaw(p) ==
    /\ u[p].pc = "nflock" /\ cpu \in {p, NoProc} /\ ~inode.lock
    /\ inode' = [inode EXCEPT !.lock = TRUE]
    /\ u' = Pc(p, "pass")
    /\ cpu' = p
    /\ UNCHANGED <<raw, can, delct, sig, Keyboard, hist>>

\* The lock, and TTRead's look at the cooked ring.  With nothing there Canon
\* closes interrupts.
NFlock(p) ==
    /\ u[p].pc = "nflock" /\ cpu \in {p, NoProc} /\ ~inode.lock
    /\ inode' = [inode EXCEPT !.lock = TRUE]
    /\ u' = Pc(p, IF CharNum(can) # 0 THEN "pass" ELSE "canon")
    /\ cpu' = p
    /\ UNCHANGED <<raw, can, delct, sig, Keyboard, hist>>

\* aRetU: out of the call from inside Sleep, past NFrele; u_error is EINTR,
\* and the end of Trap lets the signal kill the process.
Abort(p) ==
    /\ u' = Pc(p, "dying")
    /\ cpu' = NoProc
    /\ hist' = [hist EXCEPT !.aborted = TRUE]

\* Process::Sleep up to Swtch.
GoToSleep(p) ==
    \/ p \in sig /\ Abort(p)
    \/ p \notin sig /\ u' = Pc(p, "sleep") /\ cpu' = NoProc /\ UNCHANGED hist

\* Mutant: Canon leaves interrupts open between its look and the sleep.
CanonTestOpen(p) ==
    /\ At(p, "canon")
    /\ u' = [u EXCEPT ![p].pc = IF delct # 0 THEN "take" ELSE "sleepset", ![p].work = <<>>]
    /\ UNCHANGED <<raw, can, delct, inode, cpu, sig, Keyboard, hist>>

\* Canon's first look at t_delct and the sleep, with interrupts closed.
CanonTest(p) ==
    /\ At(p, "canon")
    /\ \/ /\ delct # 0
          /\ u' = [u EXCEPT ![p].pc = "take", ![p].work = <<>>]
          /\ UNCHANGED <<cpu, hist>>
       \/ delct = 0 /\ GoToSleep(p)
    /\ UNCHANGED <<raw, can, delct, inode, sig, Keyboard>>

\* Woken: Sleep looks for a signal, and Canon looks again, now with
\* interrupts open, for Sleep has opened them.
CanonAgain(p) ==
    /\ u[p].pc = "woken" /\ cpu = NoProc
    /\ \/ p \in sig /\ Abort(p)
       \/ /\ p \notin sig
          /\ u' = [u EXCEPT ![p].pc = IF delct # 0 THEN "take" ELSE "sleepset", ![p].work = <<>>]
          /\ cpu' = p
          /\ UNCHANGED hist
    /\ UNCHANGED <<raw, can, delct, inode, sig, Keyboard>>

CanonSleep(p) ==
    /\ At(p, "sleepset")
    /\ GoToSleep(p)
    /\ UNCHANGED <<raw, can, delct, inode, sig, Keyboard>>

\* Canon's loop: GetChar finds nothing, or reads the character and m_Tail.
TakeRead(p) ==
    /\ At(p, "take")
    /\ u' = IF CharNum(raw) = 0 THEN Pc(p, "put")
            ELSE [u EXCEPT ![p].pc = "takenext", ![p].ch = raw.buf[raw.tail],
                           ![p].at = raw.tail]
    /\ UNCHANGED <<raw, can, delct, inode, cpu, sig, Keyboard, hist>>

\* What one character does to Canonb; "\\" protects from erase, kill and CEOT.
Canonize(work, c) ==
    IF work # <<>> /\ Last(work) = "\\" THEN Append(work, c)
    ELSE CASE c = "bs"   -> IF work = <<>> THEN work ELSE Front(work)
           [] c = "kill" -> <<>>
           [] c = "eot"  -> work
           [] OTHER      -> Append(work, c)

\* m_Tail becomes what was loaded plus 1; the load came before the last
\* interrupt or after it.
TakeNext(p) ==
    /\ At(p, "takenext")
    /\ \E t \in {u[p].at, raw.tail} : raw' = [raw EXCEPT !.tail = Mod(t + 1)]
    /\ LET work == Canonize(u[p].work, u[p].ch)
           full == u[p].ch # "bell" /\ Len(work) = MaxLine
       IN  /\ u' = IF u[p].ch = "bell" THEN [u EXCEPT ![p].pc = "delct"]
                   ELSE [u EXCEPT ![p].work = work, ![p].pc = IF full THEN "put" ELSE "take"]
           /\ hist' = [hist EXCEPT !.split = @ \/ full]
    /\ UNCHANGED <<can, delct, inode, cpu, sig, Keyboard>>

\* t_delct-- in two steps.
DelctLoad(p) ==
    /\ At(p, "delct")
    /\ u' = [u EXCEPT ![p].pc = "delctstore", ![p].num = delct]
    /\ UNCHANGED <<raw, can, delct, inode, cpu, sig, Keyboard, hist>>

DelctStore(p) ==
    /\ At(p, "delctstore")
    /\ delct' = u[p].num - 1
    /\ hist' = [hist EXCEPT !.missed = @ \/ delct # u[p].num]
    /\ u' = Pc(p, "put")
    /\ UNCHANGED <<raw, can, inode, cpu, sig, Keyboard>>

\* Mutant: from the end of Canonb.
PutBackwards(p) ==
    /\ At(p, "put")
    /\ IF u[p].work = <<>> THEN can' = can /\ u' = Pc(p, "pass") /\ hist' = hist
       ELSE /\ can' = PutChar(can, Last(u[p].work))
            /\ u' = [u EXCEPT ![p].work = Front(@)]
            /\ hist' = [hist EXCEPT !.full = @ \/ CharNum(can) + 1 >= Size]
    /\ UNCHANGED <<raw, delct, inode, cpu, sig, Keyboard>>

\* The cooked characters go to t_canq, one by one.
PutCooked(p) ==
    /\ At(p, "put")
    /\ IF u[p].work = <<>> THEN can' = can /\ u' = Pc(p, "pass") /\ hist' = hist
       ELSE /\ can' = PutChar(can, Head(u[p].work))
            /\ u' = [u EXCEPT ![p].work = Tail(@)]
            /\ hist' = [hist EXCEPT !.full = @ \/ CharNum(can) + 1 >= Size]
    /\ UNCHANGED <<raw, delct, inode, cpu, sig, Keyboard>>

\* TTRead's loop: CharNum, GetChar and PassC.  With m_Count at 0 the
\* character is taken all the same, and is nobody's.
PassRead(p) ==
    /\ At(p, "pass")
    /\ u' = IF CharNum(can) = 0 THEN Pc(p, "nfrele")
            ELSE [u EXCEPT ![p].pc = "passnext", ![p].ch = can.buf[can.tail],
                           ![p].at = can.tail]
    /\ UNCHANGED <<raw, can, delct, inode, cpu, sig, Keyboard, hist>>

PassNext(p) ==
    /\ At(p, "passnext")
    /\ \E t \in {u[p].at, can.tail} : can' = [can EXCEPT !.tail = Mod(t + 1)]
    /\ u' = IF u[p].count > 0 THEN [u EXCEPT ![p].pc = "pass", ![p].count = @ - 1]
            ELSE Pc(p, "nfrele")
    /\ hist' = [hist EXCEPT !.taken = Append(@, u[p].ch)]
    /\ UNCHANGED <<raw, delct, inode, cpu, sig, Keyboard>>

\* Mutant: the lock goes, the waiters are not woken.
NFreleSilent(p) ==
    /\ At(p, "nfrele")
    /\ inode' = [inode EXCEPT !.lock = FALSE]
    /\ u' = Pc(p, "user")
    /\ cpu' = NoProc
    /\ UNCHANGED <<raw, can, delct, sig, Keyboard, hist>>

\* NFrele, and the end of the call.
NFrele(p) ==
    /\ At(p, "nfrele")
    /\ inode' = Unlocked
    /\ u' = [Release(u) EXCEPT ![p].pc = "user"]
    /\ cpu' = NoProc
    /\ UNCHANGED <<raw, can, delct, sig, Keyboard, hist>>

\* write on the terminal: it never sleeps with the lock, so seen from others it
\* is over at once, or waits.
Write(p) ==
    /\ Enter(p) \/ (u[p].pc = "write" /\ cpu = NoProc)
    /\ IF inode.lock THEN inode' = [inode EXCEPT !.want = TRUE] /\ u' = Pc(p, "writewait")
       ELSE inode' = inode /\ u' = Pc(p, "user")
    /\ UNCHANGED <<raw, can, delct, cpu, sig, Keyboard, hist>>

\* close of a file that no other process has, or the end of its process: IPut
\* of the inode, which others have too, ends with Prele.
Put(p, l) ==
    /\ u[p].own
    /\ inode' = Unlocked
    /\ u' = [Release(u) EXCEPT ![p].pc = l, ![p].own = FALSE]
    /\ hist' = [hist EXCEPT !.broken = @ \/ inode.lock]
    /\ UNCHANGED <<raw, can, delct, cpu, sig, Keyboard>>

Close(p) == Enter(p) /\ Put(p, "user")

\* A process ends, by a signal or because it wants to.
Exit(p) ==
    /\ cpu = NoProc
    /\ u[p].pc = "dying" \/ (u[p].pc = "user" /\ p # Shell)
    /\ \/ Put(p, "dead")
       \/ /\ ~u[p].own
          /\ u' = Pc(p, "dead")
          /\ UNCHANGED <<raw, can, delct, inode, cpu, sig, Keyboard, hist>>
-----------------------------------------------------------------------------
(* The keyboard's interrupt.                                               *)

\* Interrupts are closed from Canon's CLI to the sleep.
Open == \A p \in Procs : ~At(p, "canon")

\* Ctrl-C: FlushTTy empties the rings, SIGINT to everybody but the shell.
FlushTTy ==
    /\ raw' = Drain(raw) /\ can' = Drain(can)
    /\ delct' = 0
    /\ sig' = {p \in Procs : u[p].pc # "dead"} \ {Shell}
    /\ u' = [p \in Procs |-> IF p # Shell /\ u[p].pc = "sleep"
                              THEN [u[p] EXCEPT !.pc = "woken"] ELSE u[p]]
    /\ hist' = [hist EXCEPT !.flushed = TRUE]

TTyInput(c) ==
    LET line == c \in {"nl", "eot"}
        put  == PutChar(raw, c)
    IN  /\ raw' = IF line THEN PutChar(put, "bell") ELSE put
        /\ delct' = IF line THEN delct + 1 ELSE delct
        /\ u' = IF line THEN Wake(u, "sleep", "woken") ELSE u
        /\ hist' = [hist EXCEPT !.typed = @ \o (IF line THEN <<c, "bell">> ELSE <<c>>),
                                !.full = @ \/ CharNum(raw) + (IF line THEN 2 ELSE 1) >= Size,
                                !.bells = IF c = "bell" THEN @ + 1 ELSE @]
        /\ UNCHANGED <<can, sig>>

\* A key goes down or up, and the handler reads the codes it sent.  They may come
\* in several interrupts; as none of them but one has a character, and no
\* process looks at Mode, that is the same.
KeyboardHandler(k, up) ==
    LET end == HandleCodes([pre |-> kb.pre, mode |-> kb.mode, ch |-> "nul"], Codes(k, up))
    IN  /\ Open
        /\ kb' = [pre |-> end.pre, mode |-> end.mode]
        /\ CASE end.ch = "nul"  -> UNCHANGED <<raw, can, delct, u, sig, hist>>
             [] end.ch = "intr" -> FlushTTy
             [] OTHER           -> TTyInput(end.ch)
        /\ UNCHANGED <<inode, cpu>>

Press(k) ==
    /\ k \notin held /\ keys < MaxKeys
    /\ KeyboardHandler(k, FALSE)
    /\ held' = IF k \in Holds \cup Toggles \cup {"rctrl"} THEN held \cup {k} ELSE held
    /\ keys' = keys + 1

\* The codes of a letter that is released change nothing and are left out.
Lift(k) ==
    /\ k \in held
    /\ KeyboardHandler(k, TRUE)
    /\ held' = held \ {k}
    /\ keys' = keys
-----------------------------------------------------------------------------
Step(p) ==
    \/ NFlockWait(p) \/ NFlock(p) \/ CanonTest(p) \/ CanonAgain(p) \/ CanonSleep(p)
    \/ TakeRead(p) \/ TakeNext(p) \/ DelctLoad(p) \/ DelctStore(p) \/ PutCooked(p)
    \/ PassRead(p) \/ PassNext(p) \/ NFrele(p)

Next ==
    \/ \E p \in Procs : Read(p) \/ Step(p) \/ Write(p) \/ Close(p) \/ Exit(p)
    \/ \E k \in Keys : Press(k) \/ Lift(k)

Spec == Init /\ [][Next]_vars
-----------------------------------------------------------------------------
(* Properties.                                                             *)

Inside  == {p \in Procs : u[p].pc \in
              {"canon", "sleep", "woken", "sleepset", "take", "takenext", "delct", "delctstore",
               "put", "pass", "passnext", "nfrele"}}
Waiting == {p \in Procs : u[p].pc \in {"lockwait", "writewait"}}

Chars   == {"x", "nl", "bs", "kill", "eot", "bell", "\\", "pause", "nul"}
TypeOK ==
    /\ \A q \in {raw, can} : /\ q.buf \in [0 .. Size - 1 -> Chars]
                            /\ {q.head, q.tail} \subseteq 0 .. Size - 1
    /\ delct \in Int
    /\ inode \in [lock : BOOLEAN, want : BOOLEAN]
    /\ \A p \in Procs : /\ u[p].pc \in {"user", "nflock", "lockwait", "writewait", "write",
                                          "dying", "dead"} \/ p \in Inside
                       /\ u[p].count \in 0 .. u[p].want
                       /\ Len(u[p].work) <= MaxLine
    /\ cpu \in Procs \cup {NoProc}
    /\ sig \subseteq Procs \ {Shell}
    /\ kb.pre \in {"0", "E0", "E1", "100"}

\* t_delct never counts more delimiters than there are, though Canon counts
\* down with interrupts open: whoever passes the wait finds a whole line.  It
\* counts fewer by those that Ctrl-G typed, and when an interrupt fell into
\* the two steps of t_delct-- (Ctrl-C and an overfull ring aside).
Pending == Delimiters(Content(raw)) +
           Cardinality({p \in Procs : u[p].pc \in {"delct", "delctstore"}})
CountSound ==
    ~hist.full /\ ~hist.flushed =>
        /\ delct \in 0 .. Pending
        /\ hist.missed \/ Pending = delct + hist.bells

\* The characters read, those that wait in the rings and the one lost when a
\* read wants fewer than the line has, are the typed lines, canonized, in
\* order: nothing else is lost or doubled while interrupt and process work on
\* the rings (Ctrl-C and an overfull ring aside), and the count is sound.
CookChar(acc, c) ==
    LET work == Canonize(acc.work, c)
    IN  IF c = "bell" THEN [out |-> acc.out \o acc.work, work |-> <<>>]
        ELSE IF Len(work) = MaxLine THEN [out |-> acc.out \o work, work |-> <<>>]
        ELSE [out |-> acc.out, work |-> work]
\* What comes of the first i characters of s, with work in Canonb before them
Cooking(work, s) ==
    LET upTo[i \in 0 .. Len(s)] ==
          IF i = 0 THEN [out |-> <<>>, work |-> work] ELSE CookChar(upTo[i - 1], s[i])
    IN  upTo
Cooked(work, s) ==
    LET end == Cooking(work, s)[Len(s)] IN end.out \o end.work
InHand ==
    IF cpu = NoProc THEN Cooked(<<>>, Content(raw))
    ELSE IF u[cpu].pc \in {"take", "takenext"} THEN Cooked(u[cpu].work, Content(raw))
    ELSE IF u[cpu].pc \in {"delct", "delctstore", "put"}
         THEN u[cpu].work \o Cooked(<<>>, Content(raw))
    ELSE Cooked(<<>>, Content(raw))
InputConserved ==
    CountSound /\ (~hist.full /\ ~hist.flushed =>
        hist.taken \o Content(can) \o InHand = Cooked(<<>>, hist.typed))

\* A read returns nothing, which programs take for the end of file, only when
\* somebody typed CEOT (or Ctrl-G, which ends a line too), no line was too
\* long for Canonb, and Ctrl-C or an overfull ring did not empty the line.
Typed(c) == \E i \in DOMAIN hist.typed : hist.typed[i] = c
NoFalseEnd ==
    [][\A p \in Procs :
         u[p].pc = "nfrele" /\ u'[p].pc = "user" /\ u[p].count = u[p].want
           => Typed("eot") \/ hist.bells > 0 \/ hist.split \/ hist.flushed \/ hist.full]_vars

\* Nobody sleeps for a line while one is counted, though the look at t_delct
\* and the sleep are apart on Canon's second turn: it takes Ctrl-C, or two
\* readers inside, to send a reader round the loop.
NoMissedWake ==
    \A p \in Procs : u[p].pc = "sleep" => delct = 0 \/ hist.flushed \/ hist.broken

\* The state has its types, and one process at a time is in the driver, and whoever waits for the inode waits
\* for somebody inside; that ends when a close puts the inode, for IPut
\* unlocks it, and when a signal takes a reader out of Canon with the lock.
OneInside ==
    ~hist.broken =>
        /\ Cardinality(Inside) <= 1
        /\ Inside # {} => inode.lock
        /\ inode.lock /\ ~hist.aborted => Inside # {}
        /\ Waiting # {} => inode.lock /\ inode.want
LockHeld == TypeOK /\ OneInside
=============================================================================
