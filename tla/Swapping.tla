------------------------------ MODULE Swapping ------------------------------
(***************************************************************************)
(* Where process images live: the first-fit map of memory and of the swap  *)
(* area (Allocator), shared texts (Text), images that grow, move and are   *)
(* swapped out (Process::Expand, XSwap, NewProc), Sched that brings them   *)
(* back, the one swap buffer they share (BufferManager::Swap), and fork,   *)
(* exec, brk, the growing stack, exit and wait as far as they move images. *)
(*                                                                         *)
(* Sizes and image addresses are in half pages, so that a size need not be *)
(* a multiple of a page; the map of memory counts pages, the map of the    *)
(* swap area half pages (the code: blocks of 512 bytes).  The kernel gives *)
(* the processor away only in Sleep and Swtch: a step of an actor (Sched   *)
(* is 0) ends where it may sleep.  Priorities and p_time are abstracted:   *)
(* any candidate may be the next.                                          *)
(*                                                                         *)
(* In eight situations the code goes on with memory or an address that is  *)
(* not what it takes it for, in one it panics.  fault names the first of   *)
(* them and the model stops there: what happens after is arbitrary.        *)
(***************************************************************************)
EXTENDS Integers, SequencesExt, FiniteSetsExt

CONSTANTS N,            \* slots of process[], slot 0 (Sched) not counted
          NText,        \* ProcessManager::NTEXT
          Files,        \* programs that can be executed
          NoFile,       \* x_iptr == NULL
          TextOf, DataOf,   \* text and data size of each program
          MemPages,     \* pages 1..MemPages are the user page pool
          SwapBlocks,   \* blocks 1..SwapBlocks are the swap area
          Space,        \* USER_SPACE_SIZE: the limit of data and stack
          Breaks,       \* the data sizes brk is called with
          MaxOps        \* bound: fork, exec, brk, stack growth, exit

ASSUME SwappingAssumption ==
    /\ {N, NText, MemPages, SwapBlocks, Space} \subseteq Nat \ {0}
    /\ NoFile \notin Files
    /\ TextOf \in [Files -> Nat \ {0}] /\ DataOf \in [Files -> Nat]
    /\ Breaks \subseteq Nat /\ MaxOps \in Nat

Slots == 1..N
Sched == 0
Texts == 1..NText
NoText == 0
USIZE == 2
StackSize == 2
Faults == {"none", "panic", "nocore", "textless", "stale", "early",
           "unaligned", "astray", "reused", "victim"}

VARIABLES mmap, smap,   \* PageManager::map, SwapperManager::map
          proc, text,   \* process[], text[]
          swb,          \* SwBuf: owner (B_BUSY), wanted, done
          tx,           \* per actor: its place in Swap
          sleepers,     \* actors asleep on &SwBuf
          sch,          \* Sched: where it is, pSelected, desAddress
          runout,       \* RunOut
          fault, ops

vars == <<mmap, smap, proc, text, swb, tx, sleepers, sch, runout, fault, ops>>

-----------------------------------------------------------------------------
(* Allocator: a sequence of free nodes [a, n] in the order of addresses.   *)

\* First fit; 0 when nothing fits.
Alloc(map, n) ==
    LET fit == {i \in DOMAIN map : map[i].n >= n}
        i   == Min(fit)
    IN  IF fit = {} THEN [at |-> 0, map |-> map]
        ELSE [at  |-> map[i].a,
              map |-> IF map[i].n = n THEN RemoveAt(map, i)
                      ELSE [map EXCEPT ![i] = [a |-> @.a + n, n |-> @.n - n]]]

Free(map, n, a) ==
    LET i     == 1 + Cardinality({j \in DOMAIN map : map[j].a <= a})
        left  == i > 1 /\ map[i - 1].a + map[i - 1].n = a
        right == i <= Len(map) /\ a + n = map[i].a
    IN  CASE left /\ right ->
               RemoveAt([map EXCEPT ![i - 1].n = @ + n + map[i].n], i)
          [] left /\ ~right -> [map EXCEPT ![i - 1].n = @ + n]
          [] ~left /\ right -> [map EXCEPT ![i] = [a |-> a, n |-> @.n + n]]
          [] ~left /\ ~right /\ n > 0 -> InsertAt(map, i, [a |-> a, n |-> n])
          [] OTHER -> map

Pages(size) == (size + 1) \div 2

\* AllocMemory and FreeMemory round sizes up and addresses down to pages.
AllocMemory(map, size) ==
    LET r == Alloc(map, Pages(size)) IN [at |-> 2 * r.at, map |-> r.map]
FreeMemory(map, size, at) == Free(map, Pages(size), at \div 2)

-----------------------------------------------------------------------------
(* Texts.  The table and the two maps a reference is dropped from.         *)

\* XccDec: the last loaded process takes the text out of memory.
XccDec(t, txt, mm) ==
    IF t = NoText \/ txt[t].ccount = 0 THEN [txt |-> txt, mm |-> mm]
    ELSE [txt |-> [txt EXCEPT ![t].ccount = @ - 1, ![t].good = @ /\ txt[t].ccount > 1],
          mm  |-> IF txt[t].ccount > 1 THEN mm
                  ELSE FreeMemory(mm, TextOf[txt[t].file], txt[t].caddr)]

FreeText == [file |-> NoFile, count |-> 0, ccount |-> 0, caddr |-> 0,
             daddr |-> 0, good |-> FALSE, saved |-> FALSE]

\* Mutant: the reference to the text in memory is not given up.
XFreeKeepsCore(t, txt, mm, sm) ==
    LET last == t # NoText /\ txt[t].count = 1
    IN  [mm  |-> mm,
         txt |-> CASE t = NoText -> txt
                   [] last -> [txt EXCEPT ![t] = FreeText]
                   [] OTHER -> [txt EXCEPT ![t].count = @ - 1],
         sm  |-> IF last THEN Free(sm, TextOf[txt[t].file], txt[t].daddr) ELSE sm]

\* XFree: the last user gives up the copy on the swap area, too.
XFree(t, txt, mm, sm) ==
    LET d    == XccDec(t, txt, mm)
        last == t # NoText /\ txt[t].count = 1
    IN  [mm  |-> d.mm,
         txt |-> CASE t = NoText -> txt
                   [] last -> [d.txt EXCEPT ![t] = FreeText]
                   [] OTHER -> [d.txt EXCEPT ![t].count = @ - 1],
         sm  |-> IF last THEN Free(sm, TextOf[txt[t].file], txt[t].daddr) ELSE sm]

-----------------------------------------------------------------------------
(* The swap buffer                                                         *)

\* Enter Swap: take the buffer, or ask for it and sleep.
SwapBegin(q) ==
    IF swb.owner = -1
    THEN /\ swb' = [owner |-> q, wanted |-> FALSE, done |-> FALSE]
         /\ tx' = [tx EXCEPT ![q] = "go"]
         /\ sleepers' = sleepers \cup {q}
    ELSE /\ swb' = [swb EXCEPT !.wanted = TRUE]
         /\ tx' = [tx EXCEPT ![q] = "want"]
         /\ sleepers' = sleepers \cup {q}

\* Leave Swap: wake those who asked.
SwapEnd(q) ==
    /\ tx[q] = "go" /\ q \notin sleepers
    /\ swb' = [owner |-> -1, wanted |-> FALSE, done |-> FALSE]
    /\ tx' = [tx EXCEPT ![q] = "no"]
    /\ sleepers' = IF swb.wanted THEN {} ELSE sleepers

NoSwap == UNCHANGED <<swb, tx, sleepers>>

\* A woken actor tests B_BUSY again.
SwapRetry(q) ==
    /\ fault = "none" /\ tx[q] = "want" /\ q \notin sleepers
    /\ SwapBegin(q)
    /\ UNCHANGED <<mmap, smap, proc, text, sch, runout, fault, ops>>

\* IODone on SwBuf wakes its owner and whoever else sleeps on it.
SwapIODone ==
    /\ fault = "none" /\ swb.owner # -1 /\ ~swb.done
    /\ swb' = [swb EXCEPT !.done = TRUE, !.wanted = FALSE]
    /\ sleepers' = {}
    /\ UNCHANGED <<mmap, smap, proc, text, tx, sch, runout, fault, ops>>

-----------------------------------------------------------------------------
(* Images                                                                  *)

\* Clones, reaps and exits reset a slot to this.
FreeSlot == [stat |-> "null", load |-> FALSE, lock |-> FALSE, addr |-> 0,
             size |-> 0, data |-> 0, stack |-> 0, par |-> 0, text |-> NoText,
             pc |-> "none", blk |-> 0, held |-> 0, kid |-> 0]

\* Select can pick p, and it goes on at pc.
Runs(p, pc) ==
    /\ fault = "none" /\ tx[p] = "no"
    /\ proc[p].stat = "run" /\ proc[p].load /\ proc[p].pc = pc

Call(p) == Runs(p, "user") /\ ops < MaxOps /\ ops' = ops + 1

Happen(f) ==
    /\ fault' = f
    /\ UNCHANGED <<mmap, smap, proc, text, swb, tx, sleepers, sch, runout>>

\* The first half of XSwap: actor q writes its image of `held` half pages to
\* new blocks for its whole size.  pr, txt, mm, sm are the tables so far.
XSwapBegin(q, pr, txt, mm, sm) ==
    LET b == Alloc(sm, pr[q].size)
        d == XccDec(pr[q].text, txt, mm)
    IN  IF b.at = 0 THEN Happen("panic")
        ELSE /\ proc' = [pr EXCEPT ![q].lock = TRUE, ![q].blk = b.at]
             /\ text' = d.txt /\ mmap' = d.mm /\ smap' = b.map
             /\ SwapBegin(q)
             /\ UNCHANGED <<sch, runout, fault>>

\* Mutant: Sched is not told.
XSwapEndSilent(q, pr, mm) ==
    /\ proc' = [pr EXCEPT ![q].addr = pr[q].blk, ![q].blk = 0, ![q].held = 0,
                          ![q].load = FALSE, ![q].lock = FALSE]
    /\ mmap' = mm
    /\ UNCHANGED <<sch, runout>>

\* The second half, after the transfer: p_addr is a block now; Sched is
\* woken when it waits for somebody to bring in.
XSwapEnd(q, pr, mm) ==
    /\ proc' = [pr EXCEPT ![q].addr = pr[q].blk, ![q].blk = 0, ![q].held = 0,
                          ![q].load = FALSE, ![q].lock = FALSE]
    /\ mmap' = mm
    /\ runout' = FALSE
    /\ sch' = IF runout THEN [sch EXCEPT !.pc = "loop"] ELSE sch

\* Expand p to size n, on the way to pc: shrink, move, or leave memory.
Expand(p, n, pr, txt, mm, sm) ==
    LET old == pr[p]
        a   == AllocMemory(mm, n)
        new == [pr EXCEPT ![p].size = n, ![p].held = n]
    IN  CASE old.size >= n ->
               /\ proc' = new
               /\ mmap' = FreeMemory(mm, old.size - n, old.addr + n)
               /\ text' = txt /\ smap' = sm
               /\ NoSwap /\ UNCHANGED <<sch, runout, fault>>
          [] old.size < n /\ a.at # 0 ->
               /\ proc' = [new EXCEPT ![p].addr = a.at]
               /\ mmap' = FreeMemory(a.map, old.size, old.addr)
               /\ text' = txt /\ smap' = sm
               /\ NoSwap /\ UNCHANGED <<sch, runout, fault>>
          [] OTHER -> XSwapBegin(p, [pr EXCEPT ![p].size = n], txt, mm, sm)

\* Mutant: memory is given back by the new size, not by what was held.
ExpandSwappedNewSize(p) ==
    /\ fault = "none" /\ proc[p].lock /\ proc[p].pc \in {"user", "fill", "join"}
    /\ SwapEnd(p)
    /\ XSwapEnd(p, proc, FreeMemory(mmap, proc[p].size, proc[p].addr))
    /\ UNCHANGED <<smap, text, fault, ops>>

\* The image p wrote in Expand is out; it goes on when Sched brings it back.
ExpandSwapped(p) ==
    /\ fault = "none" /\ proc[p].lock /\ proc[p].pc \in {"user", "fill", "join"}
    /\ SwapEnd(p)
    /\ XSwapEnd(p, proc, FreeMemory(mmap, proc[p].held, proc[p].addr))
    /\ UNCHANGED <<smap, text, fault, ops>>

-----------------------------------------------------------------------------
(* System calls                                                            *)

ImageSize(data, stack) == USIZE + data + stack

\* EstablishUserPageTable's limit
Fits(t, data, stack) ==
    (IF t = NoText THEN 0 ELSE TextOf[text[t].file]) + data + stack + 2 <= Space

\* Process::Clone: what a child has from its parent.
Clone(p) == [FreeSlot EXCEPT
    !.stat = "run", !.load = TRUE, !.size = proc[p].size, !.data = proc[p].data,
    !.stack = proc[p].stack, !.par = p, !.text = proc[p].text]

\* NewProc: a copy in memory, or one on the swap area made
\* from the parent's own image while the parent stands idle (SIDL).
Fork(p) ==
    LET free == {c \in Slots : proc[c].stat = "null"}
        c    == Min(free)
        a    == AllocMemory(mmap, proc[p].size)
        txt  == IF proc[p].text = NoText THEN text
                ELSE [text EXCEPT ![proc[p].text].count = @ + 1,
                                  ![proc[p].text].ccount = @ + 1]
    IN  /\ Call(p) /\ free # {}
        /\ IF a.at # 0
           THEN /\ proc' = [proc EXCEPT ![c] = [Clone(p) EXCEPT
                                !.addr = a.at, !.pc = "user", !.held = proc[p].size]]
                /\ mmap' = a.map /\ text' = txt
                /\ NoSwap /\ UNCHANGED <<smap, sch, runout, fault>>
           ELSE XSwapBegin(c, [proc EXCEPT ![p].stat = "idl", ![c] =
                                 [Clone(p) EXCEPT !.addr = proc[p].addr, !.pc = "born"]],
                           txt, mmap, smap)

ForkSwapped(c) ==
    /\ fault = "none" /\ proc[c].pc = "born"
    /\ SwapEnd(c)
    /\ XSwapEnd(c, [proc EXCEPT ![c].pc = "user", ![proc[c].par].stat = "run"], mmap)
    /\ UNCHANGED <<smap, text, fault, ops>>

\* SBreak: the data end anywhere; the stack is copied as if image and page
\* table agreed, which they do when the data are whole pages.
Brk(p, d) ==
    /\ Call(p) /\ d # proc[p].data /\ Fits(proc[p].text, d, proc[p].stack)
    /\ IF d % 2 = 1 \/ proc[p].data % 2 = 1 THEN Happen("astray")
       ELSE Expand(p, ImageSize(d, proc[p].stack),
                   [proc EXCEPT ![p].data = d], text, mmap, smap)

\* SStack: one page more; too large a stack is left as it is.
GrowStack(p) ==
    LET s == proc[p].stack + 2
    IN  /\ Call(p) /\ Fits(proc[p].text, proc[p].data, s)
        /\ IF proc[p].data % 2 = 1 THEN Happen("astray")
           ELSE Expand(p, ImageSize(proc[p].data, s),
                       [proc EXCEPT ![p].stack = s], text, mmap, smap)

\* Exec: give up the old text and image, find or make the text, grow.
Exec(p, f) ==
    LET x     == XFree(proc[p].text, text, mmap, smap)
        mm    == FreeMemory(x.mm, proc[p].size - USIZE, proc[p].addr + USIZE)
        same  == {t \in Texts : x.txt[t].file = f}
        free  == {t \in Texts : x.txt[t].file = NoFile}
        t     == Min(IF same # {} THEN same ELSE free)
        core  == AllocMemory(mm, TextOf[f])
        copy  == Alloc(x.sm, TextOf[f])
        made  == [FreeText EXCEPT !.file = f, !.count = 1, !.ccount = 1,
                                  !.caddr = core.at, !.daddr = copy.at]
        image(pc) == [proc EXCEPT ![p].data = DataOf[f], ![p].stack = StackSize,
                                  ![p].text = t, ![p].pc = pc,
                                  ![p].size = USIZE, ![p].held = USIZE]
        size  == ImageSize(DataOf[f], StackSize)
    IN  /\ Call(p) /\ TextOf[f] + size <= Space
        /\ CASE same = {} /\ free = {} -> Happen("textless")
             [] same # {} /\ x.txt[t].ccount = 0 -> Happen("stale")
             [] same # {} /\ x.txt[t].ccount > 0 ->
                  Expand(p, size, image("join"),
                         [x.txt EXCEPT ![t].count = @ + 1, ![t].ccount = @ + 1], mm, x.sm)
             [] same = {} /\ free # {} /\ 0 \in {core.at, copy.at} -> Happen("nocore")
             [] OTHER -> Expand(p, size, image("fill"), [x.txt EXCEPT ![t] = made],
                                core.map, copy.map)

\* PEParser::Relocate, Parser::relocate: read the text unless it is shared,
\* and the data; the first user then writes the text's copy, locked.
Fill(p) ==
    /\ Runs(p, "fill")
    /\ text' = [text EXCEPT ![proc[p].text].good = TRUE]
    /\ proc' = [proc EXCEPT ![p].lock = TRUE, ![p].pc = "textout"]
    /\ SwapBegin(p)
    /\ UNCHANGED <<mmap, smap, sch, runout, fault, ops>>

TextSaved(p) ==
    /\ fault = "none" /\ proc[p].pc = "textout"
    /\ SwapEnd(p)
    /\ text' = [text EXCEPT ![proc[p].text].saved = TRUE]
    /\ proc' = [proc EXCEPT ![p].lock = FALSE, ![p].pc = "user"]
    /\ UNCHANGED <<mmap, smap, sch, runout, fault, ops>>

Join(p) ==
    /\ Runs(p, "join") /\ ops' = ops
    /\ IF ~text[proc[p].text].good THEN Happen("early")
       ELSE /\ proc' = [proc EXCEPT ![p].pc = "user"]
            /\ NoSwap /\ UNCHANGED <<mmap, smap, text, sch, runout, fault>>

\* Exit: drop the text, write u to a block of the swap area; after the
\* write give up the image and tell the parent.  Slot 1 never exits.
Exit(p) ==
    LET x == XFree(proc[p].text, text, mmap, smap)
        b == Alloc(x.sm, 1)
    IN  /\ Call(p) /\ p # 1
        /\ IF b.at = 0 THEN Happen("panic")
           ELSE /\ proc' = [proc EXCEPT ![p].text = NoText, ![p].pc = "dying", ![p].blk = b.at]
                /\ text' = x.txt /\ mmap' = x.mm /\ smap' = b.map
                /\ NoSwap /\ UNCHANGED <<sch, runout, fault>>

Die(p) ==
    /\ Runs(p, "dying")
    /\ mmap' = FreeMemory(mmap, proc[p].size, proc[p].addr)
    /\ proc' = [c \in Slots |->
          CASE c = p -> [proc[p] EXCEPT !.stat = "zomb", !.addr = proc[p].blk, !.pc = "none",
                                        !.blk = 0, !.held = 0]
            [] c # p /\ c = proc[p].par /\ proc[c].stat = "wait" ->
                  [proc[c] EXCEPT !.stat = "run"]
            [] c # p /\ proc[c].par = p -> [proc[c] EXCEPT !.par = 1]
            [] OTHER -> proc[c]]
    /\ NoSwap /\ UNCHANGED <<smap, text, sch, runout, fault, ops>>

\* Wait: sleep (and wake a Sched that wants room), or empty the slot of a
\* dead child and read its block - and only then give the block back, from
\* what the slot holds by then.
Wait(p) ==
    LET kids == {c \in Slots : proc[c].stat # "null" /\ proc[c].par = p}
    IN  /\ Runs(p, "user") /\ kids # {}
        /\ \A c \in kids : proc[c].stat # "zomb"
        /\ proc' = [proc EXCEPT ![p].stat = "wait"]
        /\ sch' = IF sch.pc = "in" THEN [sch EXCEPT !.pc = "loop"] ELSE sch
        /\ NoSwap /\ UNCHANGED <<mmap, smap, text, runout, fault, ops>>

Reap(p) ==
    LET dead == {c \in Slots : proc[c].stat = "zomb" /\ proc[c].par = p}
        c    == Min(dead)
    IN  /\ Runs(p, "user") /\ dead # {}
        /\ proc' = [proc EXCEPT ![c] = [FreeSlot EXCEPT !.addr = proc[c].addr],
                                ![p].pc = "reap", ![p].kid = c, ![p].blk = proc[c].addr]
        /\ NoSwap /\ UNCHANGED <<mmap, smap, text, sch, runout, fault, ops>>

Reaped(p) ==
    /\ Runs(p, "reap") /\ ops' = ops
    /\ IF proc[proc[p].kid].addr # proc[p].blk THEN Happen("reused")
       ELSE /\ smap' = Free(smap, 1, proc[proc[p].kid].addr)
            /\ proc' = [proc EXCEPT ![p].pc = "user", ![p].kid = 0, ![p].blk = 0]
            /\ NoSwap /\ UNCHANGED <<mmap, text, sch, runout, fault>>

-----------------------------------------------------------------------------
(* Sched                                                                   *)

Candidates == {p \in Slots : proc[p].stat = "run" /\ ~proc[p].load}
Victims == {p \in Slots : proc[p].load /\ ~proc[p].lock /\ proc[p].stat = "wait"}

SchedSleeps ==
    /\ fault = "none" /\ sch.pc = "loop" /\ Candidates = {}
    /\ runout' = TRUE
    /\ sch' = [sch EXCEPT !.pc = "out"]
    /\ NoSwap /\ UNCHANGED <<mmap, smap, proc, text, fault, ops>>

\* The text is read first when nobody has it in memory.
SchedIn(c) ==
    LET t   == proc[c].text
        out == t # NoText /\ text[t].ccount = 0
        a   == AllocMemory(mmap, proc[c].size + IF out THEN TextOf[text[t].file] ELSE 0)
    IN  /\ fault = "none" /\ sch.pc = "loop" /\ c \in Candidates /\ a.at # 0
        /\ mmap' = a.map
        /\ sch' = [pc |-> IF out THEN "text" ELSE "data", sel |-> c, des |-> a.at]
        /\ text' = IF out \/ t = NoText THEN text ELSE [text EXCEPT ![t].ccount = @ + 1]
        /\ SwapBegin(Sched)
        /\ UNCHANGED <<smap, proc, runout, fault, ops>>

SchedTextIn ==
    LET t   == proc[sch.sel].text
        des == sch.des + TextOf[text[t].file]
    IN  /\ fault = "none" /\ sch.pc = "text" /\ tx[Sched] = "go" /\ Sched \notin sleepers
        /\ ops' = ops
        /\ IF des % 2 = 1 THEN Happen("unaligned")
           ELSE /\ text' = [text EXCEPT ![t].caddr = sch.des, ![t].ccount = @ + 1,
                                        ![t].good = text[t].saved]
                /\ sch' = [sch EXCEPT !.pc = "data", !.des = des]
                /\ swb' = [owner |-> Sched, wanted |-> FALSE, done |-> FALSE]
                /\ sleepers' = {Sched} \cup IF swb.wanted THEN {} ELSE sleepers
                /\ UNCHANGED <<mmap, smap, proc, tx, runout, fault>>

SchedDataIn ==
    LET c == sch.sel
    IN  /\ fault = "none" /\ sch.pc = "data"
        /\ SwapEnd(Sched)
        /\ smap' = Free(smap, proc[c].size, proc[c].addr)
        /\ proc' = [proc EXCEPT ![c].addr = sch.des, ![c].load = TRUE,
                                ![c].held = proc[c].size]
        /\ sch' = [pc |-> "loop", sel |-> 0, des |-> 0]
        /\ UNCHANGED <<mmap, text, runout, fault, ops>>

\* No room: with somebody in a low sleep Sched swaps out - pSelected, which
\* is already out; with nobody it sleeps on RunIn.
SchedNoRoom(c) ==
    LET t    == proc[c].text
        more == IF t # NoText /\ text[t].ccount = 0 THEN TextOf[text[t].file] ELSE 0
    IN  /\ fault = "none" /\ sch.pc = "loop" /\ c \in Candidates /\ ops' = ops
        /\ AllocMemory(mmap, proc[c].size + more).at = 0
        /\ IF Victims # {}
           THEN /\ fault' = "victim" /\ sch' = [sch EXCEPT !.sel = c]
                /\ NoSwap /\ UNCHANGED <<mmap, smap, proc, text, runout>>
           ELSE /\ sch' = [sch EXCEPT !.pc = "in"]
                /\ NoSwap /\ UNCHANGED <<mmap, smap, proc, text, runout, fault>>

\* The clock's wake-up of RunIn
Tick ==
    /\ fault = "none" /\ sch.pc = "in"
    /\ sch' = [sch EXCEPT !.pc = "loop"]
    /\ NoSwap /\ UNCHANGED <<mmap, smap, proc, text, runout, fault, ops>>

-----------------------------------------------------------------------------
\* The memory there is can hold the image that process 1 starts with.
ASSUME FirstImageFits ==
    /\ Pages(ImageSize(2, StackSize)) <= MemPages
    /\ ImageSize(2, StackSize) <= Space

\* Process 1 has been started with an image and no text.
Init ==
    LET size == ImageSize(2, StackSize)
        a    == AllocMemory(<<[a |-> 1, n |-> MemPages]>>, size)
    IN  /\ mmap = a.map
        /\ smap = <<[a |-> 1, n |-> SwapBlocks]>>
        /\ proc = [p \in Slots |->
              IF p # 1 THEN FreeSlot
              ELSE [FreeSlot EXCEPT !.stat = "run", !.load = TRUE, !.addr = a.at,
                                    !.size = size, !.held = size, !.data = 2,
                                    !.stack = StackSize, !.pc = "user"]]
        /\ text = [t \in Texts |-> FreeText]
        /\ swb = [owner |-> -1, wanted |-> FALSE, done |-> FALSE]
        /\ tx = [q \in 0..N |-> "no"] /\ sleepers = {}
        /\ sch = [pc |-> "loop", sel |-> 0, des |-> 0]
        /\ runout = FALSE /\ fault = "none" /\ ops = 0

Next ==
    \/ SwapIODone \/ SchedSleeps \/ SchedTextIn \/ SchedDataIn \/ Tick
    \/ \E q \in 0..N : SwapRetry(q)
    \/ \E p \in Slots :
          \/ Fork(p) \/ ForkSwapped(p) \/ ExpandSwapped(p)
          \/ GrowStack(p) \/ \E d \in Breaks : Brk(p, d)
          \/ \E f \in Files : Exec(p, f)
          \/ Fill(p) \/ TextSaved(p) \/ Join(p)
          \/ Exit(p) \/ Die(p) \/ Wait(p) \/ Reap(p) \/ Reaped(p)
          \/ SchedIn(p) \/ SchedNoRoom(p)

Spec == Init /\ [][Next]_vars

-----------------------------------------------------------------------------
Nodes(hi) == [a : 1..hi, n : 1..hi]
Halves == 0..(2 * (MemPages + 1) + SwapBlocks)
ProcStates == {"null", "run", "wait", "idl", "zomb"}
PCs == {"none", "user", "born", "fill", "join", "textout", "dying", "reap"}

\* The state's types.
TypeOK ==
    /\ mmap \in Seq(Nodes(MemPages)) /\ smap \in Seq(Nodes(SwapBlocks))
    /\ proc \in [Slots -> [stat : ProcStates, load : BOOLEAN, lock : BOOLEAN,
                           addr : Halves, size : 0..Space + USIZE, data : 0..Space,
                           stack : 0..Space, par : 0..N, text : 0..NText, pc : PCs,
                           blk : 0..SwapBlocks, held : 0..Space + USIZE, kid : 0..N]]
    /\ text \in [Texts -> [file : Files \cup {NoFile}, count : 0..N, ccount : 0..N,
                           caddr : Halves, daddr : 0..SwapBlocks,
                           good : BOOLEAN, saved : BOOLEAN]]
    /\ swb \in [owner : -1..N, wanted : BOOLEAN, done : BOOLEAN]
    /\ tx \in [0..N -> {"no", "want", "go"}] /\ sleepers \subseteq 0..N
    /\ sch \in [pc : {"loop", "out", "in", "text", "data"}, sel : 0..N, des : Halves]
    /\ runout \in BOOLEAN /\ fault \in Faults /\ ops \in 0..MaxOps
    /\ \A p \in Slots : proc[p].stat # "null" => proc[p].addr # 0
    /\ \A t \in Texts : text[t].file # NoFile => text[t].caddr # 0 /\ text[t].daddr # 0

\* Who holds what: extents [a, n] by holder.
Extents(S) == {e \in S : e.n > 0}
FreeOf(map) == {[who |-> <<"free", i>>, a |-> map[i].a, n |-> map[i].n] : i \in DOMAIN map}

Selected == IF sch.pc \in {"text", "data"} THEN {sch.sel} ELSE {}

MemoryHeld ==
    Extents(FreeOf(mmap)
      \cup {[who |-> <<"image", p>>, a |-> proc[p].addr \div 2, n |-> Pages(proc[p].held)]
               : p \in Slots}
      \cup {[who |-> <<"text", t>>, a |-> text[t].caddr \div 2, n |-> Pages(TextOf[text[t].file])]
               : t \in {u \in Texts : text[u].ccount > 0}}
      \cup {[who |-> <<"coming", c>>, a |-> sch.des \div 2,
              n |-> Pages(proc[c].size + IF sch.pc = "text"
                                         THEN TextOf[text[proc[c].text].file] ELSE 0)]
               : c \in Selected})

Swapped == {p \in Slots : proc[p].stat = "run" /\ ~proc[p].load}
Leaving == {p \in Slots : proc[p].lock /\ proc[p].pc # "textout"}

SwapHeld ==
    Extents(FreeOf(smap)
      \cup {[who |-> <<"image", p>>, a |-> proc[p].addr, n |-> proc[p].size] : p \in Swapped}
      \cup {[who |-> <<"going", p>>, a |-> proc[p].blk, n |-> proc[p].size] : p \in Leaving}
      \cup {[who |-> <<"u", p>>, a |-> proc[p].blk, n |-> 1]
               : p \in {q \in Slots : proc[q].pc \in {"dying", "reap"}}}
      \cup {[who |-> <<"dead", p>>, a |-> proc[p].addr, n |-> 1]
               : p \in {q \in Slots : proc[q].stat = "zomb"}}
      \cup {[who |-> <<"copy", t>>, a |-> text[t].daddr, n |-> TextOf[text[t].file]]
               : t \in {u \in Texts : text[u].count > 0}})

OneHolderEach(held, hi) ==
    \A x \in 1..hi : Cardinality({e \in held : e.a <= x /\ x < e.a + e.n}) = 1

Tidy(map) == \A i \in 1..Len(map) - 1 : map[i].a + map[i].n < map[i + 1].a

\* MapToPageTable, at every switch: the pages that p's page table shows -
\* text from x_caddr, data from the second page of the image, the stack
\* from the page after the data's last.
MapEntry(size, first) == first..(first + Pages(size) - 1)
TextMapped(t) ==
    IF t = NoText THEN {} ELSE MapEntry(TextOf[text[t].file], text[t].caddr \div 2)
MapToPageTable(p) ==
    LET first == proc[p].addr \div 2 + 1
    IN  TextMapped(proc[p].text)
          \cup MapEntry(proc[p].data, first)
          \cup MapEntry(proc[p].stack, first + Pages(proc[p].data))

OwnPages(p) ==
    TextMapped(proc[p].text) \cup MapEntry(proc[p].held, proc[p].addr \div 2)

\* Alloc's 0 ("no match") never becomes the place of an image, a text or a copy:
\* the state has its types; and every page and every block of the swap area has exactly one holder - a
\* free node, an image, a text, a transfer under way, a dead process's u -
\* through every move, growth and swap; the free nodes stay in order and
\* merged; and a process in user mode sees no page but its image's and its
\* text's (Allocator, Expand, XSwap, Sched, Exit, Wait, MapToPageTable).
StoreOwned ==
    /\ TypeOK
    /\ OneHolderEach(MemoryHeld, MemPages) /\ OneHolderEach(SwapHeld, SwapBlocks)
    /\ Tidy(mmap) /\ Tidy(smap)
    /\ \A p \in Slots : proc[p].load /\ proc[p].pc = "user" /\ tx[p] = "no" =>
         MapToPageTable(p) \subseteq OwnPages(p)

Sharers(t) == {p \in Slots : proc[p].text = t}
InCore(t) ==
    {p \in Sharers(t) : proc[p].load /\ p \notin Leaving}
      \cup {c \in Selected : sch.pc = "data" /\ proc[c].text = t}

\* x_count and x_ccount count the processes that use a text and those that
\* have it in memory; whoever runs in user mode runs the text of its file,
\* and a text that is out of memory has its copy on the swap area unless
\* its only users have yet to read it from the file.
TextsRight ==
    \A t \in Texts :
      /\ text[t].count = Cardinality(Sharers(t))
      /\ text[t].ccount = Cardinality(InCore(t))
      /\ \A p \in InCore(t) : proc[p].pc \in {"user", "textout"} => text[t].good
      /\ text[t].ccount = 0 =>
           \A p \in Sharers(t) : proc[p].pc = "fill" \/ text[t].saved

\* Nobody sleeps for something that will not come: a Sched asleep on RunOut
\* has nobody to bring in, one asleep on RunIn has, and an actor asleep on
\* the swap buffer will be woken, by the transfer or by its owner.
NobodyForgotten ==
    /\ sch.pc = "out" => runout /\ Candidates = {}
    /\ sch.pc = "in" => Candidates # {}
    /\ \A q \in 0..N :
         /\ tx[q] = "go" <=> swb.owner = q
         /\ tx[q] = "go" => (q \in sleepers <=> ~swb.done)
         /\ tx[q] = "want" /\ q \in sleepers =>
              swb.owner # -1 /\ (swb.wanted \/ ~swb.done)

\* What the comment at ProcessManager.cpp:265 says: Sched makes room by
\* swapping out a process that is in memory.
VictimInMemory == fault = "victim" => proc[sch.sel].load

=============================================================================
