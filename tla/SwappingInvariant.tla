------------------------- MODULE SwappingInvariant -------------------------
(***************************************************************************)
(* Why the swapper owns its memory: IInv, the inductive invariant of       *)
(* Swapping.  Memory and the swap area are divided among owners (the       *)
(* slots, the texts, the image Sched brings in) and the free nodes; the    *)
(* counters count; every slot is in one of a few forms; every text in use  *)
(* can be had; and who is in Swap is locked.                               *)
(***************************************************************************)
EXTENDS Swapping

-----------------------------------------------------------------------------
(* Maps: the free cells of 1..hi                                           *)

\* The cells a .. a + n - 1
Block(a, n) == a..(a + n - 1)
\* A free node
Node == [a : Nat \ {0}, n : Nat \ {0}]

\* What the free nodes of a map have.
CellsOf(map) == UNION {Block(map[i].a, map[i].n) : i \in DOMAIN map}

\* The nodes are in the order of addresses, and no two touch.
Ordered(map) == \A i, j \in DOMAIN map : i < j => map[i].a + map[i].n < map[j].a

\* A map of the cells 1..hi
MapOk(map, hi) == map \in Seq(Node) /\ Ordered(map) /\ CellsOf(map) \subseteq 1..hi

-----------------------------------------------------------------------------
(* Owners                                                                  *)

\* 0 is a transfer of Sched, 1..N are the processes, the rest the texts.
Users == 0..(N + NText)

Disjoint(O) == \A w, v \in Users : w # v => O[w] \cap O[v] = {}

\* Every cell of 1..hi is free or has one user, and the free ones are in the map.
Held(map, hi, O) ==
    /\ MapOk(map, hi)
    /\ \A w \in Users : O[w] \subseteq 1..hi /\ O[w] \cap CellsOf(map) = {}
    /\ Disjoint(O)
    /\ \A x \in 1..hi : x \in CellsOf(map) \/ \E w \in Users : x \in O[w]

-----------------------------------------------------------------------------
(* The tables                                                              *)

\* The records of the tables
SlotRec == [stat : ProcStates, load : BOOLEAN, lock : BOOLEAN,
            addr : Halves, size : 0..Space + USIZE, data : 0..Space,
            stack : 0..Space, par : 0..N, text : 0..NText, pc : PCs,
            blk : 0..SwapBlocks, held : 0..Space + USIZE, kid : 0..N]
TextRec == [file : Files \cup {NoFile}, count : Nat, ccount : Nat,
            caddr : Halves, daddr : 0..SwapBlocks, good : BOOLEAN, saved : BOOLEAN]
SchedRec == [pc : {"loop", "out", "in", "text", "data"}, sel : 0..N, des : Halves]

\* Sched has a transfer under way.
Moving(sc) == sc.pc \in {"text", "data"}
IsLeaving(r) == r.lock /\ r.pc # "textout"
Inside(r) == r.load /\ ~IsLeaving(r)
IsSwapped(r) == r.stat = "run" /\ ~r.load
TextSize(tt, t) == TextOf[tt[t].file]

\* The pages of memory that a process, a text, a transfer of Sched has
ImageOf(r) == Block(r.addr \div 2, Pages(r.held))
TextPages(tt, t) ==
    IF tt[t].ccount > 0 THEN Block(tt[t].caddr \div 2, Pages(TextSize(tt, t))) ELSE {}
ComingSize(pr, tt, sc) ==
    pr[sc.sel].size + IF sc.pc = "text" THEN TextSize(tt, pr[sc.sel].text) ELSE 0
ComingPages(pr, tt, sc) ==
    IF Moving(sc) THEN Block(sc.des \div 2, Pages(ComingSize(pr, tt, sc))) ELSE {}
\* Who owns which pages: 0 is the image on its way in, 1..N the slots, N + t the texts
MemOwner(pr, tt, sc) ==
    [w \in Users |-> IF w = 0 THEN ComingPages(pr, tt, sc)
                     ELSE IF w <= N THEN ImageOf(pr[w]) ELSE TextPages(tt, w - N)]

\* The blocks of the swap area that a process or a text has
SlotBlocks(r) ==
    IF IsSwapped(r) THEN Block(r.addr, r.size)
    ELSE IF IsLeaving(r) THEN Block(r.blk, r.size)
    ELSE IF r.pc \in {"dying", "reap"} THEN Block(r.blk, 1)
    ELSE IF r.stat = "zomb" THEN Block(r.addr, 1) ELSE {}
CopyBlocks(tt, t) == IF tt[t].count > 0 THEN Block(tt[t].daddr, TextSize(tt, t)) ELSE {}
\* Who owns which blocks of the swap area
SwapOwner(pr, tt) ==
    [w \in Users |-> IF w = 0 THEN {} ELSE IF w <= N THEN SlotBlocks(pr[w])
                     ELSE CopyBlocks(tt, w - N)]

\* Who uses a text
UsersOf(pr, t) == {p \in Slots : pr[p].text = t}
\* Who is in memory, or on the way in
HasIn(r, sc, p) == Inside(r) \/ (sc.pc = "data" /\ sc.sel = p)
\* The users of a text that have it in memory
CoreOf(pr, sc, t) == {p \in Slots : pr[p].text = t /\ HasIn(pr[p], sc, p)}

\* A text in use has its places.
TextOk(tt, t) ==
    IF tt[t].file = NoFile THEN tt[t].count = 0 /\ tt[t].ccount = 0
    ELSE /\ tt[t].count > 0 /\ tt[t].daddr > 0
         /\ tt[t].caddr > 0 /\ tt[t].caddr % 2 = 0

Typed(pr, tt, sc) ==
    pr \in [Slots -> SlotRec] /\ tt \in [Texts -> TextRec] /\ sc \in SchedRec

\* The counters count.
Counted(pr, tt, sc) == \A t \in Texts :
    /\ tt[t].count = Cardinality(UsersOf(pr, t))
    /\ tt[t].ccount = Cardinality(CoreOf(pr, sc, t))

\* What Sched has selected is out, and has a place to go to.
SelOk(pr, tt, sc) == Moving(sc) =>
    /\ sc.sel \in Slots /\ IsSwapped(pr[sc.sel])
    /\ sc.des > 0 /\ sc.des % 2 = 0
    /\ sc.pc = "text" => /\ pr[sc.sel].text # NoText /\ tt[pr[sc.sel].text].ccount = 0
                         /\ tt[pr[sc.sel].text].file \in Files

\* Tables, maps and counters agree.
Tables(mm, sm, pr, tt, sc) ==
    /\ Typed(pr, tt, sc)
    /\ Held(mm, MemPages, MemOwner(pr, tt, sc))
    /\ Held(sm, SwapBlocks, SwapOwner(pr, tt))
    /\ Counted(pr, tt, sc)
    /\ \A t \in Texts : TextOk(tt, t)
    /\ SelOk(pr, tt, sc)

-----------------------------------------------------------------------------
(* The invariant                                                           *)

\* An image of u, data and stack
Sized(r) ==
    /\ r.stack >= 2 /\ r.stack % 2 = 0 /\ r.size = ImageSize(r.data, r.stack)
    /\ r.size <= Space

\* What a slot can be: empty, a dead process, or a process in memory (at a
\* system call, waiting, idle for a child, writing its text's copy), one
\* that is being written out, a child that is copied to the swap area from
\* its parent's image, and one that is out.
NullSlot(r) ==
    /\ r.stat = "null" /\ ~r.load /\ ~r.lock /\ r.text = NoText /\ r.pc = "none" /\ r.held = 0
DeadSlot(r) ==
    /\ r.stat = "zomb" /\ ~r.lock /\ r.text = NoText /\ r.pc = "none" /\ r.held = 0 /\ r.addr > 0
HereSlot(r) ==
    /\ r.load /\ r.held = r.size /\ r.addr % 2 = 0
    /\ r.lock <=> r.pc = "textout"
    /\ r.stat # "run" => r.pc = "user"
    /\ r.pc \notin {"none", "born"}
    /\ r.pc \in {"dying", "reap"} => r.blk > 0
    /\ r.pc = "dying" => r.text = NoText
    /\ r.pc = "reap" => r.kid # 0
GoingSlot(r) ==
    /\ r.stat = "run" /\ r.load /\ r.lock /\ r.pc \in {"user", "fill", "join"}
    /\ r.held > 0 /\ r.addr % 2 = 0 /\ r.blk > 0
BornSlot(r) ==
    /\ r.stat = "run" /\ r.load /\ r.lock /\ r.pc = "born" /\ r.held = 0 /\ r.blk > 0 /\ r.par # 0
OutSlot(r) ==
    /\ r.stat = "run" /\ ~r.load /\ ~r.lock /\ r.pc \in {"user", "fill", "join"} /\ r.held = 0
LiveSlot(r) ==
    /\ r.stat \in {"run", "wait", "idl"} /\ r.addr > 0 /\ Sized(r)
    /\ r.pc \in {"fill", "join", "textout"} => r.text # NoText
    /\ HereSlot(r) \/ GoingSlot(r) \/ BornSlot(r) \/ OutSlot(r)
SlotOk(r) == NullSlot(r) \/ DeadSlot(r) \/ LiveSlot(r)

\* A child that is copied has an idle parent, of its own.
Births(pr) ==
    /\ \A p \in Slots : pr[p].pc = "born" => pr[p].par \in Slots /\ pr[pr[p].par].stat = "idl"
    /\ \A p, q \in Slots : pr[p].pc = "born" /\ pr[q].pc = "born" /\ pr[p].par = pr[q].par => p = q

\* Whoever is past the start of its program has seen the text read; a saved
\* text in memory is right; and until it is saved, the process that shall
\* save it is there: it has it in memory, or is the only one that uses it.
GoodText(pr, tt, sc, t) ==
    /\ \A p \in UsersOf(pr, t) : pr[p].pc \notin {"fill", "join"} => tt[t].good \/ tt[t].saved
    /\ tt[t].saved /\ tt[t].ccount > 0 => tt[t].good
    /\ tt[t].count > 0 /\ ~tt[t].saved =>
         \E p \in UsersOf(pr, t) : /\ pr[p].pc \in {"fill", "textout"}
                                   /\ p \in CoreOf(pr, sc, t) \/ UsersOf(pr, t) = {p}
\* Every text is right.
Goods(pr, tt, sc) == \A t \in Texts : GoodText(pr, tt, sc, t)

\* Who is in Swap is locked; Sched is there while it moves an image.
Locks(pr, x, sc) ==
    /\ x \in [0..N -> {"no", "want", "go"}]
    /\ \A p \in Slots : pr[p].lock <=> x[p] # "no"
    /\ Moving(sc) <=> x[0] # "no"

\* The swap buffer has the owner who has gone on, who sleeps until the
\* transfer is done; whoever wants it and sleeps will be woken.
BufferOk(b, x, z) ==
    /\ b \in [owner : -1..N, wanted : BOOLEAN, done : BOOLEAN]
    /\ x \in [0..N -> {"no", "want", "go"}] /\ z \subseteq 0..N
    /\ \A q \in 0..N :
         /\ x[q] = "go" <=> b.owner = q
         /\ x[q] = "go" => (q \in z <=> ~b.done)
         /\ x[q] = "want" /\ q \in z => b.owner # -1 /\ (b.wanted \/ ~b.done)

\* Why Sched sleeps
SchedOk(pr, sc, out) ==
    /\ out \in BOOLEAN /\ (out <=> sc.pc = "out")
    /\ sc.pc = "out" => \A p \in Slots : ~IsSwapped(pr[p])
    /\ sc.pc = "in" => \E p \in Slots : IsSwapped(pr[p])

SlotsOk(pr) == (\A p \in Slots : SlotOk(pr[p])) /\ Births(pr)

\* The parts together
Consistent(mm, sm, pr, tt, sc, b, x, z, out) ==
    /\ Tables(mm, sm, pr, tt, sc)
    /\ SlotsOk(pr)
    /\ Goods(pr, tt, sc)
    /\ Locks(pr, x, sc) /\ BufferOk(b, x, z)
    /\ SchedOk(pr, sc, out)

IInv ==
    /\ Consistent(mmap, smap, proc, text, sch, swb, tx, sleepers, runout)
    /\ fault \in Faults /\ ops \in 0..MaxOps
=============================================================================
