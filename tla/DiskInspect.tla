---------------------------- MODULE DiskInspect ----------------------------
(***************************************************************************)
(* How the debugger looks at the file system (src/src/debug/fs, json): it  *)
(* reads sectors past the cache, follows the block maps and directories    *)
(* itself, and hands the answer to the client as a document in chunks.     *)
(*                                                                         *)
(*  - The kernel is here with what makes the two views differ: inodes in   *)
(*    memory and blocks in the cache are written back later (upd, dirty),  *)
(*    Bmap builds index blocks, and ITrunc gives sectors back that keep    *)
(*    their old contents on the disk.  A kernel operation is one step: the *)
(*    debugger sees the disk only, wherever it stops the processor.        *)
(*  - A block has PerIndex words.  A word is a sector number in an index   *)
(*    block and an entry (inode, name) in a directory; a name is one       *)
(*    character.  Sizes and offsets count words.                           *)
(*  - i_addr has Small direct entries, two of one and two of two levels.   *)
(***************************************************************************)
EXTENDS Integers, Sequences, FiniteSets, SequencesExt

CONSTANTS
    NInos,      \* inode numbers are 1 .. NInos, ROOTINO is 1
    NSectors,   \* data sectors are 1 .. NSectors
    Small,      \* SMALL_FILE_BLOCK
    PerIndex,   \* ADDRESS_PER_INDEX_BLOCK
    Cap,        \* kTraceCapacity
    PreviewMax, \* kFilePreviewMax
    DocMax,     \* kJsonDocumentMax - 1
    MaxCopy,    \* response_size - 2
    FreeAtBoot, \* sets of sectors that may be free on the disk the kernel boots from
    Offsets,    \* bound: where the program writes its files
    RawPaths,   \* bound: the paths the client asks for, as characters
    MaxOps      \* bound: operations of the program

ASSUME ConfigOK ==
    /\ {NInos, NSectors, Small, PerIndex, Cap, PreviewMax, DocMax, MaxCopy} \subseteq Nat \ {0}
    /\ \A free \in FreeAtBoot : free \subseteq 2 .. NSectors
    /\ Offsets \subseteq Nat
    /\ MaxOps \in Nat

Inos    == 1 .. NInos
Sectors == 1 .. NSectors
Words   == 0 .. PerIndex - 1
Root    == 1
Large   == Small + 2 * PerIndex
Huge    == Large + 2 * PerIndex * PerIndex
Names   == <<"a", "b">>

VARIABLES
    k,      \* the kernel: core (inodes in memory), upd (those with IUPD),
            \* store (blocks as the cache sees them), dirty (delayed writes),
            \* free (free sectors)
    table,  \* the inodes on the disk
    disk,   \* the sectors on the disk
    ring,   \* g_trace_lines, g_trace_next, g_trace_count; an event is its number
    events, \* events logged so far
    xfer,   \* a transfer of a document to the client
    ops     \* operations so far

vars == <<k, table, disk, ring, events, xfer, ops>>

Zero    == [w \in Words |-> 0]
Slots   == 0 .. Small + 3
NoInode == [mode |-> "none", size |-> 0, addr |-> [s \in Slots |-> 0]]
Least(S) == CHOOSE x \in S : \A y \in S : x <= y

\* A directory entry as a word; the entry of inode 0 is free.
Entry(i, c) == 2 * i + c - 1
InoOf(w)    == w \div 2
NameOf(w)   == <<Names[1 + (w % 2)]>>
-----------------------------------------------------------------------------
(* Where a block of a file is: what both sides compute from its number.    *)

Slot(l) == IF l < Large THEN Small + (l - Small) \div PerIndex
           ELSE Small + 2 + (l - Large) \div (PerIndex * PerIndex)
Mid(l)  == ((l - Large) \div PerIndex) % PerIndex
Leaf(l) == (IF l < Large THEN l - Small ELSE l - Large) % PerIndex

(* The kernel's map.  Each operator maps a kernel q to [q, bn]: the kernel *)
(* the call leaves and the sector it returns, 0 when there is none.        *)

\* Alloc: a cleared buffer of a free sector, not yet a delayed write.
Take(q) == LET s == Least(q.free)
           IN  [q |-> [q EXCEPT !.free = @ \ {s}, !.store[s] = Zero], bn |-> s]

\* i_addr[x], given a sector if it has none.
Top(q, i, x, data) ==
    IF q.core[i].addr[x] # 0 THEN [q |-> q, bn |-> q.core[i].addr[x]]
    ELSE IF q.free = {} THEN [q |-> q, bn |-> 0]
    ELSE LET t == Take(q)
         IN  [q |-> [t.q EXCEPT !.core[i].addr[x] = t.bn,
                                !.upd = @ \cup {i},
                                !.dirty = IF data THEN @ \cup {t.bn} ELSE @],
              bn |-> t.bn]

\* Word w of the index block b, given a sector if it has none.  An index
\* block in which nothing could be entered is released, not written.
Next1(q, b, w, data) ==
    IF q.store[b][w] # 0 THEN [q |-> q, bn |-> q.store[b][w]]
    ELSE IF q.free = {} THEN [q |-> q, bn |-> 0]
    ELSE LET t == Take(q)
         IN  [q |-> [t.q EXCEPT !.store[b][w] = t.bn,
                                !.dirty = @ \cup {b} \cup (IF data THEN {t.bn} ELSE {})],
              bn |-> t.bn]

Bmap(q, i, l) ==
    IF l >= Huge THEN [q |-> q, bn |-> 0]
    ELSE IF l < Small THEN Top(q, i, l, TRUE)
    ELSE LET a == Top([q EXCEPT !.upd = IF q.core[i].addr[Slot(l)] = 0
                                        THEN @ \cup {i} ELSE @], i, Slot(l), FALSE)
             b == IF a.bn # 0 /\ l >= Large THEN Next1(a.q, a.bn, Mid(l), FALSE) ELSE a
         IN  IF b.bn = 0 THEN b ELSE Next1(b.q, b.bn, Leaf(l), TRUE)

\* WriteI of one word: nothing happens when Bmap finds no sector.
WriteI(q, i, off, w) ==
    LET m == Bmap(q, i, off \div PerIndex)
    IN  IF m.bn = 0 THEN m.q
        ELSE [m.q EXCEPT !.store[m.bn][off % PerIndex] = w,
                         !.dirty = @ \cup {m.bn},
                         !.core[i].size = IF @ < off + 1 THEN off + 1 ELSE @,
                         !.upd = @ \cup {i}]

Held(q, b) == {q.store[b][w] : w \in Words} \ {0}

\* Every sector i_addr leads to.
Owned(q, i) ==
    LET a == q.core[i].addr
        direct == {a[x] : x \in 0 .. Small - 1}
        single == {a[x] : x \in Small .. Small + 1} \ {0}
        double == {a[x] : x \in Small + 2 .. Small + 3} \ {0}
        tables == UNION {Held(q, b) : b \in double}
    IN  (direct \cup single \cup double \cup tables
          \cup UNION {Held(q, b) : b \in single \cup tables}) \ {0}

ITrunc(q, i) == [q EXCEPT !.free = @ \cup Owned(q, i),
                          !.core[i] = [@ EXCEPT !.size = 0, !.addr = NoInode.addr],
                          !.upd = @ \cup {i}]

\* What Bmap returns when it may not allocate: the kernel's map as it is.
KernelMap(i, l) == Bmap([k EXCEPT !.free = {}], i, l).bn
KernelWord(i, e) == k.store[KernelMap(i, e \div PerIndex)][e % PerIndex]
-----------------------------------------------------------------------------
(* The debugger's reads.  bad is the sector whose read fails now: 0 for    *)
(* none, -1 for the inode table.                                           *)

Bads == {-1, 0} \cup Sectors

Readable(s, bad) == s \in Sectors /\ s # bad

\* The mode test of the raw reads: IFDIR is one of the two bits of IFBLK.
LooksLikeDir(d) == d.mode \in {"dir", "blk"}

\* An inode, <<>> when it cannot be read.  Number NInos + 1 is the sector
\* behind the inode table, taken for an inode.
ReadDiskInode(i, bad) ==
    IF i = NInos + 1 /\ Readable(1, bad)
    THEN <<[NoInode EXCEPT !.mode = IF disk[1][0] = 0 THEN "none" ELSE "dir"]>>
    ELSE IF i \in Inos /\ bad # -1 THEN <<table[i]>>
    ELSE <<>>

\* Mutant: the index in the first table is the one of the second.
MapSwapped(d, l, bad) ==
    LET Word(b, w) == IF Readable(b, bad) THEN disk[b][w] ELSE 0
    IN  CASE l < 0 \/ l >= Huge -> 0
          [] l >= 0 /\ l < Small -> d.addr[l]
          [] l >= Small /\ l < Large -> Word(d.addr[Slot(l)], Leaf(l))
          [] l >= Large /\ l < Huge -> Word(Word(d.addr[Slot(l)], Leaf(l)), Mid(l))

MapDiskInodeBlock(d, l, bad) ==
    LET Word(b, w) == IF Readable(b, bad) THEN disk[b][w] ELSE 0
    IN  CASE l < 0 \/ l >= Huge -> 0
          [] l >= 0 /\ l < Small -> d.addr[l]
          [] l >= Small /\ l < Large -> Word(d.addr[Slot(l)], Leaf(l))
          [] l >= Large /\ l < Huge -> Word(Word(d.addr[Slot(l)], Mid(l)), Leaf(l))

RawOk(d, e, bad) == Readable(MapDiskInodeBlock(d, e \div PerIndex, bad), bad)
RawWord(d, e, bad) == disk[MapDiskInodeBlock(d, e \div PerIndex, bad)][e % PerIndex]
Matches(w, c) == InoOf(w) # 0 /\ NameOf(w) = c

\* Components of a path, with seps between them.
Components(path, seps) ==
    LET Sep(j) == path[j] \in seps
        starts == {j \in DOMAIN path : ~Sep(j) /\ (j = 1 \/ Sep(j - 1))}
        End(j) == Least({x \in j .. Len(path) : x = Len(path) \/ Sep(x + 1)})
        order  == SetToSortSeq(starts, LAMBDA x, y : x < y)
    IN  [x \in DOMAIN order |-> SubSeq(path, order[x], End(order[x]))]

\* One component: the first entry that matches, 0 for none; a block that
\* cannot be read before it ends the search.
FindEntry(d, c, bad) ==
    LET stop == {e \in 0 .. d.size - 1 :
                   ~RawOk(d, e, bad) \/ Matches(RawWord(d, e, bad), c)}
        InoAt(e) == IF RawOk(d, e, bad) THEN InoOf(RawWord(d, e, bad)) ELSE 0
    IN  IF stop = {} \/ ~LooksLikeDir(d) THEN 0 ELSE InoAt(Least(stop))

\* From one inode number to the next, 0 once the search has failed.
Descend(i, c, bad) ==
    LET In(d) == IF d = <<>> THEN 0 ELSE FindEntry(d[1], c, bad)
    IN  In(ReadDiskInode(i, bad))

Resolve(comps, bad) ==
    LET End(i) == IF ReadDiskInode(i, bad) = <<>> THEN 0 ELSE i
    IN  End(FoldLeft(LAMBDA x, c : Descend(x, c, bad), Root, comps))

\* FSDebugger splits at "/" only, the documents at "\" as well.
LookupPath(path, bad)     == Resolve(Components(path, {"/"}), bad)
LookupDiskPath(path, bad) == Resolve(Components(path, {"/", "\\"}), bad)

Live(d, bad) == {e \in 0 .. d.size - 1 : RawOk(d, e, bad) /\ InoOf(RawWord(d, e, bad)) # 0}
InOrder(d, E, bad) == LET o == SetToSortSeq(E, LAMBDA x, y : x < y)
                      IN  [x \in DOMAIN o |-> RawWord(d, o[x], bad)]

\* The monitor's listing ends at a block it cannot read, the document's one
\* leaves out the entries it cannot read and those of unreadable inodes.
TraverseDirectoryDisk(d, bad) ==
    LET lost == {e \in 0 .. d.size - 1 : ~RawOk(d, e, bad)}
    IN  IF ~LooksLikeDir(d) THEN <<>>
        ELSE InOrder(d, {e \in Live(d, bad) : \A x \in lost : e < x}, bad)
DirectoryEntries(d, bad) ==
    InOrder(d, {e \in Live(d, bad) :
                  ReadDiskInode(InoOf(RawWord(d, e, bad)), bad) # <<>>}, bad)

ListAllInodes(bad) == {i \in 1 .. NInos + 1 :
    ReadDiskInode(i, bad) # <<>> /\ ReadDiskInode(i, bad)[1].mode # "none"}

\* The beginning of a file, <<>> when one of its blocks is a hole or cannot
\* be read.
Preview(d, bad) == LET n == IF d.size < PreviewMax THEN d.size ELSE PreviewMax
                   IN  IF \E e \in 0 .. n - 1 : ~RawOk(d, e, bad) THEN <<>>
                       ELSE [x \in 1 .. n |-> RawWord(d, x - 1, bad)]
-----------------------------------------------------------------------------
(* The commands of FSDebugger, each read off the disk as it is typed.  An  *)
(* answer is a sequence of numbers, Error a line that says what failed.    *)

Error == <<-1>>

ViewDiskBlock(s, bad) == IF Readable(s, bad) THEN [x \in 1 .. PerIndex |-> disk[s][x - 1]]
                         ELSE Error

\* Of an inode its size and its sectors.
ViewInode(i, bad) == IF ReadDiskInode(i, bad) = <<>> THEN Error
                     ELSE LET d == ReadDiskInode(i, bad)[1]
                          IN  <<d.size>> \o [x \in 1 .. Small + 4 |-> d.addr[x - 1]]

ListDirectory(path, bad) ==
    LET Of(i) == IF i = 0 THEN Error ELSE TraverseDirectoryDisk(ReadDiskInode(i, bad)[1], bad)
    IN  Of(LookupPath(path, bad))

\* The inodes on the way, ended by a line that says so when the way is lost.
TraceDirectory(path, bad) ==
    LET Next2(i, c) == LET n == Descend(i, c, bad)
                       IN  IF ReadDiskInode(n, bad) = <<>> THEN Error ELSE <<n>>
        Walk(way, c) == IF Last(way) = -1 THEN way ELSE way \o Next2(Last(way), c)
    IN  IF ReadDiskInode(Root, bad) = <<>> THEN Error
        ELSE FoldLeft(Walk, <<Root>>, Components(path, {"/"}))
-----------------------------------------------------------------------------
(* The trace ring and the documents.                                       *)

StoreLine(r, e) == [line  |-> [r.line EXCEPT ![r.next] = e],
                    next  |-> (r.next + 1) % Cap,
                    count |-> IF r.count < Cap THEN r.count + 1 ELSE r.count]

\* Mutant: the dump starts at the slot that is written next.
DumpFromNext(r) == [x \in 1 .. r.count |-> r.line[(r.next + x - 1) % Cap]]

TraceDump(r) == LET start == (r.next - r.count + Cap) % Cap
                IN  [x \in 1 .. r.count |-> r.line[(start + x - 1) % Cap]]

\* The commands above that are typed at the monitor, and txtrace.
Queries == [op : {"ls", "trace"}, path : RawPaths, no : {0}]
           \cup [op : {"inode"}, path : {<<>>}, no : 0 .. NInos + 1]
           \cup [op : {"block"}, path : {<<>>}, no : 0 .. NSectors + 1]
           \cup [op : {"txtrace"}, path : {<<>>}, no : {0}]

HandleQuery(c, bad) == CASE c.op = "ls" -> ListDirectory(c.path, bad)
                         [] c.op = "trace" -> TraceDirectory(c.path, bad)
                         [] c.op = "inode" -> ViewInode(c.no, bad)
                         [] c.op = "block" -> ViewDiskBlock(c.no, bad)
                         [] c.op = "txtrace" -> TraceDump(ring)

\* The trace array leaves out the banner lines and keeps the one that says
\* that nothing was recorded.
TraceArray == IF ring.count = 0 THEN <<"no activity">> ELSE TraceDump(ring)

\* The superblock is the kernel's own, in memory.
FilesystemObject == <<Cardinality(k.free)>> \o TraceArray

DirectoryObject(path) ==
    LET Of(i) == IF i = 0 THEN <<"path-not-found">>
                 ELSE DirectoryEntries(ReadDiskInode(i, 0)[1], 0)
    IN  Of(LookupDiskPath(path, 0))

FileObject(path) ==
    LET Show(d) == IF LooksLikeDir(d) THEN <<"is-directory">> ELSE <<d.size>> \o Preview(d, 0)
        Of(i) == IF i = 0 THEN <<"path-not-found">> ELSE Show(ReadDiskInode(i, 0)[1])
    IN  Of(LookupDiskPath(path, 0))

InodeObject(i) == IF ReadDiskInode(i, 0) = <<>> THEN <<"not ok">> ELSE ReadDiskInode(i, 0)

BlockObject(s) == IF Readable(s, 0) THEN [x \in 1 .. PerIndex |-> disk[s][x - 1]]
                  ELSE <<"not ok">>

\* What a client may ask for: a kind of document and its path or number.
Annexes == [kind : {"fs-trace", "filesystem"}, path : {<<>>}, no : {0}]
           \cup [kind : {"directory", "file"}, path : {x \in RawPaths : x[1] = "/"}, no : {0}]
           \cup [kind : {"inode"}, path : {<<>>}, no : 0 .. NInos + 1]
           \cup [kind : {"block"}, path : {<<>>}, no : 0 .. NSectors + 1]

Body(annex) == CASE annex.kind = "fs-trace" -> TraceArray
                 [] annex.kind = "filesystem" -> FilesystemObject
                 [] annex.kind = "directory" -> DirectoryObject(annex.path)
                 [] annex.kind = "file" -> FileObject(annex.path)
                 [] annex.kind = "inode" -> InodeObject(annex.no)
                 [] annex.kind = "block" -> BlockObject(annex.no)

\* What the builder could append before its buffer was full.
Fits(doc) == Len(doc) <= DocMax

ErrorDocument == <<"json-buffer-overflow">>
BuildDocument(annex) == LET Ended(doc) == IF Fits(doc) THEN doc ELSE ErrorDocument
                        IN  Ended(<<"{">> \o Body(annex) \o <<"}">>)

\* One chunk: its status and its part of the document.
HandleQxfer(annex, offset) ==
    LET Cut(doc) ==
          LET len == IF Len(doc) - offset < MaxCopy THEN Len(doc) - offset ELSE MaxCopy
          IN  IF offset >= Len(doc) THEN [status |-> "l", part |-> <<>>]
              ELSE [status |-> IF offset + len < Len(doc) THEN "m" ELSE "l",
                    part   |-> SubSeq(doc, offset + 1, offset + len)]
    IN  Cut(BuildDocument(annex))
-----------------------------------------------------------------------------
NoXfer == [st |-> "idle", annex |-> [kind |-> "fs-trace", path |-> <<>>, no |-> 0], got |-> <<>>]

\* The disk at boot: the root directory with its entry for itself, and with
\* a file "b" of one block somewhere or without it.
Boot(n, free) ==
    [core  |-> [i \in Inos |-> IF i = Root
                              THEN [mode |-> "dir", size |-> n, addr |-> [NoInode.addr EXCEPT ![0] = 1]]
                              ELSE IF i = n THEN [NoInode EXCEPT !.mode = "reg"] ELSE NoInode],
     store |-> [s \in Sectors |-> IF s # 1 THEN Zero
                                 ELSE [w \in Words |-> IF w < n THEN Entry(w + 1, w + 1) ELSE 0]],
     free  |-> free, upd |-> {}, dirty |-> {}]

Init ==
    /\ \E free \in FreeAtBoot :
         \E q \in {Boot(1, free)} \cup {WriteI(Boot(2, free), 2, off, 1) : off \in Offsets} :
           /\ table = q.core /\ disk = q.store
           /\ k = [q EXCEPT !.upd = {}, !.dirty = {}]
    /\ ring = [line |-> [x \in 0 .. Cap - 1 |-> 0], next |-> 0, count |-> 0]
    /\ events = 0
    /\ xfer = NoXfer
    /\ ops = 0

\* The kernel moves on.  Every chunk is cut from a document built anew, so
\* a transfer under way becomes a mix of documents: it is not followed.
Stir == xfer' = NoXfer

\* An operation leaves the kernel q and c events in the trace.
Kernel(q, c) ==
    /\ ops < MaxOps /\ ops' = ops + 1
    /\ k' = q
    /\ ring' = FoldLeft(StoreLine, ring, [x \in 1 .. c |-> events + x])
    /\ events' = events + c
    /\ Stir
    /\ UNCHANGED <<table, disk>>

Allocated(q) == Cardinality(k.free \ q.free)

\* WriteDir: into the first free entry NameI met, else at the end.
Vacant(i) == LET gaps == {e \in 0 .. k.core[i].size - 1 : InoOf(KernelWord(i, e)) = 0}
             IN  IF gaps = {} THEN k.core[i].size ELSE Least(gaps)
Solid(i)  == \A e \in 0 .. k.core[i].size - 1 : KernelMap(i, e \div PerIndex) # 0

\* creat, mkdir and mknod: a new inode and its entry in the root.
Create(i, m) ==
    /\ k.core[i].mode = "none" /\ Solid(Root)
    /\ LET n == [NoInode EXCEPT !.mode = m, !.addr[0] = IF m = "blk" THEN 1 ELSE 0]
           q == WriteI([k EXCEPT !.core[i] = n, !.upd = @ \cup {i}], Root, Vacant(Root), Entry(i, 2))
       IN  Kernel(q, 1 + Allocated(q))

\* link: an entry for inode i in directory d.
Enter(d, i, c) ==
    /\ k.core[d].mode = "dir" /\ k.core[i].mode # "none" /\ Solid(d)
    /\ \A e \in 0 .. k.core[d].size - 1 : ~Matches(KernelWord(d, e), <<Names[c]>>)
    /\ LET q == WriteI(k, d, Vacant(d), Entry(i, c)) IN Kernel(q, Allocated(q))

\* unlink: the entry keeps its name and loses its inode.
Unlink(d, e) ==
    /\ k.core[d].mode = "dir" /\ Solid(d)
    /\ e \in 0 .. k.core[d].size - 1 /\ InoOf(KernelWord(d, e)) # 0
    /\ Kernel(WriteI(k, d, e, KernelWord(d, e) % 2), 0)

Write(i, off) ==
    /\ k.core[i].mode = "reg"
    /\ LET q == WriteI(k, i, off, 1) IN Kernel(q, Allocated(q))

Truncate(i) ==
    /\ k.core[i].mode = "reg" /\ k.core[i].size > 0
    /\ Kernel(ITrunc(k, i), Cardinality(Owned(k, i)))

\* IUpdate: the inode reaches the disk.
IUpdate(i) ==
    /\ i \in k.upd
    /\ table' = [table EXCEPT ![i] = k.core[i]]
    /\ k' = [k EXCEPT !.upd = @ \ {i}]
    /\ ring' = StoreLine(ring, events + 1) /\ events' = events + 1
    /\ Stir
    /\ UNCHANGED <<disk, ops>>

\* A delayed write reaches the disk.
Flush(s) ==
    /\ s \in k.dirty
    /\ disk' = [disk EXCEPT ![s] = k.store[s]]
    /\ k' = [k EXCEPT !.dirty = @ \ {s}]
    /\ Stir
    /\ UNCHANGED <<table, ring, events, ops>>

\* A buffer without a delayed write is reused, and the block read again.
Reuse(s) ==
    /\ s \notin k.dirty /\ k.store[s] # disk[s]
    /\ k' = [k EXCEPT !.store[s] = disk[s]]
    /\ Stir
    /\ UNCHANGED <<table, disk, ring, events, ops>>

\* The client fetches a document chunk by chunk until one says "l".
Request(annex) ==
    /\ xfer.st = "idle"
    /\ xfer' = [NoXfer EXCEPT !.st = "more", !.annex = annex]
    /\ UNCHANGED <<k, table, disk, ring, events, ops>>

Receive ==
    /\ xfer.st = "more"
    /\ \E r \in {HandleQxfer(xfer.annex, Len(xfer.got))} :
          xfer' = [xfer EXCEPT !.got = @ \o r.part,
                               !.st = IF r.status = "l" THEN "done" ELSE @]
    /\ UNCHANGED <<k, table, disk, ring, events, ops>>

\* The client falls back on the monitor command, which sends all at once.
Monitor(annex) ==
    /\ xfer.st = "idle"
    /\ xfer' = [NoXfer EXCEPT !.st = "done", !.annex = annex, !.got = BuildDocument(annex)]
    /\ UNCHANGED <<k, table, disk, ring, events, ops>>

Forget ==
    /\ xfer.st = "done" /\ xfer' = NoXfer
    /\ UNCHANGED <<k, table, disk, ring, events, ops>>

Next ==
    \/ \E i \in Inos \ {Root} : \/ \E m \in {"reg", "dir", "blk"} : Create(i, m)
                                \/ \E off \in Offsets : Write(i, off)
                                \/ Truncate(i)
    \/ \E d, i \in Inos : \E c \in 1 .. 2 : Enter(d, i, c)
    \/ \E d \in Inos : \E e \in 0 .. k.core[d].size : Unlink(d, e)
    \/ \E i \in Inos : IUpdate(i)
    \/ \E s \in Sectors : Flush(s) \/ Reuse(s)
    \/ \E annex \in Annexes : Request(annex) \/ Monitor(annex)
    \/ Receive
    \/ Forget

Spec == Init /\ [][Next]_vars
-----------------------------------------------------------------------------
Blocks == [Words -> 0 .. NSectors]
Inodes == [mode : {"none", "dir", "reg", "blk"}, size : Nat, addr : [Slots -> 0 .. NSectors]]

\* Everything keeps its shape.
TypeOK ==
    /\ k.core \in [Inos -> Inodes] /\ table \in [Inos -> Inodes]
    /\ k.store \in [Sectors -> Blocks] /\ disk \in [Sectors -> Blocks]
    /\ k.upd \subseteq Inos /\ k.dirty \subseteq Sectors /\ k.free \subseteq Sectors
    /\ ring.next \in 0 .. Cap - 1 /\ ring.count \in 0 .. Cap
    /\ xfer.st \in {"idle", "more", "done"} /\ xfer.annex \in Annexes /\ Len(xfer.got) <= DocMax

\* Nothing waits to be written, and no buffer holds what the disk does not.
Quiet == k.upd = {} /\ k.dirty = {} /\ k.store = disk

\* The kernel's search for a path (NameI), 0 when there is no such file.
NameI(path) ==
    LET Find(i, c) == LET hits == {e \in 0 .. k.core[i].size - 1 : Matches(KernelWord(i, e), c)}
                      IN  IF hits = {} THEN 0 ELSE InoOf(KernelWord(i, Least(hits)))
    IN  FoldLeft(LAMBDA i, c : IF i = 0 \/ k.core[i].mode # "dir" THEN 0 ELSE Find(i, c),
                 Root, Components(path, {"/"}))

\* Answer a is b, or the beginning of b, with or without a line about an error.
Begins(a, b) == IsPrefix(a, b) \/ (a # <<>> /\ Last(a) = -1 /\ IsPrefix(Front(a), b))

\* What the kernel's ReadI gives of a file that has no holes.
KernelFile(i) == [x \in 1 .. k.core[i].size |-> KernelWord(i, x - 1)]

\* Two programs read the same disk, the kernel through its cache and the
\* debugger past it: when nothing waits to be written they agree on where
\* every block of every file is, on what every path names and on what is in
\* the file, and a read that fails leaves the debugger without an answer or
\* with the beginning of one, never with another one.
\* (A transfer changes none of this: the states between transfers are enough.)
RawViewAgrees == xfer.st = "idle" =>
    /\ Quiet => \A i \in Inos, l \in 0 .. Huge :
                  k.core[i].mode # "blk" => MapDiskInodeBlock(table[i], l, 0) = KernelMap(i, l)
    /\ Quiet /\ (\A d \in Inos : k.core[d].mode = "dir" => Solid(d))
         => \A path \in RawPaths :
              /\ LookupPath(path, 0) = NameI(path)
              /\ LookupDiskPath(path, 0) = NameI(path) \/ \E x \in DOMAIN path : path[x] = "\\"
              /\ NameI(path) # 0 => Last(TraceDirectory(path, 0)) = NameI(path)
    /\ Quiet => \A i \in Inos : k.core[i].mode = "reg" /\ Solid(i) =>
                  IsPrefix(Preview(table[i], 0), KernelFile(i))
                    /\ (Len(Preview(table[i], 0)) < PreviewMax => Preview(table[i], 0) = KernelFile(i))
    /\ \A bad \in Bads :
         /\ \A i \in Inos, l \in 0 .. Huge :
              MapDiskInodeBlock(table[i], l, bad) \in {0, MapDiskInodeBlock(table[i], l, 0)}
         /\ \A path \in RawPaths : LookupPath(path, bad) \in {0, LookupPath(path, 0)}
         /\ \A c \in Queries : Begins(HandleQuery(c, bad), HandleQuery(c, 0))
         /\ \A i \in Inos : /\ Preview(table[i], bad) \in {<<>>, Preview(table[i], 0)}
                            /\ IsPrefix(TraverseDirectoryDisk(table[i], bad),
                                        TraverseDirectoryDisk(table[i], 0))
         /\ ListAllInodes(bad) \cap Inos \subseteq {i \in Inos : table[i].mode # "none"}

\* The ring's indices stay inside the ring, and a document that was fetched
\* while the target stood still is the document: chunks neither overlap nor
\* leave a gap, the last one says so, and a trace is the last Cap events in
\* their order, whatever has gone round the ring.
TransferExact ==
    /\ TypeOK
    /\ xfer.st = "done" =>
      LET kept  == IF events < Cap THEN events ELSE Cap
          trace == IF kept = 0 THEN <<"no activity">>
                   ELSE [x \in 1 .. kept |-> events - kept + x]
          whole == CASE xfer.annex.kind = "fs-trace" -> <<"{">> \o trace \o <<"}">>
                     [] xfer.annex.kind = "filesystem" ->
                          <<"{", Cardinality(k.free)>> \o trace \o <<"}">>
                     [] OTHER -> BuildDocument(xfer.annex)
          Sent(doc) == IF Len(doc) > DocMax THEN ErrorDocument ELSE doc
      IN  xfer.got = Sent(whole)
=============================================================================
