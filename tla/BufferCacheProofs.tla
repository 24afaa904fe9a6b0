-------------------------- MODULE BufferCacheProofs --------------------------
(* Theorems about BufferCache, for every number of processes, buffers and  *)
(* blocks.                                                                 *)
EXTENDS BufferCache, SequenceTheorems, FiniteSetTheorems, TLAPS

-----------------------------------------------------------------------------
(* Sequences that hold each element once, as the free list and the request *)
(* queue of the disk do: what Append, Tail and RemoveAt do to the elements. *)

LEMMA RemoveAtProperties ==
    ASSUME NEW S, NEW s \in Seq(S), NEW i \in DOMAIN s
    PROVE  /\ RemoveAt(s, i) \in Seq(S)
           /\ Len(RemoveAt(s, i)) = Len(s) - 1
           /\ \A j \in 1..(Len(s) - 1) :
                RemoveAt(s, i)[j] = IF j < i THEN s[j] ELSE s[j + 1]
<1>1. i \in 1..Len(s) /\ Len(s) \in Nat  BY LenProperties
<1> DEFINE a == SubSeq(s, 1, i - 1)
           b == SubSeq(s, i + 1, Len(s))
           c == a \o b
<1>2. a \in Seq(S) /\ Len(a) = i - 1 /\ \A j \in 1..(i - 1) : a[j] = s[j]  BY <1>1
<1>3. b \in Seq(S) /\ Len(b) = Len(s) - i /\ \A j \in 1..(Len(s) - i) : b[j] = s[i + j]  BY <1>1
<1>4. /\ c \in Seq(S) /\ Len(c) = Len(a) + Len(b)
      /\ \A j \in 1..(Len(a) + Len(b)) : c[j] = IF j <= Len(a) THEN a[j] ELSE b[j - Len(a)]
 <2> HIDE DEF a, b
 <2> QED  BY <1>2, <1>3, ConcatProperties
<1> HIDE DEF a, b, c
<1>5. Len(c) = Len(s) - 1 /\ Len(a) + Len(b) = Len(s) - 1  BY <1>1, <1>2, <1>3, <1>4
<1>6. ASSUME NEW j \in 1..(Len(s) - 1) PROVE c[j] = IF j < i THEN s[j] ELSE s[j + 1]
 <2>0. c[j] = IF j <= i - 1 THEN a[j] ELSE b[j - (i - 1)]  BY <1>2, <1>4, <1>5
 <2>1. CASE j < i
  <3>1. j \in 1..(i - 1) /\ c[j] = a[j]  BY <2>0, <2>1, <1>1
  <3> QED  BY <3>1, <2>1, <1>2
 <2>2. CASE ~(j < i)
  <3>1. j - (i - 1) \in 1..(Len(s) - i) /\ i + (j - (i - 1)) = j + 1  BY <2>2, <1>1
  <3>2. c[j] = b[j - (i - 1)] /\ b[j - (i - 1)] = s[i + (j - (i - 1))]
    BY <3>1, <2>0, <2>2, <1>1, <1>3
  <3> QED  BY <3>1, <3>2, <2>2
 <2> QED  BY <2>1, <2>2
<1>7. RemoveAt(s, i) = c  BY DEF RemoveAt, a, b, c
<1> QED  BY <1>4, <1>5, <1>6, <1>7

(* What the queue operations do to the set of elements of a sequence       *)
(* without duplicates: the free list and the request queue are such.       *)
LEMMA RemoveAtSet ==
    ASSUME NEW S, NEW s \in Seq(S), IsInjective(s), NEW i \in DOMAIN s
    PROVE  /\ RemoveAt(s, i) \in Seq(S)
           /\ IsInjective(RemoveAt(s, i))
           /\ ToSet(RemoveAt(s, i)) = ToSet(s) \ {s[i]}
<1> DEFINE t == RemoveAt(s, i)
<1>1. i \in 1..Len(s) /\ Len(s) \in Nat /\ DOMAIN s = 1..Len(s)  BY LenProperties
<1>2. /\ t \in Seq(S) /\ Len(t) = Len(s) - 1 /\ DOMAIN t = 1..Len(t)
      /\ \A j \in 1..(Len(s) - 1) : t[j] = IF j < i THEN s[j] ELSE s[j + 1]
  BY RemoveAtProperties, LenProperties
<1> HIDE DEF t
<1>3. IsInjective(t)
 <2> SUFFICES ASSUME NEW x \in 1..(Len(s) - 1), NEW y \in 1..(Len(s) - 1), t[x] = t[y] PROVE x = y
   BY <1>2 DEF IsInjective
 <2>1. /\ t[x] = s[IF x < i THEN x ELSE x + 1] /\ t[y] = s[IF y < i THEN y ELSE y + 1]
       /\ (IF x < i THEN x ELSE x + 1) \in DOMAIN s
       /\ (IF y < i THEN y ELSE y + 1) \in DOMAIN s
   BY <1>1, <1>2
 <2>2. (IF x < i THEN x ELSE x + 1) = (IF y < i THEN y ELSE y + 1)  BY <2>1 DEF IsInjective
 <2> QED  BY <2>2, <1>1
<1>4. ASSUME NEW x \in ToSet(t) PROVE x \in ToSet(s) /\ x # s[i]
 <2>1. PICK j \in 1..(Len(s) - 1) : x = t[j]  BY <1>2 DEF ToSet
 <2>2. CASE j < i  BY <2>1, <2>2, <1>1, <1>2 DEF IsInjective, ToSet
 <2>3. CASE ~(j < i)  BY <2>1, <2>3, <1>1, <1>2 DEF IsInjective, ToSet
 <2> QED  BY <2>2, <2>3
<1>5. ASSUME NEW x \in ToSet(s), x # s[i] PROVE x \in ToSet(t)
 <2>1. PICK j \in 1..Len(s) : x = s[j]  BY <1>1 DEF ToSet
 <2>2. CASE j < i  BY <2>1, <2>2, <1>1, <1>2 DEF ToSet
 <2>3. CASE j > i
  <3>1. j - 1 \in DOMAIN t /\ t[j - 1] = s[(j - 1) + 1] /\ (j - 1) + 1 = j
    BY <2>1, <2>3, <1>1, <1>2
  <3> QED  BY <3>1, <2>1 DEF ToSet
 <2> QED  BY <2>1, <2>2, <2>3, <1>5, <1>1
<1> QED  BY <1>2, <1>3, <1>4, <1>5 DEF t

LEMMA AppendSet ==
    ASSUME NEW S, NEW s \in Seq(S), NEW e \in S
    PROVE  /\ Append(s, e) \in Seq(S)
           /\ Append(s, e) # <<>>
           /\ ToSet(Append(s, e)) = ToSet(s) \cup {e}
           /\ IsInjective(s) /\ e \notin ToSet(s) => IsInjective(Append(s, e))
<1> DEFINE t == Append(s, e)
<1>1. /\ t \in Seq(S) /\ t # <<>> /\ Len(t) = Len(s) + 1 /\ DOMAIN t = 1..Len(t)
      /\ \A j \in 1..Len(s) : t[j] = s[j]
      /\ t[Len(s) + 1] = e
      /\ DOMAIN s = 1..Len(s) /\ Len(s) \in Nat
  BY AppendProperties, LenProperties
<1> HIDE DEF t
<1>2. ToSet(t) = ToSet(s) \cup {e}
 <2>1. ASSUME NEW x \in ToSet(t) PROVE x \in ToSet(s) \cup {e}  BY <1>1 DEF ToSet
 <2>2. ASSUME NEW x \in ToSet(s) PROVE x \in ToSet(t)  BY <1>1 DEF ToSet
 <2>3. e \in ToSet(t)  BY <1>1 DEF ToSet
 <2> QED  BY <2>1, <2>2, <2>3
<1>3. IsInjective(s) /\ e \notin ToSet(s) => IsInjective(t)  BY <1>1 DEF IsInjective, ToSet
<1> QED  BY <1>1, <1>2, <1>3 DEF t

LEMMA HeadTailSet ==
    ASSUME NEW S, NEW s \in Seq(S), s # <<>>
    PROVE  /\ Head(s) \in S /\ Head(s) \in ToSet(s)
           /\ Tail(s) \in Seq(S)
           /\ ToSet(Tail(s)) \subseteq ToSet(s)
           /\ IsInjective(s) => /\ IsInjective(Tail(s))
                                /\ ToSet(Tail(s)) = ToSet(s) \ {Head(s)}
<1> DEFINE t == Tail(s)
<1>1. /\ t \in Seq(S) /\ Len(t) = Len(s) - 1 /\ DOMAIN t = 1..Len(t)
      /\ \A j \in 1..Len(t) : t[j] = s[j + 1]
      /\ Head(s) = s[1] /\ Head(s) \in S
      /\ DOMAIN s = 1..Len(s) /\ Len(s) \in Nat \ {0}
  BY HeadTailProperties, LenProperties, EmptySeq
<1> HIDE DEF t
<1>2. Head(s) \in ToSet(s)  BY <1>1 DEF ToSet
<1>3. ToSet(t) \subseteq ToSet(s)
 <2>1. ASSUME NEW x \in ToSet(t) PROVE x \in ToSet(s)  BY <1>1 DEF ToSet
 <2> QED  BY <2>1
<1>4. ASSUME IsInjective(s) PROVE IsInjective(t) /\ ToSet(t) = ToSet(s) \ {s[1]}
 <2>1. IsInjective(t)  BY <1>1, <1>4 DEF IsInjective
 <2>2. ASSUME NEW x \in ToSet(t) PROVE x # s[1]  BY <1>1, <1>4 DEF IsInjective, ToSet
 <2>3. ASSUME NEW x \in ToSet(s), x # s[1] PROVE x \in ToSet(t)
  <3>1. PICK j \in 2..Len(s) : x = s[j]  BY <1>1, <2>3 DEF ToSet
  <3>2. j - 1 \in 1..Len(t) /\ t[j - 1] = s[(j - 1) + 1] /\ (j - 1) + 1 = j  BY <1>1, <3>1
  <3> QED  BY <3>1, <3>2, <1>1 DEF ToSet
 <2> QED  BY <2>1, <2>2, <2>3, <1>3
<1> QED  BY <1>1, <1>2, <1>3, <1>4 DEF t

-----------------------------------------------------------------------------
(* The inductive invariant.                                                *)

\* Nothing is known of a buffer without block, and a free buffer is not awaited
FlagsInv == \A b \in Bufs :
    /\ flags[b] # {} => tag[b] \in Blks
    /\ "BUSY" \notin flags[b] => flags[b] \cap {"ASYNC", "WANTED"} = {}

\* The request queue holds busy buffers of sectors that exist, each once
QueueInv ==
    /\ IsInjective(ioq)
    /\ active <=> ioq # <<>>
    /\ \A b \in ToSet(ioq) : /\ "BUSY" \in flags[b] /\ "DONE" \notin flags[b]
                             /\ tag[b] \in Sound

\* What a process has at each point of its call
PcInv == \A p \in Procs :
    /\ bp[p] # NoBuf <=>
          pc[p] \in {"got", "ra", "getra", "gotra", "iowait", "have", "wwait"}
    /\ abp[p] # NoBuf <=> pc[p] = "gotra"
    /\ pc[p] = "getblk" => blk[p] \in Blks
    /\ pc[p] \in {"getblk", "got"} /\ op[p] = "reada" => rablk[p] \in Blks
    /\ pc[p] \in {"ra", "getra", "gotra"} => rablk[p] \in Blks

\* Who keeps the busy buffers
KeeperInv ==
    /\ \A p, q \in Procs : \A b \in Bufs : Keeps(p, b) /\ Keeps(q, b) => p = q
    /\ \A p \in Procs : bp[p] = abp[p] => bp[p] = NoBuf
    /\ \A p \in Procs : \A b \in Bufs : Keeps(p, b) =>
          /\ "BUSY" \in flags[b] /\ "ASYNC" \notin flags[b]
          /\ b \in ToSet(ioq) =>
                b = bp[p] /\ pc[p] \in {"ra", "getra", "gotra", "iowait", "wwait"}
    /\ \A b \in Bufs : "BUSY" \in flags[b] =>
          \/ \E p \in Procs : Keeps(p, b)
          \/ b \in ToSet(ioq) /\ "ASYNC" \in flags[b]

IndInv == /\ TypeOK
          /\ OneBufferPerBlock
          /\ FreeListExact
          /\ FlagsInv
          /\ QueueInv
          /\ PcInv
          /\ KeeperInv
-----------------------------------------------------------------------------
(* What the helpers do, in terms of sets.                                  *)

LEMMA WakeUpAllType ==
    ASSUME TypeOK, NEW chans, WakeUpAll(chans)
    PROVE  wchan' \in [Procs -> Bufs \cup {NoBuf, FreeChan}]
  BY DEF TypeOK, WakeUpAll

LEMMA UnlinkedSet ==
    ASSUME IndInv, NEW b \in Bufs, "BUSY" \notin flags[b]
    PROVE  /\ Unlinked(b) \in Seq(Bufs)
           /\ IsInjective(Unlinked(b))
           /\ ToSet(Unlinked(b)) = ToSet(free) \ {b}
<1>1. free \in Seq(Bufs) /\ IsInjective(free) /\ b \in ToSet(free)
  BY DEF IndInv, TypeOK, FreeListExact
<1>2. PICK i \in DOMAIN free : free[i] = b /\ Unlinked(b) = RemoveAt(free, i)
  BY <1>1 DEF Unlinked, ToSet
<1> QED  BY <1>1, <1>2, RemoveAtSet

LEMMA BrelseEffect ==
    ASSUME TypeOK, NEW b \in Bufs, NEW f \in [Bufs -> SUBSET Flags], NEW fr \in Seq(Bufs),
           IsInjective(fr), b \notin ToSet(fr), Brelse(b, f, fr)
    PROVE  /\ flags' = [f EXCEPT ![b] = f[b] \ {"WANTED", "BUSY", "ASYNC"}]
           /\ flags' \in [Bufs -> SUBSET Flags]
           /\ free' \in Seq(Bufs) /\ IsInjective(free')
           /\ ToSet(free') = ToSet(fr) \cup {b}
           /\ freeWanted' \in BOOLEAN
           /\ wchan' \in [Procs -> Bufs \cup {NoBuf, FreeChan}]
<1>1. wchan' \in [Procs -> Bufs \cup {NoBuf, FreeChan}]  BY WakeUpAllType DEF Brelse
<1>2. /\ free' = Append(fr, b) /\ freeWanted' = FALSE
      /\ flags' = [f EXCEPT ![b] = f[b] \ {"WANTED", "BUSY", "ASYNC"}]
  BY DEF Brelse
<1>3. free' \in Seq(Bufs) /\ IsInjective(free') /\ ToSet(free') = ToSet(fr) \cup {b}
  BY <1>2, AppendSet
<1>4. flags' \in [Bufs -> SUBSET Flags]  BY <1>2
<1> QED  BY <1>1, <1>2, <1>3, <1>4

\* IODone releases the buffer or leaves it with its keeper
LEMMA IODoneEffect ==
    ASSUME TypeOK, NEW b \in Bufs, NEW f \in [Bufs -> SUBSET Flags], NEW fr \in Seq(Bufs),
           IsInjective(fr), b \notin ToSet(fr), IODone(b, f, fr)
    PROVE  /\ flags' \in [Bufs -> SUBSET Flags]
           /\ free' \in Seq(Bufs) /\ IsInjective(free')
           /\ freeWanted' \in BOOLEAN
           /\ wchan' \in [Procs -> Bufs \cup {NoBuf, FreeChan}]
           /\ \A c \in Bufs : c # b => flags'[c] = f[c]
           /\ IF "ASYNC" \in f[b]
              THEN /\ flags'[b] = (f[b] \cup {"DONE"}) \ {"WANTED", "BUSY", "ASYNC"}
                   /\ ToSet(free') = ToSet(fr) \cup {b}
              ELSE /\ flags'[b] = (f[b] \cup {"DONE"}) \ {"WANTED"}
                   /\ free' = fr
<1> DEFINE g == [f EXCEPT ![b] = f[b] \cup {"DONE"}]
<1>1. g \in [Bufs -> SUBSET Flags] /\ g[b] = f[b] \cup {"DONE"}
      /\ \A c \in Bufs : c # b => g[c] = f[c]
  BY DEF Flags
<1> HIDE DEF g
<1>2. CASE "ASYNC" \in f[b]
 <2>1. Brelse(b, g, fr)  BY <1>2 DEF IODone, g
 <2>2. /\ flags' = [g EXCEPT ![b] = g[b] \ {"WANTED", "BUSY", "ASYNC"}]
       /\ flags' \in [Bufs -> SUBSET Flags]
       /\ free' \in Seq(Bufs) /\ IsInjective(free')
       /\ ToSet(free') = ToSet(fr) \cup {b}
       /\ freeWanted' \in BOOLEAN
       /\ wchan' \in [Procs -> Bufs \cup {NoBuf, FreeChan}]
   BY <2>1, <1>1, BrelseEffect
 <2> QED  BY <2>2, <1>1, <1>2
<1>3. CASE "ASYNC" \notin f[b]
 <2>1. /\ WakeUpAll({b}) /\ flags' = [g EXCEPT ![b] = g[b] \ {"WANTED"}]
       /\ free' = fr /\ freeWanted' = freeWanted
   BY <1>3 DEF IODone, g
 <2> QED  BY <2>1, <1>1, <1>3, WakeUpAllType DEF TypeOK
<1> QED  BY <1>2, <1>3

\* Strategy queues the request, or ends it at once with an error
LEMMA StrategyEffect ==
    ASSUME TypeOK, QueueInv,
           NEW b \in Bufs, NEW f \in [Bufs -> SUBSET Flags], NEW fr \in Seq(Bufs),
           IsInjective(fr), b \notin ToSet(fr), b \notin ToSet(ioq), Strategy(b, f, fr)
    PROVE  /\ flags' \in [Bufs -> SUBSET Flags]
           /\ free' \in Seq(Bufs) /\ IsInjective(free')
           /\ freeWanted' \in BOOLEAN
           /\ wchan' \in [Procs -> Bufs \cup {NoBuf, FreeChan}]
           /\ ioq' \in Seq(Bufs) /\ IsInjective(ioq')
           /\ active' \in BOOLEAN /\ (active' <=> ioq' # <<>>)
           /\ UNCHANGED <<errcnt, inService, disk, faults>>
           /\ \A c \in Bufs : c # b => flags'[c] = f[c]
           /\ \/ /\ tag[b] \notin OutOfRange
                 /\ ToSet(ioq') = ToSet(ioq) \cup {b}
                 /\ flags'[b] = f[b]
                 /\ free' = fr
              \/ /\ tag[b] \in OutOfRange
                 /\ ioq' = ioq
                 /\ "ASYNC" \in f[b]
                 /\ flags'[b] = (f[b] \cup {"ERROR", "DONE"}) \ {"WANTED", "BUSY", "ASYNC"}
                 /\ ToSet(free') = ToSet(fr) \cup {b}
              \/ /\ tag[b] \in OutOfRange
                 /\ ioq' = ioq
                 /\ "ASYNC" \notin f[b]
                 /\ flags'[b] = (f[b] \cup {"ERROR", "DONE"}) \ {"WANTED"}
                 /\ free' = fr
<1>1. CASE tag[b] \in OutOfRange
 <2> DEFINE g == [f EXCEPT ![b] = f[b] \cup {"ERROR"}]
 <2>1. g \in [Bufs -> SUBSET Flags] /\ g[b] = f[b] \cup {"ERROR"}
       /\ \A c \in Bufs : c # b => g[c] = f[c]
   BY DEF Flags
 <2>2. IODone(b, g, fr) /\ UNCHANGED devVars  BY <1>1 DEF Strategy
 <2> HIDE DEF g
 <2>3. /\ flags' \in [Bufs -> SUBSET Flags]
       /\ free' \in Seq(Bufs) /\ IsInjective(free')
       /\ freeWanted' \in BOOLEAN
       /\ wchan' \in [Procs -> Bufs \cup {NoBuf, FreeChan}]
       /\ \A c \in Bufs : c # b => flags'[c] = g[c]
       /\ IF "ASYNC" \in g[b]
          THEN /\ flags'[b] = (g[b] \cup {"DONE"}) \ {"WANTED", "BUSY", "ASYNC"}
               /\ ToSet(free') = ToSet(fr) \cup {b}
          ELSE /\ flags'[b] = (g[b] \cup {"DONE"}) \ {"WANTED"}
               /\ free' = fr
   BY <2>1, <2>2, IODoneEffect
 <2>4. ("ASYNC" \in g[b] <=> "ASYNC" \in f[b])
       /\ g[b] \cup {"DONE"} = f[b] \cup {"ERROR", "DONE"}
   BY <2>1
 <2>5. UNCHANGED <<ioq, active, errcnt, inService, disk, faults>>  BY <2>2 DEF devVars
 <2> QED  BY <1>1, <2>1, <2>3, <2>4, <2>5 DEF TypeOK, QueueInv
<1>2. CASE tag[b] \notin OutOfRange
 <2>1. /\ flags' = f /\ free' = fr /\ ioq' = Append(ioq, b) /\ active' = TRUE
       /\ UNCHANGED <<freeWanted, errcnt, inService, disk, faults, wchan>>
   BY <1>2 DEF Strategy
 <2>2. /\ ioq' \in Seq(Bufs) /\ IsInjective(ioq') /\ ioq' # <<>>
       /\ ToSet(ioq') = ToSet(ioq) \cup {b}
   BY <2>1, AppendSet DEF TypeOK, QueueInv
 <2> QED  BY <1>2, <2>1, <2>2 DEF TypeOK
<1> QED  BY <1>1, <1>2

-----------------------------------------------------------------------------
(* Every step preserves the invariant.                                     *)

\* The points of a call at which the disk may be at work for the buffer in bp
Waiting == {"ra", "getra", "gotra", "iowait", "wwait"}

\* A process moves on, or sleeps, and keeps the buffers it has
LEMMA OnlyMovesOn ==
    ASSUME IndInv, NEW p \in Procs, TypeOK', PcInv',
           UNCHANGED <<tag, flags, free, ioq, active, bp, abp>>,
           \A q \in Procs : q # p => pc'[q] = pc[q],
           pc'[p] \in Waiting \/ \A b \in Bufs : Keeps(p, b) => b \notin ToSet(ioq)
    PROVE  IndInv'
<1>1. OneBufferPerBlock' /\ FreeListExact' /\ FlagsInv' /\ QueueInv'
  BY DEF IndInv, OneBufferPerBlock, FreeListExact, FlagsInv, QueueInv, ToSet
<1>2. KeeperInv'
 <2>1. \A q \in Procs : \A c \in Bufs : Keeps(q, c)' <=> Keeps(q, c)  BY DEF Keeps
 <2>2. ToSet(ioq') = ToSet(ioq)  OBVIOUS
 <2> QED  BY <2>1, <2>2 DEF IndInv, KeeperInv, Waiting
<1> QED  BY <1>1, <1>2 DEF IndInv

\* One buffer b changes hands: it is released, or given to the disk for good, or
\* kept by one process; p may move on, and all else stays
LEMMA KeeperStep ==
    ASSUME IndInv, NEW p \in Procs, NEW b \in Bufs,
           \A c \in Bufs : c # b =>
               /\ flags'[c] = flags[c]
               /\ c \in ToSet(ioq') <=> c \in ToSet(ioq)
               /\ \A q \in Procs : Keeps(q, c)' <=> Keeps(q, c)
               /\ Keeps(p, c) /\ c \in ToSet(ioq) => c = bp'[p] /\ pc'[p] \in Waiting,
           \A q \in Procs : bp'[q] = abp'[q] => bp'[q] = NoBuf,
           \A q \in Procs : q # p => pc'[q] = pc[q] /\ bp'[q] = bp[q],
           \/ "BUSY" \notin flags'[b] /\ \A q \in Procs : ~Keeps(q, b)'
           \/ /\ {"BUSY", "ASYNC"} \subseteq flags'[b] /\ b \in ToSet(ioq')
              /\ \A q \in Procs : ~Keeps(q, b)'
           \/ /\ "BUSY" \in flags'[b] /\ "ASYNC" \notin flags'[b]
              /\ \E r \in Procs :
                    /\ \A q \in Procs : Keeps(q, b)' <=> q = r
                    /\ b \in ToSet(ioq') => b = bp'[r] /\ pc'[r] \in Waiting
    PROVE  KeeperInv'
<1>1. \A q, r \in Procs : \A c \in Bufs : Keeps(q, c)' /\ Keeps(r, c)' => q = r
  BY DEF IndInv, KeeperInv
<1>2. ASSUME NEW q \in Procs, NEW c \in Bufs, Keeps(q, c)'
      PROVE  /\ "BUSY" \in flags'[c] /\ "ASYNC" \notin flags'[c]
             /\ c \in ToSet(ioq') => c = bp'[q] /\ pc'[q] \in Waiting
 <2>1. CASE c = b  BY <1>2, <2>1
 <2>2. CASE c # b
  <3>1. Keeps(q, c) /\ flags'[c] = flags[c] /\ (c \in ToSet(ioq') => c \in ToSet(ioq))
    BY <2>2, <1>2
  <3>2. /\ "BUSY" \in flags[c] /\ "ASYNC" \notin flags[c]
        /\ c \in ToSet(ioq) => c = bp[q] /\ pc[q] \in Waiting
    BY <3>1 DEF IndInv, KeeperInv, Waiting
  <3> QED  BY <2>2, <3>1, <3>2
 <2> QED  BY <2>1, <2>2
<1>3. ASSUME NEW c \in Bufs, "BUSY" \in flags'[c]
      PROVE  \/ \E q \in Procs : Keeps(q, c)'
             \/ c \in ToSet(ioq') /\ "ASYNC" \in flags'[c]
  BY <1>3 DEF IndInv, KeeperInv
<1> QED  BY <1>1, <1>2, <1>3 DEF KeeperInv, Waiting

\* The types of what only processes change
ProcTypeOK ==
    /\ data \in [Bufs -> Vals]
    /\ cpu \in Procs \cup {NoProc}
    /\ pc \in [Procs -> PCs]
    /\ op \in [Procs -> {"none", "read", "new", "reada", "flush"}]
    /\ blk \in [Procs -> Blks \cup {NoBlk}]
    /\ rablk \in [Procs -> Blks \cup {NoBlk}]
    /\ bp \in [Procs -> Bufs \cup {NoBuf}]
    /\ abp \in [Procs -> Bufs \cup {NoBuf}]
    /\ uerror \in [Procs -> BOOLEAN]
    /\ calls \in Nat

\* A busy buffer that the disk does not have yet is given to Strategy
LEMMA StrategyInv ==
    ASSUME IndInv, NEW p \in Procs, NEW b \in Bufs,
           NEW f \in [Bufs -> SUBSET Flags], NEW fr \in Seq(Bufs),
           \A c \in Bufs : c # b => f[c] = flags[c],
           "BUSY" \in f[b], "DONE" \notin f[b], tag[b] \in Blks, b \notin ToSet(ioq),
           IsInjective(fr), ToSet(fr) = ToSet(free) \ {b}, Strategy(b, f, fr),
           tag' = tag, ProcTypeOK', PcInv',
           \A c \in Bufs : c # b =>
               /\ \A q \in Procs : Keeps(q, c)' <=> Keeps(q, c)
               /\ Keeps(p, c) /\ c \in ToSet(ioq) => c = bp'[p] /\ pc'[p] \in Waiting,
           \A q \in Procs : bp'[q] = abp'[q] => bp'[q] = NoBuf,
           \A q \in Procs : q # p => pc'[q] = pc[q] /\ bp'[q] = bp[q],
           "ASYNC" \in f[b] => \A q \in Procs : ~Keeps(q, b)',
           "ASYNC" \notin f[b] => /\ \A q \in Procs : Keeps(q, b)' <=> q = p
                                  /\ b = bp'[p] /\ pc'[p] \in Waiting
    PROVE  IndInv'
<1>1. b \notin ToSet(fr) /\ TypeOK /\ QueueInv  BY DEF IndInv
<1>2. /\ flags' \in [Bufs -> SUBSET Flags]
      /\ free' \in Seq(Bufs) /\ IsInjective(free')
      /\ freeWanted' \in BOOLEAN
      /\ wchan' \in [Procs -> Bufs \cup {NoBuf, FreeChan}]
      /\ ioq' \in Seq(Bufs) /\ IsInjective(ioq')
      /\ active' \in BOOLEAN /\ (active' <=> ioq' # <<>>)
      /\ UNCHANGED <<errcnt, inService, disk, faults>>
      /\ \A c \in Bufs : c # b => flags'[c] = f[c]
  BY <1>1, StrategyEffect
<1>3. \/ /\ tag[b] \notin OutOfRange
         /\ ToSet(ioq') = ToSet(ioq) \cup {b}
         /\ flags'[b] = f[b]
         /\ free' = fr
      \/ /\ tag[b] \in OutOfRange
         /\ ioq' = ioq
         /\ "ASYNC" \in f[b]
         /\ flags'[b] = (f[b] \cup {"ERROR", "DONE"}) \ {"WANTED", "BUSY", "ASYNC"}
         /\ ToSet(free') = ToSet(fr) \cup {b}
      \/ /\ tag[b] \in OutOfRange
         /\ ioq' = ioq
         /\ "ASYNC" \notin f[b]
         /\ flags'[b] = (f[b] \cup {"ERROR", "DONE"}) \ {"WANTED"}
         /\ free' = fr
  BY <1>1, StrategyEffect
<1>4. TypeOK'  BY <1>2 DEF IndInv, TypeOK, ProcTypeOK
<1>5. OneBufferPerBlock'  BY DEF IndInv, OneBufferPerBlock
<1>6. FreeListExact'
 <2>1. ToSet(free') = {c \in Bufs : "BUSY" \notin flags'[c]}
   BY <1>2, <1>3 DEF IndInv, FreeListExact
 <2> QED  BY <1>2, <2>1 DEF FreeListExact
<1>7. FlagsInv'  BY <1>2, <1>3 DEF IndInv, FlagsInv
<1>8. \A c \in ToSet(ioq) : c \in Bufs /\ c # b  BY DEF IndInv, TypeOK, ToSet
<1>9. QueueInv'  BY <1>2, <1>3, <1>8 DEF IndInv, QueueInv, Sound
<1>10. KeeperInv'
 <2>1. \A c \in Bufs : c # b => c \in ToSet(ioq') <=> c \in ToSet(ioq)  BY <1>3
 <2>2. CASE "ASYNC" \in f[b] /\ tag[b] \in OutOfRange  BY <1>2, <1>3, <2>1, <2>2, KeeperStep
 <2>3. CASE "ASYNC" \in f[b] /\ tag[b] \notin OutOfRange  BY <1>2, <1>3, <2>1, <2>3, KeeperStep
 <2>4. CASE "ASYNC" \notin f[b]
  <3>1. "BUSY" \in flags'[b] /\ "ASYNC" \notin flags'[b]  BY <1>3, <2>4
  <3> QED  BY <1>2, <2>1, <2>4, <3>1, KeeperStep
 <2> QED  BY <2>2, <2>3, <2>4
<1> QED  BY <1>4, <1>5, <1>6, <1>7, <1>9, <1>10 DEF IndInv

\* A busy buffer that the disk does not have is released
LEMMA ReleaseInv ==
    ASSUME IndInv, NEW p \in Procs, NEW b \in Bufs, NEW f \in [Bufs -> SUBSET Flags],
           \A c \in Bufs : c # b => f[c] = flags[c],
           "BUSY" \in flags[b], tag[b] \in Blks, b \notin ToSet(ioq), Brelse(b, f, free),
           tag' = tag, UNCHANGED devVars, ProcTypeOK', PcInv',
           \A c \in Bufs : c # b =>
               /\ \A q \in Procs : Keeps(q, c)' <=> Keeps(q, c)
               /\ Keeps(p, c) /\ c \in ToSet(ioq) => c = bp'[p] /\ pc'[p] \in Waiting,
           \A q \in Procs : bp'[q] = abp'[q] => bp'[q] = NoBuf,
           \A q \in Procs : q # p => pc'[q] = pc[q] /\ bp'[q] = bp[q],
           \A q \in Procs : ~Keeps(q, b)'
    PROVE  IndInv'
<1>1. /\ b \notin ToSet(free) /\ free \in Seq(Bufs) /\ IsInjective(free) /\ TypeOK
  BY DEF IndInv, FreeListExact, TypeOK
<1>2. /\ flags' = [f EXCEPT ![b] = f[b] \ {"WANTED", "BUSY", "ASYNC"}]
      /\ flags' \in [Bufs -> SUBSET Flags]
      /\ free' \in Seq(Bufs) /\ IsInjective(free')
      /\ ToSet(free') = ToSet(free) \cup {b}
      /\ freeWanted' \in BOOLEAN
      /\ wchan' \in [Procs -> Bufs \cup {NoBuf, FreeChan}]
  BY <1>1, BrelseEffect
<1>3. /\ flags'[b] = f[b] \ {"WANTED", "BUSY", "ASYNC"}
      /\ \A c \in Bufs : c # b => flags'[c] = flags[c]
  BY <1>2
<1>4. UNCHANGED <<ioq, active, errcnt, inService, disk, faults>>  BY DEF devVars
<1>5. TypeOK'  BY <1>2, <1>4 DEF IndInv, TypeOK, ProcTypeOK
<1>6. OneBufferPerBlock'  BY DEF IndInv, OneBufferPerBlock
<1>7. FreeListExact'
 <2>1. ToSet(free') = {c \in Bufs : "BUSY" \notin flags'[c]}
   BY <1>2, <1>3 DEF IndInv, FreeListExact
 <2> QED  BY <1>2, <2>1 DEF FreeListExact
<1>8. FlagsInv'  BY <1>3 DEF IndInv, FlagsInv
<1>9. QueueInv'
 <2>1. \A c \in ToSet(ioq) : c \in Bufs /\ c # b  BY DEF IndInv, TypeOK, ToSet
 <2> QED  BY <1>3, <1>4, <2>1 DEF IndInv, QueueInv
<1>10. KeeperInv'
 <2>1. "BUSY" \notin flags'[b] /\ ToSet(ioq') = ToSet(ioq)  BY <1>3, <1>4
 <2> QED  BY <1>3, <2>1, KeeperStep
<1> QED  BY <1>5, <1>6, <1>7, <1>8, <1>9, <1>10 DEF IndInv

LEMMA CallInv ==
    ASSUME IndInv, NEW p \in Procs, NEW o \in {"read", "new", "reada", "flush"},
           NEW k \in Blks \cup {NoBlk}, NEW r \in Blks \cup {NoBlk},
           o # "flush" => k \in Blks, o = "reada" => r \in Blks, Call(p, o, k, r)
    PROVE  IndInv'
<1>1. UNCHANGED <<tag, flags, data, free, freeWanted, ioq, active, errcnt, inService,
                  disk, faults, wchan, bp, abp>>
  BY DEF Call, bufVars, devVars
<1>2. /\ pc[p] = "idle"
      /\ pc' = [pc EXCEPT ![p] = IF o = "flush" THEN "flush" ELSE "getblk"]
      /\ op' = [op EXCEPT ![p] = o] /\ blk' = [blk EXCEPT ![p] = k]
      /\ rablk' = [rablk EXCEPT ![p] = r] /\ uerror' = [uerror EXCEPT ![p] = FALSE]
      /\ calls' = calls + 1 /\ cpu' = p
  BY DEF Call, GoTo
<1>3. TypeOK'  BY <1>1, <1>2 DEF IndInv, TypeOK, PCs
<1>4. PcInv'  BY <1>1, <1>2 DEF IndInv, TypeOK, PcInv
<1>5. \A b \in Bufs : ~Keeps(p, b)  BY <1>2 DEF IndInv, PcInv, Keeps, Bufs, NoBuf
<1>6. \A q \in Procs : q # p => pc'[q] = pc[q]  BY <1>2 DEF IndInv, TypeOK
<1> QED  BY <1>1, <1>3, <1>4, <1>5, <1>6, OnlyMovesOn

LEMMA CallsInv ==
    ASSUME IndInv, NEW p \in Procs,
           CallRead(p) \/ CallNew(p) \/ CallReada(p) \/ CallFlush(p)
    PROVE  IndInv'
<1>1. CASE CallRead(p)  BY <1>1, CallInv DEF CallRead
<1>2. CASE CallNew(p)  BY <1>2, CallInv DEF CallNew
<1>3. CASE CallReada(p)
 <2>1. PICK k \in Blks, r \in Blks : Call(p, "read", k, NoBlk) \/ Call(p, "reada", k, r)
   BY <1>3 DEF CallReada
 <2>2. CASE Call(p, "read", k, NoBlk)  BY <2>2, CallInv
 <2>3. CASE Call(p, "reada", k, r)  BY <2>3, CallInv
 <2> QED  BY <2>1, <2>2, <2>3
<1>4. CASE CallFlush(p)  BY <1>4, CallInv DEF CallFlush
<1> QED  BY <1>1, <1>2, <1>3, <1>4

LEMMA GetBlkNoneInv ==
    ASSUME IndInv, NEW p \in Procs, GetBlkNone(p)
    PROVE  IndInv'
<1>1. /\ pc[p] \in {"getblk", "getra"} /\ cpu' = NoProc /\ freeWanted' = TRUE
      /\ wchan' = [wchan EXCEPT ![p] = FreeChan]
      /\ UNCHANGED <<tag, flags, data, free, ioq, active, errcnt, inService, disk, faults,
                     pc, op, blk, rablk, bp, abp, uerror, calls>>
  BY DEF GetBlkNone, InGetBlk, Sleep, devVars
<1>2. TypeOK'  BY <1>1 DEF IndInv, TypeOK
<1>3. PcInv'  BY <1>1 DEF IndInv, PcInv
<1>4. pc'[p] \in Waiting \/ \A b \in Bufs : Keeps(p, b) => b \notin ToSet(ioq)
  BY <1>1 DEF IndInv, KeeperInv, Waiting
<1> QED  BY <1>1, <1>2, <1>3, <1>4, OnlyMovesOn

LEMMA ReadAheadInv ==
    ASSUME IndInv, NEW p \in Procs, ReadAhead(p)
    PROVE  IndInv'
<1> DEFINE l == IF InCore(rablk[p]) THEN "iowait" ELSE "getra"
<1>1. /\ pc[p] = "ra" /\ cpu' = p /\ pc' = [pc EXCEPT ![p] = l]
      /\ UNCHANGED <<tag, flags, data, free, freeWanted, ioq, active, errcnt, inService,
                     disk, faults, wchan, op, blk, rablk, bp, abp, uerror, calls>>
  BY DEF ReadAhead, GoTo, bufVars, devVars
<1>2. l \in {"iowait", "getra"}  OBVIOUS
<1> HIDE DEF l
<1>3. TypeOK'  BY <1>1, <1>2 DEF IndInv, TypeOK, PCs
<1>4. PcInv'  BY <1>1, <1>2 DEF IndInv, TypeOK, PcInv
<1>5. pc'[p] \in Waiting /\ \A q \in Procs : q # p => pc'[q] = pc[q]
  BY <1>1, <1>2 DEF IndInv, TypeOK, Waiting
<1> QED  BY <1>1, <1>3, <1>4, <1>5, OnlyMovesOn

LEMMA IOWaitReadInv ==
    ASSUME IndInv, NEW p \in Procs, IOWaitRead(p)
    PROVE  IndInv'
<1>1. /\ pc[p] = "iowait"
      /\ UNCHANGED <<tag, flags, data, free, freeWanted, ioq, active, errcnt, inService,
                     disk, faults, op, blk, rablk, bp, abp, calls>>
  BY DEF IOWaitRead, bufVars, devVars
<1>2. bp[p] \in Bufs  BY <1>1 DEF IndInv, TypeOK, PcInv
<1>3. CASE "DONE" \in flags[bp[p]]
 <2>1. /\ pc' = [pc EXCEPT ![p] = "have"] /\ cpu' = p /\ wchan' = wchan
       /\ uerror' = [uerror EXCEPT ![p] = @ \/ "ERROR" \in flags[bp[p]]]
   BY <1>3 DEF IOWaitRead, GoTo
 <2>2. uerror' \in [Procs -> BOOLEAN]  BY <2>1 DEF IndInv, TypeOK
 <2>3. TypeOK'  BY <1>1, <2>1, <2>2 DEF IndInv, TypeOK, PCs
 <2>4. PcInv'  BY <1>1, <2>1 DEF IndInv, TypeOK, PcInv
 <2>5. \A b \in Bufs : Keeps(p, b) => b \notin ToSet(ioq)
   BY <1>1, <1>3 DEF IndInv, PcInv, QueueInv, Keeps, NoBuf, Bufs
 <2>6. \A q \in Procs : q # p => pc'[q] = pc[q]  BY <2>1 DEF IndInv, TypeOK
 <2> QED  BY <1>1, <2>3, <2>4, <2>5, <2>6, OnlyMovesOn
<1>4. CASE "DONE" \notin flags[bp[p]]
 <2>1. /\ wchan' = [wchan EXCEPT ![p] = bp[p]] /\ cpu' = NoProc
       /\ UNCHANGED <<pc, uerror>>
   BY <1>4 DEF IOWaitRead, Sleep
 <2>2. TypeOK'  BY <1>1, <1>2, <2>1 DEF IndInv, TypeOK
 <2>3. PcInv'  BY <1>1, <2>1 DEF IndInv, PcInv
 <2>4. pc'[p] \in Waiting  BY <1>1, <2>1 DEF Waiting
 <2> QED  BY <1>1, <2>1, <2>2, <2>3, <2>4, OnlyMovesOn
<1> QED  BY <1>3, <1>4

LEMMA BflushEndInv ==
    ASSUME IndInv, NEW p \in Procs, BflushEnd(p)
    PROVE  IndInv'
<1>1. /\ pc[p] = "flush" /\ cpu' = NoProc
      /\ pc' = [pc EXCEPT ![p] = "idle"] /\ op' = [op EXCEPT ![p] = "none"]
      /\ blk' = [blk EXCEPT ![p] = NoBlk] /\ rablk' = [rablk EXCEPT ![p] = NoBlk]
      /\ bp' = [bp EXCEPT ![p] = NoBuf] /\ uerror' = [uerror EXCEPT ![p] = FALSE]
      /\ UNCHANGED <<tag, flags, data, free, freeWanted, ioq, active, errcnt, inService,
                     disk, faults, wchan, abp, calls>>
  BY DEF BflushEnd, Return, bufVars, devVars
<1>2. bp[p] = NoBuf /\ abp[p] = NoBuf  BY <1>1 DEF IndInv, PcInv
<1>3. bp' = bp  BY <1>1, <1>2 DEF IndInv, TypeOK
<1>4. TypeOK'  BY <1>1, <1>3 DEF IndInv, TypeOK, PCs
<1>5. PcInv'  BY <1>1, <1>2, <1>3 DEF IndInv, TypeOK, PcInv
<1>6. \A b \in Bufs : ~Keeps(p, b)  BY <1>2 DEF Keeps, Bufs, NoBuf
<1>7. \A q \in Procs : q # p => pc'[q] = pc[q]  BY <1>1 DEF IndInv, TypeOK
<1> QED  BY <1>1, <1>3, <1>4, <1>5, <1>6, <1>7, OnlyMovesOn

\* GetBlk takes b from the free list and returns it
LEMMA GotInv ==
    ASSUME IndInv, NEW p \in Procs, NEW b \in Bufs, Runs(p), pc[p] \in {"getblk", "getra"},
           "BUSY" \notin flags[b], Got(p, b),
           free' \in Seq(Bufs), IsInjective(free'), ToSet(free') = ToSet(free) \ {b},
           flags' \in [Bufs -> SUBSET Flags],
           "BUSY" \in flags'[b], "ASYNC" \notin flags'[b],
           \A c \in Bufs : c # b => flags'[c] = flags[c] /\ tag'[c] = tag[c],
           tag' \in [Bufs -> Blks \cup {NoBlk}], tag'[b] \in Blks, OneBufferPerBlock',
           UNCHANGED <<data, freeWanted, ioq, active, errcnt, inService, disk, faults,
                       wchan, op, blk, rablk, uerror, calls>>
    PROVE  IndInv'
<1>1. /\ cpu' = p
      /\ pc' = [pc EXCEPT ![p] = IF pc[p] = "getblk" THEN "got" ELSE "gotra"]
      /\ IF pc[p] = "getblk" THEN bp' = [bp EXCEPT ![p] = b] /\ abp' = abp
                             ELSE abp' = [abp EXCEPT ![p] = b] /\ bp' = bp
  BY DEF Got, GoTo
<1>2. TypeOK'
 <2>1. bp' \in [Procs -> Bufs \cup {NoBuf}] /\ abp' \in [Procs -> Bufs \cup {NoBuf}]
   BY <1>1 DEF IndInv, TypeOK
 <2>2. pc' \in [Procs -> PCs]  BY <1>1 DEF IndInv, TypeOK, PCs
 <2> QED  BY <2>1, <2>2, <1>1 DEF IndInv, TypeOK
<1>3. FreeListExact'  BY DEF IndInv, FreeListExact
<1>4. FlagsInv'  BY DEF IndInv, FlagsInv
<1>5. b \notin ToSet(ioq)  BY DEF IndInv, QueueInv
<1>6. QueueInv'
 <2>1. \A c \in ToSet(ioq) : c \in Bufs  BY DEF IndInv, TypeOK, ToSet
 <2> QED  BY <1>5, <2>1 DEF IndInv, QueueInv
<1>7. PcInv'  BY <1>1 DEF IndInv, TypeOK, PcInv, NoBuf, Bufs
<1>8. KeeperInv'
 <2>1. \A q \in Procs : ~Keeps(q, b)  BY DEF IndInv, KeeperInv
 <2>2. \A q \in Procs : \A c \in Bufs : Keeps(q, c)' <=> (Keeps(q, c) \/ (q = p /\ c = b))
  <3>1. NoBuf \notin Bufs  BY DEF NoBuf, Bufs
  <3>2. CASE pc[p] = "getblk"
   <4>1. bp[p] = NoBuf /\ abp' = abp /\ bp' = [bp EXCEPT ![p] = b]  BY <1>1, <3>2 DEF IndInv, PcInv
   <4> QED  BY <4>1, <3>1 DEF IndInv, TypeOK, Keeps
  <3>3. CASE pc[p] = "getra"
   <4>1. abp[p] = NoBuf /\ bp' = bp /\ abp' = [abp EXCEPT ![p] = b]  BY <1>1, <3>3 DEF IndInv, PcInv
   <4> QED  BY <4>1, <3>1 DEF IndInv, TypeOK, Keeps
  <3> QED  BY <3>2, <3>3
 <2>3. ToSet(ioq') = ToSet(ioq)  OBVIOUS
 <2>4. \A q \in Procs : q # p => bp'[q] = bp[q] /\ abp'[q] = abp[q] /\ pc'[q] = pc[q]
   BY <1>1 DEF IndInv, TypeOK
 <2>5. bp'[p] = abp'[p] => bp'[p] = NoBuf  BY <1>1, <2>1 DEF IndInv, TypeOK, PcInv, Keeps
 <2>6. \A q, r \in Procs : \A c \in Bufs : Keeps(q, c)' /\ Keeps(r, c)' => q = r
   BY <2>1, <2>2 DEF IndInv, KeeperInv
 <2>7. \A q \in Procs : bp'[q] = abp'[q] => bp'[q] = NoBuf  BY <2>4, <2>5 DEF IndInv, KeeperInv
 <2>8. ASSUME NEW q \in Procs, NEW c \in Bufs, Keeps(q, c)'
       PROVE  /\ "BUSY" \in flags'[c] /\ "ASYNC" \notin flags'[c]
              /\ c \in ToSet(ioq') => c = bp'[q] /\ pc'[q] \in Waiting
  <3>1. CASE c = b  BY <3>1, <2>3, <1>5
  <3>2. CASE c # b
   <4>1. Keeps(q, c) /\ flags'[c] = flags[c]  BY <3>2, <2>2, <2>8
   <4>2. /\ "BUSY" \in flags[c] /\ "ASYNC" \notin flags[c]
         /\ c \in ToSet(ioq) => c = bp[q] /\ pc[q] \in Waiting
     BY <4>1 DEF IndInv, KeeperInv, Waiting
   <4>3. CASE q # p  BY <4>1, <4>2, <4>3, <2>3, <2>4
   <4>4. CASE q = p  BY <4>1, <4>2, <4>4, <2>3, <1>1 DEF IndInv, TypeOK, PcInv, Keeps, Waiting
   <4> QED  BY <4>3, <4>4
  <3> QED  BY <3>1, <3>2
 <2>9. ASSUME NEW c \in Bufs, "BUSY" \in flags'[c]
       PROVE  \/ \E q \in Procs : Keeps(q, c)'
              \/ c \in ToSet(ioq') /\ "ASYNC" \in flags'[c]
   BY <2>2, <2>3, <2>9 DEF IndInv, KeeperInv
 <2> QED  BY <2>6, <2>7, <2>8, <2>9 DEF KeeperInv, Waiting
<1> QED  BY <1>2, <1>3, <1>4, <1>6, <1>7, <1>8 DEF IndInv

LEMMA GetBlkHitInv ==
    ASSUME IndInv, NEW p \in Procs, GetBlkHit(p)
    PROVE  IndInv'
<1>1. PICK b \in Bufs : /\ InGetBlk(p) /\ tag[b] = Target(p) /\ "BUSY" \notin flags[b]
                        /\ free' = Unlinked(b)
                        /\ flags' = [flags EXCEPT ![b] = @ \cup {"BUSY"}]
                        /\ Got(p, b)
  BY DEF GetBlkHit
<1>2. UNCHANGED <<tag, data, freeWanted, ioq, active, errcnt, inService, disk, faults,
                  wchan, op, blk, rablk, uerror, calls>>
  BY DEF GetBlkHit, devVars
<1>3. free' \in Seq(Bufs) /\ IsInjective(free') /\ ToSet(free') = ToSet(free) \ {b}
  BY <1>1, UnlinkedSet
<1>4. /\ flags' \in [Bufs -> SUBSET Flags] /\ "BUSY" \in flags'[b]
      /\ "ASYNC" \notin flags'[b]
      /\ \A c \in Bufs : c # b => flags'[c] = flags[c]
  BY <1>1 DEF IndInv, TypeOK, FlagsInv, Flags
<1>5. Runs(p) /\ pc[p] \in {"getblk", "getra"}  BY <1>1 DEF InGetBlk
<1>6. tag[b] \in Blks  BY <1>1, <1>5 DEF IndInv, PcInv, Target
<1>7. OneBufferPerBlock' /\ tag' \in [Bufs -> Blks \cup {NoBlk}]
  BY <1>2 DEF IndInv, OneBufferPerBlock, TypeOK
<1> QED  BY <1>1, <1>2, <1>3, <1>4, <1>5, <1>6, <1>7, GotInv

LEMMA GetBlkClaimInv ==
    ASSUME IndInv, NEW p \in Procs, GetBlkClaim(p)
    PROVE  IndInv'
<1> DEFINE b == Head(free)
<1>1. /\ InGetBlk(p) /\ ~InCore(Target(p)) /\ free # <<>>
      /\ free' = Tail(free)
      /\ flags' = [flags EXCEPT ![b] = {"BUSY"}]
      /\ tag' = [tag EXCEPT ![b] = Target(p)]
      /\ Got(p, b)
  BY DEF GetBlkClaim
<1>2. UNCHANGED <<data, freeWanted, ioq, active, errcnt, inService, disk, faults,
                  wchan, op, blk, rablk, uerror, calls>>
  BY DEF GetBlkClaim, devVars
<1>3. /\ b \in Bufs /\ "BUSY" \notin flags[b]
      /\ free' \in Seq(Bufs) /\ IsInjective(free') /\ ToSet(free') = ToSet(free) \ {b}
  BY <1>1, HeadTailSet DEF IndInv, TypeOK, FreeListExact
<1> HIDE DEF b
<1>4. /\ flags' \in [Bufs -> SUBSET Flags] /\ "BUSY" \in flags'[b]
      /\ "ASYNC" \notin flags'[b]
      /\ \A c \in Bufs : c # b => flags'[c] = flags[c]
  BY <1>1, <1>3 DEF IndInv, TypeOK, Flags
<1>5. Runs(p) /\ pc[p] \in {"getblk", "getra"}  BY <1>1 DEF InGetBlk
<1>6. Target(p) \in Blks  BY <1>5 DEF IndInv, PcInv, Target
<1>7. /\ tag' \in [Bufs -> Blks \cup {NoBlk}] /\ tag'[b] = Target(p)
      /\ \A c \in Bufs : c # b => tag'[c] = tag[c]
  BY <1>1, <1>3, <1>6 DEF IndInv, TypeOK
<1>8. OneBufferPerBlock'  BY <1>1, <1>7 DEF IndInv, OneBufferPerBlock, InCore
<1> QED  BY <1>1, <1>2, <1>3, <1>4, <1>5, <1>6, <1>7, <1>8, GotInv

LEMMA GetBlkBusyInv ==
    ASSUME IndInv, NEW p \in Procs, GetBlkBusy(p)
    PROVE  IndInv'
<1>1. PICK b \in Bufs : /\ InGetBlk(p) /\ "BUSY" \in flags[b]
                        /\ flags' = [flags EXCEPT ![b] = @ \cup {"WANTED"}]
                        /\ Sleep(p, b)
  BY DEF GetBlkBusy
<1>2. /\ UNCHANGED <<tag, data, free, freeWanted, ioq, active, errcnt, inService, disk,
                     faults, pc, op, blk, rablk, bp, abp, uerror, calls>>
      /\ wchan' = [wchan EXCEPT ![p] = b] /\ cpu' = NoProc
  BY <1>1 DEF GetBlkBusy, Sleep, devVars
<1>3. /\ flags' \in [Bufs -> SUBSET Flags]
      /\ \A c \in Bufs : /\ flags[c] \subseteq flags'[c]
                         /\ flags'[c] \subseteq flags[c] \cup {"WANTED"}
                         /\ c # b => flags'[c] = flags[c]
  BY <1>1 DEF IndInv, TypeOK, Flags
<1>4. TypeOK'  BY <1>2, <1>3 DEF IndInv, TypeOK
<1>5. OneBufferPerBlock'  BY <1>2 DEF IndInv, OneBufferPerBlock
<1>6. \A c \in Bufs : \A x \in {"BUSY", "DONE", "ASYNC"} : x \in flags'[c] <=> x \in flags[c]
  BY <1>3
<1>7. FreeListExact'  BY <1>2, <1>6 DEF IndInv, FreeListExact
<1>8. FlagsInv'  BY <1>1, <1>2, <1>3 DEF IndInv, FlagsInv
<1>9. ToSet(ioq') = ToSet(ioq) /\ \A c \in ToSet(ioq) : c \in Bufs
  BY <1>2 DEF IndInv, TypeOK, ToSet
<1>10. QueueInv'  BY <1>2, <1>6, <1>9 DEF IndInv, QueueInv
<1>11. PcInv'  BY <1>2 DEF IndInv, PcInv
<1>12. KeeperInv'
 <2>1. \A q \in Procs : \A c \in Bufs : Keeps(q, c)' <=> Keeps(q, c)  BY <1>2 DEF Keeps
 <2> QED  BY <2>1, <1>2, <1>6, <1>9 DEF IndInv, KeeperInv
<1> QED  BY <1>4, <1>5, <1>7, <1>8, <1>10, <1>11, <1>12 DEF IndInv

\* GetBlk and Bflush start the delayed write of a free buffer
LEMMA DelayedWriteInv ==
    ASSUME IndInv, NEW p \in Procs, NEW b \in Bufs, "DELWRI" \in flags[b],
           "BUSY" \notin flags[b], NEW fr \in Seq(Bufs), IsInjective(fr),
           ToSet(fr) = ToSet(free) \ {b},
           Strategy(b, WriteFlags(b, {"BUSY", "ASYNC"}), fr), cpu' = p,
           UNCHANGED <<tag, data, pc, op, blk, rablk, bp, abp, uerror, calls>>
    PROVE  IndInv'
<1> DEFINE f == WriteFlags(b, {"BUSY", "ASYNC"})
<1>1. /\ f \in [Bufs -> SUBSET Flags] /\ "BUSY" \in f[b] /\ "ASYNC" \in f[b]
      /\ "DONE" \notin f[b] /\ \A c \in Bufs : c # b => f[c] = flags[c]
  BY DEF IndInv, TypeOK, WriteFlags, Flags
<1> HIDE DEF f
<1>2. tag[b] \in Blks /\ b \notin ToSet(ioq)  BY DEF IndInv, FlagsInv, QueueInv
<1>3. ProcTypeOK' /\ PcInv'  BY DEF IndInv, TypeOK, ProcTypeOK, PcInv
<1>4. \A c \in Bufs : \A q \in Procs : Keeps(q, c)' <=> Keeps(q, c)  BY DEF Keeps
<1>5. \A c \in Bufs : Keeps(p, c) /\ c \in ToSet(ioq) => c = bp'[p] /\ pc'[p] \in Waiting
  BY DEF IndInv, KeeperInv, Waiting
<1>6. \A q \in Procs : /\ bp'[q] = abp'[q] => bp'[q] = NoBuf
                       /\ pc'[q] = pc[q] /\ bp'[q] = bp[q]
                       /\ ~Keeps(q, b)'
  BY <1>4 DEF IndInv, KeeperInv
<1>7. Strategy(b, f, fr)  BY DEF f
<1> QED  BY <1>1, <1>2, <1>3, <1>4, <1>5, <1>6, <1>7, StrategyInv

LEMMA GetBlkFlushInv ==
    ASSUME IndInv, NEW p \in Procs, GetBlkFlush(p)
    PROVE  IndInv'
<1> DEFINE b == Head(free)
<1>1. /\ free # <<>> /\ "DELWRI" \in flags[b] /\ cpu' = p
      /\ Strategy(b, WriteFlags(b, {"BUSY", "ASYNC"}), Tail(free))
      /\ UNCHANGED <<tag, data, pc, op, blk, rablk, bp, abp, uerror, calls>>
  BY DEF GetBlkFlush
<1>2. /\ b \in Bufs /\ "BUSY" \notin flags[b]
      /\ Tail(free) \in Seq(Bufs) /\ IsInjective(Tail(free))
      /\ ToSet(Tail(free)) = ToSet(free) \ {b}
  BY <1>1, HeadTailSet DEF IndInv, TypeOK, FreeListExact
<1> QED  BY <1>1, <1>2, DelayedWriteInv

LEMMA BflushOneInv ==
    ASSUME IndInv, NEW p \in Procs, BflushOne(p)
    PROVE  IndInv'
<1>1. PICK i \in DOMAIN free :
         /\ "DELWRI" \in flags[free[i]] /\ cpu' = p
         /\ Strategy(free[i], WriteFlags(free[i], {"BUSY", "ASYNC"}), RemoveAt(free, i))
         /\ UNCHANGED <<tag, data, pc, op, blk, rablk, bp, abp, uerror, calls>>
  BY DEF BflushOne, DelayedAt
<1>2. /\ free[i] \in Bufs /\ "BUSY" \notin flags[free[i]]
      /\ RemoveAt(free, i) \in Seq(Bufs) /\ IsInjective(RemoveAt(free, i))
      /\ ToSet(RemoveAt(free, i)) = ToSet(free) \ {free[i]}
 <2>1. free \in Seq(Bufs) /\ IsInjective(free) /\ free[i] \in ToSet(free)
   BY DEF IndInv, TypeOK, FreeListExact, ToSet
 <2> QED  BY <2>1, RemoveAtSet DEF IndInv, FreeListExact
<1> QED  BY <1>1, <1>2, DelayedWriteInv

LEMMA GottenInv ==
    ASSUME IndInv, NEW p \in Procs, Gotten(p)
    PROVE  IndInv'
<1>1. PICK b \in Bufs : b = bp[p]  BY DEF Gotten, IndInv, TypeOK, PcInv
<1> DEFINE valid == op[p] = "new" \/ "DONE" \in flags[b]
           l == IF op[p] = "reada" THEN "ra" ELSE IF valid THEN "have" ELSE "iowait"
           f == [flags EXCEPT ![b] = @ \cup {"READ"}]
<1>2. /\ pc[p] = "got" /\ pc' = [pc EXCEPT ![p] = l] /\ cpu' = p
      /\ UNCHANGED <<tag, data, op, blk, rablk, bp, abp, uerror, calls>>
  BY <1>1 DEF Gotten, GoTo
<1>3. Keeps(p, b) /\ b # abp[p] /\ abp[p] = NoBuf
  BY <1>1, <1>2 DEF IndInv, TypeOK, PcInv, KeeperInv, Keeps
<1>4. b \notin ToSet(ioq) /\ "BUSY" \in flags[b] /\ "ASYNC" \notin flags[b]
  BY <1>2, <1>3 DEF IndInv, KeeperInv
<1>5. l \in {"ra", "have", "iowait"} /\ (l = "ra" => op[p] = "reada")  OBVIOUS
<1>6. ProcTypeOK' /\ PcInv'
 <2> HIDE DEF l, valid
 <2> QED  BY <1>1, <1>2, <1>3, <1>5 DEF IndInv, TypeOK, ProcTypeOK, PcInv, PCs
<1>7. \A q \in Procs : q # p => pc'[q] = pc[q] /\ bp'[q] = bp[q]  BY <1>2 DEF IndInv, TypeOK
<1>8. \A q \in Procs : \A c \in Bufs : Keeps(q, c)' <=> Keeps(q, c)  BY <1>2 DEF Keeps
<1>9. \A c \in Bufs : Keeps(p, c) => c = b  BY <1>1, <1>3 DEF Keeps, NoBuf, Bufs
<1>10. CASE valid
 <2>1. UNCHANGED <<flags, free, freeWanted, ioq, active, errcnt, inService, disk, faults,
                   wchan>>
   BY <1>1, <1>10 DEF Gotten, devVars
 <2> HIDE DEF l, valid
 <2>2. TypeOK'  BY <1>2, <1>6, <2>1 DEF IndInv, TypeOK, ProcTypeOK
 <2> QED  BY <1>2, <1>4, <1>6, <1>7, <1>9, <2>1, <2>2, OnlyMovesOn
<1>11. CASE ~valid
 <2>1. Strategy(b, f, free)  BY <1>1, <1>11 DEF Gotten
 <2>2. pc'[p] \in Waiting  BY <1>2, <1>11 DEF IndInv, TypeOK, Waiting
 <2>3. /\ f \in [Bufs -> SUBSET Flags] /\ "BUSY" \in f[b] /\ "DONE" \notin f[b]
       /\ "ASYNC" \notin f[b] /\ \A c \in Bufs : c # b => f[c] = flags[c]
   BY <1>4, <1>11 DEF IndInv, TypeOK, Flags
 <2>4. tag[b] \in Blks /\ tag' = tag /\ b = bp'[p]  BY <1>1, <1>2, <1>4 DEF IndInv, FlagsInv
 <2>5. free \in Seq(Bufs) /\ IsInjective(free) /\ ToSet(free) = ToSet(free) \ {b}
   BY <1>4 DEF IndInv, TypeOK, FreeListExact
 <2>6. \A q \in Procs : bp'[q] = abp'[q] => bp'[q] = NoBuf  BY <1>2 DEF IndInv, KeeperInv
 <2>7. \A q \in Procs : Keeps(q, b)' <=> q = p  BY <1>3, <1>8 DEF IndInv, KeeperInv
 <2> HIDE DEF f, l, valid
 <2>8. \A c \in Bufs : c # b =>
          /\ \A q \in Procs : Keeps(q, c)' <=> Keeps(q, c)
          /\ Keeps(p, c) /\ c \in ToSet(ioq) => c = bp'[p] /\ pc'[p] \in Waiting
   BY <1>8, <1>9
 <2> QED  BY <1>4, <1>6, <1>7, <2>1, <2>2, <2>3, <2>4, <2>5, <2>6, <2>7, <2>8, StrategyInv
<1> QED  BY <1>10, <1>11

\* Breada lets the second buffer go, and keeps the first
LEMMA GottenAheadInv ==
    ASSUME IndInv, NEW p \in Procs, GottenAhead(p)
    PROVE  IndInv'
<1>1. PICK b \in Bufs : b = abp[p]  BY DEF GottenAhead, IndInv, TypeOK, PcInv
<1>2. /\ pc[p] = "gotra" /\ pc' = [pc EXCEPT ![p] = "iowait"] /\ cpu' = p
      /\ abp' = [abp EXCEPT ![p] = NoBuf]
      /\ UNCHANGED <<tag, data, op, blk, rablk, bp, uerror, calls>>
  BY DEF GottenAhead, GoTo
<1>3. Keeps(p, b) /\ b # bp[p] /\ b # NoBuf /\ bp[p] # NoBuf
  BY <1>1, <1>2 DEF IndInv, PcInv, KeeperInv, Keeps
<1>4. b \notin ToSet(ioq) /\ "BUSY" \in flags[b] /\ "ASYNC" \notin flags[b]
      /\ tag[b] \in Blks
  BY <1>3 DEF IndInv, KeeperInv, FlagsInv
<1>5. ProcTypeOK' /\ PcInv'  BY <1>2, <1>3 DEF IndInv, TypeOK, ProcTypeOK, PcInv, PCs
<1>6. \A q \in Procs : q # p => pc'[q] = pc[q] /\ bp'[q] = bp[q] /\ abp'[q] = abp[q]
  BY <1>2 DEF IndInv, TypeOK
<1>7. pc'[p] \in Waiting /\ abp'[p] = NoBuf /\ bp'[p] = bp[p]  BY <1>2 DEF IndInv, TypeOK, Waiting
<1>8. \A q \in Procs : ~Keeps(q, b)'  BY <1>3, <1>6, <1>7 DEF IndInv, KeeperInv, Keeps
<1>9. \A c \in Bufs : c # b =>
         /\ \A q \in Procs : Keeps(q, c)' <=> Keeps(q, c)
         /\ Keeps(p, c) /\ c \in ToSet(ioq) => c = bp'[p] /\ pc'[p] \in Waiting
 <2>1. NoBuf \notin Bufs  BY DEF NoBuf, Bufs
 <2> QED  BY <1>1, <1>6, <1>7, <2>1 DEF Keeps
<1>10. \A q \in Procs : bp'[q] = abp'[q] => bp'[q] = NoBuf
  BY <1>3, <1>6, <1>7 DEF IndInv, KeeperInv
<1>11. CASE "DONE" \in flags[b]
 <2>1. Brelse(b, flags, free) /\ UNCHANGED devVars  BY <1>1, <1>11 DEF GottenAhead
 <2>2. flags \in [Bufs -> SUBSET Flags] /\ tag' = tag  BY <1>2 DEF IndInv, TypeOK
 <2> QED  BY <1>4, <1>5, <1>6, <1>8, <1>9, <1>10, <2>1, <2>2, ReleaseInv
<1>12. CASE "DONE" \notin flags[b]
 <2> DEFINE f == [flags EXCEPT ![b] = @ \cup {"READ", "ASYNC"}]
 <2>1. Strategy(b, f, free)  BY <1>1, <1>12 DEF GottenAhead
 <2>2. /\ f \in [Bufs -> SUBSET Flags] /\ "BUSY" \in f[b] /\ "DONE" \notin f[b]
       /\ "ASYNC" \in f[b] /\ \A c \in Bufs : c # b => f[c] = flags[c]
   BY <1>4, <1>12 DEF IndInv, TypeOK, Flags
 <2>3. free \in Seq(Bufs) /\ IsInjective(free) /\ ToSet(free) = ToSet(free) \ {b}
   BY <1>4 DEF IndInv, TypeOK, FreeListExact
 <2>4. tag' = tag  BY <1>2
 <2> HIDE DEF f
 <2> QED  BY <1>4, <1>5, <1>6, <1>8, <1>9, <1>10, <2>1, <2>2, <2>3, <2>4, StrategyInv
<1> QED  BY <1>11, <1>12

\* A process that has the buffer b alone
LEMMA HasFacts ==
    ASSUME IndInv, NEW p \in Procs, NEW b \in Bufs, b = bp[p], pc[p] \in {"have", "wwait"}
    PROVE  /\ abp[p] = NoBuf
           /\ \A q \in Procs : Keeps(q, b) <=> q = p
           /\ \A c \in Bufs : Keeps(p, c) => c = b
           /\ "BUSY" \in flags[b] /\ "ASYNC" \notin flags[b] /\ tag[b] \in Blks
           /\ pc[p] = "have" \/ "DONE" \in flags[b] => b \notin ToSet(ioq)
<1>1. abp[p] = NoBuf /\ NoBuf \notin Bufs  BY DEF IndInv, PcInv, Bufs, NoBuf
<1>2. \A q \in Procs : Keeps(q, b) <=> q = p  BY DEF IndInv, KeeperInv, Keeps
<1>3. "BUSY" \in flags[b] /\ "ASYNC" \notin flags[b]
      /\ (pc[p] = "have" => b \notin ToSet(ioq))
  BY <1>2 DEF IndInv, KeeperInv
<1> QED  BY <1>1, <1>2, <1>3 DEF IndInv, FlagsInv, QueueInv, Keeps

\* The call of a process that had b is over, and b has another keeper or none
LEMMA ReturnFacts ==
    ASSUME IndInv, NEW p \in Procs, NEW b \in Bufs, b = bp[p], pc[p] \in {"have", "wwait"},
           Return(p), data' \in [Bufs -> Vals], UNCHANGED <<abp, calls>>
    PROVE  /\ ProcTypeOK' /\ PcInv'
           /\ \A q \in Procs : q # p => pc'[q] = pc[q] /\ bp'[q] = bp[q]
           /\ \A q \in Procs : bp'[q] = abp'[q] => bp'[q] = NoBuf
           /\ \A q \in Procs : ~Keeps(q, b)'
           /\ \A c \in Bufs : c # b =>
                 /\ \A q \in Procs : Keeps(q, c)' <=> Keeps(q, c)
                 /\ Keeps(p, c) /\ c \in ToSet(ioq) => c = bp'[p] /\ pc'[p] \in Waiting
<1>1. /\ pc' = [pc EXCEPT ![p] = "idle"] /\ op' = [op EXCEPT ![p] = "none"]
      /\ blk' = [blk EXCEPT ![p] = NoBlk] /\ rablk' = [rablk EXCEPT ![p] = NoBlk]
      /\ bp' = [bp EXCEPT ![p] = NoBuf] /\ uerror' = [uerror EXCEPT ![p] = FALSE]
      /\ cpu' = NoProc
  BY DEF Return
<1>2. /\ abp[p] = NoBuf /\ \A q \in Procs : Keeps(q, b) <=> q = p
      /\ \A c \in Bufs : Keeps(p, c) => c = b
  BY HasFacts
<1>3. NoBuf \notin Bufs  BY DEF NoBuf, Bufs
<1>4. ProcTypeOK'  BY <1>1 DEF IndInv, TypeOK, ProcTypeOK, PCs
<1>5. PcInv'  BY <1>1, <1>2 DEF IndInv, TypeOK, PcInv
<1>6. \A q \in Procs : q # p => pc'[q] = pc[q] /\ bp'[q] = bp[q] /\ abp'[q] = abp[q]
  BY <1>1 DEF IndInv, TypeOK
<1>7. bp'[p] = NoBuf /\ abp'[p] = NoBuf  BY <1>1, <1>2 DEF IndInv, TypeOK
<1>8. \A q \in Procs : bp'[q] = abp'[q] => bp'[q] = NoBuf  BY <1>6, <1>7 DEF IndInv, KeeperInv
<1>9. \A q \in Procs : ~Keeps(q, b)'  BY <1>2, <1>3, <1>6, <1>7 DEF Keeps
<1>10. \A c \in Bufs : c # b => \A q \in Procs : Keeps(q, c)' <=> Keeps(q, c)
  BY <1>2, <1>3, <1>6, <1>7 DEF Keeps
<1> QED  BY <1>2, <1>4, <1>5, <1>6, <1>8, <1>9, <1>10

LEMMA ReleaseActionInv ==
    ASSUME IndInv, NEW p \in Procs, Release(p)
    PROVE  IndInv'
<1>1. PICK b \in Bufs : b = bp[p]  BY DEF Release, Has, IndInv, TypeOK, PcInv
<1>2. /\ pc[p] = "have" /\ Brelse(b, flags, free) /\ Return(p)
      /\ UNCHANGED <<tag, data, abp, calls>> /\ UNCHANGED devVars
  BY <1>1 DEF Release, Has
<1>3. "BUSY" \in flags[b] /\ tag[b] \in Blks /\ b \notin ToSet(ioq)  BY <1>1, <1>2, HasFacts
<1>4. data' \in [Bufs -> Vals] /\ flags \in [Bufs -> SUBSET Flags]  BY <1>2 DEF IndInv, TypeOK
<1> QED  BY <1>1, <1>2, <1>3, <1>4, ReturnFacts, ReleaseInv

LEMMA BdwriteInv ==
    ASSUME IndInv, NEW p \in Procs, Bdwrite(p)
    PROVE  IndInv'
<1>1. PICK b \in Bufs : b = bp[p]  BY DEF Bdwrite, Changed, Has, IndInv, TypeOK, PcInv
<1> DEFINE f == [flags EXCEPT ![b] = @ \cup {"DELWRI", "DONE"}]
<1>2. PICK v \in Vals : /\ data' = [data EXCEPT ![b] = v] /\ pc[p] = "have"
                        /\ Brelse(b, f, free) /\ Return(p)
  BY <1>1 DEF Bdwrite, Changed, Has
<1>3. UNCHANGED <<tag, abp, calls>> /\ UNCHANGED devVars  BY DEF Bdwrite
<1>4. "BUSY" \in flags[b] /\ tag[b] \in Blks /\ b \notin ToSet(ioq)  BY <1>1, <1>2, HasFacts
<1>5. data' \in [Bufs -> Vals]  BY <1>2 DEF IndInv, TypeOK
<1>6. f \in [Bufs -> SUBSET Flags] /\ \A c \in Bufs : c # b => f[c] = flags[c]
  BY DEF IndInv, TypeOK, Flags
<1> HIDE DEF f
<1> QED  BY <1>1, <1>2, <1>3, <1>4, <1>5, <1>6, ReturnFacts, ReleaseInv

LEMMA BawriteInv ==
    ASSUME IndInv, NEW p \in Procs, Bawrite(p)
    PROVE  IndInv'
<1>1. PICK b \in Bufs : b = bp[p]  BY DEF Bawrite, Changed, Has, IndInv, TypeOK, PcInv
<1> DEFINE f == WriteFlags(b, {"ASYNC"})
<1>2. PICK v \in Vals : /\ data' = [data EXCEPT ![b] = v] /\ pc[p] = "have"
                        /\ Strategy(b, f, free) /\ Return(p)
  BY <1>1 DEF Bawrite, Changed, Has
<1>3. UNCHANGED <<tag, abp, calls>>  BY DEF Bawrite
<1>4. "BUSY" \in flags[b] /\ tag[b] \in Blks /\ b \notin ToSet(ioq)  BY <1>1, <1>2, HasFacts
<1>5. data' \in [Bufs -> Vals]  BY <1>2 DEF IndInv, TypeOK
<1>6. /\ f \in [Bufs -> SUBSET Flags] /\ \A c \in Bufs : c # b => f[c] = flags[c]
      /\ "BUSY" \in f[b] /\ "ASYNC" \in f[b] /\ "DONE" \notin f[b]
  BY <1>4 DEF IndInv, TypeOK, WriteFlags, Flags
<1>7. free \in Seq(Bufs) /\ IsInjective(free) /\ ToSet(free) = ToSet(free) \ {b}
  BY <1>4 DEF IndInv, TypeOK, FreeListExact
<1> HIDE DEF f
<1> QED  BY <1>1, <1>2, <1>3, <1>4, <1>5, <1>6, <1>7, ReturnFacts, StrategyInv

LEMMA BwriteInv ==
    ASSUME IndInv, NEW p \in Procs, Bwrite(p)
    PROVE  IndInv'
<1>1. PICK b \in Bufs : b = bp[p]  BY DEF Bwrite, Changed, Has, IndInv, TypeOK, PcInv
<1> DEFINE f == WriteFlags(b, {})
<1>2. PICK v \in Vals : /\ data' = [data EXCEPT ![b] = v] /\ pc[p] = "have"
                        /\ Strategy(b, f, free)
  BY <1>1 DEF Bwrite, Changed, Has
<1>3. /\ UNCHANGED <<tag, op, blk, rablk, bp, abp, uerror, calls>>
      /\ pc' = [pc EXCEPT ![p] = "wwait"] /\ cpu' = p
  BY DEF Bwrite, GoTo
<1>4. /\ "BUSY" \in flags[b] /\ "ASYNC" \notin flags[b]
      /\ tag[b] \in Blks /\ b \notin ToSet(ioq)
      /\ \A q \in Procs : Keeps(q, b) <=> q = p
      /\ \A c \in Bufs : Keeps(p, c) => c = b
  BY <1>1, <1>2, HasFacts
<1>5. ProcTypeOK'  BY <1>2, <1>3 DEF IndInv, TypeOK, ProcTypeOK, PCs
<1>6. PcInv'  BY <1>2, <1>3 DEF IndInv, TypeOK, PcInv
<1>7. /\ f \in [Bufs -> SUBSET Flags] /\ \A c \in Bufs : c # b => f[c] = flags[c]
      /\ "BUSY" \in f[b] /\ "ASYNC" \notin f[b] /\ "DONE" \notin f[b]
  BY <1>4 DEF IndInv, TypeOK, WriteFlags, Flags
<1>8. free \in Seq(Bufs) /\ IsInjective(free) /\ ToSet(free) = ToSet(free) \ {b}
  BY <1>4 DEF IndInv, TypeOK, FreeListExact
<1>9. \A q \in Procs : \A c \in Bufs : Keeps(q, c)' <=> Keeps(q, c)  BY <1>3 DEF Keeps
<1>10. \A q \in Procs : bp'[q] = abp'[q] => bp'[q] = NoBuf  BY <1>3 DEF IndInv, KeeperInv
<1>11. /\ \A q \in Procs : q # p => pc'[q] = pc[q] /\ bp'[q] = bp[q]
       /\ b = bp'[p] /\ pc'[p] \in Waiting /\ tag' = tag
  BY <1>1, <1>3 DEF IndInv, TypeOK, Waiting
<1>12. \A c \in Bufs : c # b =>
           /\ \A q \in Procs : Keeps(q, c)' <=> Keeps(q, c)
           /\ Keeps(p, c) /\ c \in ToSet(ioq) => c = bp'[p] /\ pc'[p] \in Waiting
  BY <1>4, <1>9
<1>13. \A q \in Procs : Keeps(q, b)' <=> q = p  BY <1>4, <1>9
<1> HIDE DEF f
<1> QED  BY <1>2, <1>4, <1>5, <1>6, <1>7, <1>8, <1>10, <1>11, <1>12, <1>13, StrategyInv

LEMMA IOWaitWriteInv ==
    ASSUME IndInv, NEW p \in Procs, IOWaitWrite(p)
    PROVE  IndInv'
<1>1. PICK b \in Bufs : b = bp[p]  BY DEF IOWaitWrite, IndInv, TypeOK, PcInv
<1>2. pc[p] = "wwait" /\ UNCHANGED <<tag, data, abp, calls>> /\ UNCHANGED devVars
  BY DEF IOWaitWrite
<1>3. CASE "DONE" \in flags[b]
 <2>1. Brelse(b, flags, free) /\ Return(p)  BY <1>1, <1>3 DEF IOWaitWrite
 <2>2. "BUSY" \in flags[b] /\ tag[b] \in Blks /\ b \notin ToSet(ioq)  BY <1>1, <1>2, <1>3, HasFacts
 <2>3. data' \in [Bufs -> Vals] /\ flags \in [Bufs -> SUBSET Flags]  BY <1>2 DEF IndInv, TypeOK
 <2> QED  BY <1>1, <1>2, <2>1, <2>2, <2>3, ReturnFacts, ReleaseInv
<1>4. CASE "DONE" \notin flags[b]
 <2>1. /\ wchan' = [wchan EXCEPT ![p] = b] /\ cpu' = NoProc
       /\ UNCHANGED <<flags, free, freeWanted, pc, op, blk, rablk, bp, uerror>>
   BY <1>1, <1>4 DEF IOWaitWrite, Sleep
 <2>2. UNCHANGED <<ioq, active, errcnt, inService, disk, faults>>  BY <1>2 DEF devVars
 <2>3. TypeOK'  BY <1>2, <2>1, <2>2 DEF IndInv, TypeOK
 <2>4. PcInv'  BY <1>2, <2>1 DEF IndInv, PcInv
 <2>5. pc'[p] \in Waiting  BY <1>2, <2>1 DEF Waiting
 <2> QED  BY <1>2, <2>1, <2>2, <2>3, <2>4, <2>5, OnlyMovesOn
<1> QED  BY <1>3, <1>4

\* The disk is done with the first request
LEMMA TransferDoneInv ==
    ASSUME IndInv, active, NEW b \in Bufs, b = Head(ioq), NEW f \in [Bufs -> SUBSET Flags],
           f[b] \in {flags[b], flags[b] \cup {"ERROR"}},
           \A c \in Bufs : c # b => f[c] = flags[c],
           IODone(b, f, free), ioq' = Tail(ioq), active' = (Tail(ioq) # <<>>),
           data' \in [Bufs -> Vals], disk' \in [Blks -> Vals], errcnt' \in Nat, faults' \in Nat,
           UNCHANGED <<tag, inService, cpu, pc, op, blk, rablk, bp, abp, uerror, calls>>
    PROVE  IndInv'
<1>1. /\ ioq \in Seq(Bufs) /\ IsInjective(ioq) /\ ioq # <<>>  BY DEF IndInv, TypeOK, QueueInv
<1>2. /\ b \in ToSet(ioq) /\ ioq' \in Seq(Bufs) /\ IsInjective(ioq')
      /\ ToSet(ioq') = ToSet(ioq) \ {b}
  BY <1>1, HeadTailSet
<1>3. "BUSY" \in flags[b] /\ "DONE" \notin flags[b] /\ tag[b] \in Blks
  BY <1>2 DEF IndInv, QueueInv, Sound
<1>4. b \notin ToSet(free) /\ free \in Seq(Bufs) /\ IsInjective(free) /\ TypeOK
  BY <1>3 DEF IndInv, FreeListExact, TypeOK
<1>5. /\ flags' \in [Bufs -> SUBSET Flags]
      /\ free' \in Seq(Bufs) /\ IsInjective(free')
      /\ freeWanted' \in BOOLEAN
      /\ wchan' \in [Procs -> Bufs \cup {NoBuf, FreeChan}]
      /\ \A c \in Bufs : c # b => flags'[c] = flags[c]
  BY <1>4, IODoneEffect
<1>6. IF "ASYNC" \in f[b]
      THEN /\ flags'[b] = (f[b] \cup {"DONE"}) \ {"WANTED", "BUSY", "ASYNC"}
           /\ ToSet(free') = ToSet(free) \cup {b}
      ELSE /\ flags'[b] = (f[b] \cup {"DONE"}) \ {"WANTED"}
           /\ free' = free
  BY <1>4, IODoneEffect
<1>7. IF "ASYNC" \in flags[b]
      THEN "BUSY" \notin flags'[b] /\ ToSet(free') = ToSet(free) \cup {b}
      ELSE /\ "BUSY" \in flags'[b] /\ "ASYNC" \notin flags'[b] /\ free' = free
  BY <1>3, <1>6
<1>8. TypeOK'  BY <1>2, <1>5 DEF IndInv, TypeOK
<1>9. OneBufferPerBlock'  BY DEF IndInv, OneBufferPerBlock
<1>10. FreeListExact'
 <2>1. ToSet(free') = {c \in Bufs : "BUSY" \notin flags'[c]}
   BY <1>3, <1>5, <1>7 DEF IndInv, FreeListExact
 <2> QED  BY <1>5, <2>1 DEF FreeListExact
<1>11. FlagsInv'  BY <1>3, <1>5, <1>6 DEF IndInv, FlagsInv
<1>12. QueueInv'
 <2>1. \A c \in ToSet(ioq) : c \in Bufs  BY <1>1 DEF ToSet
 <2>2. active' <=> ioq' # <<>>  OBVIOUS
 <2> QED  BY <1>2, <1>5, <2>1, <2>2 DEF IndInv, QueueInv
<1>13. PcInv'  BY DEF IndInv, PcInv
<1>14. KeeperInv'
 <2>1. \A q \in Procs : \A c \in Bufs : Keeps(q, c)' <=> Keeps(q, c)  BY DEF Keeps
 <2>2. "ASYNC" \in flags[b] => \A q \in Procs : ~Keeps(q, b)  BY DEF IndInv, KeeperInv
 <2>3. "ASYNC" \notin flags[b] => \E q \in Procs : Keeps(q, b)  BY <1>3 DEF IndInv, KeeperInv
 <2>4. \A q, r \in Procs : \A c \in Bufs : Keeps(q, c)' /\ Keeps(r, c)' => q = r
   BY <2>1 DEF IndInv, KeeperInv
 <2>5. \A q \in Procs : bp'[q] = abp'[q] => bp'[q] = NoBuf  BY DEF IndInv, KeeperInv
 <2>6. ASSUME NEW q \in Procs, NEW c \in Bufs, Keeps(q, c)'
       PROVE  /\ "BUSY" \in flags'[c] /\ "ASYNC" \notin flags'[c]
              /\ c \in ToSet(ioq') => c = bp'[q] /\ pc'[q] \in Waiting
  <3>1. Keeps(q, c)  BY <2>1, <2>6
  <3>2. c \in ToSet(ioq') => c = bp'[q] /\ pc'[q] \in Waiting
    BY <3>1, <1>2 DEF IndInv, KeeperInv, Waiting
  <3>3. "BUSY" \in flags'[c] /\ "ASYNC" \notin flags'[c]
    BY <3>1, <1>5, <1>7, <2>2 DEF IndInv, KeeperInv
  <3> QED  BY <3>2, <3>3
 <2>7. ASSUME NEW c \in Bufs, "BUSY" \in flags'[c]
       PROVE  \/ \E q \in Procs : Keeps(q, c)'
              \/ c \in ToSet(ioq') /\ "ASYNC" \in flags'[c]
  <3>1. CASE c = b  BY <3>1, <2>7, <1>7, <2>1, <2>3
  <3>2. CASE c # b  BY <3>2, <2>7, <2>1, <1>2, <1>5 DEF IndInv, KeeperInv
  <3> QED  BY <3>1, <3>2
 <2> QED  BY <2>4, <2>5, <2>6, <2>7 DEF KeeperInv, Waiting
<1> QED  BY <1>8, <1>9, <1>10, <1>11, <1>12, <1>13, <1>14 DEF IndInv

LEMMA HeadOfQueue ==
    ASSUME IndInv, active
    PROVE  Head(ioq) \in Bufs /\ tag[Head(ioq)] \in Blks
<1>1. ioq \in Seq(Bufs) /\ ioq # <<>> /\ IsInjective(ioq)  BY DEF IndInv, TypeOK, QueueInv
<1>2. Head(ioq) \in ToSet(ioq) /\ Head(ioq) \in Bufs  BY <1>1, HeadTailSet
<1> QED  BY <1>2 DEF IndInv, QueueInv, Sound

LEMMA DiskOkInv ==
    ASSUME IndInv, DiskOk
    PROVE  IndInv'
<1>1. active  BY DEF DiskOk, Interrupt
<1>2. PICK b \in Bufs : b = Head(ioq) /\ tag[b] \in Blks  BY <1>1, HeadOfQueue
<1>3. /\ IODone(b, flags, free) /\ ioq' = Tail(ioq) /\ active' = (Tail(ioq) # <<>>)
      /\ errcnt' = 0
      /\ UNCHANGED <<tag, inService, faults, cpu, pc, op, blk, rablk, bp, abp, uerror, calls>>
      /\ \/ data' = [data EXCEPT ![b] = disk[tag[b]]] /\ disk' = disk
         \/ disk' = [disk EXCEPT ![tag[b]] = data[b]] /\ data' = data
  BY <1>2 DEF DiskOk
<1>4. data' \in [Bufs -> Vals] /\ disk' \in [Blks -> Vals]  BY <1>2, <1>3 DEF IndInv, TypeOK
<1>5. errcnt' \in Nat /\ faults' \in Nat /\ flags \in [Bufs -> SUBSET Flags]
  BY <1>3 DEF IndInv, TypeOK
<1> QED  BY <1>1, <1>2, <1>3, <1>4, <1>5, TransferDoneInv

LEMMA DiskFaultInv ==
    ASSUME IndInv, DiskFault
    PROVE  IndInv'
<1>1. active  BY DEF DiskFault, Interrupt
<1>2. PICK b \in Bufs : b = Head(ioq) /\ tag[b] \in Blks  BY <1>1, HeadOfQueue
<1>3. /\ faults' = faults + 1
      /\ UNCHANGED <<tag, data, disk, cpu, pc, op, blk, rablk, bp, abp, uerror, calls>>
  BY DEF DiskFault
<1>4. CASE errcnt < RetryMax
 <2>1. /\ errcnt' = errcnt + 1 /\ inService' = TRUE
       /\ UNCHANGED <<ioq, active, flags, free, freeWanted, wchan>>
   BY <1>4 DEF DiskFault
 <2>2. TypeOK'  BY <1>3, <2>1 DEF IndInv, TypeOK
 <2>3. /\ OneBufferPerBlock' /\ FreeListExact' /\ FlagsInv' /\ QueueInv' /\ PcInv'
   BY <1>3, <2>1 DEF IndInv, OneBufferPerBlock, FreeListExact, FlagsInv, QueueInv, PcInv
 <2>4. KeeperInv'  BY <1>3, <2>1 DEF IndInv, KeeperInv, Keeps
 <2> QED  BY <2>2, <2>3, <2>4 DEF IndInv
<1>5. CASE ~(errcnt < RetryMax)
 <2> DEFINE f == [flags EXCEPT ![b] = @ \cup {"ERROR"}]
 <2>1. /\ IODone(b, f, free) /\ ioq' = Tail(ioq) /\ active' = (Tail(ioq) # <<>>)
       /\ errcnt' = 0 /\ inService' = inService
   BY <1>2, <1>5 DEF DiskFault
 <2>2. /\ f \in [Bufs -> SUBSET Flags] /\ f[b] = flags[b] \cup {"ERROR"}
       /\ \A c \in Bufs : c # b => f[c] = flags[c]
   BY DEF IndInv, TypeOK, Flags
 <2>3. /\ data' \in [Bufs -> Vals] /\ disk' \in [Blks -> Vals]
       /\ errcnt' \in Nat /\ faults' \in Nat
   BY <1>3, <2>1 DEF IndInv, TypeOK
 <2> HIDE DEF f
 <2> QED  BY <1>1, <1>2, <1>3, <2>1, <2>2, <2>3, TransferDoneInv
<1> QED  BY <1>4, <1>5

LEMMA StutterInv ==
    ASSUME IndInv, UNCHANGED vars
    PROVE  IndInv'
<1>1. UNCHANGED <<tag, flags, data, free, freeWanted, ioq, active, errcnt, inService, disk,
                  faults, cpu, wchan, pc, op, blk, rablk, bp, abp, uerror, calls>>
  BY DEF vars, bufVars, devVars, procVars
<1>2. TypeOK'  BY <1>1 DEF IndInv, TypeOK
<1>3. OneBufferPerBlock' /\ FreeListExact' /\ FlagsInv' /\ QueueInv' /\ PcInv'
  BY <1>1 DEF IndInv, OneBufferPerBlock, FreeListExact, FlagsInv, QueueInv, PcInv
<1>4. KeeperInv'  BY <1>1 DEF IndInv, KeeperInv, Keeps
<1> QED  BY <1>2, <1>3, <1>4 DEF IndInv

LEMMA InitInv == Init => IndInv
<1> SUFFICES ASSUME Init PROVE IndInv  OBVIOUS
<1>1. NBuf \in Nat /\ Blank \in Vals  BY BufferCacheAssumption
<1>2. /\ tag = [b \in Bufs |-> NoBlk] /\ flags = [b \in Bufs |-> {}]
      /\ data = [b \in Bufs |-> Blank] /\ free = [i \in 1..NBuf |-> i] /\ ioq = <<>>
      /\ freeWanted = FALSE /\ active = FALSE /\ errcnt = 0 /\ inService = FALSE
      /\ disk = [k \in Blks |-> Blank] /\ faults = 0 /\ cpu = NoProc /\ calls = 0
      /\ wchan = [p \in Procs |-> NoBuf] /\ pc = [p \in Procs |-> "idle"]
      /\ op = [p \in Procs |-> "none"] /\ blk = [p \in Procs |-> NoBlk]
      /\ rablk = [p \in Procs |-> NoBlk] /\ bp = [p \in Procs |-> NoBuf]
      /\ abp = [p \in Procs |-> NoBuf] /\ uerror = [p \in Procs |-> FALSE]
  BY DEF Init
<1>3. free \in Seq(Bufs) /\ IsInjective(free) /\ ToSet(free) = Bufs
 <2>1. free \in Seq(Bufs)  BY <1>1, <1>2 DEF Bufs
 <2>2. DOMAIN free = 1..NBuf /\ \A i \in 1..NBuf : free[i] = i  BY <1>2
 <2>3. IsInjective(free)  BY <2>2 DEF IsInjective
 <2>4. ToSet(free) = Bufs  BY <2>2 DEF ToSet, Bufs
 <2> QED  BY <2>1, <2>3, <2>4
<1>4. ioq \in Seq(Bufs) /\ IsInjective(ioq) /\ ToSet(ioq) = {}  BY <1>2 DEF IsInjective, ToSet
<1>5. TypeOK  BY <1>1, <1>2, <1>3, <1>4 DEF TypeOK, PCs
<1>6. OneBufferPerBlock  BY <1>2 DEF OneBufferPerBlock
<1>7. FreeListExact /\ FlagsInv  BY <1>2, <1>3 DEF FreeListExact, FlagsInv
<1>8. QueueInv  BY <1>2, <1>4 DEF QueueInv
<1>9. PcInv  BY <1>2 DEF PcInv
<1>10. NoBuf \notin Bufs  BY DEF NoBuf, Bufs
<1>11. KeeperInv  BY <1>2, <1>10 DEF KeeperInv, Keeps
<1> QED  BY <1>5, <1>6, <1>7, <1>8, <1>9, <1>11 DEF IndInv

LEMMA NextInv == IndInv /\ [Next]_vars => IndInv'
<1> SUFFICES ASSUME IndInv, [Next]_vars PROVE IndInv'  OBVIOUS
<1>1. ASSUME NEW p \in Procs, Step(p) PROVE IndInv'
  BY <1>1, CallsInv, GetBlkHitInv, GetBlkBusyInv, GetBlkNoneInv, GetBlkFlushInv,
     GetBlkClaimInv, GottenInv, ReadAheadInv, GottenAheadInv, IOWaitReadInv,
     ReleaseActionInv, BwriteInv, IOWaitWriteInv, BawriteInv, BdwriteInv,
     BflushOneInv, BflushEndInv DEF Step
<1>2. CASE DiskOk  BY <1>2, DiskOkInv
<1>3. CASE DiskFault  BY <1>3, DiskFaultInv
<1>4. CASE Finished \/ Hung \/ Stuck \/ UNCHANGED vars
  BY <1>4, StutterInv DEF Finished, Hung, Stuck
<1> QED  BY <1>1, <1>2, <1>3, <1>4 DEF Next

\* The invariant is inductive, for any number of processes, buffers, blocks,
\* calls, retries and faults
THEOREM Invariance == Spec => []IndInv
  BY InitInv, NextInv, PTL DEF Spec
-----------------------------------------------------------------------------
(* Nobody sleeps for ever: NoLostWakeup holds on top of the invariant.     *)

\* A step wakes those who sleep on chans.  Those it leaves asleep are waited for
\* as before: f are the flags the step starts from.
Spares(chans, f) ==
    /\ WakeUpAll(chans)
    /\ freeWanted => \/ FreeChan \in chans
                     \/ freeWanted' /\ (free = <<>> => free' = <<>>)
    /\ \A c \in Bufs \ chans : {"BUSY", "WANTED"} \subseteq f[c] =>
          {"BUSY", "WANTED"} \subseteq flags'[c]
    /\ \A c \in Bufs \ chans : c \in ToSet(ioq) /\ f[c] \cap {"ASYNC", "DONE"} = {} =>
          c \in ToSet(ioq') /\ "DONE" \notin flags'[c]

\* What the caller of Strategy or Brelse did to the flags before, to b alone,
\* takes nothing away from those who sleep on b
Keeping(b, f) ==
    /\ f \in [Bufs -> SUBSET Flags]
    /\ \A c \in Bufs : c # b => f[c] = flags[c]
    /\ {"BUSY", "WANTED"} \subseteq flags[b] => {"BUSY", "WANTED"} \subseteq f[b]
    /\ b \in ToSet(ioq) => f[b] \cap {"ASYNC", "DONE"} = flags[b] \cap {"ASYNC", "DONE"}

LEMMA SparesAll ==
    ASSUME IndInv, NoLostWakeup, NEW chans, NEW f, NEW b \in Bufs, Keeping(b, f),
           Spares(chans, f),
           \A q \in Procs : wchan[q] # NoBuf => pc'[q] = pc[q] /\ bp'[q] = bp[q]
    PROVE  NoLostWakeup'
<1> SUFFICES ASSUME NEW q \in Procs
             PROVE  /\ wchan'[q] = FreeChan => freeWanted' /\ free' = <<>>
                    /\ wchan'[q] \in Bufs =>
                          \/ /\ pc'[q] \in {"getblk", "getra"}
                             /\ {"BUSY", "WANTED"} \subseteq flags'[wchan'[q]]
                          \/ /\ pc'[q] \in {"iowait", "wwait"} /\ bp'[q] = wchan'[q]
                             /\ wchan'[q] \in ToSet(ioq')
                             /\ "DONE" \notin flags'[wchan'[q]]
  BY DEF NoLostWakeup, InFlight
<1>1. wchan'[q] = IF wchan[q] \in chans THEN NoBuf ELSE wchan[q]  BY DEF Spares, WakeUpAll
<1>2. NoBuf \notin Bufs /\ NoBuf # FreeChan  BY DEF NoBuf, Bufs, FreeChan
<1>3. CASE wchan[q] \in chans \/ wchan[q] = NoBuf  BY <1>1, <1>2, <1>3
<1>4. CASE wchan[q] \notin chans /\ wchan[q] # NoBuf
 <2>1. wchan'[q] = wchan[q] /\ pc'[q] = pc[q] /\ bp'[q] = bp[q]  BY <1>1, <1>4
 <2>2. wchan[q] = FreeChan => freeWanted' /\ free' = <<>>  BY <1>4 DEF Spares, NoLostWakeup
 <2>3. ASSUME NEW c \in Bufs, c = wchan[q]
       PROVE  \/ /\ pc'[q] \in {"getblk", "getra"} /\ {"BUSY", "WANTED"} \subseteq flags'[c]
              \/ /\ pc'[q] \in {"iowait", "wwait"} /\ bp'[q] = c
                 /\ c \in ToSet(ioq') /\ "DONE" \notin flags'[c]
  <3>1. CASE pc[q] \in {"getblk", "getra"} /\ {"BUSY", "WANTED"} \subseteq flags[c]
   <4>1. {"BUSY", "WANTED"} \subseteq f[c]  BY <3>1 DEF Keeping
   <4> QED  BY <4>1, <3>1, <2>1, <2>3, <1>4 DEF Spares
  <3>2. CASE /\ pc[q] \in {"iowait", "wwait"} /\ bp[q] = c
             /\ c \in ToSet(ioq) /\ "DONE" \notin flags[c]
   <4>1. "ASYNC" \notin flags[c]  BY <3>2 DEF IndInv, KeeperInv, Keeps
   <4>2. f[c] \cap {"ASYNC", "DONE"} = {}  BY <4>1, <3>2 DEF Keeping
   <4> QED  BY <4>2, <3>2, <2>1, <2>3, <1>4 DEF Spares
  <3> QED  BY <3>1, <3>2, <2>3 DEF NoLostWakeup, InFlight
 <2> QED  BY <2>1, <2>2, <2>3
<1> QED  BY <1>3, <1>4

\* The queue may lose b, no other
Queued(b) == \A c \in Bufs : c # b /\ c \in ToSet(ioq) => c \in ToSet(ioq')

LEMMA BrelseSpares ==
    ASSUME NEW b \in Bufs, NEW f, f \in [Bufs -> SUBSET Flags], NEW fr, Brelse(b, f, fr),
           Queued(b), b \in ToSet(ioq) => "ASYNC" \in f[b] \/ "DONE" \in f[b]
    PROVE  Spares(BrelseWakes(b, f), f)
<1>1. /\ WakeUpAll(BrelseWakes(b, f))
      /\ flags' = [f EXCEPT ![b] = f[b] \ {"WANTED", "BUSY", "ASYNC"}]
  BY DEF Brelse
<1>2. \A c \in Bufs : c # b => flags'[c] = f[c]  BY <1>1
<1>3. freeWanted => FreeChan \in BrelseWakes(b, f)  BY DEF BrelseWakes
<1>4. "WANTED" \in f[b] => b \in BrelseWakes(b, f)  BY DEF BrelseWakes
<1> QED  BY <1>1, <1>2, <1>3, <1>4 DEF Spares, Queued

LEMMA IODoneSpares ==
    ASSUME NEW b \in Bufs, NEW f, f \in [Bufs -> SUBSET Flags], NEW fr, IODone(b, f, fr),
           fr = free \/ free # <<>>, Queued(b), freeWanted \in BOOLEAN
    PROVE  \E chans : Spares(chans, f)
<1> DEFINE g == [f EXCEPT ![b] = f[b] \cup {"DONE"}]
<1>1. /\ g \in [Bufs -> SUBSET Flags] /\ g[b] = f[b] \cup {"DONE"}
      /\ \A c \in Bufs : c # b => g[c] = f[c]
  BY DEF Flags
<1> HIDE DEF g
<1>2. CASE "ASYNC" \in f[b]
 <2>1. Brelse(b, g, fr)  BY <1>2 DEF IODone, g
 <2>2. Spares(BrelseWakes(b, g), g)  BY <2>1, <1>1, BrelseSpares
 <2>3. "WANTED" \in f[b] => b \in BrelseWakes(b, g)  BY <1>1 DEF BrelseWakes
 <2> DEFINE chans == BrelseWakes(b, g)
 <2> HIDE DEF chans
 <2>4. Spares(chans, f)  BY <2>2, <2>3, <1>1, <1>2 DEF Spares, chans
 <2> QED  BY <2>4
<1>3. CASE "ASYNC" \notin f[b]
 <2>1. /\ WakeUpAll({b}) /\ flags' = [g EXCEPT ![b] = g[b] \ {"WANTED"}]
       /\ free' = fr /\ freeWanted' = freeWanted
   BY <1>3 DEF IODone, g
 <2>2. Spares({b}, f)  BY <2>1, <1>1 DEF Spares, Queued
 <2> QED  BY <2>2
<1> QED  BY <1>2, <1>3

LEMMA StrategySpares ==
    ASSUME TypeOK, NEW b \in Bufs, NEW f, f \in [Bufs -> SUBSET Flags],
           NEW fr, Strategy(b, f, fr), fr = free \/ free # <<>>
    PROVE  \E chans : Spares(chans, f)
<1>1. CASE tag[b] \in OutOfRange
 <2> DEFINE g == [f EXCEPT ![b] = f[b] \cup {"ERROR"}]
 <2>1. /\ g \in [Bufs -> SUBSET Flags] /\ g[b] = f[b] \cup {"ERROR"}
       /\ \A c \in Bufs : c # b => g[c] = f[c]
   BY DEF Flags
 <2>2. IODone(b, g, fr) /\ UNCHANGED devVars  BY <1>1 DEF Strategy
 <2> HIDE DEF g
 <2>3. Queued(b) /\ freeWanted \in BOOLEAN  BY <2>2 DEF Queued, devVars, TypeOK
 <2>4. PICK chans : Spares(chans, g)  BY <2>1, <2>2, <2>3, IODoneSpares
 <2>5. Spares(chans, f)  BY <2>4, <2>1 DEF Spares
 <2> QED  BY <2>5
<1>2. CASE tag[b] \notin OutOfRange
 <2>1. /\ flags' = f /\ free' = fr /\ ioq' = Append(ioq, b)
       /\ freeWanted' = freeWanted /\ wchan' = wchan
   BY <1>2 DEF Strategy
 <2>2. ToSet(ioq') = ToSet(ioq) \cup {b}  BY <2>1, AppendSet DEF TypeOK
 <2>3. WakeUpAll({})  BY <2>1 DEF WakeUpAll, TypeOK
 <2>4. Spares({}, f)  BY <2>1, <2>2, <2>3 DEF Spares
 <2> QED  BY <2>4
<1> QED  BY <1>1, <1>2

\* A process that is awake moves on: nothing that others wait for changes
LEMMA AwakeMoves ==
    ASSUME IndInv, NoLostWakeup, NEW p \in Procs, wchan[p] = NoBuf,
           UNCHANGED <<flags, free, freeWanted, ioq, wchan>>,
           \A q \in Procs : q # p => pc'[q] = pc[q] /\ bp'[q] = bp[q]
    PROVE  NoLostWakeup'
<1>1. NoBuf \notin Bufs /\ NoBuf # FreeChan  BY DEF NoBuf, Bufs, FreeChan
<1> QED  BY <1>1 DEF NoLostWakeup, InFlight, ToSet

\* A process falls asleep where somebody is going to wake it
LEMMA FallsAsleep ==
    ASSUME IndInv, NoLostWakeup, NEW p \in Procs, NEW chan, Sleep(p, chan),
           UNCHANGED <<free, ioq, pc, bp>>,
           freeWanted => freeWanted',
           \A c \in Bufs : flags[c] \subseteq flags'[c]
                           /\ flags'[c] \subseteq flags[c] \cup {"WANTED"},
           chan = FreeChan => freeWanted' /\ free = <<>>,
           chan \in Bufs =>
               \/ pc[p] \in {"getblk", "getra"} /\ {"BUSY", "WANTED"} \subseteq flags'[chan]
               \/ pc[p] \in {"iowait", "wwait"} /\ bp[p] = chan /\ chan \in ToSet(ioq)
                     /\ "DONE" \notin flags[chan]
    PROVE  NoLostWakeup'
<1>1. wchan' = [wchan EXCEPT ![p] = chan] /\ wchan \in [Procs -> Bufs \cup {NoBuf, FreeChan}]
  BY DEF Sleep, IndInv, TypeOK
<1>2. wchan'[p] = chan /\ \A q \in Procs : q # p => wchan'[q] = wchan[q]  BY <1>1
<1>3. ToSet(ioq') = ToSet(ioq)  OBVIOUS
<1>4. \A c \in Bufs : "DONE" \in flags'[c] <=> "DONE" \in flags[c]  OBVIOUS
<1>5. ASSUME NEW q \in Procs, q # p
      PROVE  /\ wchan'[q] = FreeChan => freeWanted' /\ free' = <<>>
             /\ wchan'[q] \in Bufs =>
                   \/ /\ pc'[q] \in {"getblk", "getra"}
                      /\ {"BUSY", "WANTED"} \subseteq flags'[wchan'[q]]
                   \/ /\ pc'[q] \in {"iowait", "wwait"} /\ bp'[q] = wchan'[q]
                      /\ wchan'[q] \in ToSet(ioq') /\ "DONE" \notin flags'[wchan'[q]]
  BY <1>2, <1>3, <1>4, <1>5 DEF NoLostWakeup, InFlight
<1>6. /\ wchan'[p] = FreeChan => freeWanted' /\ free' = <<>>
      /\ wchan'[p] \in Bufs =>
            \/ /\ pc'[p] \in {"getblk", "getra"}
               /\ {"BUSY", "WANTED"} \subseteq flags'[wchan'[p]]
            \/ /\ pc'[p] \in {"iowait", "wwait"} /\ bp'[p] = wchan'[p]
               /\ wchan'[p] \in ToSet(ioq') /\ "DONE" \notin flags'[wchan'[p]]
  BY <1>2, <1>3, <1>4
<1> QED  BY <1>5, <1>6 DEF NoLostWakeup, InFlight

\* A process that is awake lets b go, or hands it to the disk; f are the flags
\* it gives b before
LEMMA AwakeReleases ==
    ASSUME IndInv, NoLostWakeup, NEW p \in Procs, NEW b \in Bufs, NEW f, NEW fr,
           wchan[p] = NoBuf, Keeping(b, f), fr = free \/ free # <<>>,
           b \notin ToSet(ioq),
           \/ Brelse(b, f, fr) /\ ioq' = ioq
           \/ Strategy(b, f, fr),
           \A q \in Procs : q # p => pc'[q] = pc[q] /\ bp'[q] = bp[q]
    PROVE  NoLostWakeup'
<1>1. TypeOK /\ f \in [Bufs -> SUBSET Flags]  BY DEF IndInv, Keeping
<1>2. PICK chans : Spares(chans, f)
 <2>1. CASE Brelse(b, f, fr) /\ ioq' = ioq
  <3>1. Queued(b)  BY <2>1 DEF Queued
  <3> QED  BY <1>1, <2>1, <3>1, BrelseSpares
 <2>2. CASE Strategy(b, f, fr)  BY <1>1, <2>2, StrategySpares
 <2> QED  BY <2>1, <2>2
<1>3. \A q \in Procs : wchan[q] # NoBuf => pc'[q] = pc[q] /\ bp'[q] = bp[q]  OBVIOUS
<1> QED  BY <1>2, <1>3, SparesAll

\* What a process waits for in IOWait is with the disk, or done
AtDisk == \A p \in Procs :
    pc[p] \in Waiting /\ "DONE" \notin flags[bp[p]] => bp[p] \in ToSet(ioq)

WakeInv == NoLostWakeup /\ AtDisk

\* Only b changes, and p, if it waits for a buffer, waits for b or goes on to
\* wait for the same
LEMMA AtDiskStep ==
    ASSUME IndInv, AtDisk, NEW p \in Procs, NEW b \in Bufs,
           \A q \in Procs : q # p => pc'[q] = pc[q] /\ bp'[q] = bp[q],
           pc'[p] \in Waiting => bp'[p] = b \/ (pc[p] \in Waiting /\ bp'[p] = bp[p]),
           \A c \in Bufs : c # b => /\ flags'[c] = flags[c]
                                    /\ c \in ToSet(ioq) => c \in ToSet(ioq'),
           \/ "DONE" \in flags'[b]
           \/ b \in ToSet(ioq')
           \/ \A q \in Procs : pc'[q] \in Waiting => bp'[q] # b
    PROVE  AtDisk'
<1>1. ASSUME NEW q \in Procs, pc'[q] \in Waiting, "DONE" \notin flags'[bp'[q]]
      PROVE  bp'[q] \in ToSet(ioq')
 <2>1. CASE bp'[q] = b  BY <1>1, <2>1
 <2>2. CASE bp'[q] # b
  <3>1. pc[q] \in Waiting /\ bp'[q] = bp[q]  BY <1>1, <2>2
  <3>2. bp[q] \in Bufs  BY <3>1 DEF IndInv, TypeOK, PcInv, Waiting
  <3> QED  BY <1>1, <2>2, <3>1, <3>2 DEF AtDisk
 <2> QED  BY <2>1, <2>2
<1> QED  BY <1>1 DEF AtDisk, Waiting

\* Nothing changes for those who wait, and p moves on or falls asleep
LEMMA AtDiskSame ==
    ASSUME AtDisk, NEW p \in Procs, UNCHANGED <<ioq, bp>>,
           \A c \in Bufs \cup {NoBuf} : "DONE" \in flags[c] => "DONE" \in flags'[c],
           bp \in [Procs -> Bufs \cup {NoBuf}],
           \A q \in Procs : q # p => pc'[q] = pc[q],
           pc'[p] \in Waiting => pc[p] \in Waiting \/ "DONE" \in flags[bp[p]]
    PROVE  AtDisk'
<1>1. ToSet(ioq') = ToSet(ioq)  OBVIOUS
<1> QED  BY <1>1 DEF AtDisk, Waiting

LEMMA CallsWake ==
    ASSUME IndInv, WakeInv, NEW p \in Procs,
           CallRead(p) \/ CallNew(p) \/ CallReada(p) \/ CallFlush(p)
    PROVE  WakeInv'
<1>1. PICK o, k, r : Call(p, o, k, r)  BY DEF CallRead, CallNew, CallReada, CallFlush
<1>2. /\ wchan[p] = NoBuf
      /\ UNCHANGED <<flags, free, freeWanted, ioq, wchan, bp>>
      /\ pc' = [pc EXCEPT ![p] = IF o = "flush" THEN "flush" ELSE "getblk"]
  BY <1>1 DEF Call, Runs, GoTo, bufVars, devVars
<1>3. /\ pc \in [Procs -> PCs] /\ bp \in [Procs -> Bufs \cup {NoBuf}]  BY DEF IndInv, TypeOK
<1>4. pc'[p] \notin Waiting /\ \A q \in Procs : q # p => pc'[q] = pc[q]  BY <1>2, <1>3 DEF Waiting
<1>5. NoLostWakeup'  BY <1>2, <1>4, AwakeMoves DEF WakeInv
<1>6. AtDisk'  BY <1>2, <1>3, <1>4, AtDiskSame DEF WakeInv
<1> QED  BY <1>5, <1>6 DEF WakeInv

LEMMA ReadAheadWake ==
    ASSUME IndInv, WakeInv, NEW p \in Procs, ReadAhead(p)
    PROVE  WakeInv'
<1>1. /\ wchan[p] = NoBuf /\ pc[p] = "ra"
      /\ UNCHANGED <<flags, free, freeWanted, ioq, wchan, bp>>
      /\ pc' = [pc EXCEPT ![p] = IF InCore(rablk[p]) THEN "iowait" ELSE "getra"]
  BY DEF ReadAhead, Runs, GoTo, bufVars, devVars
<1>2. /\ pc \in [Procs -> PCs] /\ bp \in [Procs -> Bufs \cup {NoBuf}]  BY DEF IndInv, TypeOK
<1>3. pc[p] \in Waiting /\ \A q \in Procs : q # p => pc'[q] = pc[q]  BY <1>1, <1>2 DEF Waiting
<1>4. NoLostWakeup'  BY <1>1, <1>3, AwakeMoves DEF WakeInv
<1>5. AtDisk'  BY <1>1, <1>2, <1>3, AtDiskSame DEF WakeInv
<1> QED  BY <1>4, <1>5 DEF WakeInv

LEMMA BflushEndWake ==
    ASSUME IndInv, WakeInv, NEW p \in Procs, BflushEnd(p)
    PROVE  WakeInv'
<1>1. /\ wchan[p] = NoBuf /\ pc[p] = "flush"
      /\ UNCHANGED <<flags, free, freeWanted, ioq, wchan>>
      /\ pc' = [pc EXCEPT ![p] = "idle"] /\ bp' = [bp EXCEPT ![p] = NoBuf]
  BY DEF BflushEnd, Runs, Return, bufVars, devVars
<1>2. /\ pc \in [Procs -> PCs] /\ bp \in [Procs -> Bufs \cup {NoBuf}]  BY DEF IndInv, TypeOK
<1>3. bp[p] = NoBuf  BY <1>1 DEF IndInv, PcInv
<1>4. bp' = bp /\ pc'[p] \notin Waiting /\ \A q \in Procs : q # p => pc'[q] = pc[q]
  BY <1>1, <1>2, <1>3 DEF Waiting
<1>5. NoLostWakeup'  BY <1>1, <1>4, AwakeMoves DEF WakeInv
<1>6. AtDisk'  BY <1>1, <1>2, <1>4, AtDiskSame DEF WakeInv
<1> QED  BY <1>5, <1>6 DEF WakeInv

\* GetBlk takes a buffer nobody has: nobody waits for it either
LEMMA TakesFree ==
    ASSUME IndInv, WakeInv, NEW p \in Procs, NEW b \in Bufs, "BUSY" \notin flags[b],
           wchan[p] = NoBuf, pc[p] \in {"getblk", "getra"}, Got(p, b),
           UNCHANGED <<freeWanted, ioq, wchan>>, flags' \in [Bufs -> SUBSET Flags],
           \A c \in Bufs : c # b => flags'[c] = flags[c],
           free # <<>>
    PROVE  WakeInv'
<1>1. b \notin ToSet(ioq) /\ \A q \in Procs : bp[q] # b  BY DEF IndInv, QueueInv, KeeperInv, Keeps
<1>2. /\ pc \in [Procs -> PCs] /\ bp \in [Procs -> Bufs \cup {NoBuf}]
      /\ flags \in [Bufs -> SUBSET Flags] /\ wchan \in [Procs -> Bufs \cup {NoBuf, FreeChan}]
  BY DEF IndInv, TypeOK
<1>3. /\ \A q \in Procs : q # p => pc'[q] = pc[q] /\ bp'[q] = bp[q]
      /\ pc'[p] \in {"got", "gotra"}
      /\ pc'[p] = "gotra" => bp'[p] = bp[p] /\ pc[p] = "getra"
  BY <1>2 DEF Got, GoTo
<1>4. Keeping(b, flags)  BY <1>2 DEF Keeping
<1>5. Spares({}, flags)
 <2>1. WakeUpAll({})  BY <1>2 DEF WakeUpAll
 <2> QED  BY <2>1, <1>1 DEF Spares
<1>6. NoLostWakeup'  BY <1>3, <1>4, <1>5, SparesAll DEF WakeInv
<1>7. ToSet(ioq') = ToSet(ioq)  OBVIOUS
<1>8. \A q \in Procs : pc'[q] \in Waiting => bp'[q] # b  BY <1>1, <1>3 DEF Waiting
<1>9. pc'[p] \in Waiting => pc[p] \in Waiting /\ bp'[p] = bp[p]  BY <1>3 DEF Waiting
<1>10. AtDisk'  BY <1>3, <1>7, <1>8, <1>9, AtDiskStep DEF WakeInv
<1> QED  BY <1>6, <1>10 DEF WakeInv

LEMMA GetBlkHitWake ==
    ASSUME IndInv, WakeInv, NEW p \in Procs, GetBlkHit(p)
    PROVE  WakeInv'
<1>1. PICK b \in Bufs : /\ InGetBlk(p) /\ "BUSY" \notin flags[b]
                        /\ flags' = [flags EXCEPT ![b] = @ \cup {"BUSY"}]
                        /\ Got(p, b)
                        /\ UNCHANGED <<freeWanted, devVars, wchan>>
  BY DEF GetBlkHit
<1>2. /\ flags' \in [Bufs -> SUBSET Flags]
      /\ \A c \in Bufs : c # b => flags'[c] = flags[c]
  BY <1>1 DEF IndInv, TypeOK, Flags
<1>3. free # <<>>  BY <1>1 DEF IndInv, FreeListExact, ToSet
<1>4. /\ wchan[p] = NoBuf /\ pc[p] \in {"getblk", "getra"}
      /\ UNCHANGED <<freeWanted, ioq, wchan>>
  BY <1>1 DEF InGetBlk, Runs, devVars
<1> QED  BY <1>1, <1>2, <1>3, <1>4, TakesFree

LEMMA GetBlkClaimWake ==
    ASSUME IndInv, WakeInv, NEW p \in Procs, GetBlkClaim(p)
    PROVE  WakeInv'
<1> DEFINE b == Head(free)
<1>1. /\ InGetBlk(p) /\ free # <<>> /\ flags' = [flags EXCEPT ![b] = {"BUSY"}]
      /\ Got(p, b) /\ UNCHANGED <<freeWanted, devVars, wchan>>
  BY DEF GetBlkClaim
<1>2. b \in Bufs /\ "BUSY" \notin flags[b]  BY <1>1, HeadTailSet DEF IndInv, TypeOK, FreeListExact
<1> HIDE DEF b
<1>3. /\ flags' \in [Bufs -> SUBSET Flags]
      /\ \A c \in Bufs : c # b => flags'[c] = flags[c]
  BY <1>1, <1>2 DEF IndInv, TypeOK, Flags
<1>4. /\ wchan[p] = NoBuf /\ pc[p] \in {"getblk", "getra"}
      /\ UNCHANGED <<freeWanted, ioq, wchan>>
  BY <1>1 DEF InGetBlk, Runs, devVars
<1> QED  BY <1>1, <1>2, <1>3, <1>4, TakesFree

LEMMA GetBlkBusyWake ==
    ASSUME IndInv, WakeInv, NEW p \in Procs, GetBlkBusy(p)
    PROVE  WakeInv'
<1>1. PICK b \in Bufs : /\ InGetBlk(p) /\ "BUSY" \in flags[b]
                        /\ flags' = [flags EXCEPT ![b] = @ \cup {"WANTED"}]
                        /\ Sleep(p, b)
  BY DEF GetBlkBusy
<1>2. pc[p] \in {"getblk", "getra"} /\ UNCHANGED <<free, freeWanted, ioq, pc, bp>>
  BY <1>1 DEF GetBlkBusy, InGetBlk, devVars
<1>3. /\ {"BUSY", "WANTED"} \subseteq flags'[b]
      /\ \A c \in Bufs : /\ flags[c] \subseteq flags'[c]
                         /\ flags'[c] \subseteq flags[c] \cup {"WANTED"}
  BY <1>1 DEF IndInv, TypeOK, Flags
<1>4. b # FreeChan  BY DEF Bufs, FreeChan
<1>5. NoLostWakeup'  BY <1>1, <1>2, <1>3, <1>4, FallsAsleep DEF WakeInv
<1>6. AtDisk'
 <2>1. \A q \in Procs : pc[q] \in Waiting => bp[q] \in Bufs  BY DEF IndInv, TypeOK, PcInv, Waiting
 <2>2. ToSet(ioq') = ToSet(ioq) /\ pc' = pc /\ bp' = bp  BY <1>2
 <2> QED  BY <2>1, <2>2, <1>3 DEF WakeInv, AtDisk, Waiting
<1> QED  BY <1>5, <1>6 DEF WakeInv

LEMMA GetBlkNoneWake ==
    ASSUME IndInv, WakeInv, NEW p \in Procs, GetBlkNone(p)
    PROVE  WakeInv'
<1>1. /\ Sleep(p, FreeChan) /\ free = <<>> /\ freeWanted'
      /\ UNCHANGED <<flags, free, ioq, pc, bp>>
  BY DEF GetBlkNone, devVars
<1>2. FreeChan \notin Bufs  BY DEF Bufs, FreeChan
<1>3. NoLostWakeup'  BY <1>1, <1>2, FallsAsleep DEF WakeInv
<1>4. AtDisk'
 <2>1. ToSet(ioq') = ToSet(ioq) /\ flags' = flags /\ pc' = pc /\ bp' = bp  BY <1>1
 <2> QED  BY <2>1 DEF WakeInv, AtDisk
<1> QED  BY <1>3, <1>4 DEF WakeInv

LEMMA IOWaitReadWake ==
    ASSUME IndInv, WakeInv, NEW p \in Procs, IOWaitRead(p)
    PROVE  WakeInv'
<1>1. /\ wchan[p] = NoBuf /\ pc[p] = "iowait"
      /\ UNCHANGED <<flags, free, freeWanted, ioq, bp>>
  BY DEF IOWaitRead, Runs, bufVars, devVars
<1>2. /\ pc \in [Procs -> PCs] /\ bp \in [Procs -> Bufs \cup {NoBuf}] /\ bp[p] \in Bufs
  BY <1>1 DEF IndInv, TypeOK, PcInv
<1>3. CASE "DONE" \in flags[bp[p]]
 <2>1. wchan' = wchan /\ pc' = [pc EXCEPT ![p] = "have"]  BY <1>3 DEF IOWaitRead, GoTo
 <2>2. pc'[p] \notin Waiting /\ \A q \in Procs : q # p => pc'[q] = pc[q]  BY <2>1, <1>2 DEF Waiting
 <2>3. NoLostWakeup'  BY <1>1, <2>1, <2>2, AwakeMoves DEF WakeInv
 <2>4. AtDisk'  BY <1>1, <1>2, <2>2, AtDiskSame DEF WakeInv
 <2> QED  BY <2>3, <2>4 DEF WakeInv
<1>4. CASE "DONE" \notin flags[bp[p]]
 <2>1. Sleep(p, bp[p]) /\ pc' = pc  BY <1>4 DEF IOWaitRead
 <2>2. bp[p] # FreeChan /\ bp[p] \in ToSet(ioq)
   BY <1>1, <1>2, <1>4 DEF Bufs, FreeChan, WakeInv, AtDisk, Waiting
 <2>3. NoLostWakeup'  BY <1>1, <1>4, <2>1, <2>2, FallsAsleep DEF WakeInv
 <2>4. AtDisk'
  <3>1. ToSet(ioq') = ToSet(ioq) /\ flags' = flags /\ pc' = pc /\ bp' = bp  BY <1>1, <2>1
  <3> QED  BY <3>1 DEF WakeInv, AtDisk
 <2> QED  BY <2>3, <2>4 DEF WakeInv
<1> QED  BY <1>3, <1>4

\* What Brelse and Strategy do to the queue and to B_DONE
LEMMA DoneOrQueued ==
    ASSUME IndInv, NEW b \in Bufs, NEW f, Keeping(b, f), NEW fr \in Seq(Bufs),
           IsInjective(fr), b \notin ToSet(fr), b \notin ToSet(ioq),
           \/ Brelse(b, f, fr) /\ ioq' = ioq
           \/ Strategy(b, f, fr)
    PROVE  /\ \A c \in Bufs : c # b => /\ flags'[c] = flags[c]
                                       /\ c \in ToSet(ioq) => c \in ToSet(ioq')
           /\ Strategy(b, f, fr) => "DONE" \in flags'[b] \/ b \in ToSet(ioq')
<1>1. /\ TypeOK /\ QueueInv /\ f \in [Bufs -> SUBSET Flags]
      /\ \A c \in Bufs : c # b => f[c] = flags[c]
  BY DEF IndInv, Keeping
<1>2. CASE Brelse(b, f, fr) /\ ioq' = ioq /\ ~Strategy(b, f, fr)
 <2>1. flags' = [f EXCEPT ![b] = f[b] \ {"WANTED", "BUSY", "ASYNC"}]  BY <1>2 DEF Brelse
 <2>2. \A c \in Bufs : c # b => flags'[c] = f[c]  BY <2>1, <1>1
 <2>3. ToSet(ioq') = ToSet(ioq)  BY <1>2
 <2> QED  BY <1>1, <1>2, <2>2, <2>3
<1>3. CASE Strategy(b, f, fr)  BY <1>1, <1>3, StrategyEffect
<1> QED  BY <1>2, <1>3

\* The process that is awake and had b, or nobody had it, is done with it
LEMMA GivesAway ==
    ASSUME IndInv, WakeInv, NEW p \in Procs, NEW b \in Bufs, NEW f, NEW fr \in Seq(Bufs),
           wchan[p] = NoBuf, Keeping(b, f), fr = free \/ free # <<>>,
           IsInjective(fr), b \notin ToSet(fr), b \notin ToSet(ioq),
           \/ Brelse(b, f, fr) /\ ioq' = ioq /\ \A q \in Procs : bp'[q] # b
           \/ Strategy(b, f, fr),
           \A q \in Procs : q # p => pc'[q] = pc[q] /\ bp'[q] = bp[q],
           pc'[p] \in Waiting => bp'[p] = b \/ (pc[p] \in Waiting /\ bp'[p] = bp[p])
    PROVE  WakeInv'
<1>1. NoLostWakeup'  BY AwakeReleases DEF WakeInv
<1>2. /\ \A c \in Bufs : c # b => /\ flags'[c] = flags[c]
                                  /\ c \in ToSet(ioq) => c \in ToSet(ioq')
      /\ Strategy(b, f, fr) => "DONE" \in flags'[b] \/ b \in ToSet(ioq')
  BY DoneOrQueued
<1>3. AtDisk'  BY <1>2, AtDiskStep DEF WakeInv
<1> QED  BY <1>1, <1>3 DEF WakeInv

LEMMA DelayedWriteWake ==
    ASSUME IndInv, WakeInv, NEW p \in Procs, NEW b \in Bufs, "BUSY" \notin flags[b],
           NEW fr \in Seq(Bufs), IsInjective(fr), ToSet(fr) = ToSet(free) \ {b},
           free # <<>>, wchan[p] = NoBuf,
           Strategy(b, WriteFlags(b, {"BUSY", "ASYNC"}), fr), UNCHANGED <<pc, bp>>
    PROVE  WakeInv'
<1> DEFINE f == WriteFlags(b, {"BUSY", "ASYNC"})
<1>1. b \notin ToSet(ioq) /\ b \notin ToSet(fr) /\ \A q \in Procs : bp[q] # b
  BY DEF IndInv, QueueInv, KeeperInv, Keeps
<1>2. Keeping(b, f)  BY <1>1 DEF IndInv, TypeOK, WriteFlags, Flags, Keeping
<1> HIDE DEF f
<1>3. Strategy(b, f, fr)  BY DEF f
<1>4. pc'[p] \in Waiting => pc[p] \in Waiting /\ bp'[p] = bp[p]  OBVIOUS
<1> QED  BY <1>1, <1>2, <1>3, <1>4, GivesAway

LEMMA GetBlkFlushWake ==
    ASSUME IndInv, WakeInv, NEW p \in Procs, GetBlkFlush(p)
    PROVE  WakeInv'
<1> DEFINE b == Head(free)
<1>1. /\ free # <<>> /\ wchan[p] = NoBuf /\ UNCHANGED <<pc, bp>>
      /\ Strategy(b, WriteFlags(b, {"BUSY", "ASYNC"}), Tail(free))
  BY DEF GetBlkFlush, InGetBlk, Runs
<1>2. /\ b \in Bufs /\ "BUSY" \notin flags[b]
      /\ Tail(free) \in Seq(Bufs) /\ IsInjective(Tail(free))
      /\ ToSet(Tail(free)) = ToSet(free) \ {b}
  BY <1>1, HeadTailSet DEF IndInv, TypeOK, FreeListExact
<1> QED  BY <1>1, <1>2, DelayedWriteWake

LEMMA BflushOneWake ==
    ASSUME IndInv, WakeInv, NEW p \in Procs, BflushOne(p)
    PROVE  WakeInv'
<1>1. PICK i \in DOMAIN free :
         /\ wchan[p] = NoBuf /\ UNCHANGED <<pc, bp>>
         /\ Strategy(free[i], WriteFlags(free[i], {"BUSY", "ASYNC"}), RemoveAt(free, i))
  BY DEF BflushOne, Runs
<1>2. /\ free[i] \in Bufs /\ "BUSY" \notin flags[free[i]] /\ free # <<>>
      /\ RemoveAt(free, i) \in Seq(Bufs) /\ IsInjective(RemoveAt(free, i))
      /\ ToSet(RemoveAt(free, i)) = ToSet(free) \ {free[i]}
 <2>1. free \in Seq(Bufs) /\ IsInjective(free) /\ free[i] \in ToSet(free) /\ free # <<>>
   BY DEF IndInv, TypeOK, FreeListExact, ToSet
 <2> QED  BY <2>1, RemoveAtSet DEF IndInv, FreeListExact
<1> QED  BY <1>1, <1>2, DelayedWriteWake

LEMMA GottenWake ==
    ASSUME IndInv, WakeInv, NEW p \in Procs, Gotten(p)
    PROVE  WakeInv'
<1>1. PICK b \in Bufs : b = bp[p]  BY DEF Gotten, IndInv, TypeOK, PcInv
<1> DEFINE valid == op[p] = "new" \/ "DONE" \in flags[b]
           f == [flags EXCEPT ![b] = @ \cup {"READ"}]
<1>2. /\ pc[p] = "got" /\ wchan[p] = NoBuf /\ bp' = bp
      /\ pc' = [pc EXCEPT ![p] = IF op[p] = "reada" THEN "ra"
                                 ELSE IF valid THEN "have" ELSE "iowait"]
  BY <1>1 DEF Gotten, GoTo, Runs
<1>3. /\ pc \in [Procs -> PCs] /\ bp \in [Procs -> Bufs \cup {NoBuf}] /\ TypeOK
  BY DEF IndInv, TypeOK
<1>4. b \notin ToSet(ioq) /\ "BUSY" \in flags[b]  BY <1>1, <1>2 DEF IndInv, KeeperInv, Keeps
<1>5. \A q \in Procs : q # p => pc'[q] = pc[q] /\ bp'[q] = bp[q]  BY <1>2, <1>3
<1>6. CASE valid
 <2>1. UNCHANGED <<flags, free, freeWanted, ioq, wchan>>  BY <1>1, <1>6 DEF Gotten, devVars
 <2>2. NoLostWakeup'  BY <1>2, <1>5, <2>1, AwakeMoves DEF WakeInv
 <2>3. pc'[p] \in Waiting => "DONE" \in flags[bp[p]]  BY <1>1, <1>2, <1>3, <1>6 DEF Waiting
 <2> HIDE DEF valid
 <2>4. AtDisk'  BY <1>2, <1>3, <1>5, <2>1, <2>3, AtDiskSame DEF WakeInv
 <2> QED  BY <2>2, <2>4 DEF WakeInv
<1>7. CASE ~valid
 <2>1. Strategy(b, f, free)  BY <1>1, <1>7 DEF Gotten
 <2>2. Keeping(b, f)  BY <1>3, <1>4 DEF TypeOK, Flags, Keeping
 <2>3. free \in Seq(Bufs) /\ IsInjective(free) /\ b \notin ToSet(free)
   BY <1>4 DEF IndInv, TypeOK, FreeListExact
 <2>4. bp'[p] = b  BY <1>1, <1>2
 <2> HIDE DEF f, valid
 <2> QED  BY <1>2, <1>4, <1>5, <2>1, <2>2, <2>3, <2>4, GivesAway
<1> QED  BY <1>6, <1>7

LEMMA GottenAheadWake ==
    ASSUME IndInv, WakeInv, NEW p \in Procs, GottenAhead(p)
    PROVE  WakeInv'
<1>1. PICK b \in Bufs : b = abp[p]  BY DEF GottenAhead, IndInv, TypeOK, PcInv
<1> DEFINE f == [flags EXCEPT ![b] = @ \cup {"READ", "ASYNC"}]
<1>2. /\ pc[p] = "gotra" /\ wchan[p] = NoBuf /\ bp' = bp
      /\ pc' = [pc EXCEPT ![p] = "iowait"]
  BY <1>1 DEF GottenAhead, GoTo, Runs
<1>3. /\ pc \in [Procs -> PCs] /\ bp \in [Procs -> Bufs \cup {NoBuf}] /\ TypeOK
      /\ flags \in [Bufs -> SUBSET Flags]
  BY DEF IndInv, TypeOK
<1>4. /\ "BUSY" \in flags[b] /\ bp[p] # b /\ \A q \in Procs : bp[q] # b
  BY <1>1, <1>2 DEF IndInv, KeeperInv, Keeps, NoBuf, Bufs
<1>5. b \notin ToSet(ioq)  BY <1>1, <1>4 DEF IndInv, KeeperInv, Keeps
<1>6. /\ \A q \in Procs : q # p => pc'[q] = pc[q] /\ bp'[q] = bp[q]
      /\ pc[p] \in Waiting /\ bp'[p] = bp[p]
  BY <1>2, <1>3 DEF Waiting
<1>7. free \in Seq(Bufs) /\ IsInjective(free) /\ b \notin ToSet(free)
  BY <1>4 DEF IndInv, TypeOK, FreeListExact
<1>8. CASE "DONE" \in flags[b]
 <2>1. Brelse(b, flags, free) /\ ioq' = ioq  BY <1>1, <1>8 DEF GottenAhead, devVars
 <2>2. Keeping(b, flags)  BY <1>3 DEF Keeping
 <2>3. \A q \in Procs : bp'[q] # b  BY <1>2, <1>4
 <2> QED  BY <1>2, <1>5, <1>6, <1>7, <2>1, <2>2, <2>3, GivesAway
<1>9. CASE "DONE" \notin flags[b]
 <2>1. Strategy(b, f, free)  BY <1>1, <1>9 DEF GottenAhead
 <2>2. Keeping(b, f)  BY <1>3, <1>5 DEF Flags, Keeping
 <2> HIDE DEF f
 <2> QED  BY <1>2, <1>5, <1>6, <1>7, <2>1, <2>2, GivesAway
<1> QED  BY <1>8, <1>9

\* A process that has a buffer and nothing else to wait for ends its call
LEMMA Returns ==
    ASSUME IndInv, NEW p \in Procs, NEW b \in Bufs, b = bp[p], pc[p] \in {"have", "wwait"},
           Return(p)
    PROVE  /\ \A q \in Procs : q # p => pc'[q] = pc[q] /\ bp'[q] = bp[q]
           /\ pc'[p] \notin Waiting /\ \A q \in Procs : bp'[q] # b
<1>1. pc' = [pc EXCEPT ![p] = "idle"] /\ bp' = [bp EXCEPT ![p] = NoBuf]  BY DEF Return
<1>2. \A q \in Procs : q # p => bp[q] # b  BY HasFacts DEF Keeps
<1>3. NoBuf # b  BY DEF NoBuf, Bufs
<1> QED  BY <1>1, <1>2, <1>3 DEF IndInv, TypeOK, Waiting

LEMMA ReleaseWake ==
    ASSUME IndInv, WakeInv, NEW p \in Procs, Release(p)
    PROVE  WakeInv'
<1>1. PICK b \in Bufs : b = bp[p]  BY DEF Release, Has, IndInv, TypeOK, PcInv
<1>2. /\ pc[p] = "have" /\ wchan[p] = NoBuf /\ Brelse(b, flags, free) /\ Return(p)
      /\ ioq' = ioq
  BY <1>1 DEF Release, Has, Runs, devVars
<1>3. "BUSY" \in flags[b] /\ b \notin ToSet(ioq)  BY <1>1, <1>2, HasFacts
<1>4. /\ Keeping(b, flags)
      /\ free \in Seq(Bufs) /\ IsInjective(free) /\ b \notin ToSet(free)
  BY <1>3 DEF IndInv, TypeOK, FreeListExact, Keeping
<1> QED  BY <1>1, <1>2, <1>3, <1>4, Returns, GivesAway

LEMMA BdwriteWake ==
    ASSUME IndInv, WakeInv, NEW p \in Procs, Bdwrite(p)
    PROVE  WakeInv'
<1>1. PICK b \in Bufs : b = bp[p]  BY DEF Bdwrite, Changed, Has, IndInv, TypeOK, PcInv
<1> DEFINE f == [flags EXCEPT ![b] = @ \cup {"DELWRI", "DONE"}]
<1>2. /\ pc[p] = "have" /\ wchan[p] = NoBuf /\ Brelse(b, f, free) /\ Return(p)
      /\ ioq' = ioq
  BY <1>1 DEF Bdwrite, Changed, Has, Runs, devVars
<1>3. "BUSY" \in flags[b] /\ b \notin ToSet(ioq)  BY <1>1, <1>2, HasFacts
<1>4. /\ Keeping(b, f)
      /\ free \in Seq(Bufs) /\ IsInjective(free) /\ b \notin ToSet(free)
  BY <1>3 DEF IndInv, TypeOK, FreeListExact, Keeping, Flags
<1> HIDE DEF f
<1> QED  BY <1>1, <1>2, <1>3, <1>4, Returns, GivesAway

LEMMA BawriteWake ==
    ASSUME IndInv, WakeInv, NEW p \in Procs, Bawrite(p)
    PROVE  WakeInv'
<1>1. PICK b \in Bufs : b = bp[p]  BY DEF Bawrite, Changed, Has, IndInv, TypeOK, PcInv
<1> DEFINE f == WriteFlags(b, {"ASYNC"})
<1>2. /\ pc[p] = "have" /\ wchan[p] = NoBuf /\ Strategy(b, f, free) /\ Return(p)
  BY <1>1 DEF Bawrite, Changed, Has, Runs
<1>3. "BUSY" \in flags[b] /\ b \notin ToSet(ioq)  BY <1>1, <1>2, HasFacts
<1>4. /\ Keeping(b, f)
      /\ free \in Seq(Bufs) /\ IsInjective(free) /\ b \notin ToSet(free)
  BY <1>3 DEF IndInv, TypeOK, FreeListExact, Keeping, WriteFlags, Flags
<1> HIDE DEF f
<1> QED  BY <1>1, <1>2, <1>3, <1>4, Returns, GivesAway

LEMMA BwriteWake ==
    ASSUME IndInv, WakeInv, NEW p \in Procs, Bwrite(p)
    PROVE  WakeInv'
<1>1. PICK b \in Bufs : b = bp[p]  BY DEF Bwrite, Changed, Has, IndInv, TypeOK, PcInv
<1> DEFINE f == WriteFlags(b, {})
<1>2. /\ pc[p] = "have" /\ wchan[p] = NoBuf /\ Strategy(b, f, free)
      /\ pc' = [pc EXCEPT ![p] = "wwait"] /\ bp' = bp
  BY <1>1 DEF Bwrite, Changed, Has, Runs, GoTo
<1>3. "BUSY" \in flags[b] /\ b \notin ToSet(ioq)  BY <1>1, <1>2, HasFacts
<1>4. /\ Keeping(b, f)
      /\ free \in Seq(Bufs) /\ IsInjective(free) /\ b \notin ToSet(free)
  BY <1>3 DEF IndInv, TypeOK, FreeListExact, Keeping, WriteFlags, Flags
<1> HIDE DEF f
<1>5. /\ \A q \in Procs : q # p => pc'[q] = pc[q] /\ bp'[q] = bp[q]
      /\ bp'[p] = b
  BY <1>1, <1>2 DEF IndInv, TypeOK
<1> QED  BY <1>2, <1>3, <1>4, <1>5, GivesAway

LEMMA IOWaitWriteWake ==
    ASSUME IndInv, WakeInv, NEW p \in Procs, IOWaitWrite(p)
    PROVE  WakeInv'
<1>1. PICK b \in Bufs : b = bp[p]  BY DEF IOWaitWrite, IndInv, TypeOK, PcInv
<1>2. pc[p] = "wwait" /\ wchan[p] = NoBuf /\ ioq' = ioq  BY DEF IOWaitWrite, Runs, devVars
<1>3. CASE "DONE" \in flags[b]
 <2>1. Brelse(b, flags, free) /\ Return(p)  BY <1>1, <1>3 DEF IOWaitWrite
 <2>2. "BUSY" \in flags[b] /\ b \notin ToSet(ioq)  BY <1>1, <1>2, <1>3, HasFacts
 <2>3. /\ Keeping(b, flags)
       /\ free \in Seq(Bufs) /\ IsInjective(free) /\ b \notin ToSet(free)
   BY <2>2 DEF IndInv, TypeOK, FreeListExact, Keeping
 <2> QED  BY <1>1, <1>2, <2>1, <2>2, <2>3, Returns, GivesAway
<1>4. CASE "DONE" \notin flags[b]
 <2>1. Sleep(p, b) /\ UNCHANGED <<flags, free, freeWanted, pc, bp>>  BY <1>1, <1>4 DEF IOWaitWrite
 <2>2. b # FreeChan /\ b \in ToSet(ioq)
   BY <1>1, <1>2, <1>4 DEF Bufs, FreeChan, WakeInv, AtDisk, Waiting
 <2>3. NoLostWakeup'  BY <1>1, <1>2, <1>4, <2>1, <2>2, FallsAsleep DEF WakeInv
 <2>4. AtDisk'
  <3>1. ToSet(ioq') = ToSet(ioq) /\ flags' = flags /\ pc' = pc /\ bp' = bp  BY <1>2, <2>1
  <3> QED  BY <3>1 DEF WakeInv, AtDisk
 <2> QED  BY <2>3, <2>4 DEF WakeInv
<1> QED  BY <1>3, <1>4

\* The interrupt ends the first request: it wakes who waits for it, and who waits
\* for a buffer if it releases one
LEMMA TransferDoneWake ==
    ASSUME IndInv, WakeInv, active, NEW b \in Bufs, b = Head(ioq),
           NEW f \in [Bufs -> SUBSET Flags], f[b] \in {flags[b], flags[b] \cup {"ERROR"}},
           \A c \in Bufs : c # b => f[c] = flags[c],
           IODone(b, f, free), ioq' = Tail(ioq), UNCHANGED <<pc, bp>>
    PROVE  WakeInv'
<1>1. /\ ioq \in Seq(Bufs) /\ IsInjective(ioq) /\ ioq # <<>> /\ TypeOK
  BY DEF IndInv, TypeOK, QueueInv
<1>2. b \in ToSet(ioq) /\ ToSet(ioq') = ToSet(ioq) \ {b}  BY <1>1, HeadTailSet
<1>3. "BUSY" \in flags[b]  BY <1>2 DEF IndInv, QueueInv
<1>4. Keeping(b, f) /\ Queued(b) /\ freeWanted \in BOOLEAN
  BY <1>1, <1>2 DEF Keeping, Queued, TypeOK
<1>5. PICK chans : Spares(chans, f)  BY <1>4, IODoneSpares
<1>6. NoLostWakeup'  BY <1>4, <1>5, SparesAll DEF WakeInv
<1>7. /\ \A c \in Bufs : c # b => flags'[c] = flags[c]
      /\ "DONE" \in flags'[b]
 <2>1. b \notin ToSet(free) /\ free \in Seq(Bufs) /\ IsInjective(free)
   BY <1>3 DEF IndInv, FreeListExact, TypeOK
 <2>2. /\ \A c \in Bufs : c # b => flags'[c] = f[c]
       /\ IF "ASYNC" \in f[b]
          THEN flags'[b] = (f[b] \cup {"DONE"}) \ {"WANTED", "BUSY", "ASYNC"}
          ELSE flags'[b] = (f[b] \cup {"DONE"}) \ {"WANTED"}
   BY <1>1, <2>1, IODoneEffect
 <2> QED  BY <2>2
<1>8. \A q \in Procs : pc[q] \in Waiting => bp[q] \in Bufs  BY DEF IndInv, TypeOK, PcInv, Waiting
<1>9. AtDisk'  BY <1>2, <1>7, <1>8 DEF WakeInv, AtDisk, Waiting
<1> QED  BY <1>6, <1>9 DEF WakeInv

LEMMA DiskOkWake ==
    ASSUME IndInv, WakeInv, DiskOk
    PROVE  WakeInv'
<1>1. active  BY DEF DiskOk, Interrupt
<1>2. PICK b \in Bufs : b = Head(ioq)  BY <1>1, HeadOfQueue
<1>3. IODone(b, flags, free) /\ ioq' = Tail(ioq) /\ UNCHANGED <<pc, bp>>  BY <1>2 DEF DiskOk
<1>4. flags \in [Bufs -> SUBSET Flags]  BY DEF IndInv, TypeOK
<1> QED  BY <1>1, <1>2, <1>3, <1>4, TransferDoneWake

LEMMA StutterWake ==
    ASSUME WakeInv, UNCHANGED <<flags, free, freeWanted, ioq, wchan, pc, bp>>
    PROVE  WakeInv'
<1>1. ToSet(ioq') = ToSet(ioq)  OBVIOUS
<1> QED  BY <1>1 DEF WakeInv, NoLostWakeup, AtDisk, InFlight

LEMMA DiskFaultWake ==
    ASSUME IndInv, WakeInv, DiskFault
    PROVE  WakeInv'
<1>1. active /\ UNCHANGED <<pc, bp>>  BY DEF DiskFault, Interrupt
<1>2. PICK b \in Bufs : b = Head(ioq)  BY <1>1, HeadOfQueue
<1>3. CASE errcnt < RetryMax  BY <1>1, <1>3, StutterWake DEF DiskFault
<1>4. CASE ~(errcnt < RetryMax)
 <2> DEFINE f == [flags EXCEPT ![b] = @ \cup {"ERROR"}]
 <2>1. IODone(b, f, free) /\ ioq' = Tail(ioq)  BY <1>2, <1>4 DEF DiskFault
 <2>2. /\ f \in [Bufs -> SUBSET Flags] /\ f[b] = flags[b] \cup {"ERROR"}
       /\ \A c \in Bufs : c # b => f[c] = flags[c]
   BY DEF IndInv, TypeOK, Flags
 <2> HIDE DEF f
 <2> QED  BY <1>1, <1>2, <2>1, <2>2, TransferDoneWake
<1> QED  BY <1>3, <1>4

LEMMA WakeStep == IndInv /\ WakeInv /\ [Next]_vars => WakeInv'
<1> SUFFICES ASSUME IndInv, WakeInv, [Next]_vars PROVE WakeInv'  OBVIOUS
<1>1. ASSUME NEW p \in Procs, Step(p) PROVE WakeInv'
  BY <1>1, CallsWake, GetBlkHitWake, GetBlkBusyWake, GetBlkNoneWake, GetBlkFlushWake,
     GetBlkClaimWake, GottenWake, ReadAheadWake, GottenAheadWake, IOWaitReadWake,
     ReleaseWake, BwriteWake, IOWaitWriteWake, BawriteWake, BdwriteWake,
     BflushOneWake, BflushEndWake DEF Step
<1>2. CASE DiskOk  BY <1>2, DiskOkWake
<1>3. CASE DiskFault  BY <1>3, DiskFaultWake
<1>4. CASE Finished \/ Hung \/ Stuck \/ UNCHANGED vars
  BY <1>4, StutterWake DEF Finished, Hung, Stuck, vars, bufVars, devVars, procVars
<1> QED  BY <1>1, <1>2, <1>3, <1>4 DEF Next

LEMMA WakeInit == Init => WakeInv
<1> SUFFICES ASSUME Init PROVE WakeInv  OBVIOUS
<1>1. /\ \A p \in Procs : wchan[p] = NoBuf /\ pc[p] = "idle"
      /\ NoBuf \notin Bufs /\ NoBuf # FreeChan
  BY DEF Init, NoBuf, Bufs, FreeChan
<1> QED  BY <1>1 DEF WakeInv, NoLostWakeup, AtDisk, Waiting
-----------------------------------------------------------------------------
(* What follows.                                                           *)

\* Every variable of the cache stays in its type: no buffer ever gets a flag,
\* a block or a keeper that does not exist
THEOREM TypeCorrect == Spec => []TypeOK
<1>1. IndInv => TypeOK  BY DEF IndInv
<1> QED  BY <1>1, Invariance, PTL

\* GetBlk never gives a block a second buffer, although it sleeps and another
\* process may get the block a buffer meanwhile
THEOREM BlocksHaveOneBuffer == Spec => []OneBufferPerBlock
<1>1. IndInv => OneBufferPerBlock  BY DEF IndInv
<1> QED  BY <1>1, Invariance, PTL

\* NotAvail, Brelse and the Brelse of the disk interrupt keep the free list exact
THEOREM FreeListIsExact == Spec => []FreeListExact
<1>1. IndInv => FreeListExact  BY DEF IndInv
<1> QED  BY <1>1, Invariance, PTL

\* No buffer is in two hands: not of two processes, and not of a process and the
\* interrupt that releases an asynchronous request
THEOREM BuffersHaveOneKeeper == Spec => []OneKeeper
<1>1. IndInv => OneKeeper
 <2> SUFFICES ASSUME IndInv PROVE OneKeeper  OBVIOUS
 <2>1. \A p, q \in Procs : \A b \in Bufs : Keeps(p, b) /\ Keeps(q, b) => p = q
   BY DEF IndInv, KeeperInv
 <2>2. \A p \in Procs : \A b \in Bufs :
           Keeps(p, b) => "BUSY" \in flags[b] /\ "ASYNC" \notin flags[b]
   BY DEF IndInv, KeeperInv
 <2>3. \A b \in Bufs : "BUSY" \in flags[b] =>
           \/ \E p \in Procs : Keeps(p, b)
           \/ InFlight(b) /\ "ASYNC" \in flags[b]
   BY DEF IndInv, KeeperInv, InFlight
 <2>4. \A b \in Bufs : InFlight(b) => "BUSY" \in flags[b]  BY DEF IndInv, QueueInv, InFlight
 <2> QED  BY <2>1, <2>2, <2>3, <2>4 DEF OneKeeper
<1> QED  BY <1>1, Invariance, PTL

\* Nobody sleeps for ever for want of a wake-up: whoever waits for a buffer set the
\* flag that Brelse looks at, and whoever waits for a transfer waits for one
\* that is still in the queue of the disk.  The interrupt may come between
\* any two steps, and GetBlk, IOWait and the Brelse of IODone share two flags.
THEOREM SleepersAreWoken == Spec => []NoLostWakeup
<1>1. WakeInv => NoLostWakeup  BY DEF WakeInv
<1> QED  BY <1>1, WakeInit, WakeStep, Invariance, PTL DEF Spec

-----------------------------------------------------------------------------
(* The one way in which the cache stops for good.                          *)

\* In a starved cache every buffer is busy, and none is on the free list
LEMMA NothingFree ==
    ASSUME IndInv, Starved
    PROVE  (\A b \in Bufs : "BUSY" \in flags[b]) /\ free = <<>>
<1>1. ASSUME NEW b \in Bufs PROVE "BUSY" \in flags[b]  BY <1>1 DEF Starved, IndInv, KeeperInv, Keeps
<1>2. CASE free # <<>>
 <2>1. Head(free) \in Bufs /\ Head(free) \in ToSet(free)  BY <1>2, HeadTailSet DEF IndInv, TypeOK
 <2> QED  BY <1>1, <2>1 DEF IndInv, FreeListExact
<1> QED  BY <1>1, <1>2

\* Then a Breada that asks for its second buffer can do nothing but sleep, awake
\* though it may be, and the others do not touch what it has
LEMMA AsksInVain ==
    ASSUME IndInv, Starved, [Next]_vars, NEW p \in Procs, pc[p] = "getra"
    PROVE  pc'[p] = "getra" /\ bp'[p] = bp[p]
<1>1. /\ \A b \in Bufs : "BUSY" \in flags[b]
      /\ free = <<>>
      /\ pc \in [Procs -> PCs] /\ bp \in [Procs -> Bufs \cup {NoBuf}]
  BY NothingFree DEF IndInv, TypeOK
<1>2. ASSUME NEW q \in Procs, Step(q) PROVE pc'[p] = "getra" /\ bp'[p] = bp[p]
 <2>1. CASE q = p
  <3>1. ~GetBlkHit(p) /\ ~GetBlkFlush(p) /\ ~GetBlkClaim(p)
    BY <1>1 DEF GetBlkHit, GetBlkFlush, GetBlkClaim
  <3>2. /\ ~CallRead(p) /\ ~CallNew(p) /\ ~CallReada(p) /\ ~CallFlush(p)
        /\ ~Gotten(p) /\ ~ReadAhead(p) /\ ~GottenAhead(p) /\ ~IOWaitRead(p)
        /\ ~Release(p) /\ ~Bwrite(p) /\ ~IOWaitWrite(p) /\ ~Bawrite(p) /\ ~Bdwrite(p)
        /\ ~BflushOne(p) /\ ~BflushEnd(p)
    BY DEF CallRead, CallNew, CallReada, CallFlush, Call, Gotten, ReadAhead,
           GottenAhead, IOWaitRead, Release, Bwrite, IOWaitWrite, Bawrite, Bdwrite,
           BflushOne, BflushEnd, Changed, Has
  <3>3. GetBlkBusy(p) \/ GetBlkNone(p)  BY <1>2, <2>1, <3>1, <3>2 DEF Step
  <3> QED  BY <3>3 DEF GetBlkBusy, GetBlkNone
 <2>2. CASE q # p
  <3>1. pc'[p] = pc[p] /\ bp'[p] = bp[p]
   <4>1. CASE CallRead(q) \/ CallNew(q) \/ CallReada(q) \/ CallFlush(q)
     BY <1>1, <2>2, <4>1 DEF CallRead, CallNew, CallReada, CallFlush, Call, GoTo
   <4>2. CASE GetBlkHit(q) \/ GetBlkBusy(q) \/ GetBlkNone(q) \/ GetBlkFlush(q)
              \/ GetBlkClaim(q)
     BY <1>1, <2>2, <4>2 DEF GetBlkHit, GetBlkBusy, GetBlkNone, GetBlkFlush,
        GetBlkClaim, Got, GoTo
   <4>3. CASE Gotten(q) \/ ReadAhead(q) \/ GottenAhead(q) \/ IOWaitRead(q)
     BY <1>1, <2>2, <4>3 DEF Gotten, ReadAhead, GottenAhead, IOWaitRead, GoTo
   <4>4. CASE Release(q) \/ Bwrite(q) \/ IOWaitWrite(q) \/ Bawrite(q) \/ Bdwrite(q)
     BY <1>1, <2>2, <4>4 DEF Release, Bwrite, IOWaitWrite, Bawrite, Bdwrite, GoTo,
        Return
   <4>5. CASE BflushOne(q) \/ BflushEnd(q)  BY <1>1, <2>2, <4>5 DEF BflushOne, BflushEnd, Return
   <4> QED  BY <1>2, <4>1, <4>2, <4>3, <4>4, <4>5 DEF Step
  <3> QED  BY <3>1
 <2> QED  BY <2>1, <2>2
<1>3. CASE DiskOk \/ DiskFault  BY <1>3 DEF DiskOk, DiskFault
<1>4. CASE Finished \/ Hung \/ Stuck \/ UNCHANGED vars
  BY <1>4 DEF Finished, Hung, Stuck, vars, procVars
<1> QED  BY <1>2, <1>3, <1>4 DEF Next

\* A starved cache is starved for ever: with as many processes in Breada as there
\* are buffers, each with one of them, no wake-up of the disk gets any of them on
THEOREM StarvationStays == Spec => StarvedForGood
<1>1. IndInv /\ [Next]_vars => [Starved => Starved']_vars
 <2> SUFFICES ASSUME IndInv, [Next]_vars, Starved PROVE Starved'  OBVIOUS
 <2>1. ASSUME NEW b \in Bufs PROVE \E p \in Procs : pc'[p] = "getra" /\ bp'[p] = b
  <3>1. PICK p \in Procs : pc[p] = "getra" /\ bp[p] = b  BY DEF Starved
  <3> QED  BY <3>1, AsksInVain
 <2> QED  BY <2>1 DEF Starved
<1> QED  BY <1>1, Invariance, PTL DEF Spec, StarvedForGood

\* Fewer processes than buffers cannot starve the cache: each keeps one at most
\* while it asks for another
THEOREM EnoughBuffers ==
    ASSUME IsFiniteSet(Procs), Cardinality(Procs) < NBuf
    PROVE  ~Starved
<1> SUFFICES ASSUME Starved PROVE FALSE  OBVIOUS
<1> DEFINE askers == {p \in Procs : bp[p] \in Bufs}
           kept == [p \in askers |-> bp[p]]
<1>1. NBuf \in Nat /\ Bufs = 1..NBuf  BY BufferCacheAssumption DEF Bufs
<1>2. kept \in Surjection(askers, Bufs)
 <2>1. ASSUME NEW b \in Bufs PROVE \E p \in askers : kept[p] = b  BY DEF Starved
 <2>2. kept \in [askers -> Bufs]  OBVIOUS
 <2> QED  BY <2>1, <2>2 DEF Surjection
<1>3. IsFiniteSet(askers) /\ Cardinality(askers) <= Cardinality(Procs)  BY FS_Subset
<1>4. Cardinality(Bufs) <= Cardinality(askers)  BY <1>2, <1>3, FS_Surjection
<1>5. Cardinality(Bufs) = NBuf  BY <1>1, FS_Interval
<1>6. Cardinality(Procs) \in Nat /\ Cardinality(askers) \in Nat  BY <1>3, FS_CardinalityType
<1> QED  BY <1>1, <1>3, <1>4, <1>5, <1>6

-----------------------------------------------------------------------------
(* The cache implements BlockStore: every step of the cache is a step of   *)
(* the store of cells, or none.                                            *)

-----------------------------------------------------------------------------
(* What has to be known of the contents.                                   *)

\* A process has the buffer of the block it asked for
TagInv == \A p \in Procs :
    /\ bp[p] # NoBuf => blk[p] \in Blks /\ tag[bp[p]] = blk[p]
    /\ abp[p] # NoBuf => tag[abp[p]] = rablk[p]

\* What is to be written later is valid
DelayedInv == \A b \in Bufs : "DELWRI" \in flags[b] => "DONE" \in flags[b]

\* A valid buffer without delayed write is what the disk has: it may be given away
CleanInv == \A b \in Bufs :
    tag[b] \in Sound /\ "DONE" \in flags[b] /\ "DELWRI" \notin flags[b]
       => data[b] = disk[tag[b]]

\* No transfer is given up: after a failed one the interrupt does not come back
RetryInv == inService \/ errcnt = 0

ContentInv == TagInv /\ DelayedInv /\ CleanInv /\ RetryInv

\* What the cache says is in the block of b
Cell(b) == IF Valid(b) THEN data[b] ELSE disk[tag[b]]

StoreCells == \A k \in Blks :
    /\ \A b \in Bufs : tag[b] = k => StoreOf(k) = Cell(b)
    /\ (\A b \in Bufs : tag[b] # k) => StoreOf(k) = disk[k]

LEMMA StoreValue == IndInv => StoreCells
<1> SUFFICES ASSUME IndInv, NEW k \in Blks
             PROVE  /\ \A b \in Bufs : tag[b] = k => StoreOf(k) = Cell(b)
                    /\ (\A b \in Bufs : tag[b] # k) => StoreOf(k) = disk[k]
  BY DEF StoreCells
<1>1. ASSUME NEW b \in Bufs, tag[b] = k PROVE StoreOf(k) = Cell(b)
 <2>1. \A c \in Bufs : tag[c] = k => c = b
   BY <1>1, BufferCacheAssumption DEF IndInv, OneBufferPerBlock
 <2>2. (CHOOSE c \in Bufs : tag[c] = k) = b  BY <2>1, <1>1
 <2>3. (\E c \in Bufs : tag[c] = k /\ Valid(c)) <=> Valid(b)  BY <2>1, <1>1
 <2> QED  BY <2>2, <2>3, <1>1 DEF StoreOf, Cell
<1>2. ASSUME \A b \in Bufs : tag[b] # k PROVE StoreOf(k) = disk[k]  BY <1>2 DEF StoreOf
<1> QED  BY <1>1, <1>2

\* Who has a block
Having(p, k) == pc[p] = "have" /\ blk[p] = k
OneHolder == \A k \in Blks :
    /\ \A p \in Procs : Having(p, k) => HolderOf(k) = p
    /\ (\A p \in Procs : ~Having(p, k)) => HolderOf(k) = NoProc

LEMMA HolderValue == IndInv /\ TagInv => OneHolder
<1> SUFFICES ASSUME IndInv, TagInv, NEW k \in Blks
             PROVE  /\ \A p \in Procs :
                          pc[p] = "have" /\ blk[p] = k => HolderOf(k) = p
                    /\ (\A p \in Procs : ~(pc[p] = "have" /\ blk[p] = k))
                          => HolderOf(k) = NoProc
  BY DEF OneHolder, Having
<1>1. ASSUME NEW p \in Procs, pc[p] = "have", blk[p] = k PROVE HolderOf(k) = p
 <2>1. ASSUME NEW q \in Procs, pc[q] = "have", blk[q] = k PROVE q = p
  <3>1. /\ bp[p] \in Bufs /\ bp[q] \in Bufs  BY <1>1, <2>1 DEF IndInv, TypeOK, PcInv
  <3>2. tag[bp[p]] = k /\ tag[bp[q]] = k  BY <1>1, <2>1, <3>1 DEF TagInv, NoBuf, Bufs
  <3>3. bp[p] = bp[q]  BY <3>1, <3>2, BufferCacheAssumption DEF IndInv, OneBufferPerBlock
  <3> QED  BY <3>1, <3>3 DEF IndInv, KeeperInv, Keeps
 <2>2. (CHOOSE q \in Procs : pc[q] = "have" /\ blk[q] = k) = p  BY <2>1, <1>1
 <2> QED  BY <2>2, <1>1 DEF HolderOf
<1>2. ASSUME \A p \in Procs : ~(pc[p] = "have" /\ blk[p] = k) PROVE HolderOf(k) = NoProc
  BY <1>2 DEF HolderOf
<1> QED  BY <1>1, <1>2

-----------------------------------------------------------------------------
(* The contents from one state to the next.                                *)

\* What the contents depend on, for a buffer
SameFlags(c) == \A x \in {"DONE", "DELWRI", "READ"} : x \in flags'[c] <=> x \in flags[c]
Untouched(c) == /\ tag'[c] = tag[c] /\ data'[c] = data[c]
                /\ SameFlags(c)
                /\ c \in ToSet(ioq') <=> c \in ToSet(ioq)

\* The block k has, before and after
SameCells == \A k \in Sound : StoreOf(k)' = StoreOf(k)

\* No contents change
LEMMA ContentSame ==
    ASSUME IndInv, IndInv', DelayedInv, CleanInv, \A c \in Bufs : Untouched(c), disk' = disk
    PROVE  DelayedInv' /\ CleanInv' /\ SameCells
<1>1. DelayedInv' /\ CleanInv'  BY DEF DelayedInv, CleanInv, Untouched, SameFlags
<1>2. ASSUME NEW k \in Sound PROVE StoreOf(k)' = StoreOf(k)
 <2>1. k \in Blks  BY DEF Sound
 <2>2. /\ \A b \in Bufs : tag[b] = k => StoreOf(k) = Cell(b)
       /\ (\A b \in Bufs : tag[b] # k) => StoreOf(k) = disk[k]
   BY <2>1, StoreValue DEF StoreCells
 <2>3. StoreCells'  BY StoreValue, PTL
 <2>4. /\ \A b \in Bufs : tag'[b] = k => StoreOf(k)' = Cell(b)'
       /\ (\A b \in Bufs : tag'[b] # k) => StoreOf(k)' = disk'[k]
   BY <2>1, <2>3 DEF StoreCells
 <2>5. \A b \in Bufs : Cell(b)' = Cell(b)  BY DEF Cell, Valid, InFlight, Untouched, SameFlags
 <2> QED  BY <2>2, <2>4, <2>5 DEF Untouched
<1> QED  BY <1>1, <1>2 DEF SameCells

\* One buffer, and the sector of its block, change
LEMMA ContentStep ==
    ASSUME IndInv, IndInv', DelayedInv, CleanInv, NEW b \in Bufs, tag'[b] = tag[b],
           \A c \in Bufs : c # b => Untouched(c),
           \A k \in Blks : k # tag[b] => disk'[k] = disk[k],
           "DELWRI" \in flags'[b] => "DONE" \in flags'[b],
           tag[b] \in Sound /\ "DONE" \in flags'[b] /\ "DELWRI" \notin flags'[b]
              => data'[b] = disk'[tag[b]]
    PROVE  /\ DelayedInv' /\ CleanInv'
           /\ \A k \in Sound : StoreOf(k)' = IF k = tag[b] THEN Cell(b)' ELSE StoreOf(k)
<1>1. DelayedInv'  BY DEF DelayedInv, Untouched, SameFlags
<1>2. CleanInv'
 <2>1. \A c \in Bufs : c # b /\ tag[c] \in Sound => tag[c] # tag[b] /\ tag[c] \in Blks
   BY BufferCacheAssumption DEF IndInv, OneBufferPerBlock, Sound
 <2> QED  BY <2>1 DEF CleanInv, Untouched, SameFlags
<1>3. ASSUME NEW k \in Sound PROVE StoreOf(k)' = IF k = tag[b] THEN Cell(b)' ELSE StoreOf(k)
 <2>1. k \in Blks  BY DEF Sound
 <2>2. /\ \A c \in Bufs : tag[c] = k => StoreOf(k) = Cell(c)
       /\ (\A c \in Bufs : tag[c] # k) => StoreOf(k) = disk[k]
   BY <2>1, StoreValue DEF StoreCells
 <2>3. StoreCells'  BY StoreValue, PTL
 <2>4. /\ \A c \in Bufs : tag'[c] = k => StoreOf(k)' = Cell(c)'
       /\ (\A c \in Bufs : tag'[c] # k) => StoreOf(k)' = disk'[k]
   BY <2>1, <2>3 DEF StoreCells
 <2>5. CASE k = tag[b]  BY <2>4, <2>5
 <2>6. CASE k # tag[b]
  <3>1. \A c \in Bufs : tag[c] = k => Cell(c)' = Cell(c)
    BY <2>1, <2>6 DEF Cell, Valid, InFlight, Untouched, SameFlags
  <3>2. \A c \in Bufs : tag'[c] = tag[c]  BY DEF Untouched
  <3> QED  BY <2>1, <2>2, <2>4, <2>6, <3>1, <3>2
 <2> QED  BY <2>5, <2>6
<1> QED  BY <1>1, <1>2, <1>3

-----------------------------------------------------------------------------
(* The steps of the store.                                                 *)

\* What BlockStore calls store, holder and seen
cells == [k \in Sound |-> StoreOf(k)]
hands == [k \in Sound |-> HolderOf(k)]
found == [p \in Procs |-> SeenBy(p)]

StoreStep == [Store!Next]_<<cells, hands, found>>

\* Somebody who has a block keeps it, as it is
KeepsOn(q) == /\ pc'[q] = "have" <=> pc[q] = "have"
              /\ pc[q] = "have" => /\ blk'[q] = blk[q] /\ op'[q] = op[q] /\ bp'[q] = bp[q]
                                   /\ data'[bp[q]] = data[bp[q]]

LEMMA SeenSame ==
    ASSUME NEW q \in Procs, KeepsOn(q)
    PROVE  SeenBy(q)' = SeenBy(q)
  BY DEF KeepsOn, SeenBy

LEMMA HandsSame ==
    ASSUME IndInv, IndInv', TagInv, TagInv', NEW k \in Sound,
           \A q \in Procs : Having(q, k)' <=> Having(q, k)
    PROVE  HolderOf(k)' = HolderOf(k)
<1>1. k \in Blks  BY DEF Sound
<1>2. OneHolder /\ OneHolder'  BY HolderValue, PTL
<1> QED  BY <1>1, <1>2 DEF OneHolder

\* The step is none of the store's
LEMMA Quiet ==
    ASSUME IndInv, IndInv', TagInv, TagInv', SameCells, \A q \in Procs : KeepsOn(q)
    PROVE  StoreStep
<1>1. \A k \in Sound : StoreOf(k)' = StoreOf(k)  BY DEF SameCells
<1>2. \A k \in Sound : HolderOf(k)' = HolderOf(k)  BY HandsSame DEF KeepsOn, Having
<1>3. \A q \in Procs : SeenBy(q)' = SeenBy(q)  BY SeenSame
<1>4. cells' = cells /\ hands' = hands /\ found' = found
  BY <1>1, <1>2, <1>3 DEF cells, hands, found
<1> QED  BY <1>4 DEF StoreStep

\* p gets its block
LEMMA Takes ==
    ASSUME IndInv, IndInv', TagInv, TagInv', SameCells, NEW p \in Procs,
           pc[p] # "have", pc'[p] = "have", bp[p] \in Bufs, UNCHANGED <<blk, op, bp, data>>,
           \A q \in Procs : q # p => pc'[q] = pc[q],
           op[p] = "new" \/ Valid(bp[p])
    PROVE  StoreStep
<1>1. bp[p] # NoBuf  BY DEF NoBuf, Bufs
<1>2. tag[bp[p]] = blk[p] /\ blk[p] \in Blks  BY <1>1 DEF TagInv
<1>3. \A k \in Sound : StoreOf(k)' = StoreOf(k)  BY DEF SameCells
<1>4. \A q \in Procs : q # p => SeenBy(q)' = SeenBy(q)  BY SeenSame DEF KeepsOn
<1>5. SeenBy(p) = NoVal  BY DEF SeenBy
<1>6. CASE blk[p] \notin Sound
 <2>1. \A k \in Sound : HolderOf(k)' = HolderOf(k)  BY <1>6, HandsSame DEF Having
 <2>2. SeenBy(p)' = NoVal  BY <1>6 DEF SeenBy
 <2>3. cells' = cells /\ hands' = hands /\ found' = found
   BY <1>3, <1>4, <1>5, <2>1, <2>2 DEF cells, hands, found
 <2> QED  BY <2>3 DEF StoreStep
<1>7. CASE blk[p] \in Sound
 <2> DEFINE k == blk[p]
 <2>1. \A j \in Sound : j # k => HolderOf(j)' = HolderOf(j)  BY HandsSame DEF Having
 <2>2. OneHolder /\ OneHolder'  BY HolderValue, PTL
 <2>3. HolderOf(k)' = p  BY <2>2, <1>2 DEF OneHolder, Having
 <2>4. \A q \in Procs : ~Having(q, k)
  <3>1. ASSUME NEW q \in Procs, Having(q, k) PROVE FALSE
   <4>1. q # p /\ bp[q] \in Bufs /\ bp[q] # NoBuf
     BY <3>1 DEF Having, IndInv, TypeOK, PcInv, NoBuf, Bufs
   <4>2. tag[bp[q]] = k  BY <3>1, <4>1 DEF Having, TagInv
   <4>3. bp[q] = bp[p]  BY <1>2, <4>1, <4>2, BufferCacheAssumption DEF IndInv, OneBufferPerBlock
   <4> QED  BY <4>1, <4>3 DEF IndInv, KeeperInv, Keeps
  <3> QED  BY <3>1
 <2>5. HolderOf(k) = NoProc  BY <2>2, <2>4, <1>2 DEF OneHolder
 <2>6. \A j \in Sound : HolderOf(j) # p
  <3>1. \A j \in Sound : j \in Blks  BY DEF Sound
  <3>2. ASSUME NEW j \in Sound PROVE HolderOf(j) # p
   <4>1. HolderOf(j) = NoProc \/ \E q \in Procs : Having(q, j) /\ HolderOf(j) = q
     BY <3>1, <2>2 DEF OneHolder
   <4> QED  BY <4>1, BufferCacheAssumption DEF Having
  <3> QED  BY <3>2
 <2>7. SeenBy(p)' = IF op[p] = "new" THEN NoVal ELSE StoreOf(k)
  <3>1. SeenBy(p)' = IF op[p] # "new" THEN data[bp[p]] ELSE NoVal  BY <1>7 DEF SeenBy
  <3>2. op[p] # "new" => StoreOf(k) = data[bp[p]]  BY <1>2, StoreValue DEF StoreCells, Cell
  <3> QED  BY <3>1, <3>2
 <2>8. cells' = cells /\ hands' = [hands EXCEPT ![k] = p]
   BY <1>3, <2>1, <2>3, <1>7 DEF cells, hands
 <2>9. found' \in {found, [found EXCEPT ![p] = cells[k]]}
  <3>1. CASE op[p] = "new"
   <4>1. found' = found  BY <3>1, <1>4, <1>5, <2>7 DEF found
   <4> QED  BY <4>1
  <3>2. CASE op[p] # "new"
   <4>1. cells[k] = StoreOf(k)  BY <1>7 DEF cells
   <4>2. found' = [found EXCEPT ![p] = cells[k]]  BY <3>2, <4>1, <1>4, <2>7 DEF found
   <4> QED  BY <4>2
  <3> QED  BY <3>1, <3>2
 <2>10. hands[k] = NoProc /\ \A j \in Sound : hands[j] # p  BY <1>7, <2>5, <2>6 DEF hands
 <2>11. Store!Acquire(p, k)  BY <2>8, <2>9, <2>10 DEF Store!Acquire, cells, hands, found
 <2> QED  BY <2>11, <1>7 DEF StoreStep, Store!Next
<1> QED  BY <1>6, <1>7

\* p lets its block go, as it was or with what it wrote
LEMMA Drops ==
    ASSUME IndInv, IndInv', TagInv, TagInv', NEW p \in Procs, NEW v \in Vals,
           pc[p] = "have", pc'[p] # "have", \A q \in Procs : q # p => KeepsOn(q),
           \/ SameCells
           \/ \A k \in Sound : StoreOf(k)' = IF k = blk[p] THEN v ELSE StoreOf(k)
    PROVE  StoreStep
<1>1. bp[p] # NoBuf /\ bp[p] \in Bufs  BY DEF IndInv, TypeOK, PcInv
<1>2. tag[bp[p]] = blk[p] /\ blk[p] \in Blks  BY <1>1 DEF TagInv
<1>3. \A q \in Procs : q # p => SeenBy(q)' = SeenBy(q)  BY SeenSame
<1>4. SeenBy(p)' = NoVal  BY DEF SeenBy
<1>5. CASE blk[p] \notin Sound
 <2>1. \A k \in Sound : HolderOf(k)' = HolderOf(k)  BY <1>5, HandsSame DEF Having, KeepsOn
 <2>2. SeenBy(p) = NoVal  BY <1>5 DEF SeenBy
 <2>3. \A k \in Sound : StoreOf(k)' = StoreOf(k)  BY <1>5 DEF SameCells
 <2>4. cells' = cells /\ hands' = hands /\ found' = found
   BY <1>3, <1>4, <2>1, <2>2, <2>3 DEF cells, hands, found
 <2> QED  BY <2>4 DEF StoreStep
<1>6. CASE blk[p] \in Sound
 <2> PICK k \in Sound : k = blk[p]  BY <1>6
 <2>1. \A j \in Sound : j # k => HolderOf(j)' = HolderOf(j)  BY HandsSame DEF Having, KeepsOn
 <2>2. OneHolder /\ OneHolder'  BY HolderValue, PTL
 <2>3. HolderOf(k) = p  BY <2>2, <1>2 DEF OneHolder, Having
 <2>4. \A q \in Procs : q # p => ~Having(q, k)  BY <2>2, <2>3, <1>2 DEF OneHolder
 <2>5. \A q \in Procs : ~Having(q, k)'  BY <2>4 DEF Having, KeepsOn
 <2>6. HolderOf(k)' = NoProc  BY <2>2, <2>5, <1>2 DEF OneHolder
 <2>7. hands[k] = p /\ hands' = [hands EXCEPT ![k] = NoProc]  BY <1>6, <2>1, <2>3, <2>6 DEF hands
 <2>8. found' = [found EXCEPT ![p] = NoVal]  BY <1>3, <1>4 DEF found
 <2>9. Store!Drop(p, k)  BY <2>7, <2>8 DEF Store!Drop, hands, found
 <2>10. cells' = cells \/ cells' = [cells EXCEPT ![k] = v]  BY <1>6 DEF cells, SameCells
 <2>11. Store!Release(p, k) \/ Store!Update(p, k)
   BY <2>9, <2>10 DEF Store!Release, Store!Update, cells
 <2> QED  BY <2>11, <1>6 DEF StoreStep, Store!Next
<1> QED  BY <1>5, <1>6

-----------------------------------------------------------------------------
(* Every step of the cache.                                                *)

\* The buffers that processes have stay theirs
SameTags(q) == /\ bp'[q] # NoBuf => bp'[q] = bp[q] /\ blk'[q] = blk[q]
               /\ abp'[q] # NoBuf => abp'[q] = abp[q] /\ rablk'[q] = rablk[q]

LEMMA TagSame ==
    ASSUME TagInv, tag' = tag, \A q \in Procs : SameTags(q)
    PROVE  TagInv'
  BY DEF TagInv, SameTags

\* No contents change, and nobody gets or drops a block
LEMMA QuietStep ==
    ASSUME IndInv, IndInv', ContentInv, \A c \in Bufs : Untouched(c), tag' = tag,
           UNCHANGED <<disk, inService, errcnt>>,
           \A q \in Procs : KeepsOn(q), \A q \in Procs : SameTags(q)
    PROVE  ContentInv' /\ StoreStep
<1>1. TagInv'  BY TagSame DEF ContentInv
<1>2. DelayedInv' /\ CleanInv' /\ SameCells  BY ContentSame DEF ContentInv
<1>3. RetryInv'  BY DEF ContentInv, RetryInv
<1>4. StoreStep  BY <1>1, <1>2, Quiet DEF ContentInv
<1> QED  BY <1>1, <1>2, <1>3, <1>4 DEF ContentInv

LEMMA CallsStore ==
    ASSUME IndInv, IndInv', ContentInv, NEW p \in Procs,
           CallRead(p) \/ CallNew(p) \/ CallReada(p) \/ CallFlush(p)
    PROVE  ContentInv' /\ StoreStep
<1>1. PICK o, k, r : Call(p, o, k, r)  BY DEF CallRead, CallNew, CallReada, CallFlush
<1>2. /\ pc[p] = "idle" /\ UNCHANGED <<tag, data, flags, ioq, disk, inService, errcnt, bp, abp>>
      /\ pc' = [pc EXCEPT ![p] = IF o = "flush" THEN "flush" ELSE "getblk"]
      /\ op' = [op EXCEPT ![p] = o]
      /\ blk' = [blk EXCEPT ![p] = k]
      /\ rablk' = [rablk EXCEPT ![p] = r]
  BY <1>1 DEF Call, GoTo, bufVars, devVars
<1>3. bp[p] = NoBuf /\ abp[p] = NoBuf  BY <1>2 DEF IndInv, PcInv
<1>4. TypeOK  BY DEF IndInv
<1>5. \A q \in Procs : KeepsOn(q)  BY <1>2, <1>4 DEF TypeOK, KeepsOn
<1>6. \A q \in Procs : SameTags(q)  BY <1>2, <1>3, <1>4 DEF TypeOK, SameTags
<1>7. \A c \in Bufs : Untouched(c)  BY <1>2 DEF Untouched, SameFlags
<1> QED  BY <1>2, <1>5, <1>6, <1>7, QuietStep

\* A process waits, or looks for the block to read ahead
LEMMA WaitsStore ==
    ASSUME IndInv, IndInv', ContentInv, NEW p \in Procs,
           GetBlkBusy(p) \/ GetBlkNone(p) \/ ReadAhead(p)
    PROVE  ContentInv' /\ StoreStep
<1>1. UNCHANGED <<tag, data, ioq, disk, inService, errcnt, op, blk, rablk, bp, abp>>
  BY DEF GetBlkBusy, GetBlkNone, ReadAhead, bufVars, devVars
<1>2. \A c \in Bufs : SameFlags(c)
 <2>1. CASE GetBlkBusy(p)
  <3>1. PICK b \in Bufs : flags' = [flags EXCEPT ![b] = @ \cup {"WANTED"}]  BY <2>1 DEF GetBlkBusy
  <3> QED  BY <3>1 DEF IndInv, TypeOK, SameFlags
 <2>2. CASE GetBlkNone(p) \/ ReadAhead(p)  BY <2>2 DEF GetBlkNone, ReadAhead, bufVars, SameFlags
 <2> QED  BY <2>1, <2>2
<1>3. \A q \in Procs : pc'[q] = "have" <=> pc[q] = "have"
  BY DEF GetBlkBusy, GetBlkNone, ReadAhead, GoTo, IndInv, TypeOK
<1>4. \A q \in Procs : KeepsOn(q) /\ SameTags(q)  BY <1>1, <1>3 DEF KeepsOn, SameTags
<1>5. \A c \in Bufs : Untouched(c)  BY <1>1, <1>2 DEF Untouched
<1> QED  BY <1>1, <1>4, <1>5, QuietStep

LEMMA BflushEndStore ==
    ASSUME IndInv, IndInv', ContentInv, NEW p \in Procs, BflushEnd(p)
    PROVE  ContentInv' /\ StoreStep
<1>1. /\ UNCHANGED <<tag, flags, data, ioq, disk, inService, errcnt, abp>>
      /\ pc[p] = "flush" /\ Return(p)
  BY DEF BflushEnd, bufVars, devVars
<1>2. /\ pc' = [pc EXCEPT ![p] = "idle"] /\ op' = [op EXCEPT ![p] = "none"]
      /\ blk' = [blk EXCEPT ![p] = NoBlk] /\ rablk' = [rablk EXCEPT ![p] = NoBlk]
      /\ bp' = [bp EXCEPT ![p] = NoBuf]
  BY <1>1 DEF Return
<1>3. bp[p] = NoBuf /\ abp[p] = NoBuf /\ TypeOK  BY <1>1 DEF IndInv, PcInv
<1>4. \A q \in Procs : KeepsOn(q)  BY <1>1, <1>2, <1>3 DEF TypeOK, KeepsOn
<1>5. \A q \in Procs : SameTags(q)  BY <1>1, <1>2, <1>3 DEF TypeOK, SameTags
<1>6. \A c \in Bufs : Untouched(c)  BY <1>1 DEF Untouched, SameFlags
<1> QED  BY <1>1, <1>4, <1>5, <1>6, QuietStep

\* GetBlk gives p a buffer: it is of the block p asked for
LEMMA GotTags ==
    ASSUME IndInv, TagInv, NEW p \in Procs, NEW b \in Bufs, pc[p] \in {"getblk", "getra"},
           Got(p, b), UNCHANGED <<blk, rablk>>, "BUSY" \notin flags[b],
           tag'[b] = Target(p), \A c \in Bufs : c # b => tag'[c] = tag[c]
    PROVE  TagInv'
<1>1. /\ bp \in [Procs -> Bufs \cup {NoBuf}] /\ abp \in [Procs -> Bufs \cup {NoBuf}]
  BY DEF IndInv, TypeOK
<1>2. \A q \in Procs : bp[q] # b /\ abp[q] # b  BY DEF IndInv, KeeperInv, Keeps
<1>3. /\ pc[p] = "getblk" => /\ bp' = [bp EXCEPT ![p] = b] /\ abp' = abp
                             /\ Target(p) = blk[p] /\ blk[p] \in Blks
      /\ pc[p] = "getra" => /\ abp' = [abp EXCEPT ![p] = b] /\ bp' = bp
                            /\ Target(p) = rablk[p]
  BY DEF Got, Target, IndInv, PcInv
<1>4. ASSUME NEW q \in Procs
      PROVE  /\ bp'[q] # NoBuf => blk'[q] \in Blks /\ tag'[bp'[q]] = blk'[q]
             /\ abp'[q] # NoBuf => tag'[abp'[q]] = rablk'[q]
  BY <1>1, <1>2, <1>3 DEF TagInv
<1> QED  BY <1>4 DEF TagInv

LEMMA GotKeepsOn ==
    ASSUME IndInv, NEW p \in Procs, NEW b \in Bufs, pc[p] \in {"getblk", "getra"},
           Got(p, b), UNCHANGED <<blk, op, data>>
    PROVE  \A q \in Procs : KeepsOn(q)
  BY DEF IndInv, TypeOK, Got, GoTo, KeepsOn

LEMMA GetBlkHitStore ==
    ASSUME IndInv, IndInv', ContentInv, NEW p \in Procs, GetBlkHit(p)
    PROVE  ContentInv' /\ StoreStep
<1>1. PICK b \in Bufs : /\ pc[p] \in {"getblk", "getra"} /\ "BUSY" \notin flags[b]
                        /\ tag[b] = Target(p)
                        /\ flags' = [flags EXCEPT ![b] = @ \cup {"BUSY"}]
                        /\ Got(p, b)
                        /\ UNCHANGED <<tag, data, devVars, op, blk, rablk>>
  BY DEF GetBlkHit, InGetBlk
<1>2. UNCHANGED <<tag, data, ioq, disk, inService, errcnt>>  BY <1>1 DEF devVars
<1>3. \A c \in Bufs : Untouched(c)  BY <1>1, <1>2 DEF IndInv, TypeOK, Untouched, SameFlags
<1>4. TagInv'  BY <1>1, GotTags DEF ContentInv
<1>5. DelayedInv' /\ CleanInv' /\ SameCells  BY <1>2, <1>3, ContentSame DEF ContentInv
<1>6. RetryInv'  BY <1>2 DEF ContentInv, RetryInv
<1>7. \A q \in Procs : KeepsOn(q)  BY <1>1, GotKeepsOn
<1>8. StoreStep  BY <1>4, <1>5, <1>7, Quiet DEF ContentInv
<1> QED  BY <1>4, <1>5, <1>6, <1>8 DEF ContentInv

\* A buffer without delayed write is given another block: the disk has what it had
LEMMA GetBlkClaimStore ==
    ASSUME IndInv, IndInv', ContentInv, NEW p \in Procs, GetBlkClaim(p)
    PROVE  ContentInv' /\ StoreStep
<1>1. /\ pc[p] \in {"getblk", "getra"} /\ ~InCore(Target(p)) /\ free # <<>>
      /\ "DELWRI" \notin flags[Head(free)]
      /\ flags' = [flags EXCEPT ![Head(free)] = {"BUSY"}]
      /\ tag' = [tag EXCEPT ![Head(free)] = Target(p)]
      /\ Got(p, Head(free))
      /\ UNCHANGED <<data, devVars, op, blk, rablk>>
  BY DEF GetBlkClaim, InGetBlk
<1>2. PICK b \in Bufs : b = Head(free) /\ "BUSY" \notin flags[b]
  BY <1>1, HeadTailSet DEF IndInv, TypeOK, FreeListExact
<1>3. UNCHANGED <<data, ioq, disk, inService, errcnt>>  BY <1>1 DEF devVars
<1>4. /\ tag'[b] = Target(p) /\ flags'[b] = {"BUSY"}
      /\ \A c \in Bufs : c # b => tag'[c] = tag[c] /\ flags'[c] = flags[c]
  BY <1>1, <1>2 DEF IndInv, TypeOK
<1>5. TagInv'  BY <1>1, <1>2, <1>4, GotTags DEF ContentInv
<1>6. DelayedInv' /\ CleanInv'  BY <1>3, <1>4 DEF ContentInv, DelayedInv, CleanInv
<1>7. RetryInv'  BY <1>3 DEF ContentInv, RetryInv
<1>8. ToSet(ioq') = ToSet(ioq) /\ b \notin ToSet(ioq) /\ b \notin ToSet(ioq')
  BY <1>2, <1>3 DEF IndInv, QueueInv
<1>9. \A c \in Bufs : c # b => Cell(c)' = Cell(c)  BY <1>3, <1>4, <1>8 DEF Cell, Valid, InFlight
<1>10. Cell(b)' = disk[tag'[b]] /\ (tag[b] \in Sound => Cell(b) = disk[tag[b]])
  BY <1>1, <1>2, <1>3, <1>4, <1>8 DEF Cell, Valid, InFlight, ContentInv, CleanInv
<1>11. ASSUME NEW k \in Sound PROVE StoreOf(k)' = StoreOf(k)
 <2>1. k \in Blks  BY DEF Sound
 <2>2. StoreCells /\ StoreCells'  BY StoreValue, PTL
 <2>3. CASE k = Target(p)
  <3>1. \A c \in Bufs : tag[c] # k  BY <2>3, <1>1 DEF InCore
  <3>2. StoreOf(k) = disk[k]  BY <2>1, <2>2, <3>1 DEF StoreCells
  <3>3. StoreOf(k)' = Cell(b)'  BY <2>1, <2>2, <2>3, <1>4 DEF StoreCells
  <3> QED  BY <3>2, <3>3, <1>4, <1>10, <2>3
 <2>4. CASE k # Target(p) /\ k = tag[b]
  <3>1. StoreOf(k) = disk[k]  BY <2>1, <2>2, <2>4, <1>10 DEF StoreCells
  <3>2. \A c \in Bufs : tag'[c] # k
    BY <2>1, <2>4, <1>4, BufferCacheAssumption DEF IndInv, OneBufferPerBlock
  <3>3. StoreOf(k)' = disk'[k]  BY <2>1, <2>2, <3>2 DEF StoreCells
  <3> QED  BY <3>1, <3>3, <1>3
 <2>5. CASE k # Target(p) /\ k # tag[b]
  <3>1. \A c \in Bufs : tag'[c] = k <=> tag[c] = k  BY <2>5, <1>4
  <3>2. CASE \E c \in Bufs : tag[c] = k
   <4>1. PICK c \in Bufs : tag[c] = k /\ c # b  BY <3>2, <2>5
   <4>2. StoreOf(k) = Cell(c) /\ StoreOf(k)' = Cell(c)'  BY <2>1, <2>2, <3>1, <4>1 DEF StoreCells
   <4> QED  BY <4>1, <4>2, <1>9
  <3>3. CASE \A c \in Bufs : tag[c] # k
   <4>1. StoreOf(k) = disk[k] /\ StoreOf(k)' = disk'[k]  BY <2>1, <2>2, <3>1, <3>3 DEF StoreCells
   <4> QED  BY <4>1, <1>3
  <3> QED  BY <3>2, <3>3
 <2> QED  BY <2>3, <2>4, <2>5
<1>12. SameCells  BY <1>11 DEF SameCells
<1>13. \A q \in Procs : KeepsOn(q)  BY <1>1, <1>2, GotKeepsOn
<1>14. StoreStep  BY <1>5, <1>12, <1>13, Quiet DEF ContentInv
<1> QED  BY <1>5, <1>6, <1>7, <1>14 DEF ContentInv

\* Strategy takes the buffer b that the disk does not have, for a read or a write
LEMMA StrategyContent ==
    ASSUME IndInv, IndInv', ContentInv, NEW b \in Bufs,
           NEW f \in [Bufs -> SUBSET Flags], \A c \in Bufs : c # b => f[c] = flags[c],
           NEW fr \in Seq(Bufs), IsInjective(fr), b \notin ToSet(fr), b \notin ToSet(ioq),
           Strategy(b, f, fr), f[b] \cap {"DONE", "DELWRI"} = {}, tag' = tag,
           \A c \in Bufs : c # b => data'[c] = data[c]
    PROVE  /\ DelayedInv' /\ CleanInv' /\ RetryInv'
           /\ \A k \in Sound : StoreOf(k)' = IF k # tag[b] THEN StoreOf(k)
                                             ELSE IF "READ" \in f[b] THEN disk[k] ELSE data'[b]
<1>1. TypeOK /\ QueueInv  BY DEF IndInv
<1>2. /\ UNCHANGED <<errcnt, inService, disk>>
      /\ \A c \in Bufs : c # b => flags'[c] = flags[c]
      /\ \/ /\ tag[b] \notin OutOfRange
            /\ ToSet(ioq') = ToSet(ioq) \cup {b}
            /\ flags'[b] = f[b]
         \/ /\ tag[b] \in OutOfRange
            /\ ioq' = ioq
            /\ "DONE" \in flags'[b]
  BY <1>1, StrategyEffect
<1>3. \A c \in Bufs : c # b => Untouched(c)  BY <1>2 DEF Untouched, SameFlags
<1>4. /\ "DELWRI" \in flags'[b] => "DONE" \in flags'[b]
      /\ tag[b] \in Sound /\ "DONE" \in flags'[b] /\ "DELWRI" \notin flags'[b]
            => data'[b] = disk'[tag[b]]
  BY <1>2 DEF Sound
<1>5. /\ DelayedInv' /\ CleanInv'
      /\ \A k \in Sound : StoreOf(k)' = IF k = tag[b] THEN Cell(b)' ELSE StoreOf(k)
  BY <1>2, <1>3, <1>4, ContentStep DEF ContentInv
<1>6. RetryInv'  BY <1>2 DEF ContentInv, RetryInv
<1>7. tag[b] \in Sound => Cell(b)' = IF "READ" \in f[b] THEN disk[tag[b]] ELSE data'[b]
 <2>1. tag[b] \in Sound => flags'[b] = f[b] /\ b \in ToSet(ioq')  BY <1>2 DEF Sound
 <2> QED  BY <2>1, <1>2 DEF Cell, Valid, InFlight
<1> QED  BY <1>5, <1>6, <1>7

\* A buffer that is not valid is read: the block stays what it is
LEMMA ReadStarts ==
    ASSUME IndInv, IndInv', ContentInv, NEW b \in Bufs, "DONE" \notin flags[b],
           b \notin ToSet(ioq), "BUSY" \in flags[b],
           NEW x, x \in {{"READ"}, {"READ", "ASYNC"}},
           Strategy(b, [flags EXCEPT ![b] = @ \cup x], free), UNCHANGED <<tag, data>>
    PROVE  DelayedInv' /\ CleanInv' /\ RetryInv' /\ SameCells
<1> DEFINE f == [flags EXCEPT ![b] = @ \cup x]
<1>1. /\ f \in [Bufs -> SUBSET Flags] /\ \A c \in Bufs : c # b => f[c] = flags[c]
      /\ f[b] = flags[b] \cup x
  BY DEF IndInv, TypeOK, Flags
<1>2. free \in Seq(Bufs) /\ IsInjective(free) /\ b \notin ToSet(free)
  BY DEF IndInv, TypeOK, FreeListExact
<1>3. f[b] \cap {"DONE", "DELWRI"} = {} /\ "READ" \in f[b]  BY <1>1 DEF ContentInv, DelayedInv
<1>4. Strategy(b, f, free)  OBVIOUS
<1> HIDE DEF f
<1>5. /\ DelayedInv' /\ CleanInv' /\ RetryInv'
      /\ \A k \in Sound : StoreOf(k)' = IF k # tag[b] THEN StoreOf(k) ELSE disk[k]
  BY <1>1, <1>2, <1>3, <1>4, StrategyContent
<1>6. ASSUME NEW k \in Sound, k = tag[b] PROVE StoreOf(k) = disk[k]
  BY <1>6, StoreValue DEF StoreCells, Cell, Valid, InFlight, Sound
<1> QED  BY <1>5, <1>6 DEF SameCells

\* The delayed write of a free buffer starts: the block stays what it is
LEMMA DelayedWriteStore ==
    ASSUME IndInv, IndInv', ContentInv, NEW b \in Bufs, "BUSY" \notin flags[b],
           "DELWRI" \in flags[b], NEW fr \in Seq(Bufs), IsInjective(fr), b \notin ToSet(fr),
           Strategy(b, WriteFlags(b, {"BUSY", "ASYNC"}), fr),
           UNCHANGED <<tag, data, pc, op, blk, rablk, bp, abp>>
    PROVE  ContentInv' /\ StoreStep
<1> DEFINE f == WriteFlags(b, {"BUSY", "ASYNC"})
<1>1. /\ f \in [Bufs -> SUBSET Flags] /\ \A c \in Bufs : c # b => f[c] = flags[c]
      /\ f[b] \cap {"DONE", "DELWRI", "READ"} = {}
  BY DEF IndInv, TypeOK, Flags, WriteFlags
<1>2. b \notin ToSet(ioq)  BY DEF IndInv, QueueInv
<1>3. Strategy(b, f, fr)  OBVIOUS
<1> HIDE DEF f
<1>4. /\ DelayedInv' /\ CleanInv' /\ RetryInv'
      /\ \A k \in Sound : StoreOf(k)' = IF k # tag[b] THEN StoreOf(k) ELSE data[b]
  BY <1>1, <1>2, <1>3, StrategyContent
<1>5. ASSUME NEW k \in Sound, k = tag[b] PROVE StoreOf(k) = data[b]
  BY <1>5, StoreValue DEF StoreCells, Cell, Valid, InFlight, Sound, ContentInv, DelayedInv
<1>6. SameCells  BY <1>4, <1>5 DEF SameCells
<1>7. \A q \in Procs : SameTags(q) /\ KeepsOn(q)  BY DEF SameTags, KeepsOn
<1>8. TagInv'  BY <1>7, TagSame DEF ContentInv
<1>9. StoreStep  BY <1>6, <1>7, <1>8, Quiet DEF ContentInv
<1> QED  BY <1>4, <1>8, <1>9 DEF ContentInv

LEMMA GetBlkFlushStore ==
    ASSUME IndInv, IndInv', ContentInv, NEW p \in Procs, GetBlkFlush(p)
    PROVE  ContentInv' /\ StoreStep
<1> DEFINE b == Head(free)
<1>1. /\ free # <<>> /\ "DELWRI" \in flags[b]
      /\ Strategy(b, WriteFlags(b, {"BUSY", "ASYNC"}), Tail(free))
      /\ UNCHANGED <<tag, data, pc, op, blk, rablk, bp, abp>>
  BY DEF GetBlkFlush
<1>2. /\ b \in Bufs /\ "BUSY" \notin flags[b]
      /\ Tail(free) \in Seq(Bufs) /\ IsInjective(Tail(free))
      /\ b \notin ToSet(Tail(free))
  BY <1>1, HeadTailSet DEF IndInv, TypeOK, FreeListExact
<1> QED  BY <1>1, <1>2, DelayedWriteStore

LEMMA BflushOneStore ==
    ASSUME IndInv, IndInv', ContentInv, NEW p \in Procs, BflushOne(p)
    PROVE  ContentInv' /\ StoreStep
<1>1. PICK i \in DOMAIN free :
         /\ "DELWRI" \in flags[free[i]]
         /\ Strategy(free[i], WriteFlags(free[i], {"BUSY", "ASYNC"}), RemoveAt(free, i))
         /\ UNCHANGED <<tag, data, pc, op, blk, rablk, bp, abp>>
  BY DEF BflushOne, DelayedAt
<1>2. /\ free[i] \in Bufs /\ "BUSY" \notin flags[free[i]]
      /\ RemoveAt(free, i) \in Seq(Bufs) /\ IsInjective(RemoveAt(free, i))
      /\ free[i] \notin ToSet(RemoveAt(free, i))
 <2>1. free \in Seq(Bufs) /\ IsInjective(free) /\ free[i] \in ToSet(free)
   BY DEF IndInv, TypeOK, FreeListExact, ToSet
 <2> QED  BY <2>1, RemoveAtSet DEF IndInv, FreeListExact
<1> QED  BY <1>1, <1>2, DelayedWriteStore

LEMMA GottenStore ==
    ASSUME IndInv, IndInv', ContentInv, NEW p \in Procs, Gotten(p)
    PROVE  ContentInv' /\ StoreStep
<1>1. PICK b \in Bufs : b = bp[p]  BY DEF Gotten, IndInv, TypeOK, PcInv
<1> DEFINE valid == op[p] = "new" \/ "DONE" \in flags[b]
<1>2. /\ pc[p] = "got" /\ UNCHANGED <<tag, data, op, blk, rablk, bp, abp>>
      /\ pc' = [pc EXCEPT ![p] = IF op[p] = "reada" THEN "ra"
                                 ELSE IF valid THEN "have" ELSE "iowait"]
  BY <1>1 DEF Gotten, GoTo
<1>3. b \notin ToSet(ioq) /\ "BUSY" \in flags[b]  BY <1>1, <1>2 DEF IndInv, KeeperInv, Keeps
<1>4. /\ pc'[p] = "have" => valid
      /\ \A q \in Procs : q # p => pc'[q] = pc[q]
  BY <1>2 DEF IndInv, TypeOK
<1>5. TagInv'  BY <1>2, TagSame DEF ContentInv, SameTags
<1>6. DelayedInv' /\ CleanInv' /\ RetryInv' /\ SameCells
 <2>1. CASE valid
  <3>1. UNCHANGED <<flags, ioq, disk, inService, errcnt>>  BY <1>1, <2>1 DEF Gotten, devVars
  <3>2. \A c \in Bufs : Untouched(c)  BY <3>1, <1>2 DEF Untouched, SameFlags
  <3>3. DelayedInv' /\ CleanInv' /\ SameCells  BY <3>1, <3>2, ContentSame DEF ContentInv
  <3> QED  BY <3>1, <3>3 DEF ContentInv, RetryInv
 <2>2. CASE ~valid
  <3>1. Strategy(b, [flags EXCEPT ![b] = @ \cup {"READ"}], free)  BY <1>1, <2>2 DEF Gotten
  <3> QED  BY <1>2, <1>3, <2>2, <3>1, ReadStarts
 <2> QED  BY <2>1, <2>2
<1>7. StoreStep
 <2>1. CASE pc'[p] = "have"
  <3>1. op[p] = "new" \/ Valid(bp[p])  BY <1>1, <1>4, <2>1 DEF Valid
  <3> QED  BY <1>1, <1>2, <1>4, <1>5, <1>6, <2>1, <3>1, Takes DEF ContentInv
 <2>2. CASE pc'[p] # "have"
  <3>1. \A q \in Procs : KeepsOn(q)  BY <1>2, <1>4, <2>2 DEF KeepsOn
  <3> QED  BY <1>5, <1>6, <3>1, Quiet DEF ContentInv
 <2> QED  BY <2>1, <2>2
<1> QED  BY <1>5, <1>6, <1>7 DEF ContentInv

\* Brelse changes the flags that say who has the buffer, not what is in it
LEMMA BrelseUntouched ==
    ASSUME IndInv, NEW b \in Bufs, Brelse(b, flags, free), UNCHANGED <<tag, data, ioq>>
    PROVE  \A c \in Bufs : Untouched(c)
<1>1. flags' = [flags EXCEPT ![b] = flags[b] \ {"WANTED", "BUSY", "ASYNC"}]  BY DEF Brelse
<1> QED  BY <1>1 DEF IndInv, TypeOK, Untouched, SameFlags

LEMMA GottenAheadStore ==
    ASSUME IndInv, IndInv', ContentInv, NEW p \in Procs, GottenAhead(p)
    PROVE  ContentInv' /\ StoreStep
<1>1. PICK b \in Bufs : b = abp[p]  BY DEF GottenAhead, IndInv, TypeOK, PcInv
<1>2. /\ pc[p] = "gotra" /\ UNCHANGED <<tag, data, op, blk, rablk, bp>>
      /\ pc' = [pc EXCEPT ![p] = "iowait"] /\ abp' = [abp EXCEPT ![p] = NoBuf]
  BY <1>1 DEF GottenAhead, GoTo
<1>3. /\ TypeOK /\ "BUSY" \in flags[b] /\ bp[p] # b
  BY <1>1, <1>2 DEF IndInv, KeeperInv, Keeps, NoBuf, Bufs
<1>4. b \notin ToSet(ioq)  BY <1>1, <1>3 DEF IndInv, KeeperInv, Keeps
<1>5. \A q \in Procs : KeepsOn(q) /\ SameTags(q)  BY <1>2, <1>3 DEF TypeOK, KeepsOn, SameTags
<1>6. TagInv'  BY <1>2, <1>5, TagSame DEF ContentInv
<1>7. DelayedInv' /\ CleanInv' /\ RetryInv' /\ SameCells
 <2>1. CASE "DONE" \in flags[b]
  <3>1. Brelse(b, flags, free) /\ UNCHANGED <<ioq, disk, inService, errcnt>>
    BY <1>1, <2>1 DEF GottenAhead, devVars
  <3>2. \A c \in Bufs : Untouched(c)  BY <3>1, <1>2, BrelseUntouched
  <3>3. DelayedInv' /\ CleanInv' /\ SameCells  BY <3>1, <3>2, ContentSame DEF ContentInv
  <3> QED  BY <3>1, <3>3 DEF ContentInv, RetryInv
 <2>2. CASE "DONE" \notin flags[b]
  <3>1. Strategy(b, [flags EXCEPT ![b] = @ \cup {"READ", "ASYNC"}], free)
    BY <1>1, <2>2 DEF GottenAhead
  <3> QED  BY <1>2, <1>3, <1>4, <2>2, <3>1, ReadStarts
 <2> QED  BY <2>1, <2>2
<1>8. StoreStep  BY <1>5, <1>6, <1>7, Quiet DEF ContentInv
<1> QED  BY <1>6, <1>7, <1>8 DEF ContentInv

LEMMA IOWaitReadStore ==
    ASSUME IndInv, IndInv', ContentInv, NEW p \in Procs, IOWaitRead(p)
    PROVE  ContentInv' /\ StoreStep
<1>1. /\ pc[p] = "iowait"
      /\ UNCHANGED <<tag, flags, data, ioq, disk, inService, errcnt, op, blk, rablk, bp, abp>>
  BY DEF IOWaitRead, bufVars, devVars
<1>2. /\ bp[p] \in Bufs /\ TypeOK  BY <1>1 DEF IndInv, TypeOK, PcInv
<1>3. \A c \in Bufs : Untouched(c)  BY <1>1 DEF Untouched, SameFlags
<1>4. TagInv'  BY <1>1, TagSame DEF ContentInv, SameTags
<1>5. DelayedInv' /\ CleanInv' /\ SameCells  BY <1>1, <1>3, ContentSame DEF ContentInv
<1>6. RetryInv'  BY <1>1 DEF ContentInv, RetryInv
<1>7. StoreStep
 <2>1. CASE "DONE" \in flags[bp[p]]
  <3>1. pc' = [pc EXCEPT ![p] = "have"]  BY <2>1 DEF IOWaitRead, GoTo
  <3>2. pc'[p] = "have" /\ \A q \in Procs : q # p => pc'[q] = pc[q]  BY <3>1, <1>2 DEF TypeOK
  <3>3. Valid(bp[p])  BY <2>1 DEF Valid
  <3> QED  BY <1>1, <1>2, <1>4, <1>5, <3>2, <3>3, Takes DEF ContentInv
 <2>2. CASE "DONE" \notin flags[bp[p]]
  <3>1. pc' = pc  BY <2>2 DEF IOWaitRead
  <3>2. \A q \in Procs : KeepsOn(q)  BY <1>1, <3>1 DEF KeepsOn
  <3> QED  BY <1>4, <1>5, <3>2, Quiet DEF ContentInv
 <2> QED  BY <2>1, <2>2
<1> QED  BY <1>4, <1>5, <1>6, <1>7 DEF ContentInv

\* The call of p is over: p has nothing any more, and others what they had
LEMMA HandsBack ==
    ASSUME IndInv, NEW p \in Procs, NEW b \in Bufs, b = bp[p], pc[p] \in {"have", "wwait"},
           Return(p), abp' = abp, \A c \in Bufs : c # b => data'[c] = data[c]
    PROVE  /\ pc'[p] # "have"
           /\ \A q \in Procs : q # p => KeepsOn(q)
           /\ \A q \in Procs : SameTags(q)
<1>1. /\ pc' = [pc EXCEPT ![p] = "idle"] /\ op' = [op EXCEPT ![p] = "none"]
      /\ blk' = [blk EXCEPT ![p] = NoBlk] /\ rablk' = [rablk EXCEPT ![p] = NoBlk]
      /\ bp' = [bp EXCEPT ![p] = NoBuf]
  BY DEF Return
<1>2. TypeOK /\ PcInv  BY DEF IndInv
<1>3. abp[p] = NoBuf /\ \A q \in Procs : Keeps(q, b) <=> q = p  BY HasFacts
<1>4. ASSUME NEW q \in Procs, q # p PROVE KeepsOn(q)
 <2>1. pc[q] = "have" => bp[q] \in Bufs /\ bp[q] # b  BY <1>2, <1>3, <1>4 DEF TypeOK, PcInv, Keeps
 <2> QED  BY <1>1, <1>2, <1>4, <2>1 DEF TypeOK, KeepsOn
<1>5. \A q \in Procs : SameTags(q)  BY <1>1, <1>2, <1>3 DEF TypeOK, SameTags
<1>6. pc'[p] # "have"  BY <1>1, <1>2 DEF TypeOK
<1> QED  BY <1>4, <1>5, <1>6

LEMMA ReleaseStore ==
    ASSUME IndInv, IndInv', ContentInv, NEW p \in Procs, Release(p)
    PROVE  ContentInv' /\ StoreStep
<1>1. PICK b \in Bufs : b = bp[p]  BY DEF Release, Has, IndInv, TypeOK, PcInv
<1>2. /\ pc[p] = "have" /\ Brelse(b, flags, free) /\ Return(p)
      /\ UNCHANGED <<tag, data, abp, ioq, disk, inService, errcnt>>
  BY <1>1 DEF Release, Has, devVars
<1>3. /\ pc'[p] # "have"
      /\ \A q \in Procs : q # p => KeepsOn(q)
      /\ \A q \in Procs : SameTags(q)
  BY <1>1, <1>2, HandsBack
<1>4. TagInv'  BY <1>2, <1>3, TagSame DEF ContentInv
<1>5. DelayedInv' /\ CleanInv' /\ SameCells  BY <1>2, BrelseUntouched, ContentSame DEF ContentInv
<1>6. RetryInv'  BY <1>2 DEF ContentInv, RetryInv
<1>7. Blank \in Vals  BY BufferCacheAssumption
<1>8. StoreStep  BY <1>2, <1>3, <1>4, <1>5, <1>7, Drops DEF ContentInv
<1> QED  BY <1>4, <1>5, <1>6, <1>8 DEF ContentInv

LEMMA IOWaitWriteStore ==
    ASSUME IndInv, IndInv', ContentInv, NEW p \in Procs, IOWaitWrite(p)
    PROVE  ContentInv' /\ StoreStep
<1>1. PICK b \in Bufs : b = bp[p]  BY DEF IOWaitWrite, IndInv, TypeOK, PcInv
<1>2. /\ pc[p] = "wwait"
      /\ UNCHANGED <<tag, data, abp, ioq, disk, inService, errcnt>>
  BY DEF IOWaitWrite, devVars
<1>3. CASE "DONE" \in flags[b]
 <2>1. Brelse(b, flags, free) /\ Return(p)  BY <1>1, <1>3 DEF IOWaitWrite
 <2>2. /\ pc'[p] # "have"
       /\ \A q \in Procs : q # p => KeepsOn(q)
       /\ \A q \in Procs : SameTags(q)
   BY <1>1, <1>2, <2>1, HandsBack
 <2>3. \A q \in Procs : KeepsOn(q)  BY <1>2, <2>2 DEF KeepsOn
 <2> QED  BY <1>2, <2>1, <2>2, <2>3, BrelseUntouched, QuietStep
<1>4. CASE "DONE" \notin flags[b]
 <2>1. UNCHANGED <<flags, pc, op, blk, rablk, bp>>  BY <1>1, <1>4 DEF IOWaitWrite
 <2>2. \A q \in Procs : KeepsOn(q) /\ SameTags(q)  BY <1>2, <2>1 DEF KeepsOn, SameTags
 <2>3. \A c \in Bufs : Untouched(c)  BY <1>2, <2>1 DEF Untouched, SameFlags
 <2> QED  BY <1>2, <2>2, <2>3, QuietStep
<1> QED  BY <1>3, <1>4

\* A process writes the block it has, now or as soon as the disk can
LEMMA WriteStore ==
    ASSUME IndInv, IndInv', ContentInv, NEW p \in Procs, NEW b \in Bufs, b = bp[p],
           pc[p] = "have", NEW v \in Vals, data' = [data EXCEPT ![b] = v],
           NEW x, x \in {{}, {"ASYNC"}}, Strategy(b, WriteFlags(b, x), free), tag' = tag,
           pc'[p] # "have", \A q \in Procs : q # p => KeepsOn(q),
           \A q \in Procs : SameTags(q)
    PROVE  ContentInv' /\ StoreStep
<1> DEFINE f == WriteFlags(b, x)
<1>1. /\ f \in [Bufs -> SUBSET Flags] /\ \A c \in Bufs : c # b => f[c] = flags[c]
      /\ f[b] \cap {"DONE", "DELWRI", "READ"} = {}
  BY DEF IndInv, TypeOK, Flags, WriteFlags
<1>2. b \notin ToSet(ioq) /\ "BUSY" \in flags[b]  BY HasFacts
<1>3. free \in Seq(Bufs) /\ IsInjective(free) /\ b \notin ToSet(free)
  BY <1>2 DEF IndInv, TypeOK, FreeListExact
<1>4. data'[b] = v /\ \A c \in Bufs : c # b => data'[c] = data[c]  BY DEF IndInv, TypeOK
<1>5. Strategy(b, f, free)  OBVIOUS
<1> HIDE DEF f
<1>6. /\ DelayedInv' /\ CleanInv' /\ RetryInv'
      /\ \A k \in Sound : StoreOf(k)' = IF k # tag[b] THEN StoreOf(k) ELSE data'[b]
  BY <1>1, <1>2, <1>3, <1>4, <1>5, StrategyContent
<1>7. TagInv'  BY TagSame DEF ContentInv
<1>8. tag[b] = blk[p]  BY DEF ContentInv, TagInv, NoBuf, Bufs
<1>9. \A k \in Sound : StoreOf(k)' = IF k = blk[p] THEN v ELSE StoreOf(k)  BY <1>4, <1>6, <1>8
<1>10. StoreStep  BY <1>7, <1>9, Drops DEF ContentInv
<1> QED  BY <1>6, <1>7, <1>10 DEF ContentInv

LEMMA BwriteStore ==
    ASSUME IndInv, IndInv', ContentInv, NEW p \in Procs, Bwrite(p)
    PROVE  ContentInv' /\ StoreStep
<1>1. PICK b \in Bufs : b = bp[p]  BY DEF Bwrite, Changed, Has, IndInv, TypeOK, PcInv
<1>2. PICK v \in Vals : /\ data' = [data EXCEPT ![b] = v] /\ pc[p] = "have"
                        /\ Strategy(b, WriteFlags(b, {}), free)
  BY <1>1 DEF Bwrite, Changed, Has
<1>3. /\ UNCHANGED <<tag, op, blk, rablk, bp, abp>>
      /\ pc' = [pc EXCEPT ![p] = "wwait"]
  BY DEF Bwrite, GoTo
<1>4. TypeOK /\ PcInv  BY DEF IndInv
<1>5. pc'[p] # "have" /\ \A q \in Procs : q # p => pc'[q] = pc[q]  BY <1>3, <1>4 DEF TypeOK
<1>6. \A q \in Procs : Keeps(q, b) <=> q = p  BY <1>1, <1>2, HasFacts
<1>7. ASSUME NEW q \in Procs, q # p PROVE KeepsOn(q)
 <2>1. pc[q] = "have" => bp[q] \in Bufs /\ bp[q] # b  BY <1>4, <1>6, <1>7 DEF TypeOK, PcInv, Keeps
 <2>2. pc[q] = "have" => data'[bp[q]] = data[bp[q]]  BY <1>2, <1>4, <2>1 DEF TypeOK
 <2> QED  BY <1>3, <1>5, <1>7, <2>2 DEF KeepsOn
<1>8. \A q \in Procs : SameTags(q)  BY <1>3 DEF SameTags
<1> QED  BY <1>1, <1>2, <1>3, <1>5, <1>7, <1>8, WriteStore

LEMMA BawriteStore ==
    ASSUME IndInv, IndInv', ContentInv, NEW p \in Procs, Bawrite(p)
    PROVE  ContentInv' /\ StoreStep
<1>1. PICK b \in Bufs : b = bp[p]  BY DEF Bawrite, Changed, Has, IndInv, TypeOK, PcInv
<1>2. PICK v \in Vals : /\ data' = [data EXCEPT ![b] = v] /\ pc[p] = "have"
                        /\ Strategy(b, WriteFlags(b, {"ASYNC"}), free) /\ Return(p)
  BY <1>1 DEF Bawrite, Changed, Has
<1>3. UNCHANGED <<tag, abp>>  BY DEF Bawrite
<1>4. \A c \in Bufs : c # b => data'[c] = data[c]  BY <1>2 DEF IndInv, TypeOK
<1>5. /\ pc'[p] # "have"
      /\ \A q \in Procs : q # p => KeepsOn(q)
      /\ \A q \in Procs : SameTags(q)
  BY <1>1, <1>2, <1>3, <1>4, HandsBack
<1> QED  BY <1>1, <1>2, <1>3, <1>5, WriteStore

\* A delayed write: the buffer is valid, and the disk will hear of it later
LEMMA BdwriteStore ==
    ASSUME IndInv, IndInv', ContentInv, NEW p \in Procs, Bdwrite(p)
    PROVE  ContentInv' /\ StoreStep
<1>1. PICK b \in Bufs : b = bp[p]  BY DEF Bdwrite, Changed, Has, IndInv, TypeOK, PcInv
<1>2. PICK v \in Vals :
         /\ data' = [data EXCEPT ![b] = v] /\ pc[p] = "have" /\ Return(p)
         /\ Brelse(b, [flags EXCEPT ![b] = @ \cup {"DELWRI", "DONE"}], free)
  BY <1>1 DEF Bdwrite, Changed, Has
<1>3. UNCHANGED <<tag, abp, ioq, disk, inService, errcnt>>  BY DEF Bdwrite, devVars
<1>4. data'[b] = v /\ \A c \in Bufs : c # b => data'[c] = data[c]  BY <1>2 DEF IndInv, TypeOK
<1>5. /\ pc'[p] # "have"
      /\ \A q \in Procs : q # p => KeepsOn(q)
      /\ \A q \in Procs : SameTags(q)
  BY <1>1, <1>2, <1>3, <1>4, HandsBack
<1>6. {"DELWRI", "DONE"} \subseteq flags'[b] /\ \A c \in Bufs : c # b => flags'[c] = flags[c]
  BY <1>2 DEF Brelse, IndInv, TypeOK
<1>7. \A c \in Bufs : c # b => Untouched(c)  BY <1>3, <1>4, <1>6 DEF Untouched, SameFlags
<1>8. /\ DelayedInv' /\ CleanInv'
      /\ \A k \in Sound : StoreOf(k)' = IF k = tag[b] THEN Cell(b)' ELSE StoreOf(k)
  BY <1>3, <1>6, <1>7, ContentStep DEF ContentInv
<1>9. Cell(b)' = v  BY <1>4, <1>6 DEF Cell, Valid
<1>10. tag[b] = blk[p]  BY <1>1 DEF ContentInv, TagInv, NoBuf, Bufs
<1>11. TagInv'  BY <1>3, <1>5, TagSame DEF ContentInv
<1>12. RetryInv'  BY <1>3 DEF ContentInv, RetryInv
<1>13. StoreStep  BY <1>2, <1>5, <1>8, <1>9, <1>10, <1>11, Drops DEF ContentInv
<1> QED  BY <1>8, <1>11, <1>12, <1>13 DEF ContentInv

\* The end of a transfer makes the buffer and the sector agree: nobody sees it
LEMMA DiskOkStore ==
    ASSUME IndInv, IndInv', ContentInv, DiskOk
    PROVE  ContentInv' /\ StoreStep
<1>1. active  BY DEF DiskOk, Interrupt
<1>2. PICK b \in Bufs : b = Head(ioq) /\ tag[b] \in Blks  BY <1>1, HeadOfQueue
<1>3. /\ IODone(b, flags, free) /\ ioq' = Tail(ioq) /\ errcnt' = 0
      /\ UNCHANGED <<tag, inService, pc, op, blk, rablk, bp, abp>>
      /\ IF "READ" \in flags[b]
         THEN data' = [data EXCEPT ![b] = disk[tag[b]]] /\ disk' = disk
         ELSE disk' = [disk EXCEPT ![tag[b]] = data[b]] /\ data' = data
  BY <1>2 DEF DiskOk
<1>4. /\ TypeOK /\ ioq \in Seq(Bufs) /\ IsInjective(ioq) /\ ioq # <<>>
  BY <1>1 DEF IndInv, TypeOK, QueueInv
<1>5. b \in ToSet(ioq) /\ ToSet(ioq') = ToSet(ioq) \ {b}  BY <1>2, <1>3, <1>4, HeadTailSet
<1>6. "BUSY" \in flags[b] /\ "DONE" \notin flags[b] /\ "DELWRI" \notin flags[b]
      /\ tag[b] \in Sound
  BY <1>5 DEF IndInv, QueueInv, ContentInv, DelayedInv
<1>7. b \notin ToSet(free) /\ free \in Seq(Bufs) /\ IsInjective(free)
  BY <1>6 DEF IndInv, FreeListExact, TypeOK
<1>8. /\ \A c \in Bufs : c # b => flags'[c] = flags[c]
      /\ "DONE" \in flags'[b] /\ "DELWRI" \notin flags'[b]
 <2>1. flags \in [Bufs -> SUBSET Flags]  BY <1>4 DEF TypeOK
 <2>2. /\ \A c \in Bufs : c # b => flags'[c] = flags[c]
       /\ IF "ASYNC" \in flags[b]
          THEN flags'[b] = (flags[b] \cup {"DONE"}) \ {"WANTED", "BUSY", "ASYNC"}
          ELSE flags'[b] = (flags[b] \cup {"DONE"}) \ {"WANTED"}
   BY <1>3, <1>4, <1>7, <2>1, IODoneEffect
 <2> QED  BY <1>6, <2>2
<1>9. /\ \A c \in Bufs : c # b => data'[c] = data[c]
      /\ \A k \in Blks : k # tag[b] => disk'[k] = disk[k]
      /\ data'[b] = disk'[tag[b]]
      /\ data'[b] = IF "READ" \in flags[b] THEN disk[tag[b]] ELSE data[b]
  BY <1>2, <1>3, <1>4 DEF TypeOK
<1>10. \A c \in Bufs : c # b => Untouched(c)  BY <1>3, <1>5, <1>8, <1>9 DEF Untouched, SameFlags
<1>11. /\ DelayedInv' /\ CleanInv'
       /\ \A k \in Sound : StoreOf(k)' = IF k = tag[b] THEN Cell(b)' ELSE StoreOf(k)
  BY <1>3, <1>8, <1>9, <1>10, ContentStep DEF ContentInv
<1>12. Cell(b)' = data'[b] /\ Cell(b) = data'[b]
  BY <1>5, <1>6, <1>8, <1>9 DEF Cell, Valid, InFlight
<1>13. SameCells
 <2>1. StoreOf(tag[b]) = Cell(b)  BY <1>2, StoreValue DEF StoreCells
 <2> QED  BY <1>11, <1>12, <2>1 DEF SameCells
<1>14. \A q \in Procs : SameTags(q)  BY <1>3 DEF SameTags
<1>15. TagInv'  BY <1>3, <1>14, TagSame DEF ContentInv
<1>16. ASSUME NEW q \in Procs PROVE KeepsOn(q)
 <2>1. pc[q] = "have" => bp[q] \in Bufs  BY <1>4 DEF IndInv, TypeOK, PcInv
 <2>2. Keeps(q, b) => pc[q] # "have"  BY <1>5 DEF IndInv, KeeperInv
 <2> QED  BY <1>3, <1>9, <2>1, <2>2 DEF KeepsOn, Keeps
<1>17. RetryInv'  BY <1>3 DEF RetryInv
<1>18. StoreStep  BY <1>13, <1>15, <1>16, Quiet DEF ContentInv
<1> QED  BY <1>11, <1>15, <1>17, <1>18 DEF ContentInv

\* A failed transfer is started again, and no interrupt comes after it
LEMMA DiskFaultStore ==
    ASSUME IndInv, IndInv', ContentInv, DiskFault
    PROVE  ContentInv' /\ StoreStep
<1>1. errcnt < RetryMax  BY BufferCacheAssumption DEF DiskFault, Interrupt, ContentInv, RetryInv
<1>2. /\ inService' = TRUE
      /\ UNCHANGED <<tag, flags, data, ioq, disk, pc, op, blk, rablk, bp, abp>>
  BY <1>1 DEF DiskFault
<1>3. \A c \in Bufs : Untouched(c)  BY <1>2 DEF Untouched, SameFlags
<1>4. DelayedInv' /\ CleanInv' /\ SameCells  BY <1>2, <1>3, ContentSame DEF ContentInv
<1>5. \A q \in Procs : SameTags(q) /\ KeepsOn(q)  BY <1>2 DEF SameTags, KeepsOn
<1>6. TagInv'  BY <1>2, <1>5, TagSame DEF ContentInv
<1>7. RetryInv'  BY <1>2 DEF RetryInv
<1>8. StoreStep  BY <1>4, <1>5, <1>6, Quiet DEF ContentInv
<1> QED  BY <1>4, <1>6, <1>7, <1>8 DEF ContentInv

LEMMA StutterStore ==
    ASSUME IndInv, IndInv', ContentInv, UNCHANGED vars
    PROVE  ContentInv' /\ StoreStep
<1>1. UNCHANGED <<tag, flags, data, ioq, errcnt, inService, disk, pc, op, blk, rablk, bp, abp>>
  BY DEF vars, bufVars, devVars, procVars
<1>2. \A c \in Bufs : Untouched(c)  BY <1>1 DEF Untouched, SameFlags
<1>3. \A q \in Procs : SameTags(q) /\ KeepsOn(q)  BY <1>1 DEF SameTags, KeepsOn
<1> QED  BY <1>1, <1>2, <1>3, QuietStep

-----------------------------------------------------------------------------
(* The refinement.                                                         *)

LEMMA StoreNext ==
    ASSUME IndInv, IndInv', ContentInv, [Next]_vars
    PROVE  ContentInv' /\ StoreStep
<1>1. ASSUME NEW p \in Procs, Step(p) PROVE ContentInv' /\ StoreStep
  BY <1>1, CallsStore, GetBlkHitStore, WaitsStore, GetBlkFlushStore, GetBlkClaimStore,
     GottenStore, GottenAheadStore, IOWaitReadStore, ReleaseStore, BwriteStore,
     IOWaitWriteStore, BawriteStore, BdwriteStore, BflushOneStore, BflushEndStore
     DEF Step
<1>2. CASE DiskOk  BY <1>2, DiskOkStore
<1>3. CASE DiskFault  BY <1>3, DiskFaultStore
<1>4. CASE Finished \/ Hung \/ Stuck \/ UNCHANGED vars
  BY <1>4, StutterStore DEF Finished, Hung, Stuck
<1> QED  BY <1>1, <1>2, <1>3, <1>4 DEF Next

LEMMA StoreInit ==
    ASSUME Init
    PROVE  ContentInv /\ Store!Init
<1>1. \A b \in Bufs : tag[b] = NoBlk /\ flags[b] = {}  BY DEF Init
<1>2. ContentInv  BY <1>1 DEF Init, ContentInv, TagInv, DelayedInv, CleanInv, RetryInv
<1>3. \A k \in Sound : k \in Blks /\ k # NoBlk  BY BufferCacheAssumption DEF Sound
<1>4. \A k \in Sound : StoreOf(k) = Blank  BY <1>1, <1>3 DEF Init, StoreOf
<1>5. \A k \in Sound : HolderOf(k) = NoProc  BY DEF Init, HolderOf
<1>6. \A p \in Procs : SeenBy(p) = NoVal  BY DEF Init, SeenBy
<1> QED  BY <1>2, <1>4, <1>5, <1>6 DEF Store!Init

\* The buffer cache implements BlockStore: for any number of processes, buffers and
\* blocks, whoever reads a block that the disk has finds the last write to it, whether
\* Bwrite, Bawrite or Bdwrite made it and wherever it is by then, and has it alone.
\* A transfer that fails stops all later ones: no read follows one that was given up.
THEOREM CacheImplementsStore == Spec => ImplementsBlockStore
<1>1. Init => Store!Init /\ ContentInv  BY StoreInit
<1>2. IndInv /\ IndInv' /\ ContentInv /\ [Next]_vars => ContentInv' /\ StoreStep  BY StoreNext
<1>3. StoreStep => [Store!Next]_Store!svars  BY DEF StoreStep, Store!svars, cells, hands, found
<1> QED  BY <1>1, <1>2, <1>3, Invariance, PTL DEF Spec, ImplementsBlockStore, Store!Spec
==============================================================================
