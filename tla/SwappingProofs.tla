--------------------------- MODULE SwappingProofs ---------------------------
(***************************************************************************)
(* The swapper owns its memory: theorems about Swapping.                   *)
(*                                                                         *)
(* Memory and the swap area are seen as divided among owners (the slots,   *)
(* the texts, the image Sched brings in) and the free nodes: Held.  Every  *)
(* grant, release and transfer is one of a few exchanges, each shown once  *)
(* to keep the division (ShrinkImage ... TakeOver); every action is a      *)
(* sequence of such exchanges.  Consistent, the inductive invariant, adds  *)
(* the counters, what a slot can be, which texts are right and who is in   *)
(* Swap; the theorems at the end are read off it.                          *)
(***************************************************************************)
EXTENDS SwappingInvariant, SequenceTheorems, FiniteSetTheorems, WellFoundedInduction, TLAPS

-----------------------------------------------------------------------------
(* Numbers, sequences                                                      *)

\* The order of the naturals, as a set of pairs
Less == {ss \in Nat \X Nat : ss[1] < ss[2]}

\* A set of naturals that is not empty has a least element.
LEMMA MinInside ==
  ASSUME NEW S, S \subseteq Nat, S # {}
  PROVE  Min(S) \in S /\ \A k \in S : Min(S) <= k
<1>1. IsWellFoundedOn(Less, Nat)  BY NatLessThanWellFounded, Zenon DEF OpToRel, Less
<1>2. PICK m \in S : \A k \in S : <<k, m>> \notin Less  BY <1>1, WFMin, Zenon
<1>3. \A k \in S : ~(k < m)  BY <1>2, Zenon DEF Less
<1>4. \A k \in S : m <= k  BY <1>3
<1> QED  BY <1>4, Zenon DEF Min

\* What the list operations of the maps return.
LEMMA Removed ==
  ASSUME NEW s \in Seq(Node), NEW i \in 1..Len(s), NEW r, r = RemoveAt(s, i)
  PROVE  /\ r \in Seq(Node) /\ Len(r) = Len(s) - 1
         /\ \A j \in 1..Len(r) : r[j] = IF j < i THEN s[j] ELSE s[j + 1]
<1>1. PICK h \in Nat, k \in Nat : h = i - 1 /\ k = i + 1  OBVIOUS
<1>2. r = SubSeq(s, 1, h) \o SubSeq(s, k, Len(s))  BY <1>1 DEF RemoveAt
<1>3. /\ SubSeq(s, 1, h) \in Seq(Node) /\ Len(SubSeq(s, 1, h)) = h
      /\ \A j \in 1..h : SubSeq(s, 1, h)[j] = s[j]
  BY <1>1
<1>4. /\ SubSeq(s, k, Len(s)) \in Seq(Node) /\ Len(SubSeq(s, k, Len(s))) = Len(s) - i
      /\ \A j \in 1..(Len(s) - i) : SubSeq(s, k, Len(s))[j] = s[i + j]
  BY <1>1
<1>5. /\ r \in Seq(Node) /\ Len(r) = Len(s) - 1
      /\ \A j \in 1..h : r[j] = s[j]
      /\ \A j \in 1..(Len(s) - i) : r[h + j] = s[i + j]
 <2>1. PICK u \in Seq(Node), v \in Seq(Node) : u = SubSeq(s, 1, h) /\ v = SubSeq(s, k, Len(s))
   BY <1>3, <1>4, Zenon
 <2>2. /\ Len(u) = h /\ \A j \in 1..h : u[j] = s[j]
       /\ Len(v) = Len(s) - i /\ \A j \in 1..(Len(s) - i) : v[j] = s[i + j]
   BY <1>3, <1>4, <2>1, Zenon
 <2>3. r = u \o v  BY <1>2, <2>1
 <2>4. r \in Seq(Node) /\ Len(r) = Len(u) + Len(v)  BY <2>3
 <2>5. \A j \in 1..h : r[j] = u[j]  BY <2>2, <2>3
 <2>6. \A j \in 1..Len(v) : r[h + j] = v[j]  BY <2>2, <2>3
 <2> QED  BY <1>1, <2>2, <2>4, <2>5, <2>6
<1>6. ASSUME NEW j \in 1..Len(r) PROVE r[j] = IF j < i THEN s[j] ELSE s[j + 1]
 <2>1. CASE j < i
  <3>1. j \in 1..h  BY <1>1, <1>5, <2>1
  <3> QED  BY <1>5, <2>1, <3>1
 <2>2. CASE ~(j < i)
  <3>1. PICK d \in 1..(Len(s) - i) : d = j - h  BY <1>1, <1>5, <2>2
  <3>2. h + d = j /\ i + d = j + 1  BY <1>1, <1>5, <3>1
  <3> QED  BY <1>5, <2>2, <3>1, <3>2, Zenon
 <2> QED  BY <2>1, <2>2
<1> QED  BY <1>5, <1>6

\* Two sequences one after the other
LEMMA Joined ==
  ASSUME NEW t \in Seq(Node), NEW v \in Seq(Node), NEW r, r = t \o v
  PROVE  /\ r \in Seq(Node) /\ Len(r) = Len(t) + Len(v)
         /\ \A j \in 1..Len(t) : r[j] = t[j]
         /\ \A j \in 1..Len(v) : r[Len(t) + j] = v[j]
  OBVIOUS

LEMMA Inserted ==
  ASSUME NEW s \in Seq(Node), NEW i \in 1..(Len(s) + 1), NEW e \in Node,
         NEW r, r = InsertAt(s, i, e)
  PROVE  /\ r \in Seq(Node) /\ Len(r) = Len(s) + 1
         /\ \A j \in 1..Len(r) : r[j] = IF j < i THEN s[j] ELSE IF j = i THEN e ELSE s[j - 1]
<1>1. PICK h \in Nat : h = i - 1  OBVIOUS
<1>2. r = SubSeq(s, 1, h) \o <<e>> \o SubSeq(s, i, Len(s))  BY <1>1 DEF InsertAt
<1>3. /\ SubSeq(s, 1, h) \in Seq(Node) /\ Len(SubSeq(s, 1, h)) = h
      /\ \A j \in 1..h : SubSeq(s, 1, h)[j] = s[j]
  BY <1>1
<1>4. /\ SubSeq(s, i, Len(s)) \in Seq(Node) /\ Len(SubSeq(s, i, Len(s))) = Len(s) - i + 1
      /\ \A j \in 1..(Len(s) - i + 1) : SubSeq(s, i, Len(s))[j] = s[i + j - 1]
  BY <1>1
<1>5. PICK t : t = SubSeq(s, 1, h) \o <<e>>  BY Zenon
<1>6. t \in Seq(Node) /\ Len(t) = i /\ (\A j \in 1..h : t[j] = s[j]) /\ t[i] = e
  BY <1>1, <1>3, <1>5
<1>7. PICK v \in Seq(Node) : v = SubSeq(s, i, Len(s))  BY <1>4, Zenon
<1>8. Len(v) = Len(s) - i + 1 /\ \A j \in 1..(Len(s) - i + 1) : v[j] = s[i + j - 1]
  BY <1>4, <1>7, Zenon
<1>9. r = t \o v  BY <1>2, <1>5, <1>7, Zenon
<1>10. /\ r \in Seq(Node) /\ Len(r) = Len(t) + Len(v)
       /\ \A j \in 1..Len(t) : r[j] = t[j]
       /\ \A j \in 1..Len(v) : r[Len(t) + j] = v[j]
 <2>1. t \in Seq(Node)  BY <1>6, Zenon
 <2> QED  BY ONLY <2>1, <1>9, v \in Seq(Node), Joined
<1>13. Len(s) \in Nat /\ Len(r) = Len(s) + 1  BY <1>6, <1>8, <1>10
<1>14. ASSUME NEW j \in 1..Len(r) PROVE r[j] = IF j < i THEN s[j] ELSE IF j = i THEN e ELSE s[j - 1]
 <2>1. CASE j < i
  <3>1. j \in 1..h /\ j \in 1..Len(t)  BY <1>1, <1>6, <2>1
  <3> QED  BY <1>6, <1>10, <2>1, <3>1, Zenon
 <2>2. CASE j = i
  <3>1. i \in 1..Len(t) /\ ~(j < i)  BY <1>6, <2>2
  <3> QED  BY <1>6, <1>10, <2>2, <3>1, Zenon
 <2>3. CASE ~(j < i) /\ j # i
  <3>1. PICK d \in 1..(Len(s) - i + 1) : d = j - i  BY <1>13, <2>3
  <3>2. Len(t) + d = j /\ i + d - 1 = j - 1 /\ d \in 1..Len(v)  BY <1>6, <1>8, <1>13, <3>1
  <3> QED  BY <1>8, <1>10, <2>3, <3>1, <3>2, Zenon
 <2> QED  BY <2>1, <2>2, <2>3, Zenon
<1> QED  BY <1>10, <1>13, <1>14

LEMMA Changed ==
  ASSUME NEW s \in Seq(Node), NEW i \in 1..Len(s), NEW e \in Node,
         NEW r, r = [s EXCEPT ![i] = e]
  PROVE  /\ r \in Seq(Node) /\ Len(r) = Len(s)
         /\ \A j \in 1..Len(r) : r[j] = IF j = i THEN e ELSE s[j]
  OBVIOUS

-----------------------------------------------------------------------------
(* The allocator                                                           *)

\* A cell is free when a node covers it.
LEMMA CellIn ==
  ASSUME NEW map \in Seq(Node), NEW x
  PROVE  x \in CellsOf(map) <=>
           x \in Int /\ \E i \in 1..Len(map) : map[i].a <= x /\ x < map[i].a + map[i].n
<1>1. DOMAIN map = 1..Len(map) /\ \A i \in 1..Len(map) : map[i] \in Node  OBVIOUS
<1>2. \A i \in 1..Len(map) : map[i].a \in Nat /\ map[i].n \in Nat  BY <1>1 DEF Node
<1>3. \A i \in 1..Len(map) : x \in Block(map[i].a, map[i].n) <=>
        x \in Int /\ map[i].a <= x /\ x < map[i].a + map[i].n
  BY <1>2 DEF Block
<1> QED  BY <1>1, <1>3 DEF CellsOf

\* What every node has.
LEMMA NodeAt ==
  ASSUME NEW map \in Seq(Node)
  PROVE  /\ DOMAIN map = 1..Len(map) /\ Len(map) \in Nat
         /\ \A j \in 1..Len(map) : /\ map[j] \in Node
                                   /\ map[j].a \in Nat \ {0} /\ map[j].n \in Nat \ {0}
                                   /\ map[j].a >= 1 /\ map[j].n >= 1
<1>1. DOMAIN map = 1..Len(map) /\ Len(map) \in Nat /\ \A j \in 1..Len(map) : map[j] \in Node
  OBVIOUS
<1> QED  BY <1>1 DEF Node

\* No two nodes have a cell in common.
LEMMA OneNode ==
  ASSUME NEW map \in Seq(Node), Ordered(map), NEW i \in 1..Len(map), NEW j \in 1..Len(map),
         NEW x \in Int, map[i].a <= x, x < map[i].a + map[i].n,
         map[j].a <= x, x < map[j].a + map[j].n
  PROVE  i = j
<1>1. map[i] \in Node /\ map[j] \in Node /\ DOMAIN map = 1..Len(map)  OBVIOUS
<1>2. map[i].a \in Nat /\ map[i].n \in Nat /\ map[j].a \in Nat /\ map[j].n \in Nat  BY <1>1 DEF Node
<1>3. i < j => map[i].a + map[i].n < map[j].a  BY <1>1 DEF Ordered
<1>4. j < i => map[j].a + map[j].n < map[i].a  BY <1>1 DEF Ordered
<1> QED  BY <1>2, <1>3, <1>4

\* Alloc finds nothing, or takes n free cells that lie together.
LEMMA AllocRight ==
  ASSUME NEW hi \in Nat, NEW map, MapOk(map, hi), NEW n \in Nat \ {0}
  PROVE  \/ Alloc(map, n) = [at |-> 0, map |-> map]
         \/ /\ Alloc(map, n).at \in Nat \ {0}
            /\ MapOk(Alloc(map, n).map, hi)
            /\ Block(Alloc(map, n).at, n) \subseteq CellsOf(map)
            /\ CellsOf(Alloc(map, n).map) = CellsOf(map) \ Block(Alloc(map, n).at, n)
<1> DEFINE fit == {i \in DOMAIN map : map[i].n >= n}
<1>0. map \in Seq(Node) /\ Ordered(map) /\ CellsOf(map) \subseteq 1..hi  BY DEF MapOk
<1>n. DOMAIN map = 1..Len(map) /\ \A j \in 1..Len(map) : /\ map[j] \in Node
                                                         /\ map[j].a \in Nat \ {0}
                                                         /\ map[j].n \in Nat \ {0}
  BY <1>0, NodeAt
<1>1. CASE fit = {}  BY <1>1 DEF Alloc
<1>2. CASE fit # {}
 <2>1. fit \subseteq Nat  BY <1>n
 <2>2. PICK i : i = Min(fit)  BY Zenon
 <2>3. i \in 1..Len(map) /\ map[i].n >= n  BY <1>2, <2>1, <2>2, MinInside, <1>n, Zenon
 <2>4. PICK at \in Nat \ {0}, have \in Nat \ {0} : at = map[i].a /\ have = map[i].n  BY <2>3, <1>n
 <2>5. PICK m : m = IF have = n THEN RemoveAt(map, i)
                    ELSE [map EXCEPT ![i] = [a |-> at + n, n |-> have - n]]
   BY Zenon
 <2>6. Alloc(map, n) = [at |-> at, map |-> m]
  <3>1. Alloc(map, n) = [at |-> map[i].a,
          map |-> IF map[i].n = n THEN RemoveAt(map, i)
                  ELSE [map EXCEPT ![i] = [a |-> @.a + n, n |-> @.n - n]]]
    BY <1>2, <2>2 DEF Alloc
  <3>2. [map EXCEPT ![i] = [a |-> @.a + n, n |-> @.n - n]]
          = [map EXCEPT ![i] = [a |-> map[i].a + n, n |-> map[i].n - n]]
    BY <2>3, <1>n
  <3> QED  BY <2>4, <2>5, <3>1, <3>2, Zenon
 <2>7. Block(at, n) \subseteq CellsOf(map)
  <3>1. \A x \in Block(at, n) : x \in Int /\ map[i].a <= x /\ x < map[i].a + map[i].n
    BY <2>3, <2>4 DEF Block
  <3> QED  BY <3>1, <2>3, <1>0, CellIn
 <2>8. /\ m \in Seq(Node) /\ Ordered(m)
       /\ CellsOf(m) = CellsOf(map) \ Block(at, n)
  <3>1. CASE have = n
   <4>1. m = RemoveAt(map, i)  BY <2>5, <3>1
   <4>2. /\ m \in Seq(Node) /\ Len(m) = Len(map) - 1
         /\ \A j \in 1..Len(m) : m[j] = IF j < i THEN map[j] ELSE map[j + 1]
    <5>1. map \in Seq(Node) /\ i \in 1..Len(map)  BY <1>0, <2>3
    <5> QED  BY <4>1, <5>1, Removed
   <4>3. \A j \in 1..Len(m) : \E k \in 1..Len(map) : /\ k # i /\ m[j] = map[k]
                                                    /\ k = IF j < i THEN j ELSE j + 1
     BY <4>2, <2>3
   <4>4. \A k \in 1..Len(map) : k # i => \E j \in 1..Len(m) : m[j] = map[k]
    <5> SUFFICES ASSUME NEW k \in 1..Len(map), k # i PROVE \E j \in 1..Len(m) : m[j] = map[k]
      OBVIOUS
    <5>1. CASE k < i  BY <5>1, <4>2, <2>3
    <5>2. CASE k > i
     <6>1. k - 1 \in 1..Len(m) /\ ~(k - 1 < i) /\ (k - 1) + 1 = k  BY <5>2, <4>2, <2>3
     <6> QED  BY <6>1, <4>2
    <5> QED  BY <5>1, <5>2, <2>3
   <4>5. Ordered(m)
    <5> SUFFICES ASSUME NEW j \in DOMAIN m, NEW l \in DOMAIN m, j < l PROVE m[j].a + m[j].n < m[l].a
      BY DEF Ordered
    <5>1. j \in 1..Len(m) /\ l \in 1..Len(m)  BY <4>2
    <5>2. PICK k \in 1..Len(map) : m[j] = map[k] /\ k = IF j < i THEN j ELSE j + 1
      BY <4>3, <5>1, Zenon
    <5>3. PICK h \in 1..Len(map) : m[l] = map[h] /\ h = IF l < i THEN l ELSE l + 1
      BY <4>3, <5>1, Zenon
    <5>4. k < h  BY <5>1, <5>2, <5>3, <2>3
    <5> QED  BY <5>2, <5>3, <5>4, <1>0, <1>n DEF Ordered
   <4>6. ASSUME NEW x PROVE x \in CellsOf(m) <=> x \in CellsOf(map) /\ x \notin Block(at, n)
    <5>1. x \in CellsOf(m) <=>
            x \in Int /\ \E j \in 1..Len(m) : m[j].a <= x /\ x < m[j].a + m[j].n
      BY <4>2, CellIn
    <5>2. x \in CellsOf(map) <=>
            x \in Int /\ \E j \in 1..Len(map) : map[j].a <= x /\ x < map[j].a + map[j].n
      BY <1>0, CellIn
    <5>3. x \in Block(at, n) <=> x \in Int /\ map[i].a <= x /\ x < map[i].a + map[i].n
      BY <2>4, <3>1 DEF Block
    <5>4. ASSUME x \in CellsOf(m) PROVE x \in CellsOf(map) /\ x \notin Block(at, n)
     <6>1. PICK j \in 1..Len(m) : x \in Int /\ m[j].a <= x /\ x < m[j].a + m[j].n  BY <5>1, <5>4
     <6>2. PICK k \in 1..Len(map) : k # i /\ m[j] = map[k]  BY <4>3
     <6>3. x \notin Block(at, n)  BY <5>3, <6>1, <6>2, <1>0, <2>3, OneNode
     <6> QED  BY <5>2, <6>1, <6>2, <6>3
    <5>5. ASSUME x \in CellsOf(map), x \notin Block(at, n) PROVE x \in CellsOf(m)
     <6>1. PICK k \in 1..Len(map) : x \in Int /\ map[k].a <= x /\ x < map[k].a + map[k].n
       BY <5>2, <5>5
     <6>2. k # i  BY <5>3, <5>5, <6>1
     <6>3. PICK j \in 1..Len(m) : m[j] = map[k]  BY <4>4, <6>2
     <6> QED  BY <5>1, <6>1, <6>3
    <5> QED  BY <5>4, <5>5
   <4>7. CellsOf(m) = CellsOf(map) \ Block(at, n)  BY <4>6
   <4> QED  BY <4>2, <4>5, <4>7
  <3>2. CASE have # n
   <4>0. PICK e \in Node : e = [a |-> at + n, n |-> have - n]
    <5>1. at + n \in Nat \ {0} /\ have - n \in Nat \ {0}  BY <2>3, <2>4, <3>2, SMTT(40)
    <5>2. [a |-> at + n, n |-> have - n] \in Node  BY <5>1 DEF Node
    <5> QED  BY <5>2, Zenon
   <4>1. m = [map EXCEPT ![i] = e]  BY <2>5, <3>2, <4>0
   <4>2. /\ m \in Seq(Node) /\ Len(m) = Len(map)
         /\ \A j \in 1..Len(m) : m[j] = IF j = i THEN e ELSE map[j]
    <5>1. map \in Seq(Node) /\ i \in 1..Len(map)  BY <1>0, <2>3
    <5> QED  BY <4>1, <5>1, Changed
   <4>3. e.a = map[i].a + n /\ e.n = map[i].n - n  BY <4>0, <2>4
   <4>5. Ordered(m)
    <5> SUFFICES ASSUME NEW j \in 1..Len(map), NEW l \in 1..Len(map), j < l
                 PROVE  m[j].a + m[j].n < m[l].a
      BY <4>2 DEF Ordered
    <5>1. map[j].a + map[j].n < map[l].a  BY <1>0, <1>n, Zenon DEF Ordered
    <5>2. m[j].a + m[j].n = map[j].a + map[j].n  BY <4>2, <4>3, <1>n, <2>3, SMTT(40)
    <5>3. m[l].a >= map[l].a  BY <4>2, <4>3, <1>n, <2>3
    <5>4. m[l].a \in Nat  BY <4>2, <4>0, <1>n, Zenon DEF Node
    <5> QED  BY <5>1, <5>2, <5>3, <5>4, <1>n
   <4>6. ASSUME NEW x PROVE x \in CellsOf(m) <=> x \in CellsOf(map) /\ x \notin Block(at, n)
    <5>1. x \in CellsOf(m) <=>
            x \in Int /\ \E j \in 1..Len(m) : m[j].a <= x /\ x < m[j].a + m[j].n
      BY <4>2, CellIn
    <5>2. x \in CellsOf(map) <=>
            x \in Int /\ \E j \in 1..Len(map) : map[j].a <= x /\ x < map[j].a + map[j].n
      BY <1>0, CellIn
    <5>3. x \in Block(at, n) <=> x \in Int /\ map[i].a <= x /\ x < map[i].a + n  BY <2>4 DEF Block
    <5>4. ASSUME x \in CellsOf(m) PROVE x \in CellsOf(map) /\ x \notin Block(at, n)
     <6>1. PICK j \in 1..Len(m) : x \in Int /\ m[j].a <= x /\ x < m[j].a + m[j].n  BY <5>1, <5>4
     <6>2. map[j].a <= x /\ x < map[j].a + map[j].n
      <7>1. map[i].a \in Nat /\ map[i].n \in Nat  BY <1>n, <2>3
      <7>2. CASE j = i
       <8>1. m[j] = e  BY <4>2, <7>2
       <8>2. map[i].a + n <= x /\ x < map[i].a + n + (map[i].n - n)  BY <4>3, <6>1, <8>1
       <8> QED  BY <6>1, <7>1, <7>2, <8>2, SMTT(40)
      <7>3. CASE j # i  BY <4>2, <6>1, <7>3
      <7> QED  BY <7>2, <7>3
     <6>3. x \notin Block(at, n)
      <7>1. CASE j = i  BY <7>1, <5>3, <6>1, <4>2, <4>3, <1>n
      <7>2. CASE j # i
       <8>1. map[i].a + n <= map[i].a + map[i].n  BY <2>3, <1>n
       <8>2. x \in Block(at, n) => map[i].a <= x /\ x < map[i].a + map[i].n
         BY <8>1, <5>3, <1>n, <2>3
       <8> QED  BY <7>2, <8>2, <6>1, <6>2, <1>0, <2>3, <4>2, OneNode
      <7> QED  BY <7>1, <7>2
     <6> QED  BY <5>2, <6>1, <6>2, <6>3, <4>2
    <5>5. ASSUME x \in CellsOf(map), x \notin Block(at, n) PROVE x \in CellsOf(m)
     <6>1. PICK k \in 1..Len(map) : x \in Int /\ map[k].a <= x /\ x < map[k].a + map[k].n
       BY <5>2, <5>5
     <6>2. m[k].a <= x /\ x < m[k].a + m[k].n
      <7>1. CASE k = i
       <8>1. ~(x < map[i].a + n)  BY <7>1, <5>3, <5>5, <6>1
       <8>2. m[k].a = map[i].a + n /\ m[k].n = map[i].n - n  BY <7>1, <4>2, <4>3
       <8> QED  BY <7>1, <8>1, <8>2, <6>1, <1>n, <2>3
      <7>2. CASE k # i  BY <7>2, <6>1, <4>2
      <7> QED  BY <7>1, <7>2
     <6> QED  BY <5>1, <6>1, <6>2, <4>2
    <5> QED  BY <5>4, <5>5
   <4>7. CellsOf(m) = CellsOf(map) \ Block(at, n)  BY <4>6
   <4> QED  BY <4>2, <4>5, <4>7
  <3> QED  BY <3>1, <3>2
 <2>9. MapOk(m, hi)  BY <2>8, <1>0 DEF MapOk
 <2> QED  BY <2>6, <2>7, <2>8, <2>9
<1> QED  BY <1>1, <1>2

\* The nodes up to an address are the first ones.
LEMMA Before ==
  ASSUME NEW map \in Seq(Node), Ordered(map), NEW a \in Nat,
         NEW k, k = Cardinality({j \in DOMAIN map : map[j].a <= a})
  PROVE  k \in 0..Len(map) /\ \A j \in 1..Len(map) : j <= k <=> map[j].a <= a
<1> DEFINE S == {j \in DOMAIN map : map[j].a <= a}
           D == {j \in 1..(Len(map) + 1) : j \notin S}
<1>n. DOMAIN map = 1..Len(map) /\ Len(map) \in Nat
      /\ \A j \in 1..Len(map) : map[j].a \in Nat /\ map[j].n \in Nat
  BY NodeAt
<1>1. Len(map) + 1 \in D /\ D \subseteq Nat  BY <1>n
<1>2. PICK m \in D : \A j \in D : m <= j  BY <1>1, MinInside, Zenon
<1>3. PICK c \in 0..Len(map) : c = m - 1  BY <1>1, <1>2, <1>n
<1>4. \A j \in 1..c : j \in S  BY <1>2, <1>3, <1>n
<1>5. \A j \in S : j <= c
 <2> SUFFICES ASSUME NEW j \in S, j > c PROVE FALSE  BY <1>n
 <2>1. m \in 1..Len(map) /\ m < j /\ j \in 1..Len(map)  BY <1>2, <1>3, <1>n
 <2>2. map[m].a + map[m].n < map[j].a  BY <2>1, <1>n, Zenon DEF Ordered
 <2>3. map[m].a <= a  BY <2>1, <2>2, <1>n
 <2> QED  BY <1>2, <2>1, <2>3, <1>n
<1>6. S = 1..c  BY <1>4, <1>5, <1>n
<1>7. k = c
 <2>1. Cardinality(1..c) = c  BY FS_Interval
 <2> QED  BY <2>1, <1>6, Zenon
<1> HIDE DEF S
<1>8. \A j \in 1..Len(map) : j \in S <=> map[j].a <= a  BY <1>n DEF S
<1>9. \A j \in 1..Len(map) : j \in 1..c <=> j <= c  BY <1>n
<1> QED  BY <1>6, <1>7, <1>8, <1>9, Zenon

\* Free puts n cells back among the free ones.
LEMMA FreeRight ==
  ASSUME NEW hi \in Nat, NEW map, MapOk(map, hi), NEW a \in Nat \ {0}, NEW n \in Nat \ {0},
         Block(a, n) \subseteq 1..hi, Block(a, n) \cap CellsOf(map) = {}
  PROVE  /\ MapOk(Free(map, n, a), hi)
         /\ CellsOf(Free(map, n, a)) = CellsOf(map) \cup Block(a, n)
<1>0. map \in Seq(Node) /\ Ordered(map) /\ CellsOf(map) \subseteq 1..hi  BY DEF MapOk
<1>l. PICK L \in Nat : L = Len(map)  BY <1>0
<1>d. DOMAIN map = 1..L /\ \A j \in 1..L : map[j] \in Node  BY <1>0, <1>l
<1>n. \A j \in 1..L : map[j].a \in Nat /\ map[j].n \in Nat /\ map[j].a >= 1 /\ map[j].n >= 1
  BY <1>0, <1>l, NodeAt
<1>o. \A j, l \in 1..L : j < l => map[j].a + map[j].n < map[l].a  BY <1>0, <1>d DEF Ordered
<1>c. \A x \in Int : x \in CellsOf(map) <=>
        \E j \in 1..L : map[j].a <= x /\ x < map[j].a + map[j].n
  BY <1>0, <1>l, CellIn
<1>a. a \in Nat /\ n \in Nat /\ a >= 1 /\ n >= 1  OBVIOUS
<1>1. PICK k : k = Cardinality({j \in DOMAIN map : map[j].a <= a})  BY Zenon
<1>2. k \in 0..L /\ \A j \in 1..L : j <= k <=> map[j].a <= a  BY <1>0, <1>l, <1>1, Before, Zenon
<1>3. PICK i \in 1..(L + 1) : i = 1 + k  BY <1>2, <1>n, <1>a
<1>b. \A x : x \in Block(a, n) <=> x \in Int /\ a <= x /\ x < a + n  BY DEF Block
<1>4. ASSUME NEW j \in 1..L, j < i PROVE map[j].a + map[j].n <= a
 <2>1. map[j].a <= a  BY <1>2, <1>3, <1>4
 <2>2. a \notin CellsOf(map)  BY <1>b
 <2> QED  BY <2>1, <2>2, <1>c, <1>n, <1>a
<1>5. ASSUME NEW j \in 1..L, j >= i PROVE a + n <= map[j].a
 <2>1. ~(map[j].a <= a)  BY <1>2, <1>3, <1>5
 <2>2. map[j].a \in CellsOf(map)  BY <1>c, <1>n, <1>a
 <2>3. map[j].a \notin Block(a, n)  BY <2>2
 <2> QED  BY <2>1, <2>3, <1>b, <1>n, <1>a
<1> DEFINE left == i > 1 /\ map[i - 1].a + map[i - 1].n = a
           right == i <= L /\ a + n = map[i].a
<1>6. Free(map, n, a) =
        CASE left /\ right -> RemoveAt([map EXCEPT ![i - 1].n = @ + n + map[i].n], i)
          [] left /\ ~right -> [map EXCEPT ![i - 1].n = @ + n]
          [] ~left /\ right -> [map EXCEPT ![i] = [a |-> a, n |-> @.n + n]]
          [] ~left /\ ~right /\ n > 0 -> InsertAt(map, i, [a |-> a, n |-> n])
          [] OTHER -> map
  BY <1>l, <1>1, <1>3 DEF Free
<1>7. ~left => \A j \in 1..L : j < i => map[j].a + map[j].n < a
 <2> SUFFICES ASSUME ~left, NEW j \in 1..L, j < i PROVE map[j].a + map[j].n < a  OBVIOUS
 <2>1. i - 1 \in 1..L /\ i > 1  BY <1>n, <1>a
 <2>2. map[i - 1].a + map[i - 1].n < a  BY <2>1, <1>4, <1>n, <1>a
 <2>3. CASE j = i - 1  BY <2>2, <2>3
 <2>4. CASE j < i - 1  BY <2>1, <2>2, <2>4, <1>o, <1>n, <1>a
 <2> QED  BY <2>3, <2>4
<1>8. ~right => \A j \in 1..L : j >= i => a + n < map[j].a
 <2> SUFFICES ASSUME ~right, NEW j \in 1..L, j >= i PROVE a + n < map[j].a  OBVIOUS
 <2>1. i \in 1..L  BY <1>n, <1>a
 <2>2. a + n < map[i].a  BY <2>1, <1>5, <1>n, <1>a
 <2>3. CASE j = i  BY <2>2, <2>3
 <2>4. CASE j > i  BY <2>1, <2>2, <2>4, <1>o, <1>n, <1>a
 <2> QED  BY <2>3, <2>4
<1> HIDE DEF left, right
<1>9. ASSUME NEW m \in Seq(Node), Ordered(m), Free(map, n, a) = m, NEW M, M = Len(m),
             \A x \in Int : (\E j \in 1..M : m[j].a <= x /\ x < m[j].a + m[j].n)
                <=> \/ a <= x /\ x < a + n
                    \/ \E j \in 1..L : map[j].a <= x /\ x < map[j].a + map[j].n
      PROVE  /\ MapOk(Free(map, n, a), hi)
             /\ CellsOf(Free(map, n, a)) = CellsOf(map) \cup Block(a, n)
 <2>1. ASSUME NEW x PROVE x \in CellsOf(m) <=> x \in CellsOf(map) \cup Block(a, n)
  <3>1. x \in CellsOf(m) <=>
          x \in Int /\ \E j \in 1..M : m[j].a <= x /\ x < m[j].a + m[j].n
    BY <1>9, CellIn
  <3>2. x \in CellsOf(map) <=>
          x \in Int /\ \E j \in 1..L : map[j].a <= x /\ x < map[j].a + map[j].n
    BY <1>0, <1>l, CellIn
  <3> QED  BY <3>1, <3>2, <1>9, <1>b, Zenon
 <2>2. CellsOf(m) = CellsOf(map) \cup Block(a, n)  BY <2>1
 <2>3. CellsOf(m) \subseteq 1..hi  BY <2>2, <1>0
 <2> QED  BY <2>2, <2>3, <1>9 DEF MapOk
<1> DEFINE In(s, l, x) == \E j \in 1..l : s[j].a <= x /\ x < s[j].a + s[j].n
<1>10. CASE left /\ ~right
 <2>1. PICK h \in 1..L : h = i - 1 /\ i > 1  BY <1>10, <1>n, <1>a DEF left
 <2>2. PICK e \in Node : e.a = map[h].a /\ e.n = map[h].n + n
  <3>1. map[h].n + n \in Nat \ {0}  BY <1>n, <1>a
  <3>2. [a |-> map[h].a, n |-> map[h].n + n] \in Node  BY <1>n, <1>a, <3>1 DEF Node
  <3> QED  BY <3>2
 <2>3. PICK m : m = [map EXCEPT ![h] = e]  BY Zenon
 <2>4. Free(map, n, a) = m
  <3>1. Free(map, n, a) = [map EXCEPT ![h].n = @ + n]  BY <1>6, <1>10, <2>1
  <3>2. [map[h] EXCEPT !.n = @ + n] = e
   <4>1. map[h] \in Node  BY <1>d
   <4> QED  BY <2>2, <4>1 DEF Node
  <3> QED  BY <3>1, <3>2, <2>3, Zenon
 <2>5. m \in Seq(Node) /\ L = Len(m)  BY <2>3, <1>0, <1>l, Changed
 <2>p. m[h] = e /\ \A j \in 1..L : j # h => m[j] = map[j]  BY <2>3, <1>0, <1>l, Changed
 <2>6. map[h].a + map[h].n = a  BY <1>10, <2>1 DEF left
 <2>7. Ordered(m)
  <3> SUFFICES ASSUME NEW j \in 1..L, NEW l \in 1..L, j < l PROVE m[j].a + m[j].n < m[l].a
    BY <2>5 DEF Ordered
  <3>1. map[j].a + map[j].n < map[l].a  BY <1>o, <1>n, <1>a
  <3>2. m[l].a = map[l].a  BY <2>2, <2>p
  <3>3. CASE j = h  BY <3>3, <3>2, <2>1, <2>2, <2>p, <2>6, <1>8, <1>10, <1>n, <1>a
  <3>4. CASE j # h  BY <3>1, <3>2, <3>4, <2>p
  <3> QED  BY <3>3, <3>4
 <2>8. ASSUME NEW x \in Int PROVE In(m, L, x) <=> (a <= x /\ x < a + n) \/ In(map, L, x)
  <3>1. (m[h].a <= x /\ x < m[h].a + m[h].n) <=>
          (a <= x /\ x < a + n) \/ (map[h].a <= x /\ x < map[h].a + map[h].n)
    BY <2>2, <2>p, <2>6, <1>n, <1>a
  <3>2. \A j \in 1..L : j # h => m[j] = map[j]  BY <2>p
  <3> QED  BY <3>1, <3>2, <2>p
 <2> QED  BY <1>9, <2>4, <2>5, <2>7, <2>8, Zenon
<1>11. CASE ~left /\ right
 <2>1. i \in 1..L /\ a + n = map[i].a  BY <1>11 DEF right
 <2>2. PICK e \in Node : e = [a |-> a, n |-> map[i].n + n]
  <3>1. map[i].n + n \in Nat \ {0}  BY <1>n, <1>a, <2>1
  <3>2. [a |-> a, n |-> map[i].n + n] \in Node  BY <1>n, <1>a, <3>1 DEF Node
  <3> QED  BY <3>2
 <2>a. e.a = a /\ e.n = map[i].n + n  BY <2>2
 <2>3. PICK m : m = [map EXCEPT ![i] = e]  BY Zenon
 <2>4. Free(map, n, a) = m
  <3>1. Free(map, n, a) = [map EXCEPT ![i] = [a |-> a, n |-> @.n + n]]  BY <1>6, <1>11
  <3> QED  BY <3>1, <2>1, <2>2, <2>3, <1>n, <1>a
 <2>5. m \in Seq(Node) /\ L = Len(m)  BY <2>1, <2>3, <1>0, <1>l, Changed
 <2>p. m[i] = e /\ \A j \in 1..L : j # i => m[j] = map[j]  BY <2>1, <2>3, <1>0, <1>l, Changed
 <2>7. Ordered(m)
  <3> SUFFICES ASSUME NEW j \in 1..L, NEW l \in 1..L, j < l PROVE m[j].a + m[j].n < m[l].a
    BY <2>5 DEF Ordered
  <3>1. map[j].a + map[j].n < map[l].a  BY <1>o, <1>n, <1>a
  <3>2. m[j].a + m[j].n = map[j].a + map[j].n  BY <2>1, <2>a, <2>p, <1>n, <1>a
  <3>3. CASE l = i  BY <3>2, <3>3, <2>a, <2>p, <1>7, <1>11
  <3>4. CASE l # i  BY <3>1, <3>2, <3>4, <2>p
  <3> QED  BY <3>3, <3>4
 <2>8. ASSUME NEW x \in Int PROVE In(m, L, x) <=> (a <= x /\ x < a + n) \/ In(map, L, x)
  <3>1. (m[i].a <= x /\ x < m[i].a + m[i].n) <=>
          (a <= x /\ x < a + n) \/ (map[i].a <= x /\ x < map[i].a + map[i].n)
    BY <2>1, <2>a, <2>p, <1>n, <1>a
  <3>2. \A j \in 1..L : j # i => m[j] = map[j]  BY <2>p
  <3> QED  BY <3>1, <3>2, <2>1, <2>p
 <2> QED  BY <1>9, <2>4, <2>5, <2>7, <2>8, Zenon
<1>12. CASE ~left /\ ~right
 <2>2. PICK e \in Node : e = [a |-> a, n |-> n]  BY Zenon DEF Node
 <2>a. e.a = a /\ e.n = n  BY <2>2
 <2>3. PICK m : m = InsertAt(map, i, e)  OBVIOUS
 <2>4. Free(map, n, a) = m  BY <1>6, <1>12, <2>2, <2>3
 <2>q. /\ m \in Seq(Node) /\ Len(m) = L + 1
       /\ \A j \in 1..Len(m) : m[j] = IF j < i THEN map[j] ELSE IF j = i THEN e ELSE map[j - 1]
  <3>1. map \in Seq(Node) /\ i \in 1..(Len(map) + 1)  BY <1>0, <1>l
  <3>2. /\ m \in Seq(Node) /\ Len(m) = Len(map) + 1
        /\ \A j \in 1..Len(m) : m[j] = IF j < i THEN map[j] ELSE IF j = i THEN e ELSE map[j - 1]
    BY <3>1, <2>3, Inserted, SMTT(60)
  <3> QED  BY <3>2, <1>l
 <2>5. PICK M \in Nat : M = Len(m) /\ M = L + 1  BY <2>q
 <2>p. \A j \in 1..M : m[j] = IF j < i THEN map[j] ELSE IF j = i THEN e ELSE map[j - 1]
   BY <2>q, <2>5
 <2>6. \A j \in 1..M : j = i \/ \E h \in 1..L : /\ m[j] = map[h]
                                                           /\ h = IF j < i THEN j ELSE j - 1
   BY <2>5, <2>p, <1>n, <1>a
 <2>7. Ordered(m)
  <3> SUFFICES ASSUME NEW j \in 1..M, NEW l \in 1..M, j < l PROVE m[j].a + m[j].n < m[l].a
    BY <2>q, <2>5 DEF Ordered
  <3>1. CASE j = i
   <4>1. PICK h \in 1..L : m[l] = map[h] /\ h = l - 1  BY <3>1, <2>6
   <4>2. a + n < map[h].a  BY <4>1, <3>1, <1>8, <1>12
   <4> QED  BY <3>1, <4>1, <4>2, <2>5, <2>p, <2>a
  <3>2. CASE l = i
   <4>1. PICK h \in 1..L : m[j] = map[h] /\ h = j  BY <3>2, <2>6
   <4>2. map[h].a + map[h].n < a  BY <4>1, <3>2, <1>7, <1>12
   <4> QED  BY <3>2, <4>1, <4>2, <2>5, <2>p, <2>a
  <3>3. CASE j # i /\ l # i
   <4>1. PICK h \in 1..L : m[j] = map[h] /\ h = IF j < i THEN j ELSE j - 1  BY <3>3, <2>6
   <4>2. PICK g \in 1..L : m[l] = map[g] /\ g = IF l < i THEN l ELSE l - 1  BY <3>3, <2>6
   <4>3. h < g  BY <3>3, <4>1, <4>2
   <4> QED  BY <4>1, <4>2, <4>3, <1>o, <1>n, <1>a
  <3> QED  BY <3>1, <3>2, <3>3
 <2>8. ASSUME NEW x \in Int PROVE In(m, M, x) <=> (a <= x /\ x < a + n) \/ In(map, L, x)
  <3>1. i \in 1..M /\ m[i] = e  BY <2>5, <2>p, <1>n, <1>a
  <3>2. ASSUME NEW h \in 1..L PROVE \E j \in 1..M : m[j] = map[h]
   <4>1. CASE h < i  BY <4>1, <2>5, <2>p
   <4>2. CASE h >= i
    <5>1. h + 1 \in 1..M /\ ~(h + 1 < i) /\ h + 1 # i /\ (h + 1) - 1 = h  BY <4>2, <2>5
    <5> QED  BY <5>1, <2>5, <2>p
   <4> QED  BY <4>1, <4>2
  <3> QED  BY <3>1, <3>2, <2>6, <2>a
 <2> QED  BY <1>9, <2>4, <2>5, <2>q, <2>7, <2>8, Zenon
<1>13. CASE left /\ right
 <2>1. PICK h \in 1..L : h = i - 1 /\ i > 1  BY <1>13, <1>n, <1>a DEF left
 <2>b. i \in 1..L /\ a + n = map[i].a /\ map[h].a + map[h].n = a  BY <1>13, <2>1 DEF left, right
 <2>2. PICK e \in Node : e.a = map[h].a /\ e.n = map[h].n + n + map[i].n
  <3>1. map[h].n + n + map[i].n \in Nat \ {0}  BY <1>n, <1>a, <2>b
  <3>2. [a |-> map[h].a, n |-> map[h].n + n + map[i].n] \in Node  BY <1>n, <1>a, <3>1 DEF Node
  <3> QED  BY <3>2
 <2>3. PICK u : u = [map EXCEPT ![h] = e]  BY Zenon
 <2>4. Free(map, n, a) = RemoveAt(u, i)
  <3>1. Free(map, n, a) = RemoveAt([map EXCEPT ![h].n = @ + n + map[i].n], i)  BY <1>6, <1>13, <2>1
  <3>2. [map[h] EXCEPT !.n = @ + n + map[i].n] = e
   <4>1. map[h] \in Node  BY <1>d
   <4> QED  BY <2>2, <4>1 DEF Node
  <3>3. [map EXCEPT ![h].n = @ + n + map[i].n] = u  BY <3>2, <2>3, Zenon
  <3> QED  BY <3>1, <3>3, Zenon
 <2>5. /\ u \in Seq(Node) /\ Len(u) = L
       /\ \A j \in 1..Len(u) : u[j] = IF j = h THEN e ELSE map[j]
   BY <2>3, <1>0, <1>l, Changed
 <2>6. PICK m : m = RemoveAt(u, i)  OBVIOUS
 <2>c. /\ m \in Seq(Node) /\ Len(m) = Len(u) - 1
       /\ \A j \in 1..Len(m) : m[j] = IF j < i THEN u[j] ELSE u[j + 1]
  <3>1. i \in 1..Len(u)  BY <2>5, <2>b
  <3>2. u \in Seq(Node)  BY <2>5
  <3> QED  BY <3>1, <3>2, <2>6, Removed
 <2>M. PICK M \in Nat : M = Len(m) /\ M = L - 1  BY <2>5, <2>c, <2>b
 <2>v. \A j \in 1..L : u[j] = IF j = h THEN e ELSE map[j]  BY <2>5
 <2>w. \A j \in 1..M : m[j] = IF j < i THEN u[j] ELSE u[j + 1]  BY <2>c, <2>M
 <2>d. /\ h \in 1..M /\ m[h] = e
       /\ \A j \in 1..M : j < h => m[j] = map[j]
       /\ \A j \in 1..M : j > h => j + 1 \in 1..L /\ m[j] = map[j + 1]
  <3>1. h \in 1..M /\ m[h] = e  BY <2>1, <2>b, <2>M, <2>v, <2>w
  <3>2. \A j \in 1..M : j < h => m[j] = map[j]  BY <2>1, <2>b, <2>M, <2>v, <2>w
  <3>3. ASSUME NEW j \in 1..M, j > h PROVE j + 1 \in 1..L /\ m[j] = map[j + 1]
   <4>1. j + 1 \in 1..L /\ ~(j < i) /\ j + 1 # h  BY <3>3, <2>1, <2>M, <2>v, <2>w
   <4> QED  BY <4>1, <2>M, <2>v, <2>w
  <3> QED  BY <3>1, <3>2, <3>3
 <2>7. Ordered(m)
  <3> SUFFICES ASSUME NEW j \in 1..M, NEW l \in 1..M, j < l PROVE m[j].a + m[j].n < m[l].a
   <4>1. DOMAIN m = 1..M  BY <2>c, <2>M
   <4> QED  BY <4>1 DEF Ordered
  <3>1. CASE l < h  BY <3>1, <2>d, <2>M, <2>v, <2>w, <1>o, <1>n, <1>a
  <3>2. CASE l = h
   <4>1. map[j].a + map[j].n < map[h].a  BY <3>2, <2>M, <2>v, <2>w, <1>o, <1>n, <1>a
   <4> QED  BY <3>2, <4>1, <2>d, <2>2
  <3>3. CASE l > h /\ j = h
   <4>1. l + 1 \in 1..L /\ i < l + 1 /\ m[l] = map[l + 1]  BY <3>3, <2>1, <2>d
   <4>2. map[i].a + map[i].n < map[l + 1].a  BY <4>1, <2>b, <1>o, <1>n, <1>a
   <4>3. e.a + e.n = map[i].a + map[i].n  BY <2>2, <2>b, <1>n, <1>a
   <4> QED  BY <3>3, <4>1, <4>2, <4>3, <2>d
  <3>4. CASE l > h /\ j < h
   <4>1. l + 1 \in 1..L /\ j < l + 1 /\ m[l] = map[l + 1] /\ m[j] = map[j] /\ j \in 1..L
     BY <3>4, <2>1, <2>d, <2>M, <2>v, <2>w
   <4> QED  BY <4>1, <1>o, <1>n, <1>a
  <3>5. CASE l > h /\ j > h
   <4>1. /\ l + 1 \in 1..L /\ m[l] = map[l + 1]
         /\ j + 1 \in 1..L /\ m[j] = map[j + 1] /\ j + 1 < l + 1
     BY <3>5, <2>d
   <4> QED  BY <4>1, <1>o, <1>n, <1>a
  <3> QED  BY <3>1, <3>2, <3>3, <3>4, <3>5
 <2>8. ASSUME NEW x \in Int PROVE In(m, M, x) <=> (a <= x /\ x < a + n) \/ In(map, L, x)
  <3>1. (m[h].a <= x /\ x < m[h].a + m[h].n) <=>
          \/ a <= x /\ x < a + n
          \/ map[h].a <= x /\ x < map[h].a + map[h].n
          \/ map[i].a <= x /\ x < map[i].a + map[i].n
    BY <2>2, <2>b, <2>d, <1>n, <1>a
  <3>2. ASSUME NEW g \in 1..L, g # h, g # i PROVE \E j \in 1..M : m[j] = map[g]
   <4>1. CASE g < h  BY <4>1, <2>d
   <4>2. CASE g > i
    <5>1. g - 1 \in 1..M /\ g - 1 > h /\ (g - 1) + 1 = g  BY <4>2, <2>1, <2>M, <2>v, <2>w
    <5> QED  BY <5>1, <2>d
   <4> QED  BY <4>1, <4>2, <3>2, <2>1
  <3>3. \A j \in 1..M : j # h => \E g \in 1..L : m[j] = map[g]  BY <2>d, <2>M, <2>v, <2>w
  <3>4. In(m, M, x) => (a <= x /\ x < a + n) \/ In(map, L, x)  BY <3>1, <3>3, <2>b
  <3>5. In(map, L, x) => In(m, M, x)  BY <3>1, <3>2, <2>d
  <3>6. a <= x /\ x < a + n => In(m, M, x)  BY <3>1, <2>d
  <3> QED  BY <3>4, <3>5, <3>6
 <2> QED  BY <1>9, <2>4, <2>6, <2>c, <2>M, <2>7, <2>8, Zenon
<1> QED  BY <1>10, <1>11, <1>12, <1>13

-----------------------------------------------------------------------------
(* Who has the cells                                                       *)

SameBut(O, O2, w) == \A v \in Users : v # w => O2[v] = O[v]

\* Held depends on the owners alone.
LEMMA HeldSame ==
  ASSUME NEW map, NEW hi, NEW O, NEW O2, Held(map, hi, O), \A w \in Users : O2[w] = O[w]
  PROVE  Held(map, hi, O2)
  BY DEF Held, Disjoint

\* A grant moves cells from the free nodes to an owner.
LEMMA HeldAlloc ==
  ASSUME NEW hi \in Nat, NEW map, NEW O, Held(map, hi, O), NEW n \in Nat \ {0},
         Alloc(map, n).at # 0
  PROVE  /\ Alloc(map, n).at \in Nat \ {0}
         /\ Alloc(map, n).at + n - 1 <= hi
         /\ \A w \in Users : O[w] \cap Block(Alloc(map, n).at, n) = {}
         /\ \A w \in Users : \A O2 :
              SameBut(O, O2, w) /\ O2[w] = O[w] \cup Block(Alloc(map, n).at, n)
                => Held(Alloc(map, n).map, hi, O2)
<1>1. PICK at, m : at = Alloc(map, n).at /\ m = Alloc(map, n).map  OBVIOUS
<1>2. MapOk(map, hi)  BY DEF Held
<1>3. /\ at \in Nat \ {0} /\ MapOk(m, hi)
      /\ Block(at, n) \subseteq CellsOf(map)
      /\ CellsOf(m) = CellsOf(map) \ Block(at, n)
  BY <1>1, <1>2, AllocRight
<1>4. CellsOf(map) \subseteq 1..hi  BY <1>2 DEF MapOk
<1>5. at + n - 1 \in Block(at, n)  BY <1>3 DEF Block
<1>6. at + n - 1 <= hi  BY <1>3, <1>4, <1>5
<1>7. \A w \in Users : O[w] \cap Block(at, n) = {}  BY <1>3 DEF Held
<1>8. ASSUME NEW w \in Users, NEW O2, SameBut(O, O2, w), O2[w] = O[w] \cup Block(at, n)
      PROVE  Held(m, hi, O2)
 <2>1. \A v \in Users : O2[v] \subseteq 1..hi /\ O2[v] \cap CellsOf(m) = {}
   BY <1>3, <1>4, <1>8 DEF Held, SameBut
 <2>2. Disjoint(O2)  BY <1>7, <1>8 DEF Held, SameBut, Disjoint
 <2>3. \A x \in 1..hi : x \in CellsOf(m) \/ \E v \in Users : x \in O2[v]
   BY <1>3, <1>8 DEF Held, SameBut
 <2> QED  BY <1>3, <2>1, <2>2, <2>3 DEF Held
<1> QED  BY <1>1, <1>3, <1>6, <1>7, <1>8

\* What an owner gives back goes to the free nodes.
LEMMA HeldFree ==
  ASSUME NEW hi \in Nat, NEW map, NEW O, Held(map, hi, O),
         NEW n \in Nat \ {0}, NEW a \in Nat \ {0}, NEW w \in Users, Block(a, n) \subseteq O[w],
         NEW O2, SameBut(O, O2, w), O2[w] = O[w] \ Block(a, n)
  PROVE  Held(Free(map, n, a), hi, O2)
<1>1. PICK m : m = Free(map, n, a)  OBVIOUS
<1>2. MapOk(map, hi) /\ Block(a, n) \subseteq 1..hi /\ Block(a, n) \cap CellsOf(map) = {}
  BY DEF Held
<1>3. MapOk(m, hi) /\ CellsOf(m) = CellsOf(map) \cup Block(a, n)  BY <1>1, <1>2, FreeRight
<1>4. \A v \in Users : v # w => O[v] \cap Block(a, n) = {}  BY DEF Held, Disjoint
<1>5. \A v \in Users : O2[v] \subseteq 1..hi /\ O2[v] \cap CellsOf(m) = {}
 <2> SUFFICES ASSUME NEW v \in Users PROVE O2[v] \subseteq 1..hi /\ O2[v] \cap CellsOf(m) = {}
   OBVIOUS
 <2>1. O[v] \subseteq 1..hi /\ O[v] \cap CellsOf(map) = {}  BY DEF Held
 <2>2. CASE v = w  BY <2>1, <2>2, <1>3
 <2>3. CASE v # w  BY <2>1, <2>3, <1>3, <1>4 DEF SameBut
 <2> QED  BY <2>2, <2>3
<1>6. Disjoint(O2)  BY DEF Held, SameBut, Disjoint
<1>7. \A x \in 1..hi : x \in CellsOf(m) \/ \E v \in Users : x \in O2[v]  BY <1>3 DEF Held, SameBut
<1> QED  BY <1>1, <1>3, <1>5, <1>6, <1>7 DEF Held

\* What one user has goes to another.
Passes(O, O2, w, u, B) ==
    /\ w \in Users /\ u \in Users /\ w # u /\ B \subseteq O[w]
    /\ O2[w] = O[w] \ B /\ O2[u] = O[u] \cup B
    /\ \A v \in Users : v # w /\ v # u => O2[v] = O[v]

\* One owner hands cells to another.
LEMMA HeldMove ==
  ASSUME NEW hi, NEW map, NEW O, Held(map, hi, O),
         NEW O2, NEW w, NEW u, NEW B, Passes(O, O2, w, u, B)
  PROVE  Held(map, hi, O2)
<1>0. /\ w \in Users /\ u \in Users /\ w # u /\ B \subseteq O[w]
      /\ O2[w] = O[w] \ B /\ O2[u] = O[u] \cup B
      /\ \A v \in Users : v # w /\ v # u => O2[v] = O[v]
  BY DEF Passes
<1>1. \A v \in Users : O2[v] \subseteq 1..hi /\ O2[v] \cap CellsOf(map) = {}
 <2> SUFFICES ASSUME NEW v \in Users PROVE O2[v] \subseteq 1..hi /\ O2[v] \cap CellsOf(map) = {}
   OBVIOUS
 <2>1. /\ O[v] \subseteq 1..hi /\ O[v] \cap CellsOf(map) = {}
       /\ O[w] \subseteq 1..hi /\ O[w] \cap CellsOf(map) = {}
   BY <1>0 DEF Held
 <2>2. CASE v = u  BY <1>0, <2>1, <2>2
 <2>3. CASE v # u  BY <1>0, <2>1, <2>3
 <2> QED  BY <2>2, <2>3
<1>2. Disjoint(O2)
 <2> SUFFICES ASSUME NEW v \in Users, NEW z \in Users, v # z, NEW x, x \in O2[v], x \in O2[z]
              PROVE  FALSE
   BY DEF Disjoint
 <2>1. \A y, q \in Users : y # q => O[y] \cap O[q] = {}  BY DEF Held, Disjoint
 <2> QED  BY <1>0, <2>1
<1>3. \A x \in 1..hi : x \in CellsOf(map) \/ \E v \in Users : x \in O2[v]
 <2> SUFFICES ASSUME NEW x \in 1..hi, x \notin CellsOf(map) PROVE \E v \in Users : x \in O2[v]
   OBVIOUS
 <2>1. PICK v \in Users : x \in O[v]  BY DEF Held
 <2> QED  BY <1>0, <2>1
<1> QED  BY <1>1, <1>2, <1>3 DEF Held

-----------------------------------------------------------------------------
(* The tables                                                              *)

\* The constants, from the assumption
LEMMA Consts ==
  ASSUME TRUE
  PROVE  /\ N \in Nat /\ N >= 1 /\ NText \in Nat /\ NText >= 1
         /\ MemPages \in Nat /\ SwapBlocks \in Nat /\ Space \in Nat
         /\ NoFile \notin Files
         /\ \A f \in Files : TextOf[f] \in Nat /\ TextOf[f] >= 1 /\ DataOf[f] \in Nat
         /\ MaxOps \in Nat
  BY SwappingAssumption DEF SwappingAssumption

\* The three kinds of owners
LEMMA UserKinds ==
  ASSUME NEW w \in Users
  PROVE  \/ w = 0
         \/ w \in Slots /\ w # 0 /\ w <= N
         \/ w - N \in Texts /\ w # 0 /\ ~(w <= N)
  BY Consts DEF Users, Slots, Texts

LEMMA UserNames ==
  ASSUME TRUE
  PROVE  /\ 0 \in Users
         /\ \A p \in Slots : p \in Users /\ p # 0 /\ p <= N
         /\ \A t \in Texts : N + t \in Users /\ N + t # 0 /\ ~(N + t <= N) /\ (N + t) - N = t
         /\ \A p \in Slots, t \in Texts : p # N + t
  BY Consts DEF Users, Slots, Texts

\* The owners one by one
LEMMA MemOwnerAt ==
  ASSUME NEW pr, NEW tt, NEW sc
  PROVE  /\ MemOwner(pr, tt, sc)[0] = ComingPages(pr, tt, sc)
         /\ \A p \in Slots : MemOwner(pr, tt, sc)[p] = ImageOf(pr[p])
         /\ \A t \in Texts : MemOwner(pr, tt, sc)[N + t] = TextPages(tt, t)
<1>1. MemOwner(pr, tt, sc)[0] = ComingPages(pr, tt, sc)  BY UserNames DEF MemOwner
<1>2. \A p \in Slots : MemOwner(pr, tt, sc)[p] = ImageOf(pr[p])  BY UserNames DEF MemOwner
<1>3. ASSUME NEW t \in Texts PROVE MemOwner(pr, tt, sc)[N + t] = TextPages(tt, t)
 <2>1. PICK w \in Users : w = N + t /\ w # 0 /\ ~(w <= N) /\ w - N = t  BY UserNames
 <2>2. MemOwner(pr, tt, sc)[w] = TextPages(tt, w - N)  BY <2>1 DEF MemOwner
 <2> QED  BY <2>1, <2>2
<1> QED  BY <1>1, <1>2, <1>3

LEMMA SwapOwnerAt ==
  ASSUME NEW pr, NEW tt
  PROVE  /\ SwapOwner(pr, tt)[0] = {}
         /\ \A p \in Slots : SwapOwner(pr, tt)[p] = SlotBlocks(pr[p])
         /\ \A t \in Texts : SwapOwner(pr, tt)[N + t] = CopyBlocks(tt, t)
<1>1. SwapOwner(pr, tt)[0] = {}  BY UserNames DEF SwapOwner
<1>2. \A p \in Slots : SwapOwner(pr, tt)[p] = SlotBlocks(pr[p])  BY UserNames DEF SwapOwner
<1>3. ASSUME NEW t \in Texts PROVE SwapOwner(pr, tt)[N + t] = CopyBlocks(tt, t)
 <2>1. PICK w \in Users : w = N + t /\ w # 0 /\ ~(w <= N) /\ w - N = t  BY UserNames
 <2>2. SwapOwner(pr, tt)[w] = CopyBlocks(tt, w - N)  BY <2>1 DEF SwapOwner
 <2> QED  BY <2>1, <2>2
<1> QED  BY <1>1, <1>2, <1>3

\* A user other than p, than t, than Sched has what it had.
LEMMA MemOwnerBut ==
  ASSUME NEW pr, NEW tt, NEW sc, NEW pr2, NEW tt2, NEW sc2, NEW x
  PROVE  (/\ ComingPages(pr2, tt2, sc2) = ComingPages(pr, tt, sc) \/ x = 0
          /\ \A q \in Slots : q # x => ImageOf(pr2[q]) = ImageOf(pr[q])
          /\ \A t \in Texts : N + t # x => TextPages(tt2, t) = TextPages(tt, t))
            => SameBut(MemOwner(pr, tt, sc), MemOwner(pr2, tt2, sc2), x)
<1> SUFFICES ASSUME ComingPages(pr2, tt2, sc2) = ComingPages(pr, tt, sc) \/ x = 0,
                    \A q \in Slots : q # x => ImageOf(pr2[q]) = ImageOf(pr[q]),
                    \A t \in Texts : N + t # x => TextPages(tt2, t) = TextPages(tt, t),
                    NEW v \in Users, v # x
             PROVE  MemOwner(pr2, tt2, sc2)[v] = MemOwner(pr, tt, sc)[v]
  BY DEF SameBut
<1>1. CASE v = 0  BY <1>1, MemOwnerAt
<1>2. CASE v \in Slots  BY <1>2, MemOwnerAt
<1>3. CASE v - N \in Texts
 <2>1. PICK t \in Texts : t = v - N  BY <1>3
 <2>2. v = N + t  BY <2>1, Consts DEF Users, Texts
 <2> QED  BY <2>2, MemOwnerAt
<1> QED  BY <1>1, <1>2, <1>3, UserKinds

\* The owners change in one place.
LEMMA SwapOwnerBut ==
  ASSUME NEW pr, NEW tt, NEW pr2, NEW tt2, NEW x
  PROVE  (/\ \A q \in Slots : q # x => SlotBlocks(pr2[q]) = SlotBlocks(pr[q])
          /\ \A t \in Texts : N + t # x => CopyBlocks(tt2, t) = CopyBlocks(tt, t))
            => SameBut(SwapOwner(pr, tt), SwapOwner(pr2, tt2), x)
<1> SUFFICES ASSUME \A q \in Slots : q # x => SlotBlocks(pr2[q]) = SlotBlocks(pr[q]),
                    \A t \in Texts : N + t # x => CopyBlocks(tt2, t) = CopyBlocks(tt, t),
                    NEW v \in Users, v # x
             PROVE  SwapOwner(pr2, tt2)[v] = SwapOwner(pr, tt)[v]
  BY DEF SameBut
<1>1. CASE v = 0  BY <1>1, SwapOwnerAt, Zenon
<1>2. CASE v \in Slots  BY <1>2, SwapOwnerAt
<1>3. CASE v - N \in Texts
 <2>1. PICK t \in Texts : t = v - N  BY <1>3
 <2>2. v = N + t  BY <2>1, Consts DEF Users, Texts
 <2> QED  BY <2>2, SwapOwnerAt
<1> QED  BY <1>1, <1>2, <1>3, UserKinds

-----------------------------------------------------------------------------
(* Counting                                                                *)

\* Counting slots
LEMMA SlotsFinite ==
  ASSUME TRUE
  PROVE  IsFiniteSet(Slots) /\ Cardinality(Slots) = N
  BY Consts, FS_Interval DEF Slots

LEMMA CardFacts ==
  ASSUME NEW S, S \subseteq Slots
  PROVE  /\ IsFiniteSet(S) /\ Cardinality(S) \in Nat /\ Cardinality(S) <= N
         /\ Cardinality(S) = 0 <=> S = {}
         /\ \A p \in Slots : p \notin S => Cardinality(S \cup {p}) = Cardinality(S) + 1
         /\ \A p \in S : Cardinality(S \ {p}) = Cardinality(S) - 1 /\ Cardinality(S) >= 1
         /\ \A p \in S : Cardinality(S) = 1 => S = {p}
<1>1. IsFiniteSet(S) /\ Cardinality(S) \in Nat /\ Cardinality(S) <= N
  BY SlotsFinite, FS_Subset, FS_CardinalityType
<1>2. Cardinality(S) = 0 <=> S = {}  BY <1>1, FS_EmptySet
<1>3. \A p \in Slots : p \notin S => Cardinality(S \cup {p}) = Cardinality(S) + 1
  BY <1>1, FS_AddElement, Zenon
<1>4. ASSUME NEW p \in S PROVE Cardinality(S \ {p}) = Cardinality(S) - 1 /\ Cardinality(S) >= 1
 <2>1. Cardinality(S \ {p}) = Cardinality(S) - 1  BY <1>1, FS_RemoveElement, Zenon
 <2>2. Cardinality(S) # 0  BY <1>2
 <2> QED  BY <1>1, <2>1, <2>2
<1>5. ASSUME NEW p \in S, Cardinality(S) = 1 PROVE S = {p}
 <2>1. Cardinality(S \ {p}) = 0  BY <1>4, <1>5
 <2>2. IsFiniteSet(S \ {p})  BY <1>1, FS_Subset
 <2>3. S \ {p} = {}  BY <2>1, <2>2, FS_EmptySet
 <2> QED  BY <2>3
<1> QED  BY <1>1, <1>2, <1>3, <1>4, <1>5

\* Who has a text in memory uses it.
LEMMA Counts ==
  ASSUME NEW pr, NEW tt, NEW sc, Typed(pr, tt, sc), Counted(pr, tt, sc), NEW t \in Texts
  PROVE  /\ tt[t].ccount <= tt[t].count /\ tt[t].count \in Nat /\ tt[t].ccount \in Nat
         /\ tt[t].count <= N
         /\ \A p \in Slots : pr[p].text = t => tt[t].count >= 1
         /\ \A p \in Slots : pr[p].text = t /\ HasIn(pr[p], sc, p) => tt[t].ccount >= 1
         /\ \A p, q \in Slots : pr[p].text = t /\ tt[t].count = 1 /\ pr[q].text = t => q = p
<1>1. CoreOf(pr, sc, t) \subseteq UsersOf(pr, t) /\ UsersOf(pr, t) \subseteq Slots
  BY DEF CoreOf, UsersOf
<1>2. IsFiniteSet(UsersOf(pr, t))  BY <1>1, CardFacts
<1>3. Cardinality(CoreOf(pr, sc, t)) <= Cardinality(UsersOf(pr, t))  BY <1>1, <1>2, FS_Subset
<1>4. /\ tt[t].count = Cardinality(UsersOf(pr, t))
      /\ tt[t].ccount = Cardinality(CoreOf(pr, sc, t))
  BY DEF Counted
<1>5. \A p \in Slots : pr[p].text = t => tt[t].count >= 1
 <2> SUFFICES ASSUME NEW p \in Slots, pr[p].text = t PROVE tt[t].count >= 1  OBVIOUS
 <2>1. p \in UsersOf(pr, t)  BY DEF UsersOf
 <2> QED  BY <2>1, <1>1, <1>4, CardFacts
<1>6. \A p \in Slots : pr[p].text = t /\ HasIn(pr[p], sc, p) => tt[t].ccount >= 1
 <2> SUFFICES ASSUME NEW p \in Slots, pr[p].text = t, HasIn(pr[p], sc, p) PROVE tt[t].ccount >= 1
   OBVIOUS
 <2>1. p \in CoreOf(pr, sc, t) /\ CoreOf(pr, sc, t) \subseteq Slots  BY DEF CoreOf
 <2> QED  BY <2>1, <1>4, CardFacts
<1>7. \A p, q \in Slots : pr[p].text = t /\ tt[t].count = 1 /\ pr[q].text = t => q = p
 <2> SUFFICES ASSUME NEW p \in Slots, NEW q \in Slots, pr[p].text = t, tt[t].count = 1, pr[q].text = t
              PROVE  q = p
   OBVIOUS
 <2>1. p \in UsersOf(pr, t) /\ q \in UsersOf(pr, t)  BY DEF UsersOf
 <2>2. UsersOf(pr, t) = {p}  BY <2>1, <1>1, <1>4, CardFacts
 <2> QED  BY <2>1, <2>2
<1>8. /\ Cardinality(UsersOf(pr, t)) \in Nat /\ Cardinality(UsersOf(pr, t)) <= N
      /\ Cardinality(CoreOf(pr, sc, t)) \in Nat
 <2>1. CoreOf(pr, sc, t) \subseteq Slots  BY <1>1
 <2> QED  BY <1>1, <2>1, CardFacts
<1> QED  BY <1>3, <1>4, <1>5, <1>6, <1>7, <1>8

\* One process starts or stops to use a text, or to have it in memory.
CountMoves(pr, tt, sc, pr2, tt2, sc2, p) ==
    /\ \A q \in Slots : q # p => /\ pr2[q].text = pr[q].text
                                 /\ HasIn(pr2[q], sc2, q) <=> HasIn(pr[q], sc, q)
    /\ \A t \in Texts :
         /\ tt2[t].count = tt[t].count + (IF pr2[p].text = t THEN 1 ELSE 0)
                                       - (IF pr[p].text = t THEN 1 ELSE 0)
         /\ tt2[t].ccount =
              tt[t].ccount + (IF pr2[p].text = t /\ HasIn(pr2[p], sc2, p) THEN 1 ELSE 0)
                           - (IF pr[p].text = t /\ HasIn(pr[p], sc, p) THEN 1 ELSE 0)

\* The counters follow when one slot changes its text, or comes in or goes out.
LEMMA CountStep ==
  ASSUME NEW pr, NEW tt, NEW sc, Typed(pr, tt, sc), Counted(pr, tt, sc),
         NEW pr2, NEW tt2, NEW sc2, NEW p \in Slots,
         CountMoves(pr, tt, sc, pr2, tt2, sc2, p)
  PROVE  Counted(pr2, tt2, sc2)
<1> SUFFICES ASSUME NEW t \in Texts
             PROVE  /\ tt2[t].count = Cardinality(UsersOf(pr2, t))
                    /\ tt2[t].ccount = Cardinality(CoreOf(pr2, sc2, t))
  BY DEF Counted
<1>1. tt[t].count = Cardinality(UsersOf(pr, t)) /\ tt[t].ccount = Cardinality(CoreOf(pr, sc, t))
  BY DEF Counted
<1>2. /\ UsersOf(pr, t) \subseteq Slots /\ CoreOf(pr, sc, t) \subseteq Slots  BY DEF UsersOf, CoreOf
<1>3. \A q \in Slots : q # p => /\ q \in UsersOf(pr2, t) <=> q \in UsersOf(pr, t)
                                /\ q \in CoreOf(pr2, sc2, t) <=> q \in CoreOf(pr, sc, t)
  BY DEF UsersOf, CoreOf, CountMoves
<1>4. /\ p \in UsersOf(pr, t) <=> pr[p].text = t
      /\ p \in UsersOf(pr2, t) <=> pr2[p].text = t
      /\ p \in CoreOf(pr, sc, t) <=> pr[p].text = t /\ HasIn(pr[p], sc, p)
      /\ p \in CoreOf(pr2, sc2, t) <=> pr2[p].text = t /\ HasIn(pr2[p], sc2, p)
  BY DEF UsersOf, CoreOf
<1>5. UsersOf(pr2, t) \subseteq Slots /\ CoreOf(pr2, sc2, t) \subseteq Slots  BY DEF UsersOf, CoreOf
<1>6. ASSUME NEW S, NEW S2, S \subseteq Slots, S2 \subseteq Slots,
             \A q \in Slots : q # p => (q \in S2 <=> q \in S)
      PROVE  Cardinality(S2) = Cardinality(S) + (IF p \in S2 THEN 1 ELSE 0)
                                              - (IF p \in S THEN 1 ELSE 0)
 <2>0. Cardinality(S) \in Nat  BY <1>6, CardFacts
 <2>1. CASE p \in S /\ p \in S2
  <3>0. \A q \in Slots : q \in S2 <=> q \in S  BY <1>6, <2>1
  <3>1. S2 = S  BY <1>6, <3>0
  <3> QED  BY <2>0, <2>1, <3>1
 <2>2. CASE p \notin S /\ p \notin S2
  <3>1. S2 = S  BY <1>6, <2>2
  <3> QED  BY <2>0, <2>2, <3>1
 <2>3. CASE p \in S /\ p \notin S2
  <3>1. S2 = S \ {p}  BY <1>6, <2>3
  <3>2. Cardinality(S \ {p}) = Cardinality(S) - 1  BY <1>6, <2>3, CardFacts
  <3> QED  BY <2>0, <2>3, <3>1, <3>2
 <2>4. CASE p \notin S /\ p \in S2
  <3>1. S2 = S \cup {p}  BY <1>6, <2>4
  <3>2. Cardinality(S \cup {p}) = Cardinality(S) + 1  BY <1>6, <2>4, CardFacts
  <3> QED  BY <2>0, <2>4, <3>1, <3>2
 <2> QED  BY <2>1, <2>2, <2>3, <2>4
<1>7. Cardinality(UsersOf(pr2, t)) = Cardinality(UsersOf(pr, t))
        + (IF p \in UsersOf(pr2, t) THEN 1 ELSE 0) - (IF p \in UsersOf(pr, t) THEN 1 ELSE 0)
  BY <1>2, <1>3, <1>5, <1>6
<1>8. Cardinality(CoreOf(pr2, sc2, t)) = Cardinality(CoreOf(pr, sc, t))
        + (IF p \in CoreOf(pr2, sc2, t) THEN 1 ELSE 0) - (IF p \in CoreOf(pr, sc, t) THEN 1 ELSE 0)
  BY <1>2, <1>3, <1>5, <1>6
<1> QED  BY <1>1, <1>4, <1>7, <1>8 DEF CountMoves

-----------------------------------------------------------------------------
(* Memory in half pages                                                    *)

\* Half pages and pages
LEMMA PagesFacts ==
  ASSUME NEW s \in Nat
  PROVE  /\ Pages(s) \in Nat /\ 2 * Pages(s) >= s /\ 2 * Pages(s) <= s + 1
         /\ s > 0 => Pages(s) > 0
  BY DEF Pages

LEMMA HalfFacts ==
  ASSUME NEW a \in Nat
  PROVE  /\ a \div 2 \in Nat
         /\ a % 2 = 0 => 2 * (a \div 2) = a
         /\ a % 2 = 0 /\ a > 0 => a \div 2 > 0
  OBVIOUS

\* Held, for memory and for the swap area
LEMMA MemoryFreed ==
  ASSUME NEW mm, NEW O, Held(mm, MemPages, O),
         NEW s \in Nat, s > 0, NEW a \in Nat, a > 0, a % 2 = 0,
         NEW w \in Users, Block(a \div 2, Pages(s)) \subseteq O[w],
         NEW O2, SameBut(O, O2, w), O2[w] = O[w] \ Block(a \div 2, Pages(s))
  PROVE  Held(FreeMemory(mm, s, a), MemPages, O2)
<1>1. PICK n \in Nat \ {0}, b \in Nat \ {0} : n = Pages(s) /\ b = a \div 2
 <2>1. Pages(s) \in Nat \ {0}  BY PagesFacts
 <2>2. a \div 2 \in Nat /\ a \div 2 > 0  BY HalfFacts
 <2>3. PICK b : b = a \div 2  OBVIOUS
 <2>4. b \in Nat \ {0}  BY <2>2, <2>3
 <2> QED  BY ONLY <2>1, <2>3, <2>4
<1>2. Held(Free(mm, n, b), MemPages, O2)  BY <1>1, Consts, HeldFree
<1> QED  BY <1>1, <1>2 DEF FreeMemory

LEMMA BlocksFreed ==
  ASSUME NEW sm, NEW O, Held(sm, SwapBlocks, O),
         NEW s \in Nat, s > 0, NEW a \in Nat, a > 0,
         NEW w \in Users, Block(a, s) \subseteq O[w],
         NEW O2, SameBut(O, O2, w), O2[w] = O[w] \ Block(a, s)
  PROVE  Held(Free(sm, s, a), SwapBlocks, O2)
<1>1. s \in Nat \ {0} /\ a \in Nat \ {0} /\ SwapBlocks \in Nat  BY Consts
<1> QED  BY <1>1, HeldFree

LEMMA BlocksTaken ==
  ASSUME NEW sm, NEW O, Held(sm, SwapBlocks, O), NEW s \in Nat, s > 0,
         NEW b, b = Alloc(sm, s).at
  PROVE  /\ b \in 0..SwapBlocks
         /\ b # 0 =>
              /\ b > 0
              /\ \A w \in Users : O[w] \cap Block(b, s) = {}
              /\ \A w \in Users : \A O2 :
                   SameBut(O, O2, w) /\ O2[w] = O[w] \cup Block(b, s)
                     => Held(Alloc(sm, s).map, SwapBlocks, O2)
         /\ b = 0 => Alloc(sm, s).map = sm
<1>1. s \in Nat \ {0} /\ SwapBlocks \in Nat  BY Consts
<1>2. CASE b = 0
 <2>1. MapOk(sm, SwapBlocks)  BY DEF Held
 <2>2. Alloc(sm, s) = [at |-> 0, map |-> sm]  BY <2>1, <1>1, <1>2, AllocRight, Zenon
 <2>3. Alloc(sm, s).map = sm  BY <2>2
 <2> QED  BY <1>1, <1>2, <2>3
<1>3. CASE b # 0
 <2>1. /\ b \in Nat \ {0} /\ b + s - 1 <= SwapBlocks
       /\ \A w \in Users : O[w] \cap Block(b, s) = {}
       /\ \A w \in Users : \A O2 :
           SameBut(O, O2, w) /\ O2[w] = O[w] \cup Block(b, s)
             => Held(Alloc(sm, s).map, SwapBlocks, O2)
   BY <1>1, <1>3, HeldAlloc
 <2>2. b \in 0..SwapBlocks /\ b > 0  BY <2>1, <1>1
 <2> QED  BY <1>3, <2>1, <2>2
<1> QED  BY <1>2, <1>3

LEMMA MemoryTaken ==
  ASSUME NEW mm, NEW O, Held(mm, MemPages, O), NEW s \in Nat, s > 0,
         NEW at, at = AllocMemory(mm, s).at
  PROVE  /\ at \in Nat /\ at % 2 = 0 /\ at \in Halves
         /\ at # 0 =>
              /\ at > 0 /\ at \div 2 + Pages(s) - 1 <= MemPages
              /\ \A w \in Users : O[w] \cap Block(at \div 2, Pages(s)) = {}
              /\ \A w \in Users : \A O2 :
                   SameBut(O, O2, w) /\ O2[w] = O[w] \cup Block(at \div 2, Pages(s))
                     => Held(AllocMemory(mm, s).map, MemPages, O2)
         /\ at = 0 => AllocMemory(mm, s).map = mm
<1>1. PICK n \in Nat \ {0} : n = Pages(s)  BY PagesFacts
<1>2. PICK b, m : b = Alloc(mm, n).at /\ m = Alloc(mm, n).map  OBVIOUS
<1>3. AllocMemory(mm, s) = [at |-> 2 * b, map |-> m]  BY <1>1, <1>2 DEF AllocMemory
<1>4. CASE b = 0
 <2>1. MapOk(mm, MemPages)  BY DEF Held
 <2>2. Alloc(mm, n) = [at |-> 0, map |-> mm]  BY <2>1, <1>2, <1>4, Consts, AllocRight, Zenon
 <2>3. m = mm  BY <2>2, <1>2
 <2> QED  BY <1>3, <1>4, <2>3, Consts DEF Halves
<1>5. CASE b # 0
 <2>1. /\ b \in Nat \ {0} /\ b + n - 1 <= MemPages
       /\ \A w \in Users : O[w] \cap Block(b, n) = {}
       /\ \A w \in Users : \A O2 :
           SameBut(O, O2, w) /\ O2[w] = O[w] \cup Block(b, n) => Held(m, MemPages, O2)
   BY <1>2, <1>5, Consts, HeldAlloc
 <2>2. (2 * b) \div 2 = b /\ (2 * b) % 2 = 0 /\ 2 * b \in Nat /\ 2 * b > 0  BY <2>1
 <2>3. 2 * b \in Halves  BY <2>1, Consts DEF Halves
 <2>4. at = 2 * b /\ AllocMemory(mm, s).map = m  BY <1>3
 <2> HIDE DEF AllocMemory
 <2>5. at \div 2 = b /\ at \in Nat /\ at % 2 = 0 /\ at > 0 /\ at \in Halves  BY <2>2, <2>3, <2>4
 <2> QED  BY <2>1, <2>4, <2>5, <1>1
<1> QED  BY <1>4, <1>5

-----------------------------------------------------------------------------
(* A reference to a text is dropped                                        *)

KeepsComing(pr, tt, sc, pr2, tt2) ==
    /\ Moving(sc) => pr2[sc.sel] = pr[sc.sel]
    /\ sc.pc = "text" => tt2[pr[sc.sel].text].file = tt[pr[sc.sel].text].file

\* What is on its way in does not change.
LEMMA ComingSame ==
  ASSUME NEW pr, NEW tt, NEW sc, NEW pr2, NEW tt2, KeepsComing(pr, tt, sc, pr2, tt2)
  PROVE  ComingPages(pr2, tt2, sc) = ComingPages(pr, tt, sc)
<1>1. CASE Moving(sc)
 <2>1. ComingSize(pr2, tt2, sc) = ComingSize(pr, tt, sc)
   BY <1>1 DEF ComingSize, TextSize, KeepsComing
 <2> QED  BY <2>1 DEF ComingPages
<1>2. CASE ~Moving(sc)  BY <1>2 DEF ComingPages
<1> QED  BY <1>1, <1>2

\* XccDec and XFree, field by field
LEMMA XccDecEffect ==
  ASSUME NEW tt \in [Texts -> TextRec], NEW t \in Texts, tt[t].ccount > 0, NEW mm,
         NEW d, d = XccDec(t, tt, mm)
  PROVE  /\ d.txt \in [Texts -> TextRec]
         /\ \A u \in Texts : u # t => d.txt[u] = tt[u]
         /\ \A u \in Texts : /\ d.txt[u].file = tt[u].file /\ d.txt[u].count = tt[u].count
                             /\ d.txt[u].caddr = tt[u].caddr /\ d.txt[u].daddr = tt[u].daddr
                             /\ d.txt[u].saved = tt[u].saved
         /\ d.txt[t].ccount = tt[t].ccount - 1
         /\ d.txt[t].good = (tt[t].good /\ tt[t].ccount > 1)
         /\ d.mm = IF tt[t].ccount > 1 THEN mm ELSE FreeMemory(mm, TextSize(tt, t), tt[t].caddr)
<1>1. t # NoText  BY DEF Texts, NoText
<1>2. PICK e : e = [tt[t] EXCEPT !.ccount = @ - 1, !.good = @ /\ tt[t].ccount > 1]  OBVIOUS
<1>3. tt[t] \in TextRec  OBVIOUS
<1>4. /\ tt[t].ccount \in Nat /\ tt[t].good \in BOOLEAN  BY <1>3 DEF TextRec
<1>5. tt[t].ccount - 1 \in Nat  BY <1>4
<1>6. /\ e \in TextRec /\ e.ccount = tt[t].ccount - 1
      /\ e.good = (tt[t].good /\ tt[t].ccount > 1)
      /\ e.file = tt[t].file /\ e.count = tt[t].count /\ e.caddr = tt[t].caddr
      /\ e.daddr = tt[t].daddr /\ e.saved = tt[t].saved
  BY <1>2, <1>3, <1>5, Zenon DEF TextRec
<1>7. d.txt = [tt EXCEPT ![t] = e]
 <2>1. d.txt = [tt EXCEPT ![t].ccount = @ - 1, ![t].good = @ /\ tt[t].ccount > 1]
   BY <1>1 DEF XccDec
 <2> QED  BY <2>1, <1>2, <1>3, Zenon
<1>8. d.mm = IF tt[t].ccount > 1 THEN mm ELSE FreeMemory(mm, TextSize(tt, t), tt[t].caddr)
  BY <1>1 DEF XccDec, TextSize
<1>9. d.txt \in [Texts -> TextRec] /\ d.txt[t] = e /\ \A u \in Texts : u # t => d.txt[u] = tt[u]
  BY <1>6, <1>7
<1> HIDE DEF XccDec
<1> QED  BY <1>6, <1>8, <1>9

\* A text in use has a size and its places.
LEMMA TextSizes ==
  ASSUME NEW tt \in [Texts -> TextRec], NEW t \in Texts, TextOk(tt, t),
         tt[t].count > 0 \/ tt[t].ccount > 0 \/ tt[t].file # NoFile
  PROVE  /\ tt[t].file \in Files /\ TextSize(tt, t) \in Nat /\ TextSize(tt, t) > 0
         /\ tt[t].count > 0 /\ tt[t].daddr > 0 /\ tt[t].daddr \in Nat
         /\ tt[t].caddr > 0 /\ tt[t].caddr \in Nat /\ tt[t].caddr % 2 = 0
<1>1. tt[t] \in TextRec  OBVIOUS
<1>2. /\ tt[t].count \in Nat /\ tt[t].ccount \in Nat /\ tt[t].file \in Files \cup {NoFile}
      /\ tt[t].daddr \in Nat /\ tt[t].caddr \in Nat
  BY <1>1, Consts DEF TextRec, Halves
<1>3. tt[t].file # NoFile  BY <1>2 DEF TextOk
<1> QED  BY <1>2, <1>3, Consts DEF TextOk, TextSize

\* The last process that has a text in memory gives its pages back.
LEMMA XccDecHeld ==
  ASSUME NEW pr, NEW tt \in [Texts -> TextRec], NEW sc, NEW mm, NEW t \in Texts,
         TextOk(tt, t), tt[t].ccount > 0, Held(mm, MemPages, MemOwner(pr, tt, sc)),
         NEW d, d = XccDec(t, tt, mm),
         NEW pr2, \A q \in Slots : ImageOf(pr2[q]) = ImageOf(pr[q]),
         NEW tt2, \A u \in Texts : TextPages(tt2, u) = TextPages(d.txt, u),
         ComingPages(pr2, tt2, sc) = ComingPages(pr, tt, sc)
  PROVE  Held(d.mm, MemPages, MemOwner(pr2, tt2, sc))
<1>1. /\ d.txt \in [Texts -> TextRec]
      /\ \A u \in Texts : u # t => d.txt[u] = tt[u]
      /\ \A u \in Texts : /\ d.txt[u].file = tt[u].file /\ d.txt[u].count = tt[u].count
                          /\ d.txt[u].caddr = tt[u].caddr /\ d.txt[u].daddr = tt[u].daddr
                          /\ d.txt[u].saved = tt[u].saved
      /\ d.txt[t].ccount = tt[t].ccount - 1
      /\ d.txt[t].good = (tt[t].good /\ tt[t].ccount > 1)
      /\ d.mm = IF tt[t].ccount > 1 THEN mm ELSE FreeMemory(mm, TextSize(tt, t), tt[t].caddr)
  BY XccDecEffect
<1>2. PICK O, O2 : O = MemOwner(pr, tt, sc) /\ O2 = MemOwner(pr2, tt2, sc)  OBVIOUS
<1>3. /\ TextSize(tt, t) \in Nat /\ TextSize(tt, t) > 0
      /\ tt[t].caddr > 0 /\ tt[t].caddr \in Nat /\ tt[t].caddr % 2 = 0
  BY TextSizes
<1>4. tt[t].ccount \in Nat
 <2>1. tt[t] \in TextRec  OBVIOUS
 <2> QED  BY <2>1 DEF TextRec
<1>5. \A u \in Texts : u # t => TextPages(tt2, u) = TextPages(tt, u)
  BY <1>1 DEF TextPages, TextSize
<1>6. SameBut(O, O2, N + t)  BY <1>2, <1>5, MemOwnerBut
<1>7. /\ O[N + t] = Block(tt[t].caddr \div 2, Pages(TextSize(tt, t)))
      /\ O2[N + t] = TextPages(d.txt, t)
  BY <1>2, MemOwnerAt DEF TextPages
<1>8. CASE tt[t].ccount > 1
 <2>1. TextPages(d.txt, t) = Block(tt[t].caddr \div 2, Pages(TextSize(tt, t)))
   BY <1>1, <1>4, <1>8 DEF TextPages, TextSize
 <2>2. \A w \in Users : O2[w] = O[w]  BY <1>6, <1>7, <2>1 DEF SameBut
 <2> QED  BY <1>1, <1>2, <1>8, <2>2, HeldSame
<1>9. CASE ~(tt[t].ccount > 1)
 <2>1. TextPages(d.txt, t) = {}  BY <1>1, <1>4, <1>9 DEF TextPages
 <2>2. N + t \in Users  BY UserNames
 <2>3. O2[N + t] = O[N + t] \ Block(tt[t].caddr \div 2, Pages(TextSize(tt, t)))  BY <1>7, <2>1
 <2>4. d.mm = FreeMemory(mm, TextSize(tt, t), tt[t].caddr)  BY <1>1, <1>9
 <2>5. Block(tt[t].caddr \div 2, Pages(TextSize(tt, t))) \subseteq O[N + t]  BY <1>7
 <2>6. PICK s, a, w : s = TextSize(tt, t) /\ a = tt[t].caddr /\ w = N + t  OBVIOUS
 <2>7. /\ Held(mm, MemPages, O) /\ s \in Nat /\ s > 0 /\ a \in Nat /\ a > 0 /\ a % 2 = 0
       /\ w \in Users /\ Block(a \div 2, Pages(s)) \subseteq O[w]
       /\ SameBut(O, O2, w) /\ O2[w] = O[w] \ Block(a \div 2, Pages(s))
   BY <1>2, <1>3, <1>6, <2>2, <2>3, <2>5, <2>6
 <2>8. Held(FreeMemory(mm, s, a), MemPages, O2)  BY <2>7, MemoryFreed
 <2> QED  BY <1>2, <2>4, <2>6, <2>8
<1> QED  BY <1>8, <1>9

LEMMA FreeTextRec ==
  ASSUME TRUE
  PROVE  /\ FreeText \in TextRec /\ FreeText.file = NoFile
         /\ FreeText.count = 0 /\ FreeText.ccount = 0
  BY Consts DEF FreeText, TextRec, Halves

LEMMA XFreeEffect ==
  ASSUME NEW tt \in [Texts -> TextRec], NEW t \in Texts, tt[t].ccount > 0,
         tt[t].count >= 1, NEW mm, NEW sm, NEW x, x = XFree(t, tt, mm, sm),
         NEW d, d = XccDec(t, tt, mm)
  PROVE  /\ x.mm = d.mm
         /\ x.txt \in [Texts -> TextRec]
         /\ \A u \in Texts : u # t => x.txt[u] = tt[u]
         /\ tt[t].count = 1 => /\ x.txt[t] = FreeText
                               /\ x.sm = Free(sm, TextSize(tt, t), tt[t].daddr)
         /\ tt[t].count # 1 => /\ x.txt[t] = [d.txt[t] EXCEPT !.count = @ - 1]
                               /\ x.sm = sm
<1>1. t # NoText  BY DEF Texts, NoText
<1>2. /\ d.txt \in [Texts -> TextRec] /\ \A u \in Texts : u # t => d.txt[u] = tt[u]
      /\ d.txt[t].count = tt[t].count
  BY XccDecEffect
<1>3. x.mm = d.mm  BY DEF XFree
<1>4. CASE tt[t].count = 1
 <2>1. x.txt = [d.txt EXCEPT ![t] = FreeText]  BY <1>1, <1>4 DEF XFree
 <2>2. x.sm = Free(sm, TextSize(tt, t), tt[t].daddr)  BY <1>1, <1>4 DEF XFree, TextSize
 <2>3. x.txt \in [Texts -> TextRec] /\ x.txt[t] = FreeText /\ \A u \in Texts : u # t => x.txt[u] = tt[u]
   BY <2>1, <1>2, FreeTextRec
 <2> QED  BY <1>3, <1>4, <2>2, <2>3
<1>5. CASE tt[t].count # 1
 <2>1. x.txt = [d.txt EXCEPT ![t].count = @ - 1]  BY <1>1, <1>5 DEF XFree
 <2>2. x.sm = sm  BY <1>1, <1>5 DEF XFree
 <2>3. PICK e : e = [d.txt[t] EXCEPT !.count = @ - 1]  BY Zenon
 <2>4. x.txt = [d.txt EXCEPT ![t] = e]  BY <2>1, <2>3, <1>2
 <2>5. e \in TextRec
  <3>1. d.txt[t] \in TextRec  BY <1>2
  <3>2. d.txt[t].count \in Nat  BY <3>1 DEF TextRec
  <3>3. d.txt[t].count - 1 \in Nat  BY <1>2, <3>2
  <3> QED  BY <2>3, <3>1, <3>3 DEF TextRec
 <2>6. x.txt \in [Texts -> TextRec] /\ x.txt[t] = e /\ \A u \in Texts : u # t => x.txt[u] = tt[u]
   BY <2>4, <2>5, <1>2
 <2> QED  BY <1>3, <1>5, <2>2, <2>3, <2>6
<1> QED  BY <1>4, <1>5

\* Sched brings in a process that is out of memory.
LEMMA SelOther ==
  ASSUME NEW pr, NEW tt, NEW sc, Typed(pr, tt, sc), SelOk(pr, tt, sc), Moving(sc),
         NEW p \in Slots, pr[p].load \/ pr[p].stat # "run"
  PROVE  sc.sel # p /\ sc.sel \in Slots
  BY DEF SelOk, IsSwapped

\* The fields of a slot
LEMMA SlotFields ==
  ASSUME NEW r \in SlotRec
  PROVE  /\ r.stat \in ProcStates /\ r.load \in BOOLEAN /\ r.lock \in BOOLEAN
         /\ r.addr \in Halves /\ r.addr \in Nat /\ r.size \in 0..Space + USIZE /\ r.size \in Nat
         /\ r.data \in 0..Space /\ r.data \in Nat /\ r.stack \in 0..Space /\ r.stack \in Nat
         /\ r.par \in 0..N /\ r.text \in 0..NText /\ r.pc \in PCs
         /\ r.blk \in 0..SwapBlocks /\ r.blk \in Nat
         /\ r.held \in 0..Space + USIZE /\ r.held \in Nat /\ r.kid \in 0..N
         /\ r.text # NoText => r.text \in Texts
<1>1. /\ r.stat \in ProcStates /\ r.load \in BOOLEAN /\ r.lock \in BOOLEAN
      /\ r.addr \in Halves /\ r.size \in 0..Space + USIZE
      /\ r.data \in 0..Space /\ r.stack \in 0..Space
      /\ r.par \in 0..N /\ r.text \in 0..NText /\ r.pc \in PCs
      /\ r.blk \in 0..SwapBlocks
      /\ r.held \in 0..Space + USIZE /\ r.kid \in 0..N
  BY DEF SlotRec
<1>2. r.text # NoText => r.text \in Texts  BY <1>1, Consts DEF Texts, NoText
<1> QED  BY <1>1, <1>2, Consts DEF Halves, USIZE

\* XFree keeps the tables when the slot has no text any more.
LEMMA DropText ==
  ASSUME NEW mm, NEW sm, NEW pr, NEW tt, NEW sc, Tables(mm, sm, pr, tt, sc),
         NEW p \in Slots, Inside(pr[p]),
         NEW x, x = XFree(pr[p].text, tt, mm, sm),
         NEW pr2, pr2 = [pr EXCEPT ![p] = [pr[p] EXCEPT !.text = NoText]]
  PROVE  Tables(x.mm, x.sm, pr2, x.txt, sc)
<1>0. /\ pr \in [Slots -> SlotRec] /\ tt \in [Texts -> TextRec] /\ sc \in SchedRec
      /\ Held(mm, MemPages, MemOwner(pr, tt, sc)) /\ Held(sm, SwapBlocks, SwapOwner(pr, tt))
      /\ Counted(pr, tt, sc) /\ SelOk(pr, tt, sc) /\ Typed(pr, tt, sc)
      /\ \A t \in Texts : TextOk(tt, t)
  BY DEF Tables, Typed
<1>1. PICK r, t, r2 : r = pr[p] /\ t = pr[p].text /\ r2 = [r EXCEPT !.text = NoText]  BY Zenon
<1>2. r \in SlotRec /\ t \in 0..NText /\ NoText \in 0..NText
  BY <1>0, <1>1, SlotFields, Consts DEF NoText
<1>3. /\ r2 \in SlotRec /\ r2.text = NoText /\ r2.stat = r.stat /\ r2.load = r.load
      /\ r2.lock = r.lock /\ r2.addr = r.addr /\ r2.size = r.size /\ r2.held = r.held
      /\ r2.pc = r.pc /\ r2.blk = r.blk
  BY <1>1, <1>2 DEF SlotRec
<1>4. pr2 \in [Slots -> SlotRec] /\ pr2[p] = r2 /\ \A q \in Slots : q # p => pr2[q] = pr[q]
  BY <1>0, <1>1, <1>3
<1>5. ImageOf(r2) = ImageOf(r) /\ SlotBlocks(r2) = SlotBlocks(r)
  BY <1>3 DEF ImageOf, SlotBlocks, IsSwapped, IsLeaving
<1>i. /\ \A q \in Slots : ImageOf(pr2[q]) = ImageOf(pr[q])
      /\ \A q \in Slots : SlotBlocks(pr2[q]) = SlotBlocks(pr[q])
  BY <1>1, <1>4, <1>5
<1>6. Moving(sc) => sc.sel # p /\ sc.sel \in Slots /\ pr2[sc.sel] = pr[sc.sel]
 <2>1. pr[p].load  BY DEF Inside
 <2> QED  BY <1>0, <1>4, <2>1, SelOther
<1>7. CASE t = NoText
 <2>1. x.mm = mm /\ x.sm = sm /\ x.txt = tt  BY <1>1, <1>7 DEF XFree, XccDec
 <2>2. r2 = r  BY <1>1, <1>2, <1>7, Zenon DEF SlotRec
 <2>3. pr2 = pr  BY <1>0, <1>1, <2>2
 <2> QED  BY <2>1, <2>3
<1>8. CASE t # NoText
 <2>0. t \in Texts  BY <1>2, <1>8, Consts DEF Texts, NoText
 <2>1. HasIn(pr[p], sc, p)  BY DEF HasIn
 <2>2. /\ tt[t].count \in Nat /\ tt[t].ccount \in Nat /\ tt[t].ccount <= tt[t].count
       /\ tt[t].count >= 1 /\ tt[t].ccount >= 1
   BY <1>0, <1>1, <2>0, <2>1, Counts
 <2>3. PICK d : d = XccDec(t, tt, mm)  OBVIOUS
 <2>4. /\ x.mm = d.mm
       /\ x.txt \in [Texts -> TextRec]
       /\ \A u \in Texts : u # t => x.txt[u] = tt[u]
       /\ tt[t].count = 1 => /\ x.txt[t] = FreeText
                             /\ x.sm = Free(sm, TextSize(tt, t), tt[t].daddr)
       /\ tt[t].count # 1 => /\ x.txt[t] = [d.txt[t] EXCEPT !.count = @ - 1]
                             /\ x.sm = sm
  <3>1. x = XFree(t, tt, mm, sm) /\ tt[t].ccount > 0 /\ tt[t].count >= 1  BY <1>1, <2>2
  <3> QED  BY <1>0, <2>0, <2>3, <3>1, XFreeEffect
 <2>5. /\ d.txt \in [Texts -> TextRec]
       /\ \A u \in Texts : u # t => d.txt[u] = tt[u]
       /\ \A u \in Texts : /\ d.txt[u].file = tt[u].file /\ d.txt[u].count = tt[u].count
                           /\ d.txt[u].caddr = tt[u].caddr /\ d.txt[u].daddr = tt[u].daddr
                           /\ d.txt[u].saved = tt[u].saved
       /\ d.txt[t].ccount = tt[t].ccount - 1
  <3>1. tt[t].ccount > 0  BY <2>2
  <3> QED  BY <1>0, <2>0, <2>3, <3>1, XccDecEffect
 <2>6. tt[t].count # 1 => /\ x.txt[t].count = tt[t].count - 1 /\ x.txt[t].ccount = tt[t].ccount - 1
                          /\ x.txt[t].file = tt[t].file /\ x.txt[t].caddr = tt[t].caddr
                          /\ x.txt[t].daddr = tt[t].daddr
  <3>1. d.txt[t] \in TextRec  BY <2>0, <2>5
  <3> QED  BY <2>0, <2>4, <2>5, <3>1 DEF TextRec
 <2>7. tt[t].count = 1 => /\ x.txt[t].count = tt[t].count - 1 /\ x.txt[t].ccount = tt[t].ccount - 1
                          /\ x.txt[t].file = NoFile
   BY <2>2, <2>4, FreeTextRec
 <2>8. sc.pc = "text" => pr[sc.sel].text # t /\ x.txt[pr[sc.sel].text] = tt[pr[sc.sel].text]
  <3> SUFFICES ASSUME sc.pc = "text"
               PROVE  pr[sc.sel].text # t /\ x.txt[pr[sc.sel].text] = tt[pr[sc.sel].text]
    OBVIOUS
  <3>1. /\ sc.sel \in Slots /\ pr[sc.sel].text # NoText /\ tt[pr[sc.sel].text].ccount = 0
    BY <1>0 DEF SelOk, Moving
  <3>2. pr[sc.sel].text \in Texts  BY <1>0, <3>1, SlotFields
  <3> QED  BY <2>2, <2>4, <3>1, <3>2
 <2>9. ComingPages(pr2, x.txt, sc) = ComingPages(pr, tt, sc)
  <3>1. KeepsComing(pr, tt, sc, pr2, x.txt)  BY <1>6, <2>8 DEF KeepsComing
  <3> QED  BY <3>1, ComingSame
 <2>10. \A u \in Texts : TextPages(x.txt, u) = TextPages(d.txt, u)
  <3> SUFFICES ASSUME NEW u \in Texts PROVE TextPages(x.txt, u) = TextPages(d.txt, u)  OBVIOUS
  <3>1. CASE u # t  BY <3>1, <2>4, <2>5 DEF TextPages, TextSize
  <3>2. CASE u = t /\ tt[t].count = 1
   <4>1. d.txt[t].ccount = 0 /\ x.txt[t].ccount = 0  BY <3>2, <2>2, <2>5, <2>7
   <4> QED  BY <3>2, <4>1 DEF TextPages
  <3>3. CASE u = t /\ tt[t].count # 1  BY <3>3, <2>5, <2>6 DEF TextPages, TextSize
  <3> QED  BY <3>1, <3>2, <3>3
 <2>11. Held(x.mm, MemPages, MemOwner(pr2, x.txt, sc))
  <3>1. tt[t].ccount > 0 /\ TextOk(tt, t)  BY <1>0, <2>0, <2>2
  <3>2. Held(d.mm, MemPages, MemOwner(pr2, x.txt, sc))
    BY <1>0, <1>i, <2>0, <2>3, <2>9, <2>10, <3>1, XccDecHeld, Zenon
  <3> QED  BY <2>4, <3>2
 <2>12. Held(x.sm, SwapBlocks, SwapOwner(pr2, x.txt))
  <3>1. PICK O, O2, w, s, a : /\ O = SwapOwner(pr, tt) /\ O2 = SwapOwner(pr2, x.txt) /\ w = N + t
                              /\ s = TextSize(tt, t) /\ a = tt[t].daddr
    OBVIOUS
  <3>2. \A u \in Texts : u # t => CopyBlocks(x.txt, u) = CopyBlocks(tt, u)
    BY <2>4 DEF CopyBlocks, TextSize
  <3>3. SameBut(O, O2, w)  BY <1>i, <3>1, <3>2, SwapOwnerBut, Zenon
  <3>4. O[w] = CopyBlocks(tt, t) /\ O2[w] = CopyBlocks(x.txt, t) /\ w \in Users
    BY <2>0, <3>1, SwapOwnerAt, UserNames
  <3>5. CopyBlocks(tt, t) = Block(a, s)  BY <3>1, <2>2 DEF CopyBlocks
  <3>6. CASE tt[t].count = 1
   <4>1. CopyBlocks(x.txt, t) = {}  BY <3>6, <2>7 DEF CopyBlocks
   <4>2. s \in Nat /\ s > 0 /\ a \in Nat /\ a > 0  BY <1>0, <2>0, <2>2, <3>1, TextSizes
   <4>3. Held(Free(sm, s, a), SwapBlocks, O2)
    <5>1. Held(sm, SwapBlocks, O)  BY <1>0, <3>1
    <5>2. Block(a, s) \subseteq O[w] /\ O2[w] = O[w] \ Block(a, s) /\ w \in Users
      BY <3>4, <3>5, <4>1
    <5> QED  BY <5>1, <5>2, <3>3, <4>2, BlocksFreed
   <4> QED  BY <3>1, <3>6, <4>3, <2>4
  <3>7. CASE tt[t].count # 1
   <4>0. tt[t].count - 1 > 0  BY <3>7, <2>2
   <4>1. CopyBlocks(x.txt, t) = CopyBlocks(tt, t)
     BY <3>7, <4>0, <2>2, <2>6 DEF CopyBlocks, TextSize
   <4>2. \A v \in Users : O2[v] = O[v]  BY <3>3, <3>4, <4>1 DEF SameBut
   <4>3. Held(sm, SwapBlocks, O2)  BY <1>0, <3>1, <4>2, HeldSame, Zenon
   <4> QED  BY <3>1, <3>7, <4>3, <2>4
  <3> QED  BY <3>6, <3>7
 <2>13. Counted(pr2, x.txt, sc)
  <3>1. \A q \in Slots : q # p => /\ pr2[q].text = pr[q].text
                                  /\ HasIn(pr2[q], sc, q) <=> HasIn(pr[q], sc, q)
    BY <1>4
  <3>2. \A u \in Texts : pr2[p].text # u  BY <1>3, <1>4 DEF Texts, NoText
  <3>3. \A u \in Texts : pr[p].text = u <=> u = t  BY <1>1
  <3>4. \A u \in Texts : tt[u].count \in Nat /\ tt[u].ccount \in Nat  BY <1>0, Counts
  <3>5. \A u \in Texts : u = t => x.txt[u].count = tt[u].count - 1 /\ x.txt[u].ccount = tt[u].ccount - 1
    BY <2>6, <2>7
  <3>6. \A u \in Texts :
       /\ x.txt[u].count = tt[u].count + (IF pr2[p].text = u THEN 1 ELSE 0)
                                     - (IF pr[p].text = u THEN 1 ELSE 0)
       /\ x.txt[u].ccount =
            tt[u].ccount + (IF pr2[p].text = u /\ HasIn(pr2[p], sc, p) THEN 1 ELSE 0)
                         - (IF pr[p].text = u /\ HasIn(pr[p], sc, p) THEN 1 ELSE 0)
    BY <2>1, <2>4, <3>2, <3>3, <3>4, <3>5
  <3>7. CountMoves(pr, tt, sc, pr2, x.txt, sc, p)  BY <3>1, <3>6 DEF CountMoves
  <3> QED  BY <1>0, <3>7, CountStep
 <2>14. \A u \in Texts : TextOk(x.txt, u)
  <3> SUFFICES ASSUME NEW u \in Texts PROVE TextOk(x.txt, u)  OBVIOUS
  <3>0. TextOk(tt, u)  BY <1>0
  <3>1. CASE u # t  BY <3>0, <3>1, <2>4 DEF TextOk
  <3>2. CASE u = t /\ tt[t].count = 1  BY <3>2, <2>4, FreeTextRec DEF TextOk
  <3>3. CASE u = t /\ tt[t].count # 1
   <4>1. tt[t].count - 1 > 0 /\ tt[t].file # NoFile  BY <3>0, <3>3, <2>2 DEF TextOk
   <4> QED  BY <3>0, <3>3, <4>1, <2>6 DEF TextOk
  <3> QED  BY <3>1, <3>2, <3>3
 <2>15. SelOk(pr2, x.txt, sc)
  <3>1. sc.pc = "text" => pr2[sc.sel] = pr[sc.sel]  BY <1>6 DEF Moving
  <3> QED  BY <1>0, <1>6, <2>8, <3>1 DEF SelOk
 <2>16. Typed(pr2, x.txt, sc)  BY <1>0, <1>4, <2>4 DEF Typed
 <2> QED  BY <2>11, <2>12, <2>13, <2>14, <2>15, <2>16 DEF Tables
<1> QED  BY <1>7, <1>8

-----------------------------------------------------------------------------
(* One slot changes                                                        *)

\* Owners after one of them has changed
Put(O, w, S) == [O EXCEPT ![w] = S]

LEMMA PutFacts ==
  ASSUME NEW O, DOMAIN O = Users, NEW w \in Users, NEW S
  PROVE  SameBut(O, Put(O, w, S), w) /\ Put(O, w, S)[w] = S
  BY DEF SameBut, Put

LEMMA PutSame ==
  ASSUME NEW map, NEW hi, NEW O, DOMAIN O = Users, Held(map, hi, O), NEW w \in Users
  PROVE  Held(map, hi, Put(O, w, O[w]))
<1>1. PICK O2 : O2 = Put(O, w, O[w])  OBVIOUS
<1>2. \A v \in Users : O2[v] = O[v]  BY <1>1 DEF Put
<1> QED  BY <1>1, <1>2, HeldSame

LEMMA PutPut ==
  ASSUME NEW O, DOMAIN O = Users, NEW w \in Users, NEW S, NEW S2
  PROVE  /\ DOMAIN Put(O, w, S) = Users
         /\ Put(Put(O, w, S), w, S2) = Put(O, w, S2)
  BY Zenon DEF Put

LEMMA OwnersAre ==
  ASSUME NEW pr, NEW tt, NEW sc
  PROVE  DOMAIN MemOwner(pr, tt, sc) = Users /\ DOMAIN SwapOwner(pr, tt) = Users
  BY DEF MemOwner, SwapOwner

\* r2 has the text that slot p has, where p has it, and stays a candidate if Sched
\* brings it in.
Follows(pr, p, r2, sc) ==
    /\ r2.text = pr[p].text /\ (pr[p].text # NoText => (Inside(r2) <=> Inside(pr[p])))
    /\ Moving(sc) /\ sc.sel = p => IsSwapped(r2) /\ r2.size = pr[p].size

\* Slot p becomes r2, and the maps are right for that.
SlotMoves(pr, tt, sc, p, r2, pr2, mm2, sm2) ==
    /\ p \in Slots /\ r2 \in SlotRec /\ pr2 = [pr EXCEPT ![p] = r2]
    /\ Follows(pr, p, r2, sc)
    /\ Held(mm2, MemPages, Put(MemOwner(pr, tt, sc), p, ImageOf(r2)))
    /\ Held(sm2, SwapBlocks, Put(SwapOwner(pr, tt), p, SlotBlocks(r2)))

\* A slot whose text and place in the queue do not change may exchange what it owns.
LEMMA SlotStep ==
  ASSUME NEW mm, NEW sm, NEW pr, NEW tt, NEW sc, Tables(mm, sm, pr, tt, sc),
         NEW p, NEW r2, NEW pr2, NEW mm2, NEW sm2,
         SlotMoves(pr, tt, sc, p, r2, pr2, mm2, sm2)
  PROVE  Tables(mm2, sm2, pr2, tt, sc)
<1>0. /\ pr \in [Slots -> SlotRec] /\ tt \in [Texts -> TextRec] /\ sc \in SchedRec
      /\ Counted(pr, tt, sc) /\ SelOk(pr, tt, sc) /\ Typed(pr, tt, sc)
      /\ \A t \in Texts : TextOk(tt, t)
  BY DEF Tables, Typed
<1>m. /\ p \in Slots /\ r2 \in SlotRec /\ pr2 = [pr EXCEPT ![p] = r2]
      /\ Follows(pr, p, r2, sc)
      /\ Held(mm2, MemPages, Put(MemOwner(pr, tt, sc), p, ImageOf(r2)))
      /\ Held(sm2, SwapBlocks, Put(SwapOwner(pr, tt), p, SlotBlocks(r2)))
  BY DEF SlotMoves
<1>1. /\ pr2 \in [Slots -> SlotRec] /\ pr2[p] = r2
      /\ \A q \in Slots : q # p => pr2[q] = pr[q]
  BY <1>0, <1>m
<1>2. p \in Users  BY <1>m, UserNames
<1>3. Moving(sc) => /\ sc.sel \in Slots /\ pr2[sc.sel].size = pr[sc.sel].size
                    /\ pr2[sc.sel].text = pr[sc.sel].text /\ IsSwapped(pr2[sc.sel])
  BY <1>0, <1>1, <1>m DEF Follows, SelOk
<1>4. ComingPages(pr2, tt, sc) = ComingPages(pr, tt, sc)
 <2>1. Moving(sc) => ComingSize(pr2, tt, sc) = ComingSize(pr, tt, sc)  BY <1>3 DEF ComingSize
 <2> QED  BY <2>1 DEF ComingPages
<1>5. Held(mm2, MemPages, MemOwner(pr2, tt, sc))
 <2>1. PICK O, O1, O2 : /\ O = MemOwner(pr, tt, sc) /\ O2 = MemOwner(pr2, tt, sc)
                        /\ O1 = Put(O, p, ImageOf(r2))
   OBVIOUS
 <2>2. SameBut(O, O2, p)  BY <1>1, <1>4, <2>1, MemOwnerBut
 <2>m. MemOwner(pr2, tt, sc)[p] = ImageOf(pr2[p])
  <3>1. \A q \in Slots : MemOwner(pr2, tt, sc)[q] = ImageOf(pr2[q])  BY ONLY MemOwnerAt
  <3> QED  BY <1>m, <3>1, Zenon
 <2>3. O2[p] = ImageOf(r2)  BY <1>1, <2>1, <2>m
 <2>4. SameBut(O, O1, p) /\ O1[p] = ImageOf(r2)  BY <1>2, <2>1, PutFacts, OwnersAre
 <2>5. \A v \in Users : O2[v] = O1[v]  BY <2>2, <2>3, <2>4 DEF SameBut
 <2> QED  BY <1>m, <2>1, <2>5, HeldSame, Zenon
<1>6. Held(sm2, SwapBlocks, SwapOwner(pr2, tt))
 <2>1. PICK O, O1, O2 : /\ O = SwapOwner(pr, tt) /\ O2 = SwapOwner(pr2, tt)
                        /\ O1 = Put(O, p, SlotBlocks(r2))
   OBVIOUS
 <2>2. SameBut(O, O2, p)  BY <1>1, <2>1, SwapOwnerBut
 <2>m. SwapOwner(pr2, tt)[p] = SlotBlocks(pr2[p])
  <3>1. \A q \in Slots : SwapOwner(pr2, tt)[q] = SlotBlocks(pr2[q])  BY ONLY SwapOwnerAt
  <3> QED  BY <1>m, <3>1, Zenon
 <2>3. O2[p] = SlotBlocks(r2)  BY <1>1, <2>1, <2>m
 <2>4. SameBut(O, O1, p) /\ O1[p] = SlotBlocks(r2)  BY <1>2, <2>1, PutFacts, OwnersAre
 <2>5. \A v \in Users : O2[v] = O1[v]  BY <2>2, <2>3, <2>4 DEF SameBut
 <2> QED  BY <1>m, <2>1, <2>5, HeldSame, Zenon
<1>7. Counted(pr2, tt, sc)
 <2>1. \A q \in Slots : pr2[q].text = pr[q].text  BY <1>1, <1>m DEF Follows
 <2>2. \A q \in Slots : pr[q].text # NoText => (Inside(pr2[q]) <=> Inside(pr[q]))
   BY <1>1, <1>m DEF Follows
 <2>3. \A t \in Texts : UsersOf(pr2, t) = UsersOf(pr, t)  BY <2>1 DEF UsersOf
 <2>4. \A t \in Texts : CoreOf(pr2, sc, t) = CoreOf(pr, sc, t)
   BY <2>1, <2>2 DEF CoreOf, HasIn, Texts, NoText
 <2> QED  BY <1>0, <2>3, <2>4 DEF Counted
<1>8. SelOk(pr2, tt, sc)  BY <1>0, <1>3 DEF SelOk, Moving
<1> QED  BY <1>0, <1>1, <1>5, <1>6, <1>7, <1>8 DEF Tables, Typed

\* A slot changes nothing that the tables are about.
Alike(r, r2) ==
    /\ r2.text = r.text /\ (r.text # NoText => (Inside(r2) <=> Inside(r)))
    /\ ImageOf(r2) = ImageOf(r) /\ SlotBlocks(r2) = SlotBlocks(r)
    /\ IsSwapped(r) => IsSwapped(r2) /\ r2.size = r.size

TextAlike(e, e2) ==
    /\ e2.file = e.file /\ e2.count = e.count /\ e2.ccount = e.ccount
    /\ e2.caddr = e.caddr /\ e2.daddr = e.daddr

\* Fields that own and count nothing may change.
LEMMA TablesAlike ==
  ASSUME NEW mm, NEW sm, NEW pr, NEW tt, NEW sc, Tables(mm, sm, pr, tt, sc),
         NEW pr2 \in [Slots -> SlotRec], \A q \in Slots : Alike(pr[q], pr2[q]),
         NEW tt2 \in [Texts -> TextRec], \A t \in Texts : TextAlike(tt[t], tt2[t])
  PROVE  Tables(mm, sm, pr2, tt2, sc)
<1>0. /\ pr \in [Slots -> SlotRec] /\ tt \in [Texts -> TextRec] /\ sc \in SchedRec
      /\ Held(mm, MemPages, MemOwner(pr, tt, sc)) /\ Held(sm, SwapBlocks, SwapOwner(pr, tt))
      /\ Counted(pr, tt, sc) /\ SelOk(pr, tt, sc) /\ Typed(pr, tt, sc)
      /\ \A t \in Texts : TextOk(tt, t)
  BY DEF Tables, Typed
<1>1. Moving(sc) => /\ sc.sel \in Slots /\ pr2[sc.sel].size = pr[sc.sel].size
                    /\ pr2[sc.sel].text = pr[sc.sel].text /\ IsSwapped(pr2[sc.sel])
  BY <1>0 DEF Alike, SelOk
<1>2. sc.pc = "text" => pr[sc.sel].text \in Texts
 <2>1. sc.pc = "text" => sc.sel \in Slots /\ pr[sc.sel].text # NoText  BY <1>0 DEF SelOk, Moving
 <2> QED  BY <1>0, <2>1, SlotFields
<1>3. SelOk(pr2, tt2, sc)  BY <1>0, <1>1, <1>2 DEF SelOk, Moving, TextAlike
<1>4. ComingPages(pr2, tt2, sc) = ComingPages(pr, tt, sc)
 <2>1. Moving(sc) => ComingSize(pr2, tt2, sc) = ComingSize(pr, tt, sc)
   BY <1>1, <1>2 DEF ComingSize, TextSize, TextAlike
 <2> QED  BY <2>1 DEF ComingPages
<1>5. \A t \in Texts : TextPages(tt2, t) = TextPages(tt, t) /\ CopyBlocks(tt2, t) = CopyBlocks(tt, t)
  BY DEF TextPages, CopyBlocks, TextSize, TextAlike
<1>6. \A w \in Users : MemOwner(pr2, tt2, sc)[w] = MemOwner(pr, tt, sc)[w]
 <2>1. \A q \in Slots : ImageOf(pr2[q]) = ImageOf(pr[q])  BY DEF Alike
 <2>2. SameBut(MemOwner(pr, tt, sc), MemOwner(pr2, tt2, sc), -1)  BY <1>4, <1>5, <2>1, MemOwnerBut
 <2> QED  BY <2>2, Consts DEF SameBut, Users
<1>7. \A w \in Users : SwapOwner(pr2, tt2)[w] = SwapOwner(pr, tt)[w]
 <2>1. \A q \in Slots : SlotBlocks(pr2[q]) = SlotBlocks(pr[q])  BY DEF Alike
 <2>2. SameBut(SwapOwner(pr, tt), SwapOwner(pr2, tt2), -1)  BY <1>5, <2>1, SwapOwnerBut
 <2> QED  BY <2>2, Consts DEF SameBut, Users
<1>8. Held(mm, MemPages, MemOwner(pr2, tt2, sc)) /\ Held(sm, SwapBlocks, SwapOwner(pr2, tt2))
  BY <1>0, <1>6, <1>7, HeldSame
<1>9. Counted(pr2, tt2, sc)
 <2>1. \A q \in Slots : pr2[q].text = pr[q].text  BY DEF Alike
 <2>2. \A q \in Slots : pr[q].text # NoText => (Inside(pr2[q]) <=> Inside(pr[q]))  BY DEF Alike
 <2>3. \A t \in Texts : UsersOf(pr2, t) = UsersOf(pr, t)  BY <2>1 DEF UsersOf
 <2>4. \A t \in Texts : CoreOf(pr2, sc, t) = CoreOf(pr, sc, t)
   BY <2>1, <2>2 DEF CoreOf, HasIn, Texts, NoText
 <2> QED  BY <1>0, <2>3, <2>4 DEF Counted, TextAlike
<1>10. \A t \in Texts : TextOk(tt2, t)  BY <1>0 DEF TextOk, TextAlike
<1> QED  BY <1>0, <1>3, <1>8, <1>9, <1>10 DEF Tables, Typed

\* Sched is not bringing anybody in.
LEMMA TablesSched ==
  ASSUME NEW mm, NEW sm, NEW pr, NEW tt, NEW sc, Tables(mm, sm, pr, tt, sc),
         NEW sc2 \in SchedRec, ~Moving(sc), ~Moving(sc2)
  PROVE  Tables(mm, sm, pr, tt, sc2)
<1>1. ComingPages(pr, tt, sc2) = ComingPages(pr, tt, sc)  BY DEF ComingPages
<1>2. MemOwner(pr, tt, sc2) = MemOwner(pr, tt, sc)  BY <1>1 DEF MemOwner
<1>3. \A t \in Texts : CoreOf(pr, sc2, t) = CoreOf(pr, sc, t)  BY DEF CoreOf, HasIn, Moving
<1>4. Counted(pr, tt, sc2)  BY <1>3 DEF Tables, Counted
<1> QED  BY <1>2, <1>4 DEF Tables, Typed, SelOk

\* What is behind the first n half pages, n even, is whole pages.
LEMMA TailPages ==
  ASSUME NEW a \in Nat, NEW s \in Nat, NEW n \in Nat, a % 2 = 0, n % 2 = 0, n <= s
  PROVE  /\ (a + n) \div 2 = a \div 2 + Pages(n) /\ (a + n) % 2 = 0
         /\ Pages(s) = Pages(n) + Pages(s - n)
         /\ Pages(n) \in Nat /\ Pages(s - n) \in Nat /\ a \div 2 \in Nat
<1>1. PICK k \in Nat : n = 2 * k  BY HalfFacts
<1>2. PICK b \in Nat : a = 2 * b  BY HalfFacts
<1>3. (a + n) \div 2 = b + k /\ a \div 2 = b /\ (a + n) % 2 = 0  BY <1>1, <1>2
<1>4. Pages(n) = k  BY <1>1 DEF Pages
<1>5. PICK d \in Nat : s = n + d
 <2>1. s - n \in Nat /\ s = n + (s - n)  OBVIOUS
 <2> QED  BY <2>1
<1>6. (2 * k + d + 1) \div 2 = k + (d + 1) \div 2 /\ (d + 1) \div 2 \in Nat  OBVIOUS
<1>7. s - n = d /\ s + 1 = 2 * k + d + 1  BY <1>1, <1>5
<1> QED  BY <1>3, <1>4, <1>6, <1>7 DEF Pages

\* Blocks are cut in two.
LEMMA BlockSplit ==
  ASSUME NEW a \in Nat, NEW m \in Nat, NEW n \in Nat
  PROVE  /\ Block(a, m + n) = Block(a, m) \cup Block(a + m, n)
         /\ Block(a, m) \cap Block(a + m, n) = {}
         /\ Block(a, m + n) \ Block(a + m, n) = Block(a, m)
         /\ Block(a, m + n) \ Block(a, m) = Block(a + m, n)
<1>1. \A x : x \in Block(a, m + n) <=> x \in Int /\ a <= x /\ x < a + m + n  BY DEF Block
<1>2. \A x : x \in Block(a, m) <=> x \in Int /\ a <= x /\ x < a + m  BY DEF Block
<1>3. \A x : x \in Block(a + m, n) <=> x \in Int /\ a + m <= x /\ x < a + m + n  BY DEF Block
<1>4. \A x : x \in Block(a, m + n) <=> x \in Block(a, m) \/ x \in Block(a + m, n)
  BY <1>1, <1>2, <1>3
<1>5. \A x : ~(x \in Block(a, m) /\ x \in Block(a + m, n))  BY <1>2, <1>3
<1> HIDE DEF Block
<1> QED  BY <1>4, <1>5

LEMMA EmptyBlock ==
  ASSUME NEW a \in Nat
  PROVE  Block(a, 0) = {} /\ Pages(0) = 0
<1>1. Block(a, 0) = {}  BY DEF Block
<1>2. Pages(0) = 0  BY DEF Pages
<1> QED  BY <1>1, <1>2

\* The end of an image is given back.
ShrinksImage(mm, pr, p, n, r2, pr2, mm2) ==
    /\ pr[p].addr > 0 /\ pr[p].addr % 2 = 0 /\ n \in Nat /\ n % 2 = 0 /\ n < pr[p].held
    /\ r2.addr = pr[p].addr /\ r2.held = n /\ SlotBlocks(r2) = SlotBlocks(pr[p])
    /\ r2 \in SlotRec /\ pr2 = [pr EXCEPT ![p] = r2]
    /\ mm2 = FreeMemory(mm, pr[p].held - n, pr[p].addr + n)

\* Expand to less: the tail goes back.
LEMMA ShrinkImage ==
  ASSUME NEW mm, NEW sm, NEW pr, NEW tt, NEW sc, Tables(mm, sm, pr, tt, sc),
         NEW p \in Slots, NEW n, NEW r2, NEW pr2, NEW mm2,
         Follows(pr, p, r2, sc), ShrinksImage(mm, pr, p, n, r2, pr2, mm2)
  PROVE  Tables(mm2, sm, pr2, tt, sc)
<1> PICK r : r = pr[p]  OBVIOUS
<1> SUFFICES ASSUME r.addr > 0, r.addr % 2 = 0, n \in Nat, n % 2 = 0, n < r.held,
                    r2 \in SlotRec, r2.addr = r.addr, r2.held = n,
                    SlotBlocks(r2) = SlotBlocks(r), pr2 = [pr EXCEPT ![p] = r2],
                    mm2 = FreeMemory(mm, r.held - n, r.addr + n)
             PROVE  Tables(mm2, sm, pr2, tt, sc)
  BY DEF ShrinksImage
<1>0. /\ pr \in [Slots -> SlotRec]
      /\ Held(mm, MemPages, MemOwner(pr, tt, sc)) /\ Held(sm, SwapBlocks, SwapOwner(pr, tt))
  BY DEF Tables, Typed
<1>1. r \in SlotRec /\ r.addr \in Nat /\ r.held \in Nat  BY <1>0, SlotFields
<1>2. PICK a, s, d, O, O1, S :
        /\ a = r.addr + n /\ s = r.held /\ d = r.held - n
        /\ O = MemOwner(pr, tt, sc) /\ O1 = SwapOwner(pr, tt) /\ S = ImageOf(r2)
  BY Zenon
<1>3. /\ a \div 2 = r.addr \div 2 + Pages(n) /\ a % 2 = 0
      /\ Pages(s) = Pages(n) + Pages(d)
      /\ Pages(n) \in Nat /\ Pages(d) \in Nat /\ r.addr \div 2 \in Nat
 <2>1. a = r.addr + n /\ s \in Nat /\ n <= s /\ d = s - n  BY <1>1, <1>2
 <2> QED  BY <1>1, <2>1, TailPages
<1>4. p \in Users /\ DOMAIN O = Users /\ DOMAIN O1 = Users  BY <1>2, UserNames, OwnersAre
<1>5. O[p] = ImageOf(r) /\ O1[p] = SlotBlocks(r)
 <2>1. /\ \A q \in Slots : MemOwner(pr, tt, sc)[q] = ImageOf(pr[q])
       /\ \A q \in Slots : SwapOwner(pr, tt)[q] = SlotBlocks(pr[q])
   BY ONLY MemOwnerAt, SwapOwnerAt
 <2> QED  BY <1>2, <2>1
<1>6. ImageOf(r) = Block(r.addr \div 2, Pages(n) + Pages(d))  BY <1>2, <1>3 DEF ImageOf
<1>7. S = Block(r.addr \div 2, Pages(n))  BY <1>2 DEF ImageOf
<1>8. /\ Block(a \div 2, Pages(d)) \subseteq O[p] /\ S = O[p] \ Block(a \div 2, Pages(d))
  BY <1>3, <1>5, <1>6, <1>7, BlockSplit
<1>9. SameBut(O, Put(O, p, S), p) /\ Put(O, p, S)[p] = S  BY <1>4, PutFacts
<1>10. PICK O2 : O2 = Put(O, p, S)  OBVIOUS
<1>11. d \in Nat /\ d > 0 /\ a \in Nat /\ a > 0  BY <1>1, <1>2
<1>12. Held(FreeMemory(mm, d, a), MemPages, O2)
 <2>1. SameBut(O, O2, p) /\ O2[p] = O[p] \ Block(a \div 2, Pages(d)) /\ Held(mm, MemPages, O)
   BY <1>0, <1>2, <1>8, <1>9, <1>10, Zenon
 <2> QED  BY <1>3, <1>4, <1>8, <1>11, <2>1, MemoryFreed
<1>13. Held(sm, SwapBlocks, Put(O1, p, SlotBlocks(r2)))
 <2>1. Held(sm, SwapBlocks, Put(O1, p, O1[p]))  BY <1>0, <1>2, <1>4, PutSame
 <2> QED  BY <1>5, <2>1
<1>14. Held(mm2, MemPages, Put(MemOwner(pr, tt, sc), p, ImageOf(r2)))  BY <1>2, <1>10, <1>12
<1>15. Held(sm, SwapBlocks, Put(SwapOwner(pr, tt), p, SlotBlocks(r2)))  BY <1>2, <1>13
<1>16. SlotMoves(pr, tt, sc, p, r2, pr2, mm2, sm)  BY <1>14, <1>15 DEF SlotMoves
<1> QED  BY <1>16, SlotStep

\* The four operations on the maps, for the user who asks
LEMMA PutFreed ==
  ASSUME NEW mm, NEW O, DOMAIN O = Users, Held(mm, MemPages, O),
         NEW s \in Nat, s > 0, NEW a \in Nat, a > 0, a % 2 = 0,
         NEW w \in Users, Block(a \div 2, Pages(s)) \subseteq O[w]
  PROVE  Held(FreeMemory(mm, s, a), MemPages, Put(O, w, O[w] \ Block(a \div 2, Pages(s))))
<1>1. PICK O2 : O2 = Put(O, w, O[w] \ Block(a \div 2, Pages(s)))  OBVIOUS
<1>2. SameBut(O, O2, w) /\ O2[w] = O[w] \ Block(a \div 2, Pages(s))  BY <1>1, PutFacts
<1>3. Held(FreeMemory(mm, s, a), MemPages, O2)  BY <1>2, MemoryFreed
<1> QED  BY <1>1, <1>3

\* One owner takes, one owner drops.
LEMMA PutTaken ==
  ASSUME NEW mm, NEW O, DOMAIN O = Users, Held(mm, MemPages, O), NEW s \in Nat, s > 0,
         NEW at, at = AllocMemory(mm, s).at, at # 0, NEW w \in Users
  PROVE  /\ at \in Halves /\ at \in Nat /\ at > 0 /\ at % 2 = 0 /\ at <= 2 * MemPages
         /\ O[w] \cap Block(at \div 2, Pages(s)) = {}
         /\ Held(AllocMemory(mm, s).map, MemPages, Put(O, w, O[w] \cup Block(at \div 2, Pages(s))))
<1>1. PICK O2, m : /\ O2 = Put(O, w, O[w] \cup Block(at \div 2, Pages(s)))
                   /\ m = AllocMemory(mm, s).map
  OBVIOUS
<1>2. SameBut(O, O2, w) /\ O2[w] = O[w] \cup Block(at \div 2, Pages(s))  BY <1>1, PutFacts
<1>3. /\ at \in Nat /\ at % 2 = 0 /\ at \in Halves
      /\ at > 0 /\ at \div 2 + Pages(s) - 1 <= MemPages
      /\ \A v \in Users : O[v] \cap Block(at \div 2, Pages(s)) = {}
      /\ \A v \in Users : \A O3 :
            SameBut(O, O3, v) /\ O3[v] = O[v] \cup Block(at \div 2, Pages(s))
              => Held(m, MemPages, O3)
  BY <1>1, MemoryTaken
<1>4. Pages(s) > 0 /\ Pages(s) \in Nat  BY PagesFacts
<1>5. at <= 2 * MemPages
 <2>1. at \div 2 \in Nat /\ 2 * (at \div 2) = at /\ MemPages \in Nat  BY <1>3, HalfFacts, Consts
 <2> QED  BY <1>3, <1>4, <2>1
<1>6. Held(m, MemPages, O2)  BY <1>2, <1>3
<1> QED  BY <1>1, <1>3, <1>5, <1>6

LEMMA PutDropped ==
  ASSUME NEW sm, NEW O, DOMAIN O = Users, Held(sm, SwapBlocks, O),
         NEW s \in Nat, s > 0, NEW a \in Nat, a > 0,
         NEW w \in Users, Block(a, s) \subseteq O[w]
  PROVE  Held(Free(sm, s, a), SwapBlocks, Put(O, w, O[w] \ Block(a, s)))
<1>1. PICK O2 : O2 = Put(O, w, O[w] \ Block(a, s))  OBVIOUS
<1>2. SameBut(O, O2, w) /\ O2[w] = O[w] \ Block(a, s)  BY <1>1, PutFacts
<1>3. Held(Free(sm, s, a), SwapBlocks, O2)  BY <1>2, BlocksFreed
<1> QED  BY <1>1, <1>3

LEMMA PutKept ==
  ASSUME NEW sm, NEW O, DOMAIN O = Users, Held(sm, SwapBlocks, O), NEW s \in Nat, s > 0,
         NEW b, b = Alloc(sm, s).at, b # 0, NEW w \in Users
  PROVE  /\ b \in 0..SwapBlocks /\ b > 0 /\ O[w] \cap Block(b, s) = {}
         /\ Held(Alloc(sm, s).map, SwapBlocks, Put(O, w, O[w] \cup Block(b, s)))
<1>1. PICK O2, m : O2 = Put(O, w, O[w] \cup Block(b, s)) /\ m = Alloc(sm, s).map  OBVIOUS
<1>2. SameBut(O, O2, w) /\ O2[w] = O[w] \cup Block(b, s)  BY <1>1, PutFacts
<1>3. /\ b \in 0..SwapBlocks /\ b > 0
      /\ \A v \in Users : O[v] \cap Block(b, s) = {}
      /\ \A v \in Users : \A O3 :
            SameBut(O, O3, v) /\ O3[v] = O[v] \cup Block(b, s) => Held(m, SwapBlocks, O3)
  BY <1>1, BlocksTaken
<1>4. Held(m, SwapBlocks, O2)  BY <1>2, <1>3
<1> QED  BY <1>1, <1>3, <1>4

\* What a slot has
LEMMA SlotHas ==
  ASSUME NEW mm, NEW sm, NEW pr, NEW tt, NEW sc, Tables(mm, sm, pr, tt, sc),
         NEW p \in Slots, NEW O, O = MemOwner(pr, tt, sc), NEW O1, O1 = SwapOwner(pr, tt)
  PROVE  /\ Held(mm, MemPages, O) /\ DOMAIN O = Users /\ O[p] = ImageOf(pr[p])
         /\ Held(sm, SwapBlocks, O1) /\ DOMAIN O1 = Users /\ O1[p] = SlotBlocks(pr[p])
         /\ p \in Users /\ pr[p] \in SlotRec
         /\ Held(mm, MemPages, Put(O, p, ImageOf(pr[p])))
         /\ Held(sm, SwapBlocks, Put(O1, p, SlotBlocks(pr[p])))
<1>1. Held(mm, MemPages, O) /\ Held(sm, SwapBlocks, O1)  BY DEF Tables
<1>2. p \in Users  BY UserNames
<1>3. DOMAIN O = Users /\ DOMAIN O1 = Users  BY OwnersAre
<1>4. O[p] = ImageOf(pr[p]) /\ O1[p] = SlotBlocks(pr[p])
 <2>1. /\ \A q \in Slots : MemOwner(pr, tt, sc)[q] = ImageOf(pr[q])
       /\ \A q \in Slots : SwapOwner(pr, tt)[q] = SlotBlocks(pr[q])
   BY ONLY MemOwnerAt, SwapOwnerAt
 <2> QED  BY <2>1
<1>5. /\ Held(mm, MemPages, Put(O, p, O[p])) /\ Held(sm, SwapBlocks, Put(O1, p, O1[p]))
  BY <1>1, <1>2, <1>3, PutSame
<1>6. pr[p] \in SlotRec  BY DEF Tables, Typed
<1> QED  BY <1>1, <1>2, <1>3, <1>4, <1>5, <1>6

\* An image moves to new pages: the old ones are given back.
MovesImage(mm, pr, p, n, r2, pr2, mm2) ==
    /\ pr[p].addr > 0 /\ pr[p].addr % 2 = 0 /\ pr[p].held > 0
    /\ n \in Nat /\ n > 0 /\ AllocMemory(mm, n).at # 0
    /\ r2.addr = AllocMemory(mm, n).at /\ r2.held = n /\ SlotBlocks(r2) = SlotBlocks(pr[p])
    /\ r2 \in SlotRec /\ pr2 = [pr EXCEPT ![p] = r2]
    /\ mm2 = FreeMemory(AllocMemory(mm, n).map, pr[p].held, pr[p].addr)

\* Expand in memory: the image moves.
LEMMA MoveImage ==
  ASSUME NEW mm, NEW sm, NEW pr, NEW tt, NEW sc, Tables(mm, sm, pr, tt, sc),
         NEW p \in Slots, NEW n, NEW r2, NEW pr2, NEW mm2,
         Follows(pr, p, r2, sc), MovesImage(mm, pr, p, n, r2, pr2, mm2)
  PROVE  Tables(mm2, sm, pr2, tt, sc)
<1>1. PICK O, O1, r, at, m, s, a : /\ O = MemOwner(pr, tt, sc) /\ O1 = SwapOwner(pr, tt) /\ r = pr[p]
                             /\ at = AllocMemory(mm, n).at /\ m = AllocMemory(mm, n).map
                             /\ s = r.held /\ a = r.addr
  OBVIOUS
<1>2. /\ Held(mm, MemPages, O) /\ DOMAIN O = Users /\ O[p] = ImageOf(r)
      /\ p \in Users /\ r \in SlotRec /\ Held(sm, SwapBlocks, Put(O1, p, SlotBlocks(r)))
  BY <1>1, SlotHas
<1>3. /\ n \in Nat /\ n > 0 /\ at # 0 /\ r2.addr = at /\ r2.held = n
      /\ SlotBlocks(r2) = SlotBlocks(r) /\ r2 \in SlotRec /\ pr2 = [pr EXCEPT ![p] = r2]
      /\ mm2 = FreeMemory(m, s, a) /\ a > 0 /\ a % 2 = 0 /\ s > 0
  BY <1>1 DEF MovesImage
<1>4. s \in Nat /\ a \in Nat  BY <1>1, <1>2, SlotFields
<1>5. PICK O2 : O2 = Put(O, p, O[p] \cup Block(at \div 2, Pages(n)))  OBVIOUS
<1>6. /\ O[p] \cap Block(at \div 2, Pages(n)) = {} /\ Held(m, MemPages, O2)
  BY <1>1, <1>2, <1>3, <1>5, PutTaken
<1>7. DOMAIN O2 = Users /\ O2[p] = O[p] \cup Block(at \div 2, Pages(n))
  BY <1>2, <1>5, PutFacts, PutPut
<1>8. O[p] = Block(a \div 2, Pages(s)) /\ ImageOf(r2) = Block(at \div 2, Pages(n))
  BY <1>1, <1>2, <1>3 DEF ImageOf
<1>9. Held(FreeMemory(m, s, a), MemPages, Put(O2, p, O2[p] \ Block(a \div 2, Pages(s))))
 <2>1. Block(a \div 2, Pages(s)) \subseteq O2[p]  BY <1>7, <1>8
 <2> QED  BY <1>2, <1>3, <1>4, <1>6, <1>7, <2>1, PutFreed
<1>10. O2[p] \ Block(a \div 2, Pages(s)) = ImageOf(r2)  BY <1>6, <1>7, <1>8
<1>11. Put(O2, p, ImageOf(r2)) = Put(O, p, ImageOf(r2))  BY <1>2, <1>5, PutPut
<1>12. Held(mm2, MemPages, Put(O, p, ImageOf(r2)))  BY <1>3, <1>9, <1>10, <1>11
<1>13. SlotMoves(pr, tt, sc, p, r2, pr2, mm2, sm)  BY <1>1, <1>2, <1>3, <1>12 DEF SlotMoves
<1> QED  BY <1>13, SlotStep

\* A slot that has no image gets one.
GivesImage(mm, pr, p, n, r2, pr2, mm2) ==
    /\ ImageOf(pr[p]) = {} /\ n \in Nat /\ n > 0 /\ AllocMemory(mm, n).at # 0
    /\ r2.addr = AllocMemory(mm, n).at /\ r2.held = n /\ SlotBlocks(r2) = SlotBlocks(pr[p])
    /\ r2 \in SlotRec /\ pr2 = [pr EXCEPT ![p] = r2] /\ mm2 = AllocMemory(mm, n).map

\* A slot without an image gets one.
LEMMA GiveImage ==
  ASSUME NEW mm, NEW sm, NEW pr, NEW tt, NEW sc, Tables(mm, sm, pr, tt, sc),
         NEW p \in Slots, NEW n, NEW r2, NEW pr2, NEW mm2,
         Follows(pr, p, r2, sc), GivesImage(mm, pr, p, n, r2, pr2, mm2)
  PROVE  Tables(mm2, sm, pr2, tt, sc)
<1>1. PICK O, O1, r, at : /\ O = MemOwner(pr, tt, sc) /\ O1 = SwapOwner(pr, tt) /\ r = pr[p]
                          /\ at = AllocMemory(mm, n).at
  OBVIOUS
<1>2. /\ Held(mm, MemPages, O) /\ DOMAIN O = Users /\ O[p] = ImageOf(r)
      /\ p \in Users /\ Held(sm, SwapBlocks, Put(O1, p, SlotBlocks(r)))
  BY <1>1, SlotHas
<1>3. /\ n \in Nat /\ n > 0 /\ at # 0 /\ r2.addr = at /\ r2.held = n /\ ImageOf(r) = {}
      /\ SlotBlocks(r2) = SlotBlocks(r) /\ r2 \in SlotRec /\ pr2 = [pr EXCEPT ![p] = r2]
      /\ mm2 = AllocMemory(mm, n).map
  BY <1>1 DEF GivesImage
<1>4. Held(mm2, MemPages, Put(O, p, O[p] \cup Block(at \div 2, Pages(n))))
  BY <1>1, <1>2, <1>3, PutTaken
<1>5. O[p] \cup Block(at \div 2, Pages(n)) = ImageOf(r2)  BY <1>2, <1>3 DEF ImageOf
<1>6. Held(mm2, MemPages, Put(O, p, ImageOf(r2)))  BY <1>4, <1>5
<1>7. SlotMoves(pr, tt, sc, p, r2, pr2, mm2, sm)  BY <1>1, <1>2, <1>3, <1>6 DEF SlotMoves
<1> QED  BY <1>7, SlotStep

\* A slot gives its image up.
DropsImage(mm, pr, p, r2, pr2, mm2) ==
    /\ pr[p].addr > 0 /\ pr[p].addr % 2 = 0 /\ pr[p].held > 0
    /\ ImageOf(r2) = {} /\ SlotBlocks(r2) = SlotBlocks(pr[p])
    /\ r2 \in SlotRec /\ pr2 = [pr EXCEPT ![p] = r2]
    /\ mm2 = FreeMemory(mm, pr[p].held, pr[p].addr)

\* A slot gives its image up.
LEMMA DropImage ==
  ASSUME NEW mm, NEW sm, NEW pr, NEW tt, NEW sc, Tables(mm, sm, pr, tt, sc),
         NEW p \in Slots, NEW r2, NEW pr2, NEW mm2,
         Follows(pr, p, r2, sc), DropsImage(mm, pr, p, r2, pr2, mm2)
  PROVE  Tables(mm2, sm, pr2, tt, sc)
<1>1. PICK O, O1, r, s, a : /\ O = MemOwner(pr, tt, sc) /\ O1 = SwapOwner(pr, tt) /\ r = pr[p]
                            /\ s = r.held /\ a = r.addr
  OBVIOUS
<1>2. /\ Held(mm, MemPages, O) /\ DOMAIN O = Users /\ O[p] = ImageOf(r)
      /\ p \in Users /\ r \in SlotRec /\ Held(sm, SwapBlocks, Put(O1, p, SlotBlocks(r)))
  BY <1>1, SlotHas
<1>3. /\ ImageOf(r2) = {} /\ SlotBlocks(r2) = SlotBlocks(r)
      /\ r2 \in SlotRec /\ pr2 = [pr EXCEPT ![p] = r2]
      /\ mm2 = FreeMemory(mm, s, a) /\ a > 0 /\ a % 2 = 0 /\ s > 0
  BY <1>1 DEF DropsImage
<1>4. s \in Nat /\ a \in Nat  BY <1>1, <1>2, SlotFields
<1>5. O[p] = Block(a \div 2, Pages(s))  BY <1>1, <1>2 DEF ImageOf
<1>6. Held(mm2, MemPages, Put(O, p, O[p] \ Block(a \div 2, Pages(s))))
  BY <1>2, <1>3, <1>4, <1>5, PutFreed
<1>7. Held(mm2, MemPages, Put(O, p, ImageOf(r2)))  BY <1>3, <1>5, <1>6, Zenon
<1>8. SlotMoves(pr, tt, sc, p, r2, pr2, mm2, sm)  BY <1>1, <1>2, <1>3, <1>7 DEF SlotMoves
<1> QED  BY <1>8, SlotStep

\* A slot takes one block of the swap area.
TakesBlock(sm, pr, p, r2, pr2, sm2) ==
    /\ Alloc(sm, 1).at # 0 /\ SlotBlocks(pr[p]) = {} /\ ImageOf(r2) = ImageOf(pr[p])
    /\ SlotBlocks(r2) = Block(Alloc(sm, 1).at, 1)
    /\ r2 \in SlotRec /\ pr2 = [pr EXCEPT ![p] = r2] /\ sm2 = Alloc(sm, 1).map

\* A slot takes blocks of the swap area.
LEMMA TakeBlock ==
  ASSUME NEW mm, NEW sm, NEW pr, NEW tt, NEW sc, Tables(mm, sm, pr, tt, sc),
         NEW p \in Slots, NEW r2, NEW pr2, NEW sm2,
         Follows(pr, p, r2, sc), TakesBlock(sm, pr, p, r2, pr2, sm2)
  PROVE  Tables(mm, sm2, pr2, tt, sc)
<1>1. PICK O, O1, r, s, b : /\ O = MemOwner(pr, tt, sc) /\ O1 = SwapOwner(pr, tt) /\ r = pr[p]
                            /\ s = 1 /\ b = Alloc(sm, 1).at
  OBVIOUS
<1>2. /\ Held(sm, SwapBlocks, O1) /\ DOMAIN O1 = Users /\ O1[p] = SlotBlocks(r)
      /\ p \in Users /\ Held(mm, MemPages, Put(O, p, ImageOf(r)))
  BY <1>1, SlotHas
<1>3. /\ b # 0 /\ SlotBlocks(r) = {} /\ ImageOf(r2) = ImageOf(r) /\ SlotBlocks(r2) = Block(b, s)
      /\ r2 \in SlotRec /\ pr2 = [pr EXCEPT ![p] = r2] /\ sm2 = Alloc(sm, s).map
      /\ b = Alloc(sm, s).at
  BY <1>1 DEF TakesBlock
<1>4. s \in Nat /\ s > 0  BY <1>1
<1>5. Held(sm2, SwapBlocks, Put(O1, p, O1[p] \cup Block(b, s)))  BY <1>2, <1>3, <1>4, PutKept
<1>6. Held(sm2, SwapBlocks, Put(O1, p, SlotBlocks(r2)))  BY <1>2, <1>3, <1>5
<1>7. SlotMoves(pr, tt, sc, p, r2, pr2, mm, sm2)  BY <1>1, <1>2, <1>3, <1>6 DEF SlotMoves
<1> QED  BY <1>7, SlotStep

\* A slot gives the block that it has back.
DropsBlock(sm, pr, p, b, r2, pr2, sm2) ==
    /\ b \in Nat /\ b > 0 /\ SlotBlocks(pr[p]) = Block(b, 1) /\ ImageOf(r2) = ImageOf(pr[p])
    /\ SlotBlocks(r2) = {}
    /\ r2 \in SlotRec /\ pr2 = [pr EXCEPT ![p] = r2] /\ sm2 = Free(sm, 1, b)

\* A slot gives blocks back.
LEMMA DropBlock ==
  ASSUME NEW mm, NEW sm, NEW pr, NEW tt, NEW sc, Tables(mm, sm, pr, tt, sc),
         NEW p \in Slots, NEW b, NEW r2, NEW pr2, NEW sm2,
         Follows(pr, p, r2, sc), DropsBlock(sm, pr, p, b, r2, pr2, sm2)
  PROVE  Tables(mm, sm2, pr2, tt, sc)
<1>1. PICK O, O1, r, s : /\ O = MemOwner(pr, tt, sc) /\ O1 = SwapOwner(pr, tt) /\ r = pr[p]
                         /\ s = 1
  OBVIOUS
<1>2. /\ Held(sm, SwapBlocks, O1) /\ DOMAIN O1 = Users /\ O1[p] = SlotBlocks(r)
      /\ p \in Users /\ Held(mm, MemPages, Put(O, p, ImageOf(r)))
  BY <1>1, SlotHas
<1>3. /\ b \in Nat /\ b > 0 /\ SlotBlocks(r) = Block(b, s) /\ ImageOf(r2) = ImageOf(r)
      /\ SlotBlocks(r2) = {} /\ r2 \in SlotRec /\ pr2 = [pr EXCEPT ![p] = r2]
      /\ sm2 = Free(sm, s, b)
  BY <1>1 DEF DropsBlock
<1>4. s \in Nat /\ s > 0  BY <1>1
<1>5. Held(sm2, SwapBlocks, Put(O1, p, O1[p] \ Block(b, s)))  BY <1>2, <1>3, <1>4, PutDropped
<1>6. Held(sm2, SwapBlocks, Put(O1, p, SlotBlocks(r2)))  BY <1>2, <1>3, <1>5
<1>7. SlotMoves(pr, tt, sc, p, r2, pr2, mm, sm2)  BY <1>1, <1>2, <1>3, <1>6 DEF SlotMoves
<1> QED  BY <1>7, SlotStep

-----------------------------------------------------------------------------
(* A slot gets a text, or leaves memory                                    *)

GetsText(pr, sc, p, t, r2, pr2) ==
    /\ pr[p].text = NoText /\ ImageOf(r2) = ImageOf(pr[p]) /\ SlotBlocks(r2) = SlotBlocks(pr[p])
    /\ r2.text = t /\ Inside(r2) /\ (Moving(sc) => sc.sel # p)
    /\ r2 \in SlotRec /\ pr2 = [pr EXCEPT ![p] = r2]

OneMore(tt, t, tt2) ==
    /\ \A u \in Texts : u # t => tt2[u] = tt[u]
    /\ tt2[t].count = tt[t].count + 1 /\ tt2[t].ccount = tt[t].ccount + 1

\* What a slot's text and place change in the counts.
LEMMA GetsTextCounts ==
  ASSUME NEW pr, NEW tt, NEW sc, Typed(pr, tt, sc), Counted(pr, tt, sc),
         NEW p \in Slots, NEW t \in Texts, NEW r2, NEW pr2, GetsText(pr, sc, p, t, r2, pr2),
         NEW tt2, OneMore(tt, t, tt2)
  PROVE  Counted(pr2, tt2, sc)
<1>1. /\ pr \in [Slots -> SlotRec] /\ pr[p].text = NoText /\ r2.text = t /\ Inside(r2)
      /\ pr2 = [pr EXCEPT ![p] = r2]
  BY DEF Typed, GetsText
<1>2. pr2[p] = r2 /\ \A q \in Slots : q # p => pr2[q] = pr[q]  BY <1>1
<1>3. HasIn(pr2[p], sc, p)  BY <1>1, <1>2 DEF HasIn
<1>4. \A u \in Texts : tt[u].count \in Nat /\ tt[u].ccount \in Nat  BY Counts
<1>5. \A u \in Texts : pr[p].text # u /\ (pr2[p].text = u <=> u = t)
  BY <1>1, <1>2 DEF Texts, NoText
<1>6. \A u \in Texts :
         /\ tt2[u].count = tt[u].count + (IF pr2[p].text = u THEN 1 ELSE 0)
                                       - (IF pr[p].text = u THEN 1 ELSE 0)
         /\ tt2[u].ccount =
              tt[u].ccount + (IF pr2[p].text = u /\ HasIn(pr2[p], sc, p) THEN 1 ELSE 0)
                           - (IF pr[p].text = u /\ HasIn(pr[p], sc, p) THEN 1 ELSE 0)
 <2> SUFFICES ASSUME NEW u \in Texts
         PROVE  /\ tt2[u].count = tt[u].count + (IF pr2[p].text = u THEN 1 ELSE 0)
                                              - (IF pr[p].text = u THEN 1 ELSE 0)
                /\ tt2[u].ccount =
                     tt[u].ccount + (IF pr2[p].text = u /\ HasIn(pr2[p], sc, p) THEN 1 ELSE 0)
                                  - (IF pr[p].text = u /\ HasIn(pr[p], sc, p) THEN 1 ELSE 0)
   OBVIOUS
 <2>1. CASE u = t  BY <1>3, <1>4, <1>5, <2>1 DEF OneMore
 <2>2. CASE u # t  BY <1>4, <1>5, <2>2 DEF OneMore
 <2> QED  BY <2>1, <2>2
<1>7. CountMoves(pr, tt, sc, pr2, tt2, sc, p)  BY <1>2, <1>6 DEF CountMoves
<1> QED  BY <1>7, CountStep

\* Exec: a text that is there gets one more user.
LEMMA JoinText ==
  ASSUME NEW mm, NEW sm, NEW pr, NEW tt, NEW sc, Tables(mm, sm, pr, tt, sc),
         NEW p \in Slots, NEW t \in Texts, tt[t].ccount > 0, NEW r2, NEW pr2,
         GetsText(pr, sc, p, t, r2, pr2),
         NEW tt2, tt2 = [tt EXCEPT ![t].count = @ + 1, ![t].ccount = @ + 1]
  PROVE  Tables(mm, sm, pr2, tt2, sc)
<1>0. /\ pr \in [Slots -> SlotRec] /\ tt \in [Texts -> TextRec] /\ sc \in SchedRec
      /\ Held(mm, MemPages, MemOwner(pr, tt, sc)) /\ Held(sm, SwapBlocks, SwapOwner(pr, tt))
      /\ Counted(pr, tt, sc) /\ SelOk(pr, tt, sc) /\ Typed(pr, tt, sc)
      /\ \A u \in Texts : TextOk(tt, u)
  BY DEF Tables, Typed
<1>m. /\ pr[p].text = NoText /\ ImageOf(r2) = ImageOf(pr[p]) /\ SlotBlocks(r2) = SlotBlocks(pr[p])
      /\ r2.text = t /\ Inside(r2) /\ (Moving(sc) => sc.sel # p)
      /\ r2 \in SlotRec /\ pr2 = [pr EXCEPT ![p] = r2]
  BY DEF GetsText
<1>1. /\ pr2 \in [Slots -> SlotRec] /\ pr2[p] = r2 /\ \A q \in Slots : q # p => pr2[q] = pr[q]
  BY <1>0, <1>m
<1>2. PICK e : e = [tt[t] EXCEPT !.count = @ + 1, !.ccount = @ + 1]  OBVIOUS
<1>3. tt[t] \in TextRec  BY <1>0
<1>4. tt[t].count \in Nat /\ tt[t].ccount \in Nat  BY <1>3 DEF TextRec
<1>5. tt[t].count > 0 /\ tt[t].file # NoFile
 <2>1. TextOk(tt, t) /\ (tt[t].count > 0 \/ tt[t].ccount > 0 \/ tt[t].file # NoFile)  BY <1>0
 <2>2. tt[t].file \in Files /\ tt[t].count > 0  BY <1>0, <2>1, TextSizes
 <2> QED  BY <2>2, Consts
<1>a. tt[t].count + 1 \in Nat /\ tt[t].ccount + 1 \in Nat  BY <1>4
<1>6. /\ e \in TextRec /\ e.count = tt[t].count + 1 /\ e.ccount = tt[t].ccount + 1
      /\ e.file = tt[t].file /\ e.caddr = tt[t].caddr /\ e.daddr = tt[t].daddr
  BY <1>2, <1>3, <1>a, Zenon DEF TextRec
<1>7. tt2 = [tt EXCEPT ![t] = e]  BY <1>2, <1>3, Zenon
<1>8. tt2 \in [Texts -> TextRec] /\ tt2[t] = e /\ \A u \in Texts : u # t => tt2[u] = tt[u]
  BY <1>0, <1>6, <1>7, Zenon
<1>9. \A u \in Texts : TextPages(tt2, u) = TextPages(tt, u) /\ CopyBlocks(tt2, u) = CopyBlocks(tt, u)
 <2> SUFFICES ASSUME NEW u \in Texts
              PROVE  TextPages(tt2, u) = TextPages(tt, u) /\ CopyBlocks(tt2, u) = CopyBlocks(tt, u)
   BY Zenon
 <2>1. CASE u # t  BY <2>1, <1>8 DEF TextPages, CopyBlocks, TextSize
 <2>2. CASE u = t
  <3>1. e.count > 0 /\ e.ccount > 0  BY <1>4, <1>6
  <3> QED  BY <2>2, <3>1, <1>5, <1>6, <1>8 DEF TextPages, CopyBlocks, TextSize
 <2> QED  BY <2>1, <2>2
<1>10. Moving(sc) => sc.sel \in Slots /\ pr2[sc.sel] = pr[sc.sel]  BY <1>0, <1>1, <1>m DEF SelOk
<1>11. sc.pc = "text" => tt2[pr[sc.sel].text] = tt[pr[sc.sel].text] /\ pr[sc.sel].text \in Texts
 <2> SUFFICES ASSUME sc.pc = "text"
              PROVE  tt2[pr[sc.sel].text] = tt[pr[sc.sel].text] /\ pr[sc.sel].text \in Texts
   OBVIOUS
 <2>1. /\ sc.sel \in Slots /\ pr[sc.sel].text # NoText /\ tt[pr[sc.sel].text].ccount = 0
   BY <1>0 DEF SelOk, Moving
 <2>2. pr[sc.sel].text \in Texts  BY <1>0, <2>1, SlotFields
 <2>3. pr[sc.sel].text # t  BY <2>1, <1>4
 <2> QED  BY <1>8, <2>2, <2>3
<1>12. ComingPages(pr2, tt2, sc) = ComingPages(pr, tt, sc)
 <2>1. KeepsComing(pr, tt, sc, pr2, tt2)  BY <1>10, <1>11 DEF KeepsComing
 <2> QED  BY <2>1, ComingSame
<1>13. /\ \A q \in Slots : ImageOf(pr2[q]) = ImageOf(pr[q])
       /\ \A q \in Slots : SlotBlocks(pr2[q]) = SlotBlocks(pr[q])
  BY <1>1, <1>m
<1>w. \A w \in Users : w # -1  BY Consts DEF Users
<1>14. Held(mm, MemPages, MemOwner(pr2, tt2, sc))
 <2>1. SameBut(MemOwner(pr, tt, sc), MemOwner(pr2, tt2, sc), -1)
   BY <1>9, <1>12, <1>13, MemOwnerBut, Zenon
 <2>2. \A w \in Users : MemOwner(pr2, tt2, sc)[w] = MemOwner(pr, tt, sc)[w]
   BY <2>1, <1>w, Zenon DEF SameBut
 <2> QED  BY <1>0, <2>2, HeldSame, Zenon
<1>15. Held(sm, SwapBlocks, SwapOwner(pr2, tt2))
 <2>1. SameBut(SwapOwner(pr, tt), SwapOwner(pr2, tt2), -1)  BY <1>9, <1>13, SwapOwnerBut, Zenon
 <2>2. \A w \in Users : SwapOwner(pr2, tt2)[w] = SwapOwner(pr, tt)[w]
   BY <2>1, <1>w, Zenon DEF SameBut
 <2> QED  BY <1>0, <2>2, HeldSame, Zenon
<1>16. Counted(pr2, tt2, sc)
 <2>1. OneMore(tt, t, tt2)  BY <1>6, <1>8 DEF OneMore
 <2> QED  BY <1>0, <2>1, GetsTextCounts
<1>17. \A u \in Texts : TextOk(tt2, u)
 <2> SUFFICES ASSUME NEW u \in Texts PROVE TextOk(tt2, u)  BY Zenon
 <2>0. TextOk(tt, u)  BY <1>0
 <2>1. CASE u # t  BY <2>0, <2>1, <1>8 DEF TextOk
 <2>2. CASE u = t
  <3>1. e.count > 0  BY <1>4, <1>6
  <3> QED  BY <2>0, <2>2, <3>1, <1>5, <1>6, <1>8 DEF TextOk
 <2> QED  BY <2>1, <2>2
<1>18. SelOk(pr2, tt2, sc)
 <2>1. sc.pc = "text" => pr2[sc.sel] = pr[sc.sel]  BY <1>10 DEF Moving
 <2> QED  BY <1>0, <1>10, <1>11, <2>1 DEF SelOk
<1> QED  BY <1>0, <1>1, <1>8, <1>14, <1>15, <1>16, <1>17, <1>18, Zenon DEF Tables, Typed

\* A text nobody had is made for slot p: its pages and its copy's blocks.
Makes(mm, sm, tt, t, f, tt2, mm2, sm2) ==
    /\ t \in Texts /\ f \in Files /\ tt[t].file = NoFile
    /\ AllocMemory(mm, TextOf[f]).at # 0 /\ Alloc(sm, TextOf[f]).at # 0
    /\ tt2 = [tt EXCEPT ![t] = [FreeText EXCEPT !.file = f, !.count = 1, !.ccount = 1,
                 !.caddr = AllocMemory(mm, TextOf[f]).at, !.daddr = Alloc(sm, TextOf[f]).at]]
    /\ mm2 = AllocMemory(mm, TextOf[f]).map /\ sm2 = Alloc(sm, TextOf[f]).map

\* Exec: a new text gets memory, a copy and its first user.
LEMMA MakeText ==
  ASSUME NEW mm, NEW sm, NEW pr, NEW tt, NEW sc, Tables(mm, sm, pr, tt, sc),
         NEW p \in Slots, NEW t, NEW r2, NEW pr2, GetsText(pr, sc, p, t, r2, pr2),
         NEW f, NEW tt2, NEW mm2, NEW sm2, Makes(mm, sm, tt, t, f, tt2, mm2, sm2)
  PROVE  Tables(mm2, sm2, pr2, tt2, sc)
<1>0. /\ pr \in [Slots -> SlotRec] /\ tt \in [Texts -> TextRec] /\ sc \in SchedRec
      /\ Held(mm, MemPages, MemOwner(pr, tt, sc)) /\ Held(sm, SwapBlocks, SwapOwner(pr, tt))
      /\ Counted(pr, tt, sc) /\ SelOk(pr, tt, sc) /\ Typed(pr, tt, sc)
      /\ \A u \in Texts : TextOk(tt, u)
  BY DEF Tables, Typed
<1>m. /\ pr[p].text = NoText /\ ImageOf(r2) = ImageOf(pr[p]) /\ SlotBlocks(r2) = SlotBlocks(pr[p])
      /\ r2.text = t /\ Inside(r2) /\ (Moving(sc) => sc.sel # p)
      /\ r2 \in SlotRec /\ pr2 = [pr EXCEPT ![p] = r2]
  BY DEF GetsText
<1>n. PICK a, b, s, O, O1, w :
        /\ s = TextOf[f] /\ a = AllocMemory(mm, s).at /\ b = Alloc(sm, s).at
        /\ O = MemOwner(pr, tt, sc) /\ O1 = SwapOwner(pr, tt) /\ w = N + t
  OBVIOUS
<1>k. /\ t \in Texts /\ f \in Files /\ tt[t].file = NoFile /\ a # 0 /\ b # 0
      /\ mm2 = AllocMemory(mm, s).map /\ sm2 = Alloc(sm, s).map
  BY <1>n DEF Makes
<1>1. /\ pr2 \in [Slots -> SlotRec] /\ pr2[p] = r2 /\ \A q \in Slots : q # p => pr2[q] = pr[q]
  BY <1>0, <1>m
<1>2. PICK e : e = [FreeText EXCEPT !.file = f, !.count = 1, !.ccount = 1, !.caddr = a, !.daddr = b]
  OBVIOUS
<1>3. s \in Nat /\ s > 0 /\ f # NoFile  BY <1>k, <1>n, Consts
<1>4. w \in Users /\ DOMAIN O = Users /\ DOMAIN O1 = Users  BY <1>k, <1>n, UserNames, OwnersAre
<1>5. /\ a \in Halves /\ a \in Nat /\ a > 0 /\ a % 2 = 0
      /\ Held(mm2, MemPages, Put(O, w, O[w] \cup Block(a \div 2, Pages(s))))
  BY <1>0, <1>3, <1>4, <1>k, <1>n, PutTaken, Zenon
<1>6. /\ b \in 0..SwapBlocks /\ b > 0
      /\ Held(sm2, SwapBlocks, Put(O1, w, O1[w] \cup Block(b, s)))
  BY <1>0, <1>3, <1>4, <1>k, <1>n, PutKept, Zenon
<1>7. /\ e \in TextRec /\ e.count = 1 /\ e.ccount = 1
      /\ e.file = f /\ e.caddr = a /\ e.daddr = b
  BY <1>2, <1>5, <1>6, <1>k, Zenon DEF TextRec, FreeText
<1>8. tt2 = [tt EXCEPT ![t] = e]  BY <1>2, <1>n DEF Makes
<1>9. tt2 \in [Texts -> TextRec] /\ tt2[t] = e /\ \A u \in Texts : u # t => tt2[u] = tt[u]
  BY <1>0, <1>7, <1>8, <1>k
<1>10. tt[t].count = 0 /\ tt[t].ccount = 0  BY <1>0, <1>k DEF TextOk
<1>11. \A u \in Texts : u # t =>
          TextPages(tt2, u) = TextPages(tt, u) /\ CopyBlocks(tt2, u) = CopyBlocks(tt, u)
  BY <1>9 DEF TextPages, CopyBlocks, TextSize
<1>12. TextPages(tt, t) = {} /\ CopyBlocks(tt, t) = {}  BY <1>10 DEF TextPages, CopyBlocks
<1>13. TextPages(tt2, t) = Block(a \div 2, Pages(s)) /\ CopyBlocks(tt2, t) = Block(b, s)
  BY <1>7, <1>9, <1>n DEF TextPages, CopyBlocks, TextSize
<1>14. Moving(sc) => sc.sel \in Slots /\ pr2[sc.sel] = pr[sc.sel]  BY <1>0, <1>1, <1>m DEF SelOk
<1>15. sc.pc = "text" => tt2[pr[sc.sel].text] = tt[pr[sc.sel].text] /\ pr[sc.sel].text \in Texts
 <2> SUFFICES ASSUME sc.pc = "text"
              PROVE  tt2[pr[sc.sel].text] = tt[pr[sc.sel].text] /\ pr[sc.sel].text \in Texts
   OBVIOUS
 <2>1. /\ sc.sel \in Slots /\ pr[sc.sel].text # NoText /\ tt[pr[sc.sel].text].file \in Files
   BY <1>0 DEF SelOk, Moving
 <2>2. pr[sc.sel].text \in Texts  BY <1>0, <2>1, SlotFields
 <2>3. pr[sc.sel].text # t  BY <2>1, <1>k, Consts
 <2> QED  BY <1>9, <2>2, <2>3
<1>16. ComingPages(pr2, tt2, sc) = ComingPages(pr, tt, sc)
 <2>1. KeepsComing(pr, tt, sc, pr2, tt2)  BY <1>14, <1>15 DEF KeepsComing
 <2> QED  BY <2>1, ComingSame
<1>17. /\ \A q \in Slots : ImageOf(pr2[q]) = ImageOf(pr[q])
       /\ \A q \in Slots : SlotBlocks(pr2[q]) = SlotBlocks(pr[q])
  BY <1>1, <1>m
<1>18. \A u \in Texts : N + u # w => u # t  BY <1>n
<1>19. Held(mm2, MemPages, MemOwner(pr2, tt2, sc))
 <2>1. PICK O2, S : O2 = MemOwner(pr2, tt2, sc) /\ S = O[w] \cup Block(a \div 2, Pages(s))  BY Zenon
 <2>2. SameBut(O, O2, w)  BY <1>11, <1>16, <1>17, <1>18, <1>n, <2>1, MemOwnerBut
 <2>3. \A u \in Texts : MemOwner(pr, tt, sc)[N + u] = TextPages(tt, u)
                     /\ MemOwner(pr2, tt2, sc)[N + u] = TextPages(tt2, u)
   BY ONLY MemOwnerAt
 <2>4. O[w] = TextPages(tt, t) /\ O2[w] = TextPages(tt2, t)  BY <1>k, <1>n, <2>1, <2>3
 <2>5. SameBut(O, Put(O, w, S), w) /\ Put(O, w, S)[w] = S  BY <1>4, PutFacts
 <2>6. \A v \in Users : O2[v] = Put(O, w, S)[v]  BY <1>12, <1>13, <2>1, <2>2, <2>4, <2>5 DEF SameBut
 <2>7. Held(mm2, MemPages, Put(O, w, S))  BY <1>5, <2>1
 <2> QED  BY <2>1, <2>6, <2>7, HeldSame
<1>20. Held(sm2, SwapBlocks, SwapOwner(pr2, tt2))
 <2>1. PICK O2, S : O2 = SwapOwner(pr2, tt2) /\ S = O1[w] \cup Block(b, s)  BY Zenon
 <2>2. SameBut(O1, O2, w)  BY <1>11, <1>17, <1>18, <1>n, <2>1, SwapOwnerBut
 <2>3. \A u \in Texts : SwapOwner(pr, tt)[N + u] = CopyBlocks(tt, u)
                     /\ SwapOwner(pr2, tt2)[N + u] = CopyBlocks(tt2, u)
   BY ONLY SwapOwnerAt
 <2>4. O1[w] = CopyBlocks(tt, t) /\ O2[w] = CopyBlocks(tt2, t)  BY <1>k, <1>n, <2>1, <2>3
 <2>5. SameBut(O1, Put(O1, w, S), w) /\ Put(O1, w, S)[w] = S  BY <1>4, PutFacts
 <2>6. \A v \in Users : O2[v] = Put(O1, w, S)[v]
   BY <1>12, <1>13, <2>1, <2>2, <2>4, <2>5 DEF SameBut
 <2>7. Held(sm2, SwapBlocks, Put(O1, w, S))  BY <1>6, <2>1
 <2> QED  BY <2>1, <2>6, <2>7, HeldSame
<1>21. Counted(pr2, tt2, sc)
 <2>1. OneMore(tt, t, tt2)  BY <1>7, <1>9, <1>10 DEF OneMore
 <2> QED  BY <1>0, <1>k, <2>1, GetsTextCounts
<1>22. \A u \in Texts : TextOk(tt2, u)
 <2> SUFFICES ASSUME NEW u \in Texts PROVE TextOk(tt2, u)  OBVIOUS
 <2>0. TextOk(tt, u)  BY <1>0
 <2>1. CASE u # t  BY <2>0, <2>1, <1>9 DEF TextOk
 <2>2. CASE u = t  BY <2>2, <1>3, <1>5, <1>6, <1>7, <1>9 DEF TextOk
 <2> QED  BY <2>1, <2>2
<1>23. SelOk(pr2, tt2, sc)
 <2>1. sc.pc = "text" => pr2[sc.sel] = pr[sc.sel]  BY <1>14 DEF Moving
 <2> QED  BY <1>0, <1>14, <1>15, <2>1 DEF SelOk
<1> QED  BY <1>0, <1>1, <1>9, <1>19, <1>20, <1>21, <1>22, <1>23 DEF Tables, Typed

\* A slot begins to leave memory: blocks for its image, its text dropped.
Leaves(mm, sm, pr, tt, sc, q, r2, pr2, b, d) ==
    /\ q \in Slots /\ Inside(pr[q]) /\ SlotBlocks(pr[q]) = {} /\ pr[q].size > 0
    /\ (Moving(sc) => sc.sel # q)
    /\ b = Alloc(sm, pr[q].size) /\ b.at # 0 /\ d = XccDec(pr[q].text, tt, mm)
    /\ r2.text = pr[q].text /\ ~Inside(r2) /\ ImageOf(r2) = ImageOf(pr[q])
    /\ SlotBlocks(r2) = Block(b.at, pr[q].size)
    /\ r2 \in SlotRec /\ pr2 = [pr EXCEPT ![q] = r2]

\* XSwap: blocks are taken, the text in memory is given up.
LEMMA LeaveMemory ==
  ASSUME NEW mm, NEW sm, NEW pr, NEW tt, NEW sc, Tables(mm, sm, pr, tt, sc),
         NEW q, NEW r2, NEW pr2, NEW b, NEW d, Leaves(mm, sm, pr, tt, sc, q, r2, pr2, b, d)
  PROVE  Tables(d.mm, b.map, pr2, d.txt, sc)
<1>0. /\ pr \in [Slots -> SlotRec] /\ tt \in [Texts -> TextRec] /\ sc \in SchedRec
      /\ Held(mm, MemPages, MemOwner(pr, tt, sc)) /\ Held(sm, SwapBlocks, SwapOwner(pr, tt))
      /\ Counted(pr, tt, sc) /\ SelOk(pr, tt, sc) /\ Typed(pr, tt, sc)
      /\ \A u \in Texts : TextOk(tt, u)
  BY DEF Tables, Typed
<1>m. /\ q \in Slots /\ Inside(pr[q]) /\ SlotBlocks(pr[q]) = {} /\ pr[q].size > 0
      /\ (Moving(sc) => sc.sel # q)
      /\ b = Alloc(sm, pr[q].size) /\ b.at # 0 /\ d = XccDec(pr[q].text, tt, mm)
      /\ r2.text = pr[q].text /\ ~Inside(r2) /\ ImageOf(r2) = ImageOf(pr[q])
      /\ SlotBlocks(r2) = Block(b.at, pr[q].size)
      /\ r2 \in SlotRec /\ pr2 = [pr EXCEPT ![q] = r2]
  BY DEF Leaves
<1>1. /\ pr2 \in [Slots -> SlotRec] /\ pr2[q] = r2 /\ \A v \in Slots : v # q => pr2[v] = pr[v]
  BY <1>0, <1>m
<1>2. PICK t, s, at, O1, S : /\ t = pr[q].text /\ s = pr[q].size /\ at = b.at
                         /\ O1 = SwapOwner(pr, tt) /\ S = Block(at, s)
  OBVIOUS
<1>3. s \in Nat /\ s > 0 /\ t \in 0..NText /\ (t # NoText => t \in Texts)
  BY <1>0, <1>m, <1>2, SlotFields
<1>4. \A v \in Slots : ImageOf(pr2[v]) = ImageOf(pr[v])  BY <1>1, <1>m
<1>5. Moving(sc) => sc.sel # q /\ sc.sel \in Slots /\ pr2[sc.sel] = pr[sc.sel]
  BY <1>0, <1>1, <1>m DEF SelOk
<1>6. q \in Users /\ DOMAIN O1 = Users  BY <1>m, <1>2, UserNames, OwnersAre
<1>7. Held(b.map, SwapBlocks, Put(O1, q, O1[q] \cup Block(at, s)))
 <2>1. at = Alloc(sm, s).at /\ at # 0 /\ Held(sm, SwapBlocks, O1)  BY <1>0, <1>m, <1>2
 <2>2. Held(Alloc(sm, s).map, SwapBlocks, Put(O1, q, O1[q] \cup Block(at, s)))
   BY <1>3, <1>6, <2>1, PutKept
 <2> QED  BY <1>m, <1>2, <2>2
<1>8. ASSUME NEW tt2, \A u \in Texts : tt2[u].count = tt[u].count /\ tt2[u].file = tt[u].file
                                    /\ tt2[u].daddr = tt[u].daddr
      PROVE  Held(b.map, SwapBlocks, SwapOwner(pr2, tt2))
 <2>1. PICK O2 : O2 = SwapOwner(pr2, tt2)  OBVIOUS
 <2>2. \A u \in Texts : CopyBlocks(tt2, u) = CopyBlocks(tt, u)  BY <1>8 DEF CopyBlocks, TextSize
 <2>3. \A v \in Slots : v # q => SlotBlocks(pr2[v]) = SlotBlocks(pr[v])  BY <1>1
 <2>4. SameBut(O1, O2, q)  BY <1>2, <2>1, <2>2, <2>3, SwapOwnerBut
 <2>5. \A v \in Slots : SwapOwner(pr2, tt2)[v] = SlotBlocks(pr2[v])
                     /\ SwapOwner(pr, tt)[v] = SlotBlocks(pr[v])
   BY ONLY SwapOwnerAt
 <2>6. O2[q] = S /\ O1[q] = {}  BY <1>1, <1>2, <1>m, <2>1, <2>5, Zenon
 <2>7. SameBut(O1, Put(O1, q, S), q) /\ Put(O1, q, S)[q] = S  BY <1>6, PutFacts
 <2>8. \A v \in Users : O2[v] = Put(O1, q, S)[v]  BY <2>4, <2>6, <2>7 DEF SameBut
 <2>9. Held(b.map, SwapBlocks, Put(O1, q, S))
  <3>1. O1[q] \cup Block(at, s) = S  BY <1>2, <2>6
  <3> QED  BY <1>7, <3>1
 <2> QED  BY <2>1, <2>8, <2>9, HeldSame
<1>9. \A v \in Slots : v # q => /\ pr2[v].text = pr[v].text
                                /\ HasIn(pr2[v], sc, v) <=> HasIn(pr[v], sc, v)
  BY <1>1
<1>10. HasIn(pr[q], sc, q) /\ ~HasIn(pr2[q], sc, q)  BY <1>1, <1>m DEF HasIn, Moving
<1>11. CASE t = NoText
 <2>1. d.mm = mm /\ d.txt = tt  BY <1>m, <1>2, <1>11 DEF XccDec
 <2>2. KeepsComing(pr, tt, sc, pr2, tt)  BY <1>5 DEF KeepsComing
 <2>3. ComingPages(pr2, tt, sc) = ComingPages(pr, tt, sc)  BY <2>2, ComingSame
 <2>4. Held(mm, MemPages, MemOwner(pr2, tt, sc))
  <3>1. SameBut(MemOwner(pr, tt, sc), MemOwner(pr2, tt, sc), -1)  BY <1>4, <2>3, MemOwnerBut
  <3>2. \A w \in Users : w # -1  BY Consts DEF Users
  <3>3. \A w \in Users : MemOwner(pr2, tt, sc)[w] = MemOwner(pr, tt, sc)[w]
    BY <3>1, <3>2 DEF SameBut
  <3> QED  BY <1>0, <3>3, HeldSame
 <2>5. Held(b.map, SwapBlocks, SwapOwner(pr2, tt))  BY <1>8
 <2>6. Counted(pr2, tt, sc)
  <3>1. \A u \in Texts : pr[q].text # u /\ pr2[q].text # u
    BY <1>1, <1>2, <1>m, <1>11 DEF Texts, NoText
  <3>2. \A u \in Texts : tt[u].count \in Nat /\ tt[u].ccount \in Nat  BY <1>0, Counts
  <3>3. CountMoves(pr, tt, sc, pr2, tt, sc, q)  BY <1>9, <3>1, <3>2 DEF CountMoves
  <3> QED  BY <1>0, <1>m, <3>3, CountStep
 <2>7. SelOk(pr2, tt, sc)  BY <1>0, <1>5 DEF SelOk, Moving
 <2> QED  BY <1>0, <1>1, <2>1, <2>4, <2>5, <2>6, <2>7 DEF Tables, Typed
<1>12. CASE t # NoText
 <2>0. t \in Texts  BY <1>3, <1>12
 <2>1. tt[t].count \in Nat /\ tt[t].ccount \in Nat /\ tt[t].count >= 1 /\ tt[t].ccount >= 1
   BY <1>0, <1>2, <1>m, <1>10, <2>0, Counts
 <2>2. /\ d.txt \in [Texts -> TextRec]
       /\ \A u \in Texts : u # t => d.txt[u] = tt[u]
       /\ \A u \in Texts : /\ d.txt[u].file = tt[u].file /\ d.txt[u].count = tt[u].count
                           /\ d.txt[u].caddr = tt[u].caddr /\ d.txt[u].daddr = tt[u].daddr
                           /\ d.txt[u].saved = tt[u].saved
       /\ d.txt[t].ccount = tt[t].ccount - 1
  <3>1. tt[t].ccount > 0 /\ d = XccDec(t, tt, mm)  BY <1>2, <1>m, <2>1
  <3> QED  BY <1>0, <2>0, <3>1, XccDecEffect
 <2>3. sc.pc = "text" => /\ d.txt[pr[sc.sel].text] = tt[pr[sc.sel].text]
                         /\ pr[sc.sel].text \in Texts
  <3> SUFFICES ASSUME sc.pc = "text"
               PROVE  d.txt[pr[sc.sel].text] = tt[pr[sc.sel].text] /\ pr[sc.sel].text \in Texts
    OBVIOUS
  <3>1. /\ sc.sel \in Slots /\ pr[sc.sel].text # NoText /\ tt[pr[sc.sel].text].ccount = 0
    BY <1>0 DEF SelOk, Moving
  <3>2. pr[sc.sel].text \in Texts  BY <1>0, <3>1, SlotFields
  <3> QED  BY <2>1, <2>2, <3>1, <3>2
 <2>4. ComingPages(pr2, d.txt, sc) = ComingPages(pr, tt, sc)
  <3>1. KeepsComing(pr, tt, sc, pr2, d.txt)  BY <1>5, <2>3 DEF KeepsComing
  <3> QED  BY <3>1, ComingSame
 <2>5. Held(d.mm, MemPages, MemOwner(pr2, d.txt, sc))
  <3>1. tt[t].ccount > 0 /\ TextOk(tt, t) /\ d = XccDec(t, tt, mm)  BY <1>0, <1>2, <1>m, <2>0, <2>1
  <3>2. \A u \in Texts : TextPages(d.txt, u) = TextPages(d.txt, u)  OBVIOUS
  <3> QED  BY <1>0, <1>4, <2>0, <2>4, <3>1, <3>2, XccDecHeld
 <2>6. Held(b.map, SwapBlocks, SwapOwner(pr2, d.txt))  BY <1>8, <2>2
 <2>7. Counted(pr2, d.txt, sc)
  <3>1. \A u \in Texts : (pr[q].text = u <=> u = t) /\ (pr2[q].text = u <=> u = t)
    BY <1>1, <1>2, <1>m
  <3>2. \A u \in Texts : tt[u].count \in Nat /\ tt[u].ccount \in Nat  BY <1>0, Counts
  <3>3. \A u \in Texts :
       /\ d.txt[u].count = tt[u].count + (IF pr2[q].text = u THEN 1 ELSE 0)
                                     - (IF pr[q].text = u THEN 1 ELSE 0)
       /\ d.txt[u].ccount =
            tt[u].ccount + (IF pr2[q].text = u /\ HasIn(pr2[q], sc, q) THEN 1 ELSE 0)
                         - (IF pr[q].text = u /\ HasIn(pr[q], sc, q) THEN 1 ELSE 0)
    BY <1>10, <2>2, <3>1, <3>2
  <3>4. CountMoves(pr, tt, sc, pr2, d.txt, sc, q)  BY <1>9, <3>3 DEF CountMoves
  <3> QED  BY <1>0, <1>m, <3>4, CountStep
 <2>8. \A u \in Texts : TextOk(d.txt, u)
  <3> SUFFICES ASSUME NEW u \in Texts PROVE TextOk(d.txt, u)  OBVIOUS
  <3>0. TextOk(tt, u)  BY <1>0
  <3>1. CASE u # t  BY <3>0, <3>1, <2>2 DEF TextOk
  <3>2. CASE u = t
   <4>1. tt[t].file # NoFile  BY <3>0, <3>2, <2>1 DEF TextOk
   <4> QED  BY <3>0, <3>2, <4>1, <2>2 DEF TextOk
  <3> QED  BY <3>1, <3>2
 <2>9. SelOk(pr2, d.txt, sc)
  <3>1. sc.pc = "text" => pr2[sc.sel] = pr[sc.sel]  BY <1>5 DEF Moving
  <3> QED  BY <1>0, <1>5, <2>3, <3>1 DEF SelOk
 <2> QED  BY <1>0, <1>1, <2>2, <2>5, <2>6, <2>7, <2>8, <2>9 DEF Tables, Typed
<1> QED  BY <1>11, <1>12

-----------------------------------------------------------------------------
(* What Sched does                                                         *)

\* The tables without what the maps are about, and the users of the maps
LEMMA TablesAre ==
  ASSUME NEW mm, NEW sm, NEW pr, NEW tt, NEW sc, Tables(mm, sm, pr, tt, sc)
  PROVE  /\ pr \in [Slots -> SlotRec] /\ tt \in [Texts -> TextRec] /\ sc \in SchedRec
         /\ Held(mm, MemPages, MemOwner(pr, tt, sc)) /\ Held(sm, SwapBlocks, SwapOwner(pr, tt))
         /\ Counted(pr, tt, sc) /\ SelOk(pr, tt, sc) /\ Typed(pr, tt, sc)
         /\ \A u \in Texts : TextOk(tt, u)
         /\ \A p \in Slots : pr[p] \in SlotRec
         /\ \A u \in Texts : tt[u] \in TextRec /\ tt[u].count \in Nat /\ tt[u].ccount \in Nat
                          /\ tt[u].file \in Files \cup {NoFile}
<1>1. \A u \in Texts : tt[u] \in TextRec  BY DEF Tables, Typed
<1>2. \A u \in Texts : tt[u].count \in Nat /\ tt[u].ccount \in Nat /\ tt[u].file \in Files \cup {NoFile}
  BY <1>1 DEF TextRec
<1> QED  BY <1>1, <1>2 DEF Tables, Typed

StartsIn(mm, pr, tt, sc, c, t, out, n, tt2, sc2, mm2) ==
    /\ c \in Slots /\ IsSwapped(pr[c]) /\ ~Moving(sc) /\ pr[c].size > 0
    /\ t = pr[c].text /\ out \in BOOLEAN /\ (out <=> t # NoText /\ tt[t].ccount = 0)
    /\ n = pr[c].size + (IF out THEN TextSize(tt, t) ELSE 0)
    /\ AllocMemory(mm, n).at # 0 /\ mm2 = AllocMemory(mm, n).map
    /\ sc2 = [pc |-> IF out THEN "text" ELSE "data", sel |-> c, des |-> AllocMemory(mm, n).at]
    /\ tt2 = IF out \/ t = NoText THEN tt ELSE [tt EXCEPT ![t].ccount = @ + 1]

\* Sched: memory for an image, and perhaps its text, is taken.
LEMMA StartIn ==
  ASSUME NEW mm, NEW sm, NEW pr, NEW tt, NEW sc, Tables(mm, sm, pr, tt, sc),
         NEW c, NEW t, NEW out, NEW n, NEW tt2, NEW sc2, NEW mm2,
         StartsIn(mm, pr, tt, sc, c, t, out, n, tt2, sc2, mm2)
  PROVE  Tables(mm2, sm, pr, tt2, sc2)
<1>0. /\ pr \in [Slots -> SlotRec] /\ tt \in [Texts -> TextRec] /\ sc \in SchedRec
      /\ Held(mm, MemPages, MemOwner(pr, tt, sc)) /\ Held(sm, SwapBlocks, SwapOwner(pr, tt))
      /\ Counted(pr, tt, sc) /\ SelOk(pr, tt, sc) /\ Typed(pr, tt, sc)
      /\ \A u \in Texts : TextOk(tt, u)
      /\ \A u \in Texts : tt[u] \in TextRec /\ tt[u].count \in Nat /\ tt[u].ccount \in Nat
  BY TablesAre
<1>m. /\ c \in Slots /\ IsSwapped(pr[c]) /\ ~Moving(sc) /\ pr[c].size > 0
      /\ t = pr[c].text /\ out \in BOOLEAN /\ (out <=> t # NoText /\ tt[t].ccount = 0)
      /\ n = pr[c].size + (IF out THEN TextSize(tt, t) ELSE 0)
      /\ AllocMemory(mm, n).at # 0 /\ mm2 = AllocMemory(mm, n).map
      /\ sc2 = [pc |-> IF out THEN "text" ELSE "data", sel |-> c, des |-> AllocMemory(mm, n).at]
      /\ tt2 = IF out \/ t = NoText THEN tt ELSE [tt EXCEPT ![t].ccount = @ + 1]
  BY DEF StartsIn
<1>1. PICK a, O, S : a = AllocMemory(mm, n).at /\ O = MemOwner(pr, tt, sc)
                     /\ S = Block(a \div 2, Pages(n))
  OBVIOUS
<1>2. pr[c].size \in Nat /\ (t # NoText => t \in Texts)  BY <1>0, <1>m, SlotFields
<1>3. t # NoText => /\ tt[t].file \in Files /\ TextSize(tt, t) \in Nat /\ TextSize(tt, t) > 0
                    /\ tt[t].count >= 1
 <2> SUFFICES ASSUME t # NoText
              PROVE  /\ tt[t].file \in Files /\ TextSize(tt, t) \in Nat /\ TextSize(tt, t) > 0
                     /\ tt[t].count >= 1
   OBVIOUS
 <2>1. tt[t].count >= 1  BY <1>0, <1>2, <1>m, Counts
 <2>2. tt[t].count > 0 /\ t \in Texts /\ TextOk(tt, t)  BY <1>0, <1>2, <2>1
 <2> QED  BY <1>0, <2>1, <2>2, TextSizes
<1>4. n \in Nat /\ n > 0  BY <1>2, <1>3, <1>m
<1>5. 0 \in Users /\ DOMAIN O = Users  BY <1>1, UserNames, OwnersAre
<1>6. /\ a \in Halves /\ a \in Nat /\ a > 0 /\ a % 2 = 0
      /\ Held(mm2, MemPages, Put(O, 0, O[0] \cup S))
  BY <1>0, <1>1, <1>4, <1>5, <1>m, PutTaken
<1>7. /\ sc2 \in SchedRec /\ Moving(sc2) /\ sc2.sel = c /\ sc2.des = a
      /\ sc2.pc = (IF out THEN "text" ELSE "data")
  BY <1>1, <1>6, <1>m DEF SchedRec, Moving, Slots
<1>8. /\ tt2 \in [Texts -> TextRec]
      /\ \A u \in Texts : tt2[u].count = tt[u].count /\ tt2[u].file = tt[u].file
            /\ tt2[u].caddr = tt[u].caddr /\ tt2[u].daddr = tt[u].daddr
            /\ tt2[u].ccount = tt[u].ccount + (IF u = t /\ ~out THEN 1 ELSE 0)
            /\ tt2[u].good = tt[u].good /\ tt2[u].saved = tt[u].saved
 <2>1. CASE out \/ t = NoText
  <3>1. tt2 = tt  BY <1>m, <2>1
  <3>2. \A u \in Texts : ~(u = t /\ ~out)  BY <2>1 DEF Texts, NoText
  <3> QED  BY <1>0, <3>1, <3>2
 <2>2. CASE ~(out \/ t = NoText)
  <3>1. tt2 = [tt EXCEPT ![t].ccount = @ + 1] /\ t \in Texts  BY <1>2, <1>m, <2>2
  <3>2. PICK e : e = [tt[t] EXCEPT !.ccount = @ + 1]  BY Zenon
  <3>3. tt[t].ccount + 1 \in Nat /\ tt[t] \in TextRec  BY <1>0, <3>1
  <3>4. /\ e \in TextRec /\ e.count = tt[t].count /\ e.ccount = tt[t].ccount + 1
        /\ e.file = tt[t].file /\ e.caddr = tt[t].caddr /\ e.daddr = tt[t].daddr
        /\ e.good = tt[t].good /\ e.saved = tt[t].saved
    BY <3>2, <3>3 DEF TextRec
  <3>5. tt2 = [tt EXCEPT ![t] = e]  BY <3>1, <3>2
  <3>6. tt2 \in [Texts -> TextRec] /\ tt2[t] = e /\ \A u \in Texts : u # t => tt2[u] = tt[u]
    BY <1>0, <3>1, <3>4, <3>5
  <3>7. \A u \in Texts : u # t => tt2[u].ccount = tt[u].ccount + 0  BY <1>0, <3>6
  <3> QED  BY <2>2, <3>1, <3>4, <3>6, <3>7
 <2> QED  BY <2>1, <2>2
<1>9. \A u \in Texts : TextPages(tt2, u) = TextPages(tt, u) /\ CopyBlocks(tt2, u) = CopyBlocks(tt, u)
 <2> SUFFICES ASSUME NEW u \in Texts
              PROVE  TextPages(tt2, u) = TextPages(tt, u) /\ CopyBlocks(tt2, u) = CopyBlocks(tt, u)
   OBVIOUS
 <2>1. tt2[u].ccount > 0 <=> tt[u].ccount > 0
  <3>1. CASE u = t /\ ~out
   <4>1. tt[u].ccount # 0 /\ tt[u].ccount \in Nat  BY <1>0, <1>m, <3>1 DEF Texts, NoText
   <4>2. tt2[u].ccount = tt[u].ccount + 1  BY <1>8, <3>1
   <4> QED  BY <4>1, <4>2
  <3>2. CASE ~(u = t /\ ~out)  BY <1>0, <1>8, <3>2
  <3> QED  BY <3>1, <3>2
 <2> QED  BY <1>8, <2>1 DEF TextPages, CopyBlocks, TextSize
<1>10. ComingPages(pr, tt2, sc2) = S /\ ComingPages(pr, tt, sc) = {}
 <2>1. ComingSize(pr, tt2, sc2) = n
  <3>1. CASE out
   <4>1. TextSize(tt2, t) = TextSize(tt, t)  BY <1>2, <1>8, <1>m, <3>1, Zenon DEF TextSize
   <4> QED  BY <1>7, <1>m, <3>1, <4>1 DEF ComingSize
  <3>2. CASE ~out  BY <1>7, <1>m, <3>2 DEF ComingSize
  <3> QED  BY <3>1, <3>2
 <2> QED  BY <1>1, <1>7, <1>m, <2>1 DEF ComingPages
<1>11. Held(mm2, MemPages, MemOwner(pr, tt2, sc2))
 <2>1. PICK O2 : O2 = MemOwner(pr, tt2, sc2)  OBVIOUS
 <2>2. SameBut(O, O2, 0)  BY <1>1, <1>9, <2>1, MemOwnerBut
 <2>3. O[0] = {} /\ O2[0] = S  BY <1>1, <1>10, <2>1, MemOwnerAt
 <2>4. SameBut(O, Put(O, 0, S), 0) /\ Put(O, 0, S)[0] = S  BY <1>5, PutFacts
 <2>5. \A v \in Users : O2[v] = Put(O, 0, S)[v]  BY <2>2, <2>3, <2>4 DEF SameBut
 <2>6. Held(mm2, MemPages, Put(O, 0, S))
  <3>1. O[0] \cup S = S  BY <2>3
  <3> QED  BY <1>6, <3>1, Zenon
 <2> QED  BY <2>1, <2>5, <2>6, HeldSame
<1>12. Held(sm, SwapBlocks, SwapOwner(pr, tt2))
 <2>1. SameBut(SwapOwner(pr, tt), SwapOwner(pr, tt2), -1)  BY <1>9, SwapOwnerBut
 <2>2. \A w \in Users : w # -1  BY Consts DEF Users
 <2>3. \A w \in Users : SwapOwner(pr, tt2)[w] = SwapOwner(pr, tt)[w]  BY <2>1, <2>2 DEF SameBut
 <2> QED  BY <1>0, <2>3, HeldSame
<1>13. Counted(pr, tt2, sc2)
 <2>1. \A q \in Slots : q # c => /\ pr[q].text = pr[q].text
                                 /\ HasIn(pr[q], sc2, q) <=> HasIn(pr[q], sc, q)
   BY <1>7, <1>m DEF HasIn, Moving
 <2>2. ~HasIn(pr[c], sc, c)  BY <1>m DEF HasIn, Inside, IsSwapped, Moving
 <2>3. HasIn(pr[c], sc2, c) <=> ~out
  <3>1. ~Inside(pr[c])  BY <1>m DEF Inside, IsSwapped
  <3> QED  BY <1>7, <1>m, <3>1 DEF HasIn
 <2>4. \A u \in Texts : pr[c].text = u <=> u = t  BY <1>m
 <2>5. \A u \in Texts :
        /\ tt2[u].count = tt[u].count + (IF pr[c].text = u THEN 1 ELSE 0)
                                      - (IF pr[c].text = u THEN 1 ELSE 0)
        /\ tt2[u].ccount =
             tt[u].ccount + (IF pr[c].text = u /\ HasIn(pr[c], sc2, c) THEN 1 ELSE 0)
                          - (IF pr[c].text = u /\ HasIn(pr[c], sc, c) THEN 1 ELSE 0)
   BY <1>0, <1>8, <2>2, <2>3, <2>4
 <2>6. CountMoves(pr, tt, sc, pr, tt2, sc2, c)  BY <2>1, <2>5 DEF CountMoves
 <2> QED  BY <1>0, <1>m, <2>6, CountStep
<1>14. \A u \in Texts : TextOk(tt2, u)
 <2> SUFFICES ASSUME NEW u \in Texts PROVE TextOk(tt2, u)  OBVIOUS
 <2>0. TextOk(tt, u)  BY <1>0
 <2>1. CASE tt[u].file = NoFile
  <3>1. u # t \/ out  BY <1>3, <2>1, Consts DEF Texts, NoText
  <3>2. tt2[u].ccount = tt[u].ccount  BY <1>0, <1>8, <3>1
  <3> QED  BY <1>8, <2>0, <2>1, <3>2 DEF TextOk
 <2>2. CASE tt[u].file # NoFile  BY <1>8, <2>0, <2>2 DEF TextOk
 <2> QED  BY <2>1, <2>2
<1>15. SelOk(pr, tt2, sc2)
 <2>1. sc2.pc = "text" => /\ out /\ t # NoText /\ tt2[t].ccount = 0 /\ tt2[t].file \in Files
  <3> SUFFICES ASSUME sc2.pc = "text"
               PROVE  out /\ t # NoText /\ tt2[t].ccount = 0 /\ tt2[t].file \in Files
    OBVIOUS
  <3>1. out  BY <1>7, <1>m
  <3>2. tt2 = tt /\ t # NoText /\ tt[t].ccount = 0  BY <1>m, <3>1
  <3> QED  BY <1>3, <3>1, <3>2
 <2> QED  BY <1>6, <1>7, <1>m, <2>1 DEF SelOk
<1> QED  BY <1>0, <1>7, <1>8, <1>11, <1>12, <1>13, <1>14, <1>15 DEF Tables, Typed

\* The text has been read: its pages are the text's from now on.
TextComes(pr, tt, sc, c, t, d, tt2, sc2) ==
    /\ sc.pc = "text" /\ c = sc.sel /\ t = pr[c].text /\ pr[c].size > 0
    /\ d = TextSize(tt, t) /\ (sc.des + d) % 2 = 0
    /\ tt2 = [tt EXCEPT ![t].caddr = sc.des, ![t].ccount = @ + 1, ![t].good = tt[t].saved]
    /\ sc2 = [sc EXCEPT !.pc = "data", !.des = sc.des + d]

\* Sched: the text is in, its pages are the text's.
LEMMA TextCame ==
  ASSUME NEW mm, NEW sm, NEW pr, NEW tt, NEW sc, Tables(mm, sm, pr, tt, sc),
         NEW c, NEW t, NEW d, NEW tt2, NEW sc2, TextComes(pr, tt, sc, c, t, d, tt2, sc2)
  PROVE  Tables(mm, sm, pr, tt2, sc2)
<1>0. /\ pr \in [Slots -> SlotRec] /\ tt \in [Texts -> TextRec] /\ sc \in SchedRec
      /\ Held(mm, MemPages, MemOwner(pr, tt, sc)) /\ Held(sm, SwapBlocks, SwapOwner(pr, tt))
      /\ Counted(pr, tt, sc) /\ SelOk(pr, tt, sc) /\ Typed(pr, tt, sc)
      /\ \A u \in Texts : TextOk(tt, u)
      /\ \A u \in Texts : tt[u] \in TextRec /\ tt[u].count \in Nat /\ tt[u].ccount \in Nat
  BY TablesAre, SMTT(40)
<1>m. /\ sc.pc = "text" /\ c = sc.sel /\ t = pr[c].text /\ pr[c].size > 0
      /\ d = TextSize(tt, t) /\ (sc.des + d) % 2 = 0
      /\ tt2 = [tt EXCEPT ![t].caddr = sc.des, ![t].ccount = @ + 1, ![t].good = tt[t].saved]
      /\ sc2 = [sc EXCEPT !.pc = "data", !.des = sc.des + d]
  BY DEF TextComes
<1>1. Moving(sc) /\ c \in Slots /\ IsSwapped(pr[c]) /\ sc.des > 0 /\ sc.des % 2 = 0
      /\ t # NoText /\ tt[t].ccount = 0 /\ tt[t].file \in Files
  BY <1>0, <1>m, Zenon DEF SelOk, Moving
<1>2. pr[c].size \in Nat /\ t \in Texts  BY <1>0, <1>1, <1>m, SlotFields, Zenon
<1>3. tt[t].count >= 1 /\ d \in Nat /\ d > 0
 <2>1. tt[t].count >= 1  BY <1>0, <1>1, <1>2, <1>m, Counts, Zenon
 <2>2. tt[t].count > 0 /\ TextOk(tt, t)  BY <1>0, <1>2, <2>1
 <2> QED  BY <1>0, <1>2, <1>m, <2>1, <2>2, TextSizes, Zenon
<1>4. sc.des \in Nat /\ sc.des \in Halves  BY <1>0, Consts DEF SchedRec, Halves
<1>5. d % 2 = 0
 <2>1. PICK x : x = sc.des  OBVIOUS
 <2>2. x \in Nat /\ x % 2 = 0 /\ d \in Nat /\ (x + d) % 2 = 0
   BY <1>1, <1>3, <1>4, <1>m, <2>1, Zenon
 <2> QED  BY ONLY <2>2
<1>6. PICK s, a, b, z : /\ s = d + pr[c].size /\ a = sc.des \div 2 /\ b = sc.des + d
                        /\ z = Pages(pr[c].size)
  OBVIOUS
<1>7. /\ b \div 2 = a + Pages(d) /\ b % 2 = 0 /\ Pages(s) = Pages(d) + z
      /\ Pages(d) \in Nat /\ z \in Nat /\ a \in Nat
 <2>1. s \in Nat /\ d <= s /\ s - d = pr[c].size  BY <1>2, <1>3, <1>6
 <2>2. PICK x : x = sc.des  OBVIOUS
 <2>3. x \in Nat /\ x % 2 = 0 /\ d \in Nat /\ d % 2 = 0  BY <1>1, <1>3, <1>4, <1>5, <2>2
 <2>4. /\ (x + d) \div 2 = x \div 2 + Pages(d) /\ (x + d) % 2 = 0
       /\ Pages(s) = Pages(d) + Pages(s - d)
       /\ Pages(d) \in Nat /\ Pages(s - d) \in Nat /\ x \div 2 \in Nat
   BY <2>1, <2>3, TailPages, Zenon
 <2> QED  BY <1>6, <2>1, <2>2, <2>4
<1>8. z > 0  BY <1>2, <1>6, <1>m, PagesFacts, Zenon
<1>9. PICK O, B, w : O = MemOwner(pr, tt, sc) /\ B = Block(a, Pages(d)) /\ w = N + t  OBVIOUS
<1>10. O[0] = Block(a, Pages(d) + z)
 <2>0. ComingSize(pr, tt, sc) = pr[c].size + d  BY <1>m, Zenon DEF ComingSize
 <2>1. ComingSize(pr, tt, sc) = s  BY <1>2, <1>3, <1>6, <2>0
 <2>2. ComingPages(pr, tt, sc) = Block(a, Pages(d) + z)  BY <1>1, <1>6, <1>7, <2>1 DEF ComingPages
 <2>3. MemOwner(pr, tt, sc)[0] = ComingPages(pr, tt, sc)  BY ONLY MemOwnerAt
 <2> QED  BY <1>9, <2>2, <2>3
<1>11. b \in Halves /\ b \in Nat /\ b > 0
 <2>1. b \div 2 \in Block(a, Pages(d) + z)  BY <1>7, <1>8 DEF Block
 <2>2. O[0] \subseteq 1..MemPages  BY <1>0, <1>9, UserNames DEF Held
 <2>3. b \div 2 \in 1..MemPages  BY <1>10, <2>1, <2>2
 <2>4. b \in Nat  BY <1>3, <1>4, <1>6
 <2>5. 2 * (b \div 2) = b  BY <1>7, <2>4, HalfFacts
 <2> QED  BY <1>1, <1>3, <1>4, <1>6, <2>3, <2>4, <2>5, Consts DEF Halves
<1>12. /\ sc2 \in SchedRec /\ sc2.pc = "data" /\ sc2.sel = c /\ sc2.des = b /\ Moving(sc2)
  BY <1>0, <1>6, <1>11, <1>m, Zenon DEF SchedRec, Moving
<1>13. PICK e : e = [tt[t] EXCEPT !.caddr = sc.des, !.ccount = @ + 1, !.good = tt[t].saved]  OBVIOUS
<1>14. /\ e \in TextRec /\ e.count = tt[t].count /\ e.ccount = 1
       /\ e.file = tt[t].file /\ e.caddr = sc.des /\ e.daddr = tt[t].daddr
 <2>1. tt[t] \in TextRec  BY <1>0, <1>2
 <2>2. tt[t].saved \in BOOLEAN  BY <2>1 DEF TextRec
 <2>3. tt[t].ccount + 1 = 1 /\ 1 \in Nat  BY <1>1
 <2>4. e = [tt[t] EXCEPT !.caddr = sc.des, !.ccount = 1, !.good = tt[t].saved]
   BY <1>13, <2>3, Zenon
 <2> QED  BY <1>4, <2>1, <2>2, <2>3, <2>4, Zenon DEF TextRec
<1>15. tt2 = [tt EXCEPT ![t] = e]  BY <1>2, <1>13, <1>m, Zenon
<1>16. tt2 \in [Texts -> TextRec] /\ tt2[t] = e /\ \A u \in Texts : u # t => tt2[u] = tt[u]
  BY <1>0, <1>2, <1>14, <1>15
<1>17. Held(mm, MemPages, MemOwner(pr, tt2, sc2))
 <2>1. PICK O2 : O2 = MemOwner(pr, tt2, sc2)  OBVIOUS
 <2>2. ComingPages(pr, tt2, sc2) = Block(a + Pages(d), z)
  <3>1. ComingSize(pr, tt2, sc2) = pr[c].size  BY <1>2, <1>12 DEF ComingSize
  <3> QED  BY <1>6, <1>7, <1>12, <3>1 DEF ComingPages
 <2>3. TextPages(tt, t) = {} /\ TextPages(tt2, t) = B
  <3>1. TextPages(tt, t) = {}  BY <1>1 DEF TextPages
  <3>2. TextSize(tt2, t) = d  BY <1>14, <1>16, <1>m, Zenon DEF TextSize
  <3> QED  BY <1>6, <1>9, <1>14, <1>16, <3>1, <3>2 DEF TextPages
 <2>4. /\ \A u \in Texts : MemOwner(pr, tt, sc)[N + u] = TextPages(tt, u)
                        /\ MemOwner(pr, tt2, sc2)[N + u] = TextPages(tt2, u)
       /\ \A q \in Slots : MemOwner(pr, tt, sc)[q] = ImageOf(pr[q])
                        /\ MemOwner(pr, tt2, sc2)[q] = ImageOf(pr[q])
       /\ MemOwner(pr, tt2, sc2)[0] = ComingPages(pr, tt2, sc2)
   BY ONLY MemOwnerAt
 <2>5. O[w] = {} /\ O2[w] = B /\ O2[0] = Block(a + Pages(d), z)
   BY <1>2, <1>9, <2>1, <2>2, <2>3, <2>4
 <2>s. PICK m \in Nat : m = Pages(d)  BY <1>7
 <2>t. /\ Block(a, m + z) = Block(a, m) \cup Block(a + m, z)
       /\ Block(a, m + z) \ Block(a, m) = Block(a + m, z)
   BY <1>7, BlockSplit, ZenonT(60)
 <2>6. B \subseteq O[0] /\ O2[0] = O[0] \ B /\ O2[w] = O[w] \cup B  BY <1>9, <1>10, <2>5, <2>s, <2>t
 <2>7. \A u \in Texts : u # t => TextPages(tt2, u) = TextPages(tt, u)
   BY <1>16 DEF TextPages, TextSize
 <2>8. \A v \in Users : v # 0 /\ v # w => O2[v] = O[v]
  <3> SUFFICES ASSUME NEW v \in Users, v # 0, v # w PROVE O2[v] = O[v]  OBVIOUS
  <3>1. CASE v \in Slots  BY <1>9, <2>1, <2>4, <3>1
  <3>2. CASE v - N \in Texts
   <4>1. PICK u \in Texts : u = v - N  BY <3>2
   <4>2. v = N + u  BY <4>1, Consts DEF Users, Texts
   <4>3. u # t  BY <1>9, <4>2
   <4>4. TextPages(tt2, u) = TextPages(tt, u)  BY <2>7, <4>3
   <4>5. MemOwner(pr, tt, sc)[N + u] = TextPages(tt, u) /\ MemOwner(pr, tt2, sc2)[N + u] = TextPages(tt2, u)
     BY <2>4
   <4> QED  BY <1>9, <2>1, <4>2, <4>4, <4>5
  <3> QED  BY <3>1, <3>2, UserKinds
 <2>9. 0 \in Users /\ w \in Users /\ w # 0  BY <1>2, <1>9, UserNames
 <2>10. Held(mm, MemPages, O) /\ MemPages \in Nat  BY <1>0, <1>9, Consts
 <2>11. Passes(O, O2, 0, w, B)  BY <2>6, <2>8, <2>9 DEF Passes
 <2>12. Held(mm, MemPages, O2)  BY <2>10, <2>11, HeldMove
 <2> QED  BY <2>1, <2>12
<1>18. Held(sm, SwapBlocks, SwapOwner(pr, tt2))
 <2>0. \A u \in Texts : CopyBlocks(tt2, u) = CopyBlocks(tt, u)
   BY <1>14, <1>16 DEF CopyBlocks, TextSize
 <2>1. SameBut(SwapOwner(pr, tt), SwapOwner(pr, tt2), -1)  BY <2>0, SwapOwnerBut
 <2>2. \A v \in Users : v # -1  BY Consts DEF Users
 <2>3. \A v \in Users : SwapOwner(pr, tt2)[v] = SwapOwner(pr, tt)[v]  BY <2>1, <2>2 DEF SameBut
 <2> QED  BY <1>0, <2>3, HeldSame
<1>19. Counted(pr, tt2, sc2)
 <2>1. \A q \in Slots : q # c => /\ pr[q].text = pr[q].text
                                 /\ HasIn(pr[q], sc2, q) <=> HasIn(pr[q], sc, q)
   BY <1>12, <1>m DEF HasIn
 <2>2. ~HasIn(pr[c], sc, c) /\ HasIn(pr[c], sc2, c)
   BY <1>1, <1>12, <1>m, ZenonT(60) DEF HasIn, Inside, IsSwapped
 <2>4. \A u \in Texts : pr[c].text = u <=> u = t  BY <1>m
 <2>5. \A u \in Texts :
        /\ tt2[u].count = tt[u].count + (IF pr[c].text = u THEN 1 ELSE 0)
                                      - (IF pr[c].text = u THEN 1 ELSE 0)
        /\ tt2[u].ccount =
             tt[u].ccount + (IF pr[c].text = u /\ HasIn(pr[c], sc2, c) THEN 1 ELSE 0)
                          - (IF pr[c].text = u /\ HasIn(pr[c], sc, c) THEN 1 ELSE 0)
   BY <1>0, <1>1, <1>14, <1>16, <2>2, <2>4
 <2>6. CountMoves(pr, tt, sc, pr, tt2, sc2, c)  BY <2>1, <2>5 DEF CountMoves
 <2> QED  BY <1>0, <1>1, <2>6, CountStep
<1>20. \A u \in Texts : TextOk(tt2, u)
 <2> SUFFICES ASSUME NEW u \in Texts PROVE TextOk(tt2, u)  OBVIOUS
 <2>0. TextOk(tt, u)  BY <1>0
 <2>1. CASE u # t  BY <2>0, <2>1, <1>16 DEF TextOk
 <2>2. CASE u = t
  <3>1. tt[t].file # NoFile  BY <1>1, Consts
  <3> QED  BY <2>0, <2>2, <3>1, <1>1, <1>14, <1>16 DEF TextOk
 <2> QED  BY <2>1, <2>2
<1>21. SelOk(pr, tt2, sc2)  BY <1>1, <1>7, <1>11, <1>12 DEF SelOk
<1> QED  BY <1>0, <1>12, <1>16, <1>17, <1>18, <1>19, <1>20, <1>21 DEF Tables, Typed

\* The image has been read: its pages are the process's, its blocks free.
DataComes(sm, pr, sc, c, r2, pr2, sc2, sm2) ==
    /\ sc.pc = "data" /\ c = sc.sel /\ pr[c].size > 0 /\ pr[c].addr > 0 /\ ImageOf(pr[c]) = {}
    /\ r2.addr = sc.des /\ r2.held = pr[c].size /\ r2.text = pr[c].text
    /\ Inside(r2) /\ SlotBlocks(r2) = {}
    /\ r2 \in SlotRec /\ pr2 = [pr EXCEPT ![c] = r2]
    /\ sc2 = [pc |-> "loop", sel |-> 0, des |-> 0]
    /\ sm2 = Free(sm, pr[c].size, pr[c].addr)

\* Sched: the image is in, its blocks go back.
LEMMA DataCame ==
  ASSUME NEW mm, NEW sm, NEW pr, NEW tt, NEW sc, Tables(mm, sm, pr, tt, sc),
         NEW c, NEW r2, NEW pr2, NEW sc2, NEW sm2,
         DataComes(sm, pr, sc, c, r2, pr2, sc2, sm2)
  PROVE  Tables(mm, sm2, pr2, tt, sc2)
<1>0. /\ pr \in [Slots -> SlotRec] /\ tt \in [Texts -> TextRec] /\ sc \in SchedRec
      /\ Held(mm, MemPages, MemOwner(pr, tt, sc)) /\ Held(sm, SwapBlocks, SwapOwner(pr, tt))
      /\ Counted(pr, tt, sc) /\ SelOk(pr, tt, sc) /\ Typed(pr, tt, sc)
      /\ \A u \in Texts : TextOk(tt, u)
      /\ \A u \in Texts : tt[u] \in TextRec /\ tt[u].count \in Nat /\ tt[u].ccount \in Nat
  BY TablesAre
<1>m. /\ sc.pc = "data" /\ c = sc.sel /\ pr[c].size > 0 /\ pr[c].addr > 0 /\ ImageOf(pr[c]) = {}
      /\ r2.addr = sc.des /\ r2.held = pr[c].size /\ r2.text = pr[c].text
      /\ Inside(r2) /\ SlotBlocks(r2) = {}
      /\ r2 \in SlotRec /\ pr2 = [pr EXCEPT ![c] = r2]
      /\ sc2 = [pc |-> "loop", sel |-> 0, des |-> 0]
      /\ sm2 = Free(sm, pr[c].size, pr[c].addr)
  BY DEF DataComes
<1>1. Moving(sc) /\ c \in Slots /\ IsSwapped(pr[c])  BY <1>0, <1>m DEF SelOk, Moving
<1>2. PICK r, s, a, B : r = pr[c] /\ s = r.size /\ a = r.addr /\ B = Block(sc.des \div 2, Pages(s))
  OBVIOUS
<1>3. s \in Nat /\ a \in Nat /\ s > 0 /\ a > 0  BY <1>0, <1>1, <1>2, <1>m, SlotFields
<1>4. /\ pr2 \in [Slots -> SlotRec] /\ pr2[c] = r2 /\ \A q \in Slots : q # c => pr2[q] = pr[q]
  BY <1>0, <1>1, <1>m
<1>5. sc2 \in SchedRec /\ ~Moving(sc2) /\ sc2.pc = "loop"
  BY <1>m, Consts DEF SchedRec, Moving, Halves
<1>6. Held(mm, MemPages, MemOwner(pr2, tt, sc2))
 <2>1. PICK O, O2 : O = MemOwner(pr, tt, sc) /\ O2 = MemOwner(pr2, tt, sc2)  OBVIOUS
 <2>2. ComingPages(pr, tt, sc) = B /\ ComingPages(pr2, tt, sc2) = {}
  <3>1. ComingSize(pr, tt, sc) = s  BY <1>2, <1>3, <1>m DEF ComingSize
  <3> QED  BY <1>1, <1>2, <1>5, <3>1 DEF ComingPages
 <2>3. ImageOf(r2) = B  BY <1>2, <1>m DEF ImageOf
 <2>4. /\ \A u \in Texts : MemOwner(pr, tt, sc)[N + u] = TextPages(tt, u)
                        /\ MemOwner(pr2, tt, sc2)[N + u] = TextPages(tt, u)
       /\ \A q \in Slots : MemOwner(pr, tt, sc)[q] = ImageOf(pr[q])
                        /\ MemOwner(pr2, tt, sc2)[q] = ImageOf(pr2[q])
       /\ MemOwner(pr2, tt, sc2)[0] = ComingPages(pr2, tt, sc2)
       /\ MemOwner(pr, tt, sc)[0] = ComingPages(pr, tt, sc)
   BY ONLY MemOwnerAt
 <2>5. O[0] = B /\ O2[0] = {} /\ O[c] = {} /\ O2[c] = B
   BY <1>1, <1>4, <1>m, <2>1, <2>2, <2>3, <2>4, Zenon
 <2>6. B \subseteq O[0] /\ O2[0] = O[0] \ B /\ O2[c] = O[c] \cup B  BY <2>5
 <2>7. \A v \in Users : v # 0 /\ v # c => O2[v] = O[v]
  <3> SUFFICES ASSUME NEW v \in Users, v # 0, v # c PROVE O2[v] = O[v]  OBVIOUS
  <3>1. CASE v \in Slots  BY <1>4, <2>1, <2>4, <3>1
  <3>2. CASE v - N \in Texts
   <4>1. PICK u \in Texts : u = v - N  BY <3>2
   <4>2. v = N + u  BY <4>1, Consts DEF Users, Texts
   <4> QED  BY <2>1, <2>4, <4>2
  <3> QED  BY <3>1, <3>2, UserKinds
 <2>8. 0 \in Users /\ c \in Users /\ c # 0  BY <1>1, UserNames
 <2>9. Held(mm, MemPages, O) /\ MemPages \in Nat  BY <1>0, <2>1, Consts
 <2>10. Passes(O, O2, 0, c, B)  BY <2>6, <2>7, <2>8 DEF Passes
 <2>11. Held(mm, MemPages, O2)  BY <2>9, <2>10, HeldMove
 <2> QED  BY <2>1, <2>11
<1>7. Held(sm2, SwapBlocks, SwapOwner(pr2, tt))
 <2>1. PICK O, O2 : O = SwapOwner(pr, tt) /\ O2 = SwapOwner(pr2, tt)  OBVIOUS
 <2>2. \A q \in Slots : q # c => SlotBlocks(pr2[q]) = SlotBlocks(pr[q])  BY <1>4
 <2>3. SameBut(O, O2, c)  BY <2>1, <2>2, SwapOwnerBut
 <2>4. \A q \in Slots : SwapOwner(pr, tt)[q] = SlotBlocks(pr[q])
                     /\ SwapOwner(pr2, tt)[q] = SlotBlocks(pr2[q])
   BY ONLY SwapOwnerAt
 <2>5. SlotBlocks(r) = Block(a, s)  BY <1>1, <1>2 DEF SlotBlocks
 <2>6. O[c] = Block(a, s) /\ O2[c] = {}  BY <1>1, <1>2, <1>4, <1>m, <2>1, <2>4, <2>5, Zenon
 <2>7. c \in Users /\ Block(a, s) \subseteq O[c] /\ O2[c] = O[c] \ Block(a, s)
   BY <1>1, <2>6, UserNames
 <2>8. Held(sm, SwapBlocks, O)  BY <1>0, <2>1
 <2>9. Held(Free(sm, s, a), SwapBlocks, O2)  BY <1>3, <2>3, <2>7, <2>8, BlocksFreed
 <2> QED  BY <1>2, <1>m, <2>1, <2>9
<1>8. Counted(pr2, tt, sc2)
 <2>1. \A q \in Slots : q # c => /\ pr2[q].text = pr[q].text
                                 /\ HasIn(pr2[q], sc2, q) <=> HasIn(pr[q], sc, q)
   BY <1>4, <1>5, <1>m DEF HasIn
 <2>2. HasIn(pr[c], sc, c) /\ HasIn(pr2[c], sc2, c) /\ pr2[c].text = pr[c].text
   BY <1>1, <1>4, <1>m DEF HasIn
 <2>3. \A u \in Texts :
        /\ tt[u].count = tt[u].count + (IF pr2[c].text = u THEN 1 ELSE 0)
                                     - (IF pr[c].text = u THEN 1 ELSE 0)
        /\ tt[u].ccount =
             tt[u].ccount + (IF pr2[c].text = u /\ HasIn(pr2[c], sc2, c) THEN 1 ELSE 0)
                          - (IF pr[c].text = u /\ HasIn(pr[c], sc, c) THEN 1 ELSE 0)
   BY <1>0, <2>2
 <2>4. CountMoves(pr, tt, sc, pr2, tt, sc2, c)  BY <2>1, <2>3 DEF CountMoves
 <2> QED  BY <1>0, <1>1, <2>4, CountStep
<1>9. SelOk(pr2, tt, sc2)  BY <1>5 DEF SelOk
<1> QED  BY <1>0, <1>4, <1>5, <1>6, <1>7, <1>8, <1>9 DEF Tables, Typed

\* The parent takes over the block of a dead child, and empties its slot.
TakesOver(pr, sc, c, p, rc, rp, pr2) ==
    /\ c \in Slots /\ p \in Slots /\ c # p
    /\ pr[c].text = NoText /\ rc.text = NoText /\ ImageOf(rc) = ImageOf(pr[c])
    /\ rp.text = pr[p].text /\ (Inside(rp) <=> Inside(pr[p])) /\ ImageOf(rp) = ImageOf(pr[p])
    /\ SlotBlocks(rc) = {} /\ SlotBlocks(pr[p]) = {} /\ SlotBlocks(rp) = SlotBlocks(pr[c])
    /\ (Moving(sc) => sc.sel # c /\ sc.sel # p)
    /\ rc \in SlotRec /\ rp \in SlotRec /\ pr2 = [pr EXCEPT ![c] = rc, ![p] = rp]

\* Wait: the parent takes the block of the dead child.
LEMMA TakeOver ==
  ASSUME NEW mm, NEW sm, NEW pr, NEW tt, NEW sc, Tables(mm, sm, pr, tt, sc),
         NEW c, NEW p, NEW rc, NEW rp, NEW pr2, TakesOver(pr, sc, c, p, rc, rp, pr2)
  PROVE  Tables(mm, sm, pr2, tt, sc)
<1>0. /\ pr \in [Slots -> SlotRec] /\ tt \in [Texts -> TextRec] /\ sc \in SchedRec
      /\ Held(mm, MemPages, MemOwner(pr, tt, sc)) /\ Held(sm, SwapBlocks, SwapOwner(pr, tt))
      /\ Counted(pr, tt, sc) /\ SelOk(pr, tt, sc) /\ Typed(pr, tt, sc)
      /\ \A u \in Texts : TextOk(tt, u)
  BY TablesAre
<1>m. /\ c \in Slots /\ p \in Slots /\ c # p
      /\ pr[c].text = NoText /\ rc.text = NoText /\ ImageOf(rc) = ImageOf(pr[c])
      /\ rp.text = pr[p].text /\ (Inside(rp) <=> Inside(pr[p])) /\ ImageOf(rp) = ImageOf(pr[p])
      /\ SlotBlocks(rc) = {} /\ SlotBlocks(pr[p]) = {} /\ SlotBlocks(rp) = SlotBlocks(pr[c])
      /\ (Moving(sc) => sc.sel # c /\ sc.sel # p)
      /\ rc \in SlotRec /\ rp \in SlotRec /\ pr2 = [pr EXCEPT ![c] = rc, ![p] = rp]
  BY DEF TakesOver
<1>1. /\ pr2 \in [Slots -> SlotRec] /\ pr2[c] = rc /\ pr2[p] = rp
      /\ \A q \in Slots : q # c /\ q # p => pr2[q] = pr[q]
  BY <1>0, <1>m
<1>2. Moving(sc) => sc.sel \in Slots /\ pr2[sc.sel] = pr[sc.sel]  BY <1>0, <1>1, <1>m DEF SelOk
<1>3. ComingPages(pr2, tt, sc) = ComingPages(pr, tt, sc)
 <2>1. KeepsComing(pr, tt, sc, pr2, tt)  BY <1>2 DEF KeepsComing
 <2> QED  BY <2>1, ComingSame
<1>4. Held(mm, MemPages, MemOwner(pr2, tt, sc))
 <2>0. \A q \in Slots : ImageOf(pr2[q]) = ImageOf(pr[q])  BY <1>1, <1>m
 <2>1. SameBut(MemOwner(pr, tt, sc), MemOwner(pr2, tt, sc), -1)  BY <1>3, <2>0, MemOwnerBut
 <2>2. \A w \in Users : w # -1  BY Consts DEF Users
 <2>3. \A w \in Users : MemOwner(pr2, tt, sc)[w] = MemOwner(pr, tt, sc)[w]
   BY <2>1, <2>2 DEF SameBut
 <2> QED  BY <1>0, <2>3, HeldSame
<1>5. Held(sm, SwapBlocks, SwapOwner(pr2, tt))
 <2>1. PICK O, O2, B : O = SwapOwner(pr, tt) /\ O2 = SwapOwner(pr2, tt) /\ B = SlotBlocks(pr[c])
   OBVIOUS
 <2>2. /\ \A q \in Slots : SwapOwner(pr, tt)[q] = SlotBlocks(pr[q])
                        /\ SwapOwner(pr2, tt)[q] = SlotBlocks(pr2[q])
       /\ \A u \in Texts : SwapOwner(pr, tt)[N + u] = CopyBlocks(tt, u)
                        /\ SwapOwner(pr2, tt)[N + u] = CopyBlocks(tt, u)
       /\ SwapOwner(pr, tt)[0] = {} /\ SwapOwner(pr2, tt)[0] = {}
   BY ONLY SwapOwnerAt
 <2>3. O[c] = B /\ O2[c] = {} /\ O[p] = {} /\ O2[p] = B  BY <1>1, <1>m, <2>1, <2>2, Zenon
 <2>4. B \subseteq O[c] /\ O2[c] = O[c] \ B /\ O2[p] = O[p] \cup B  BY <2>3
 <2>5. \A v \in Users : v # c /\ v # p => O2[v] = O[v]
  <3> SUFFICES ASSUME NEW v \in Users, v # c, v # p PROVE O2[v] = O[v]  OBVIOUS
  <3>1. CASE v \in Slots  BY <1>1, <2>1, <2>2, <3>1
  <3>2. CASE v - N \in Texts
   <4>1. PICK u \in Texts : u = v - N  BY <3>2
   <4>2. v = N + u  BY <4>1, Consts DEF Users, Texts
   <4> QED  BY <2>1, <2>2, <4>2
  <3>3. CASE v = 0  BY <2>1, <2>2, <3>3, Zenon
  <3> QED  BY <3>1, <3>2, <3>3, UserKinds
 <2>6. c \in Users /\ p \in Users /\ c # p  BY <1>m, UserNames
 <2>7. Held(sm, SwapBlocks, O) /\ SwapBlocks \in Nat  BY <1>0, <2>1, Consts
 <2>8. Passes(O, O2, c, p, B)  BY <2>4, <2>5, <2>6 DEF Passes
 <2>9. Held(sm, SwapBlocks, O2)  BY <2>7, <2>8, HeldMove
 <2> QED  BY <2>1, <2>9
<1>6. Counted(pr2, tt, sc)
 <2>1. \A q \in Slots : pr2[q].text = pr[q].text  BY <1>1, <1>m
 <2>2. \A q \in Slots : pr[q].text # NoText => (Inside(pr2[q]) <=> Inside(pr[q]))  BY <1>1, <1>m
 <2>3. \A t \in Texts : UsersOf(pr2, t) = UsersOf(pr, t)  BY <2>1 DEF UsersOf
 <2>4. \A t \in Texts : CoreOf(pr2, sc, t) = CoreOf(pr, sc, t)
   BY <2>1, <2>2 DEF CoreOf, HasIn, Texts, NoText
 <2> QED  BY <1>0, <2>3, <2>4 DEF Counted
<1>7. SelOk(pr2, tt, sc)  BY <1>0, <1>2 DEF SelOk, Moving
<1> QED  BY <1>0, <1>1, <1>4, <1>5, <1>6, <1>7 DEF Tables, Typed

-----------------------------------------------------------------------------
(* Texts that are right                                                    *)

\* A counter is positive when somebody is counted.
LEMMA CoreCounts ==
  ASSUME NEW pr, NEW tt, NEW sc, Typed(pr, tt, sc), Counted(pr, tt, sc), NEW t \in Texts
  PROVE  /\ CoreOf(pr, sc, t) \subseteq UsersOf(pr, t) /\ UsersOf(pr, t) \subseteq Slots
         /\ tt[t].ccount > 0 <=> CoreOf(pr, sc, t) # {}
         /\ tt[t].count > 0 <=> UsersOf(pr, t) # {}
         /\ \A p, q \in CoreOf(pr, sc, t) : p # q => tt[t].ccount > 1
         /\ tt[t].count \in Nat /\ tt[t].ccount \in Nat
<1>1. CoreOf(pr, sc, t) \subseteq UsersOf(pr, t) /\ UsersOf(pr, t) \subseteq Slots
  BY DEF CoreOf, UsersOf
<1>2. /\ tt[t].count = Cardinality(UsersOf(pr, t))
      /\ tt[t].ccount = Cardinality(CoreOf(pr, sc, t))
  BY DEF Counted
<1>3. PICK U, C : U = UsersOf(pr, t) /\ C = CoreOf(pr, sc, t)  OBVIOUS
<1>4. Cardinality(U) \in Nat /\ (Cardinality(U) = 0 <=> U = {})  BY <1>1, <1>3, CardFacts
<1>5. /\ Cardinality(C) \in Nat /\ (Cardinality(C) = 0 <=> C = {})
      /\ \A p \in C : Cardinality(C) >= 1 /\ (Cardinality(C) = 1 => C = {p})
 <2>1. C \subseteq Slots  BY <1>1, <1>3
 <2> QED  BY <2>1, CardFacts
<1>6. \A p, q \in C : p # q => Cardinality(C) > 1  BY <1>5
<1> QED  BY <1>1, <1>2, <1>3, <1>4, <1>5, <1>6

\* What keeps a text right: its users, who do not go back to its start, who
\* stay in memory, and whose first stays the first.
KeepsGood(pr, tt, sc, pr2, tt2, sc2, t) ==
    /\ UsersOf(pr2, t) = UsersOf(pr, t) /\ CoreOf(pr, sc, t) \subseteq CoreOf(pr2, sc2, t)
    /\ \A p \in UsersOf(pr, t) :
         /\ pr2[p].pc \notin {"fill", "join"} => pr[p].pc \notin {"fill", "join"}
         /\ pr[p].pc \in {"fill", "textout"} => pr2[p].pc \in {"fill", "textout"}
    /\ tt2[t].good = tt[t].good /\ tt2[t].saved = tt[t].saved
    /\ tt2[t].ccount > 0 => tt[t].ccount > 0
    /\ tt2[t].count > 0 => tt[t].count > 0

\* A text stays right when nobody who matters to it changes.
LEMMA GoodKept ==
  ASSUME NEW pr, NEW tt, NEW sc, NEW pr2, NEW tt2, NEW sc2, NEW t,
         GoodText(pr, tt, sc, t), KeepsGood(pr, tt, sc, pr2, tt2, sc2, t)
  PROVE  GoodText(pr2, tt2, sc2, t)
<1>1. \A p \in UsersOf(pr2, t) : pr2[p].pc \notin {"fill", "join"} => tt2[t].good \/ tt2[t].saved
  BY DEF GoodText, KeepsGood
<1>2. tt2[t].saved /\ tt2[t].ccount > 0 => tt2[t].good  BY DEF GoodText, KeepsGood
<1>3. ASSUME tt2[t].count > 0, ~tt2[t].saved
      PROVE  \E p \in UsersOf(pr2, t) : /\ pr2[p].pc \in {"fill", "textout"}
                                        /\ p \in CoreOf(pr2, sc2, t) \/ UsersOf(pr2, t) = {p}
 <2>1. PICK p \in UsersOf(pr, t) : /\ pr[p].pc \in {"fill", "textout"}
                                   /\ p \in CoreOf(pr, sc, t) \/ UsersOf(pr, t) = {p}
   BY <1>3 DEF GoodText, KeepsGood
 <2>2. pr2[p].pc \in {"fill", "textout"} /\ p \in UsersOf(pr2, t)  BY <2>1 DEF KeepsGood
 <2>3. p \in CoreOf(pr2, sc2, t) \/ UsersOf(pr2, t) = {p}  BY <2>1 DEF KeepsGood
 <2> QED  BY <2>2, <2>3
<1> QED  BY <1>1, <1>2, <1>3 DEF GoodText

\* Slot by slot: what a slot may not change for its text to stay right
SameUse(r, r2, h, h2) ==
    /\ r2.text = r.text
    /\ r.text # NoText =>
         /\ h => h2
         /\ r2.pc \notin {"fill", "join"} => r.pc \notin {"fill", "join"}
         /\ r.pc \in {"fill", "textout"} => r2.pc \in {"fill", "textout"}
SameText(e, e2) ==
    /\ e2.good = e.good /\ e2.saved = e.saved
    /\ e2.ccount > 0 => e.ccount > 0
    /\ e2.count > 0 => e.count > 0

LEMMA GoodsKept ==
  ASSUME NEW pr, NEW tt, NEW sc, NEW pr2, NEW tt2, NEW sc2, Goods(pr, tt, sc),
         \A q \in Slots : SameUse(pr[q], pr2[q], HasIn(pr[q], sc, q), HasIn(pr2[q], sc2, q)),
         \A t \in Texts : SameText(tt[t], tt2[t])
  PROVE  Goods(pr2, tt2, sc2)
<1> SUFFICES ASSUME NEW t \in Texts PROVE GoodText(pr2, tt2, sc2, t)  BY DEF Goods
<1>1. UsersOf(pr2, t) = UsersOf(pr, t)  BY DEF UsersOf, SameUse
<1>2. CoreOf(pr, sc, t) \subseteq CoreOf(pr2, sc2, t)  BY DEF CoreOf, SameUse, Texts, NoText
<1>3. \A p \in UsersOf(pr, t) :
       /\ pr2[p].pc \notin {"fill", "join"} => pr[p].pc \notin {"fill", "join"}
       /\ pr[p].pc \in {"fill", "textout"} => pr2[p].pc \in {"fill", "textout"}
  BY DEF UsersOf, SameUse, Texts, NoText
<1>4. KeepsGood(pr, tt, sc, pr2, tt2, sc2, t)  BY <1>1, <1>2, <1>3 DEF KeepsGood, SameText
<1> QED  BY <1>4, GoodKept DEF Goods

\* The texts other than the one of a slot that changes
OnlySlot(pr, p, pr2) == \A q \in Slots : q # p => pr2[q] = pr[q]

LEMMA OthersKept ==
  ASSUME NEW pr, NEW tt, NEW sc, NEW pr2, NEW tt2, NEW p, OnlySlot(pr, p, pr2),
         NEW t, GoodText(pr, tt, sc, t), tt2[t] = tt[t], pr[p].text # t, pr2[p].text # t
  PROVE  GoodText(pr2, tt2, sc, t)
<1>1. UsersOf(pr2, t) = UsersOf(pr, t)  BY DEF UsersOf, OnlySlot
<1>2. CoreOf(pr, sc, t) \subseteq CoreOf(pr2, sc, t)  BY DEF CoreOf, OnlySlot
<1>3. \A q \in UsersOf(pr, t) : pr2[q] = pr[q]  BY DEF UsersOf, OnlySlot
<1>4. KeepsGood(pr, tt, sc, pr2, tt2, sc, t)  BY <1>1, <1>2, <1>3 DEF KeepsGood
<1> QED  BY <1>4, GoodKept

\* One more process uses a text that is in memory.
JoinsGood(pr, tt, sc, p, t, pr2, tt2) ==
    /\ Typed(pr, tt, sc) /\ Counted(pr, tt, sc) /\ Goods(pr, tt, sc)
    /\ p \in Slots /\ t \in Texts /\ tt[t].ccount > 0 /\ OnlySlot(pr, p, pr2)
    /\ pr[p].text = NoText /\ pr2[p].text = t
    /\ pr2[p].pc \notin {"fill", "join"} => tt[t].good \/ tt[t].saved
    /\ \A u \in Texts : u # t => tt2[u] = tt[u]
    /\ tt2[t].good = tt[t].good /\ tt2[t].saved = tt[t].saved

\* A process that joins a text, makes one, leaves it in memory to others, reads it
LEMMA GoodJoin ==
  ASSUME NEW pr, NEW tt, NEW sc, NEW p, NEW t, NEW pr2, NEW tt2,
         JoinsGood(pr, tt, sc, p, t, pr2, tt2)
  PROVE  Goods(pr2, tt2, sc)
<1>1. /\ Typed(pr, tt, sc) /\ Counted(pr, tt, sc) /\ Goods(pr, tt, sc)
      /\ p \in Slots /\ t \in Texts /\ tt[t].ccount > 0 /\ OnlySlot(pr, p, pr2)
      /\ pr[p].text = NoText /\ pr2[p].text = t
      /\ pr2[p].pc \notin {"fill", "join"} => tt[t].good \/ tt[t].saved
      /\ \A u \in Texts : u # t => tt2[u] = tt[u]
      /\ tt2[t].good = tt[t].good /\ tt2[t].saved = tt[t].saved
  BY DEF JoinsGood
<1>2. ASSUME NEW u \in Texts, u # t PROVE GoodText(pr2, tt2, sc, u)
 <2>1. pr[p].text # u /\ pr2[p].text # u /\ tt2[u] = tt[u] /\ GoodText(pr, tt, sc, u)
   BY <1>1, <1>2 DEF Goods, Texts, NoText
 <2> QED  BY <1>1, <2>1, OthersKept
<1>3. GoodText(pr2, tt2, sc, t)
 <2>1. UsersOf(pr2, t) = UsersOf(pr, t) \cup {p}  BY <1>1 DEF UsersOf, OnlySlot
 <2>2. GoodText(pr, tt, sc, t) /\ p \notin UsersOf(pr, t)  BY <1>1 DEF Goods, UsersOf, Texts, NoText
 <2>3. \A q \in UsersOf(pr, t) : pr2[q] = pr[q]  BY <1>1, <2>2 DEF OnlySlot, UsersOf
 <2>4. CoreOf(pr, sc, t) \subseteq CoreOf(pr2, sc, t)  BY <2>2, <2>3 DEF CoreOf, UsersOf
 <2>5. tt[t].saved => tt[t].good  BY <1>1, <2>2 DEF GoodText
 <2>6. ASSUME ~tt[t].saved
       PROVE  \E q \in UsersOf(pr2, t) : /\ pr2[q].pc \in {"fill", "textout"}
                                         /\ q \in CoreOf(pr2, sc, t)
  <3>1. CoreOf(pr, sc, t) \subseteq UsersOf(pr, t) /\ CoreOf(pr, sc, t) # {}  BY <1>1, CoreCounts
  <3>2. tt[t].count > 0  BY <1>1, <3>1, CoreCounts
  <3>3. PICK q \in UsersOf(pr, t) : /\ pr[q].pc \in {"fill", "textout"}
                                    /\ q \in CoreOf(pr, sc, t) \/ UsersOf(pr, t) = {q}
    BY <2>2, <2>6, <3>2 DEF GoodText
  <3> QED  BY <2>1, <2>3, <2>4, <3>1, <3>3
 <2>7. \A q \in UsersOf(pr2, t) : pr2[q].pc \notin {"fill", "join"} => tt2[t].good \/ tt2[t].saved
   BY <1>1, <2>1, <2>2, <2>3 DEF GoodText
 <2> QED  BY <1>1, <2>5, <2>6, <2>7 DEF GoodText
<1> QED  BY <1>2, <1>3 DEF Goods

\* A text is made for one process, which shall read it.
MakesGood(pr, tt, sc, p, t, pr2, tt2) ==
    /\ Typed(pr, tt, sc) /\ Counted(pr, tt, sc) /\ Goods(pr, tt, sc)
    /\ p \in Slots /\ t \in Texts /\ tt[t].count = 0 /\ OnlySlot(pr, p, pr2)
    /\ pr[p].text = NoText /\ pr2[p].text = t /\ pr2[p].pc = "fill"
    /\ \A u \in Texts : u # t => tt2[u] = tt[u]
    /\ ~tt2[t].saved

LEMMA GoodMake ==
  ASSUME NEW pr, NEW tt, NEW sc, NEW p, NEW t, NEW pr2, NEW tt2,
         MakesGood(pr, tt, sc, p, t, pr2, tt2)
  PROVE  Goods(pr2, tt2, sc) /\ UsersOf(pr2, t) = {p}
<1>1. /\ Typed(pr, tt, sc) /\ Counted(pr, tt, sc) /\ Goods(pr, tt, sc)
      /\ p \in Slots /\ t \in Texts /\ tt[t].count = 0 /\ OnlySlot(pr, p, pr2)
      /\ pr[p].text = NoText /\ pr2[p].text = t /\ pr2[p].pc = "fill"
      /\ \A u \in Texts : u # t => tt2[u] = tt[u]
      /\ ~tt2[t].saved
  BY DEF MakesGood
<1>2. ASSUME NEW u \in Texts, u # t PROVE GoodText(pr2, tt2, sc, u)
 <2>1. pr[p].text # u /\ pr2[p].text # u /\ tt2[u] = tt[u] /\ GoodText(pr, tt, sc, u)
   BY <1>1, <1>2 DEF Goods, Texts, NoText
 <2> QED  BY <1>1, <2>1, OthersKept
<1>3. UsersOf(pr2, t) = {p}
 <2>1. UsersOf(pr, t) = {}  BY <1>1, CoreCounts
 <2> QED  BY <1>1, <2>1 DEF UsersOf, OnlySlot
<1>4. GoodText(pr2, tt2, sc, t)  BY <1>1, <1>3 DEF GoodText
<1> QED  BY <1>2, <1>3, <1>4 DEF Goods

\* A process that is past the start of its program gives its text up.
LEMMA GoodDrop ==
  ASSUME NEW pr, NEW tt, NEW sc, Typed(pr, tt, sc), Counted(pr, tt, sc), Goods(pr, tt, sc),
         NEW p \in Slots, Inside(pr[p]), pr[p].pc = "user", NEW t \in Texts, pr[p].text = t,
         NEW mm, NEW sm, NEW x, x = XFree(t, tt, mm, sm),
         NEW pr2, OnlySlot(pr, p, pr2), pr2[p].text = NoText
  PROVE  Goods(pr2, x.txt, sc)
<1>1. p \in CoreOf(pr, sc, t) /\ p \in UsersOf(pr, t)  BY DEF CoreOf, UsersOf, HasIn
<1>2. tt \in [Texts -> TextRec] /\ tt[t].ccount > 0 /\ tt[t].count >= 1 /\ tt[t].count \in Nat
      /\ tt[t].ccount \in Nat
 <2>1. tt[t].ccount > 0 /\ tt[t].count > 0 /\ tt[t].count \in Nat /\ tt[t].ccount \in Nat
   BY <1>1, CoreCounts
 <2> QED  BY <2>1 DEF Typed
<1>3. PICK d : d = XccDec(t, tt, mm)  OBVIOUS
<1>4. /\ \A u \in Texts : u # t => x.txt[u] = tt[u]
      /\ tt[t].count = 1 => x.txt[t] = FreeText
      /\ tt[t].count # 1 => x.txt[t] = [d.txt[t] EXCEPT !.count = @ - 1]
  BY <1>2, <1>3, XFreeEffect
<1>5. /\ d.txt \in [Texts -> TextRec] /\ d.txt[t].saved = tt[t].saved
      /\ d.txt[t].ccount = tt[t].ccount - 1
      /\ d.txt[t].good = (tt[t].good /\ tt[t].ccount > 1)
  BY <1>2, <1>3, XccDecEffect
<1>6. ASSUME NEW u \in Texts, u # t PROVE GoodText(pr2, x.txt, sc, u)
 <2>1. pr[p].text # u /\ pr2[p].text # u /\ x.txt[u] = tt[u] /\ GoodText(pr, tt, sc, u)
   BY <1>4, <1>6 DEF Goods, Texts, NoText
 <2> QED  BY <2>1, OthersKept
<1>7. UsersOf(pr2, t) = UsersOf(pr, t) \ {p}  BY DEF UsersOf, OnlySlot, Texts, NoText
<1>8. CASE tt[t].count = 1
 <2>1. UsersOf(pr2, t) = {}
  <3>1. \A q \in Slots : pr[q].text = t => q = p  BY <1>8, Counts
  <3> QED  BY <1>7, <3>1 DEF UsersOf
 <2>2. GoodText(pr2, x.txt, sc, t)  BY <1>4, <1>8, <2>1 DEF GoodText, FreeText
 <2> QED  BY <1>6, <2>2 DEF Goods
<1>9. CASE tt[t].count # 1
 <2>1. /\ x.txt[t].saved = tt[t].saved /\ x.txt[t].ccount = tt[t].ccount - 1
       /\ x.txt[t].good = (tt[t].good /\ tt[t].ccount > 1)
  <3>1. d.txt[t] \in TextRec  BY <1>5
  <3> QED  BY <1>4, <1>5, <1>9, <3>1 DEF TextRec
 <2>2. GoodText(pr, tt, sc, t)  BY DEF Goods
 <2>3. \A q \in UsersOf(pr2, t) : q # p /\ q \in UsersOf(pr, t) /\ pr2[q] = pr[q]
   BY <1>7 DEF OnlySlot, UsersOf
 <2>4. CASE tt[t].saved
  <3>1. x.txt[t].ccount > 0 => tt[t].ccount > 1  BY <1>2, <2>1
  <3> QED  BY <1>2, <1>6, <2>1, <2>2, <2>4, <3>1, Zenon DEF GoodText, Goods
 <2>5. CASE ~tt[t].saved
  <3>1. PICK q \in UsersOf(pr, t) : /\ pr[q].pc \in {"fill", "textout"}
                                    /\ q \in CoreOf(pr, sc, t) \/ UsersOf(pr, t) = {q}
    BY <1>2, <2>2, <2>5 DEF GoodText
  <3>2. q # p /\ q \in CoreOf(pr, sc, t)  BY <1>1, <3>1
  <3>3. tt[t].ccount > 1  BY <1>1, <3>2, CoreCounts
  <3>4. tt[t].good => x.txt[t].good  BY <2>1, <3>3, Zenon
  <3>5. q \in UsersOf(pr2, t) /\ pr2[q] = pr[q]  BY <1>7, <3>1, <3>2 DEF OnlySlot, UsersOf
  <3>6. q \in CoreOf(pr2, sc, t)  BY <3>2, <3>5 DEF CoreOf
  <3>7. GoodText(pr2, x.txt, sc, t)  BY <2>1, <2>2, <2>3, <2>5, <3>1, <3>4, <3>5, <3>6 DEF GoodText
  <3> QED  BY <1>6, <3>7 DEF Goods
 <2> QED  BY <2>4, <2>5
<1> QED  BY <1>8, <1>9

\* A process leaves memory, other than the first of a text that others use.
LeavesGood(pr, tt, sc, q, pr2) ==
    /\ Typed(pr, tt, sc) /\ Counted(pr, tt, sc) /\ Goods(pr, tt, sc)
    /\ q \in Slots /\ Inside(pr[q]) /\ OnlySlot(pr, q, pr2)
    /\ pr2[q].text = pr[q].text /\ pr2[q].pc = pr[q].pc /\ pr[q].pc # "textout"
    /\ pr[q].pc = "fill" => UsersOf(pr, pr[q].text) = {q}

LEMMA GoodLeave ==
  ASSUME NEW pr, NEW tt, NEW sc, NEW q, NEW pr2, LeavesGood(pr, tt, sc, q, pr2),
         NEW mm, NEW d, d = XccDec(pr[q].text, tt, mm)
  PROVE  Goods(pr2, d.txt, sc)
<1>1. /\ Typed(pr, tt, sc) /\ Counted(pr, tt, sc) /\ Goods(pr, tt, sc)
      /\ q \in Slots /\ Inside(pr[q]) /\ OnlySlot(pr, q, pr2)
      /\ pr2[q].text = pr[q].text /\ pr2[q].pc = pr[q].pc /\ pr[q].pc # "textout"
      /\ pr[q].pc = "fill" => UsersOf(pr, pr[q].text) = {q}
  BY DEF LeavesGood
<1>2. PICK t : t = pr[q].text  OBVIOUS
<1>3. ASSUME NEW u \in Texts, u # t, d.txt[u] = tt[u] PROVE GoodText(pr2, d.txt, sc, u)
 <2>1. pr[q].text # u /\ pr2[q].text # u /\ GoodText(pr, tt, sc, u)  BY <1>1, <1>2, <1>3 DEF Goods
 <2> QED  BY <1>1, <1>3, <2>1, OthersKept
<1>4. CASE t = NoText
 <2>1. d.txt = tt  BY <1>2, <1>4 DEF XccDec
 <2> QED  BY <1>3, <1>4, <2>1 DEF Goods, Texts, NoText
<1>5. CASE t \in Texts
 <2>1. q \in CoreOf(pr, sc, t) /\ q \in UsersOf(pr, t)  BY <1>1, <1>2 DEF CoreOf, UsersOf, HasIn
 <2>2. /\ tt \in [Texts -> TextRec] /\ tt[t].ccount > 0 /\ tt[t].count > 0
       /\ tt[t].ccount \in Nat /\ GoodText(pr, tt, sc, t)
  <3>1. tt[t].ccount > 0 /\ tt[t].count > 0 /\ tt[t].count \in Nat /\ tt[t].ccount \in Nat
    BY <1>1, <1>5, <2>1, CoreCounts
  <3> QED  BY <1>1, <1>5, <3>1 DEF Typed, Goods
 <2>3. /\ \A u \in Texts : u # t => d.txt[u] = tt[u]
       /\ d.txt[t].saved = tt[t].saved /\ d.txt[t].count = tt[t].count
       /\ d.txt[t].ccount = tt[t].ccount - 1
       /\ d.txt[t].good = (tt[t].good /\ tt[t].ccount > 1)
   BY <1>2, <1>5, <2>2, XccDecEffect
 <2>4. UsersOf(pr2, t) = UsersOf(pr, t) /\ \A p \in UsersOf(pr, t) : pr2[p].pc = pr[p].pc
   BY <1>1, <1>2 DEF UsersOf, OnlySlot
 <2>5. CASE tt[t].saved
  <3>1. d.txt[t].ccount > 0 => tt[t].ccount > 1  BY <2>2, <2>3
  <3>2. GoodText(pr2, d.txt, sc, t)  BY <2>2, <2>3, <2>5, <3>1, Zenon DEF GoodText
  <3> QED  BY <1>3, <2>3, <3>2 DEF Goods
 <2>6. CASE ~tt[t].saved
  <3>1. PICK p \in UsersOf(pr, t) : /\ pr[p].pc \in {"fill", "textout"}
                                    /\ p \in CoreOf(pr, sc, t) \/ UsersOf(pr, t) = {p}
    BY <2>2, <2>6 DEF GoodText
  <3>2. CASE p = q
   <4>1. UsersOf(pr2, t) = {q} /\ pr2[q].pc = "fill"  BY <1>1, <1>2, <2>4, <3>1, <3>2
   <4>2. GoodText(pr2, d.txt, sc, t)  BY <2>3, <2>6, <4>1 DEF GoodText
   <4> QED  BY <1>3, <2>3, <4>2 DEF Goods
  <3>3. CASE p # q
   <4>1. p \in CoreOf(pr, sc, t)  BY <2>1, <3>1, <3>3
   <4>2. tt[t].ccount > 1  BY <1>1, <1>5, <2>1, <3>3, <4>1, CoreCounts
   <4>3. tt[t].good => d.txt[t].good  BY <2>3, <4>2, Zenon
   <4>4. pr2[p] = pr[p] /\ p \in Slots  BY <1>1, <3>1, <3>3 DEF OnlySlot, UsersOf
   <4>5. p \in CoreOf(pr2, sc, t)  BY <4>1, <4>4 DEF CoreOf
   <4>6. GoodText(pr2, d.txt, sc, t)  BY <2>2, <2>3, <2>4, <2>6, <3>1, <4>3, <4>4, <4>5 DEF GoodText
   <4> QED  BY <1>3, <2>3, <4>6 DEF Goods
  <3> QED  BY <3>2, <3>3
 <2> QED  BY <2>5, <2>6
<1>6. t = NoText \/ t \in Texts
 <2>1. pr[q] \in SlotRec  BY <1>1 DEF Typed
 <2> QED  BY <1>2, <2>1, SlotFields
<1> QED  BY <1>4, <1>5, <1>6

\* Sched has read a text back: it is right if its copy is.
ComesGood(pr, tt, sc, t, tt2, sc2) ==
    /\ Typed(pr, tt, sc) /\ Counted(pr, tt, sc) /\ Goods(pr, tt, sc)
    /\ t \in Texts /\ tt[t].ccount = 0 /\ sc.pc = "text"
    /\ \A p \in Slots : pr[p].pc = "textout" => Inside(pr[p])
    /\ \A u \in Texts : u # t => tt2[u] = tt[u]
    /\ tt2[t].saved = tt[t].saved /\ tt2[t].good = tt[t].saved /\ tt2[t].count = tt[t].count

LEMMA GoodCome ==
  ASSUME NEW pr, NEW tt, NEW sc, NEW t, NEW tt2, NEW sc2, ComesGood(pr, tt, sc, t, tt2, sc2)
  PROVE  Goods(pr, tt2, sc2)
<1>1. /\ Typed(pr, tt, sc) /\ Counted(pr, tt, sc) /\ Goods(pr, tt, sc)
      /\ t \in Texts /\ tt[t].ccount = 0 /\ sc.pc = "text"
      /\ \A p \in Slots : pr[p].pc = "textout" => Inside(pr[p])
      /\ \A u \in Texts : u # t => tt2[u] = tt[u]
      /\ tt2[t].saved = tt[t].saved /\ tt2[t].good = tt[t].saved /\ tt2[t].count = tt[t].count
  BY DEF ComesGood
<1>2. \A u \in Texts : CoreOf(pr, sc, u) \subseteq CoreOf(pr, sc2, u)  BY <1>1 DEF CoreOf, HasIn
<1>3. ASSUME NEW u \in Texts, u # t PROVE GoodText(pr, tt2, sc2, u)
 <2>1. tt2[u] = tt[u] /\ GoodText(pr, tt, sc, u)  BY <1>1, <1>3 DEF Goods
 <2>2. KeepsGood(pr, tt, sc, pr, tt2, sc2, u)  BY <1>2, <2>1 DEF KeepsGood
 <2> QED  BY <2>1, <2>2, GoodKept
<1>4. GoodText(pr, tt, sc, t) /\ CoreOf(pr, sc, t) = {}
 <2>1. tt[t].ccount > 0 <=> CoreOf(pr, sc, t) # {}  BY <1>1, CoreCounts
 <2> QED  BY <1>1, <2>1 DEF Goods
<1>5. CASE tt[t].saved  BY <1>1, <1>3, <1>5, Zenon DEF GoodText, Goods
<1>6. CASE ~tt[t].saved /\ tt[t].count > 0
 <2>1. PICK p \in UsersOf(pr, t) : /\ pr[p].pc \in {"fill", "textout"}
                                   /\ UsersOf(pr, t) = {p}
   BY <1>4, <1>6 DEF GoodText
 <2>2. pr[p].pc = "fill"
  <3>1. p \in Slots /\ p \notin CoreOf(pr, sc, t)  BY <1>4, <2>1 DEF UsersOf
  <3> QED  BY <1>1, <2>1, <3>1 DEF CoreOf, UsersOf, HasIn
 <2>3. GoodText(pr, tt2, sc2, t)  BY <1>1, <1>6, <2>1, <2>2 DEF GoodText
 <2> QED  BY <1>3, <2>3 DEF Goods
<1>7. CASE ~tt[t].saved /\ ~(tt[t].count > 0)
 <2>1. UsersOf(pr, t) = {}  BY <1>1, <1>7, CoreCounts
 <2>2. GoodText(pr, tt2, sc2, t)  BY <1>1, <1>7, <2>1 DEF GoodText
 <2> QED  BY <1>3, <2>2 DEF Goods
<1> QED  BY <1>5, <1>6, <1>7

\* The first process has read the text, or has saved it.
TurnsGood(pr, tt, sc, p, t, pr2, tt2) ==
    /\ Typed(pr, tt, sc) /\ Counted(pr, tt, sc) /\ Goods(pr, tt, sc)
    /\ p \in Slots /\ t \in Texts /\ Inside(pr[p]) /\ Inside(pr2[p]) /\ OnlySlot(pr, p, pr2)
    /\ pr[p].text = t /\ pr2[p].text = t
    /\ \A u \in Texts : u # t => tt2[u] = tt[u]
    /\ tt2[t].good /\ (tt2[t].saved \/ pr2[p].pc = "textout")

LEMMA GoodTurn ==
  ASSUME NEW pr, NEW tt, NEW sc, NEW p, NEW t, NEW pr2, NEW tt2,
         TurnsGood(pr, tt, sc, p, t, pr2, tt2)
  PROVE  Goods(pr2, tt2, sc)
<1>1. /\ Typed(pr, tt, sc) /\ Counted(pr, tt, sc) /\ Goods(pr, tt, sc)
      /\ p \in Slots /\ t \in Texts /\ Inside(pr[p]) /\ Inside(pr2[p]) /\ OnlySlot(pr, p, pr2)
      /\ pr[p].text = t /\ pr2[p].text = t
      /\ \A u \in Texts : u # t => tt2[u] = tt[u]
      /\ tt2[t].good /\ (tt2[t].saved \/ pr2[p].pc = "textout")
  BY DEF TurnsGood
<1>2. ASSUME NEW u \in Texts, u # t PROVE GoodText(pr2, tt2, sc, u)
 <2>1. pr[p].text # u /\ pr2[p].text # u /\ tt2[u] = tt[u] /\ GoodText(pr, tt, sc, u)
   BY <1>1, <1>2 DEF Goods
 <2> QED  BY <1>1, <2>1, OthersKept
<1>3. p \in UsersOf(pr2, t) /\ p \in CoreOf(pr2, sc, t)  BY <1>1 DEF UsersOf, CoreOf, HasIn
<1>4. GoodText(pr2, tt2, sc, t)  BY <1>1, <1>3 DEF GoodText
<1> QED  BY <1>2, <1>4 DEF Goods

-----------------------------------------------------------------------------
(* The swap buffer                                                         *)

\* Entering and leaving Swap keeps the buffer's invariant.
LEMMA BeginKeeps ==
  ASSUME NEW q \in 0..N, BufferOk(swb, tx, sleepers), SwapBegin(q),
         tx[q] = "no" \/ (tx[q] = "want" /\ q \notin sleepers)
  PROVE  /\ BufferOk(swb', tx', sleepers')
         /\ tx' \in [0..N -> {"no", "want", "go"}] /\ tx'[q] # "no"
         /\ \A x \in 0..N : x # q => tx'[x] = tx[x]
<1>1. /\ swb \in [owner : -1..N, wanted : BOOLEAN, done : BOOLEAN]
      /\ tx \in [0..N -> {"no", "want", "go"}] /\ sleepers \subseteq 0..N
  BY DEF BufferOk
<1>2. CASE swb.owner = -1
 <2>1. /\ swb' = [owner |-> q, wanted |-> FALSE, done |-> FALSE]
       /\ tx' = [tx EXCEPT ![q] = "go"] /\ sleepers' = sleepers \cup {q}
   BY <1>2 DEF SwapBegin
 <2>2. /\ swb'.owner = q /\ ~swb'.wanted /\ ~swb'.done
       /\ swb' \in [owner : -1..N, wanted : BOOLEAN, done : BOOLEAN]
   BY <2>1
 <2>3. /\ tx' \in [0..N -> {"no", "want", "go"}] /\ tx'[q] = "go"
       /\ \A x \in 0..N : x # q => tx'[x] = tx[x]
   BY <1>1, <2>1
 <2>4. \A x \in 0..N : tx[x] # "go" /\ (tx[x] = "want" => x \notin sleepers)
  <3>1. \A x \in 0..N : swb.owner # x  BY <1>2, Consts
  <3> QED  BY <1>2, <3>1 DEF BufferOk
 <2>5. sleepers' \subseteq 0..N  BY <1>1, <2>1
 <2>6. ASSUME NEW x \in 0..N
       PROVE  /\ tx'[x] = "go" <=> swb'.owner = x
              /\ tx'[x] = "go" => (x \in sleepers' <=> ~swb'.done)
              /\ tx'[x] = "want" /\ x \in sleepers' =>
                    swb'.owner # -1 /\ (swb'.wanted \/ ~swb'.done)
  <3>1. CASE x = q  BY <2>1, <2>2, <2>3, <3>1
  <3>2. CASE x # q  BY <2>1, <2>2, <2>3, <2>4, <3>2
  <3> QED  BY <3>1, <3>2
 <2> QED  BY <2>2, <2>3, <2>5, <2>6 DEF BufferOk
<1>3. CASE swb.owner # -1
 <2>1. /\ swb' = [swb EXCEPT !.wanted = TRUE]
       /\ tx' = [tx EXCEPT ![q] = "want"] /\ sleepers' = sleepers \cup {q}
   BY <1>3 DEF SwapBegin
 <2>2. /\ swb'.owner = swb.owner /\ swb'.wanted /\ swb'.done = swb.done
       /\ swb' \in [owner : -1..N, wanted : BOOLEAN, done : BOOLEAN]
   BY <1>1, <2>1, Zenon
 <2>3. /\ tx' \in [0..N -> {"no", "want", "go"}] /\ tx'[q] = "want"
       /\ \A x \in 0..N : x # q => tx'[x] = tx[x]
   BY <1>1, <2>1
 <2>4. sleepers' \subseteq 0..N  BY <1>1, <2>1
 <2>5. \A x \in 0..N : /\ tx[x] = "go" <=> swb.owner = x
                       /\ tx[x] = "go" => (x \in sleepers <=> ~swb.done)
   BY DEF BufferOk
 <2>6. ASSUME NEW x \in 0..N
       PROVE  /\ tx'[x] = "go" <=> swb'.owner = x
              /\ tx'[x] = "go" => (x \in sleepers' <=> ~swb'.done)
              /\ tx'[x] = "want" /\ x \in sleepers' =>
                    swb'.owner # -1 /\ (swb'.wanted \/ ~swb'.done)
  <3>1. CASE x = q  BY <1>3, <2>2, <2>3, <2>5, <3>1
  <3>2. CASE x # q  BY <1>3, <2>1, <2>2, <2>3, <2>5, <3>2
  <3> QED  BY <3>1, <3>2
 <2> QED  BY <2>2, <2>3, <2>4, <2>6 DEF BufferOk
<1> QED  BY <1>2, <1>3

LEMMA EndKeeps ==
  ASSUME NEW q \in 0..N, BufferOk(swb, tx, sleepers), SwapEnd(q)
  PROVE  /\ BufferOk(swb', tx', sleepers')
         /\ tx' \in [0..N -> {"no", "want", "go"}] /\ tx'[q] = "no" /\ tx[q] # "no"
         /\ \A x \in 0..N : x # q => tx'[x] = tx[x]
<1>1. /\ swb \in [owner : -1..N, wanted : BOOLEAN, done : BOOLEAN]
      /\ tx \in [0..N -> {"no", "want", "go"}] /\ sleepers \subseteq 0..N
  BY DEF BufferOk
<1>2. /\ tx[q] = "go" /\ q \notin sleepers
      /\ swb' = [owner |-> -1, wanted |-> FALSE, done |-> FALSE]
      /\ tx' = [tx EXCEPT ![q] = "no"]
      /\ sleepers' = IF swb.wanted THEN {} ELSE sleepers
  BY DEF SwapEnd
<1>3. swb.owner = q /\ swb.done  BY <1>1, <1>2 DEF BufferOk
<1>4. /\ tx' \in [0..N -> {"no", "want", "go"}] /\ tx'[q] = "no"
      /\ \A x \in 0..N : x # q => tx'[x] = tx[x]
  BY <1>1, <1>2
<1>5. /\ swb' \in [owner : -1..N, wanted : BOOLEAN, done : BOOLEAN]
      /\ swb'.owner = -1 /\ sleepers' \subseteq 0..N
 <2>1. -1 \in -1..N  BY Consts
 <2>2. sleepers' \subseteq 0..N  BY <1>1, <1>2, Zenon
 <2> QED  BY <1>2, <2>1, <2>2
<1>6. ASSUME NEW x \in 0..N PROVE tx'[x] # "go" /\ (tx'[x] = "want" => x \notin sleepers')
 <2>1. CASE x = q  BY <1>4, <2>1
 <2>2. CASE x # q
  <3>1. tx[x] # "go"  BY <1>3, <2>2 DEF BufferOk
  <3>2. tx[x] = "want" /\ x \in sleepers => swb.wanted  BY <1>3 DEF BufferOk
  <3> QED  BY <1>2, <1>4, <2>2, <3>1, <3>2
 <2> QED  BY <2>1, <2>2
<1>7. \A x \in 0..N : swb'.owner # x  BY <1>5, Consts
<1> QED  BY <1>2, <1>4, <1>5, <1>6, <1>7 DEF BufferOk

\* A process begins, or ends, a transfer (Sched: 0): it is locked while it swaps.
SwapsOne(pr, x, sc, p, pr2, x2, sc2) ==
    /\ Locks(pr, x, sc) /\ p \in 0..N /\ x2 \in [0..N -> {"no", "want", "go"}]
    /\ \A q \in 0..N : q # p => x2[q] = x[q]
    /\ \A q \in Slots : q # p => pr2[q].lock = pr[q].lock
    /\ p # 0 => (pr2[p].lock <=> x2[p] # "no")
    /\ IF p = 0 THEN Moving(sc2) <=> x2[0] # "no" ELSE Moving(sc2) <=> Moving(sc)

\* One actor enters or leaves Swap.
LEMMA LocksOne ==
  ASSUME NEW pr, NEW x, NEW sc, NEW p, NEW pr2, NEW x2, NEW sc2,
         SwapsOne(pr, x, sc, p, pr2, x2, sc2)
  PROVE  Locks(pr2, x2, sc2)
<1>1. \A q \in Slots : q \in 0..N /\ q # 0  BY Consts DEF Slots
<1>2. 0 \in 0..N  BY Consts
<1>3. \A q \in Slots : pr2[q].lock <=> x2[q] # "no"  BY <1>1 DEF SwapsOne, Locks
<1>4. Moving(sc2) <=> x2[0] # "no"  BY <1>2 DEF SwapsOne, Locks
<1> QED  BY <1>3, <1>4 DEF SwapsOne, Locks

LEMMA LocksKept ==
  ASSUME NEW pr, NEW x, NEW sc, Locks(pr, x, sc), NEW pr2, NEW sc2,
         Moving(sc2) <=> Moving(sc), \A q \in Slots : pr2[q].lock <=> pr[q].lock
  PROVE  Locks(pr2, x, sc2)
  BY DEF Locks

-----------------------------------------------------------------------------
(* Steps of a process                                                      *)

\* Slots stay right.
LEMMA BirthsKept ==
  ASSUME NEW pr, NEW pr2, Births(pr),
         \A q \in Slots : pr2[q].pc = "born" => pr[q].pc = "born" /\ pr2[q].par = pr[q].par,
         \A q \in Slots : pr[q].stat = "idl" => pr2[q].stat = "idl"
  PROVE  Births(pr2)
  BY DEF Births

LEMMA OneSlotOk ==
  ASSUME NEW pr, SlotsOk(pr), NEW p \in Slots,
         NEW pr2, OnlySlot(pr, p, pr2), SlotOk(pr2[p]), pr2[p].pc # "born", pr[p].stat # "idl"
  PROVE  SlotsOk(pr2)
<1>1. Births(pr2)
 <2>1. \A q \in Slots : pr2[q].pc = "born" => pr[q].pc = "born" /\ pr2[q].par = pr[q].par
   BY DEF OnlySlot
 <2>2. \A q \in Slots : pr[q].stat = "idl" => pr2[q].stat = "idl"  BY DEF OnlySlot
 <2> QED  BY <2>1, <2>2, BirthsKept DEF SlotsOk
<1>2. \A q \in Slots : SlotOk(pr2[q])  BY DEF SlotsOk, OnlySlot
<1> QED  BY <1>1, <1>2 DEF SlotsOk

LEMMA SchedKept ==
  ASSUME NEW pr, NEW sc, NEW out, SchedOk(pr, sc, out),
         NEW pr2, \A q \in Slots : IsSwapped(pr2[q]) <=> IsSwapped(pr[q])
  PROVE  SchedOk(pr2, sc, out)
  BY DEF SchedOk

\* What a process is that runs
LEMMA RunFacts ==
  ASSUME NEW mm, NEW sm, NEW pr, NEW tt, NEW sc, NEW b, NEW x, NEW z, NEW out,
         Consistent(mm, sm, pr, tt, sc, b, x, z, out), NEW p \in Slots,
         NEW r, r = pr[p], r.stat = "run", r.load, x[p] = "no"
  PROVE  /\ r \in SlotRec /\ SlotOk(r) /\ HereSlot(r) /\ Sized(r)
         /\ ~r.lock /\ Inside(r) /\ ~IsSwapped(r)
         /\ r.addr > 0 /\ r.addr % 2 = 0 /\ r.held = r.size /\ r.size > 0
         /\ r.pc \in {"user", "fill", "join", "dying", "reap"}
         /\ (Moving(sc) => sc.sel # p)
         /\ r.pc \in {"user", "fill", "join"} => SlotBlocks(r) = {}
         /\ \A q \in Slots : pr[q].pc = "born" => pr[q].par # p
<1>1. /\ Typed(pr, tt, sc) /\ SelOk(pr, tt, sc) /\ SlotsOk(pr) /\ Locks(pr, x, sc)
      /\ pr \in [Slots -> SlotRec]
  BY DEF Consistent, Tables, Typed
<1>2. r \in SlotRec /\ SlotOk(r)  BY <1>1 DEF SlotsOk
<1>3. ~r.lock  BY <1>1 DEF Locks
<1>4. HereSlot(r) /\ Sized(r) /\ r.addr > 0
  BY <1>2, <1>3 DEF SlotOk, NullSlot, DeadSlot, LiveSlot, GoingSlot, BornSlot, OutSlot
<1>5. r.size > 0
 <2>1. r.data \in Nat /\ r.stack \in Nat  BY <1>2, SlotFields
 <2> QED  BY <1>4, <2>1 DEF Sized, ImageSize, USIZE
<1>6. r.pc \in {"user", "fill", "join", "dying", "reap"}
 <2>1. r.pc \in PCs  BY <1>2, SlotFields
 <2> QED  BY <1>3, <1>4, <2>1 DEF HereSlot, PCs
<1>7. Inside(r) /\ ~IsSwapped(r) /\ ~IsLeaving(r)  BY <1>3 DEF Inside, IsSwapped, IsLeaving
<1>8. Moving(sc) => sc.sel # p  BY <1>1, SelOther
<1>9. r.pc \in {"user", "fill", "join"} => SlotBlocks(r) = {}  BY <1>7 DEF SlotBlocks
<1>10. \A q \in Slots : pr[q].pc = "born" => pr[q].par # p  BY <1>1 DEF SlotsOk, Births
<1> QED  BY <1>2, <1>3, <1>4, <1>5, <1>6, <1>7, <1>8, <1>9, <1>10 DEF HereSlot

\* A slot's image is about to leave memory: all is well but the slot's size.
Departs(mm, sm, pr, tt, sc, x, out, q) ==
    /\ Tables(mm, sm, pr, tt, sc) /\ Goods(pr, tt, sc) /\ Locks(pr, x, sc) /\ SchedOk(pr, sc, out)
    /\ q \in Slots /\ (\A s \in Slots : s # q => SlotOk(pr[s])) /\ Births(pr)
    /\ pr[q].stat = "run" /\ pr[q].load /\ ~pr[q].lock /\ x[q] = "no"
    /\ pr[q].addr > 0 /\ Sized(pr[q])
    /\ \/ pr[q].pc \in {"user", "fill", "join"} /\ pr[q].held > 0 /\ pr[q].addr % 2 = 0
       \/ pr[q].pc = "born" /\ pr[q].held = 0 /\ pr[q].par # 0
    /\ pr[q].pc \in {"fill", "join"} => pr[q].text # NoText
    /\ pr[q].pc = "fill" => UsersOf(pr, pr[q].text) = {q}
    /\ Moving(sc) => sc.sel # q

WithBlocks(pr, q, a) == [pr EXCEPT ![q].lock = TRUE, ![q].blk = a]

\* XSwap's first half
LEMMA Departed ==
  ASSUME NEW mm, NEW sm, NEW pr, NEW tt, NEW sc, NEW x, NEW out, NEW q,
         Departs(mm, sm, pr, tt, sc, x, out, q),
         NEW b, b = Alloc(sm, pr[q].size), b.at # 0,
         NEW d, d = XccDec(pr[q].text, tt, mm),
         NEW pr2, pr2 = WithBlocks(pr, q, b.at)
  PROVE  /\ Tables(d.mm, b.map, pr2, d.txt, sc) /\ SlotsOk(pr2) /\ Goods(pr2, d.txt, sc)
         /\ SchedOk(pr2, sc, out)
         /\ pr2[q].lock /\ \A s \in Slots : s # q => pr2[s] = pr[s]
<1>1. /\ Tables(mm, sm, pr, tt, sc) /\ Goods(pr, tt, sc) /\ Locks(pr, x, sc)
      /\ SchedOk(pr, sc, out) /\ Typed(pr, tt, sc) /\ Counted(pr, tt, sc)
      /\ q \in Slots /\ (\A s \in Slots : s # q => SlotOk(pr[s])) /\ Births(pr)
      /\ pr[q].stat = "run" /\ pr[q].load /\ ~pr[q].lock
      /\ pr[q].pc \in {"user", "fill", "join", "born"}
      /\ pr[q].pc = "fill" => UsersOf(pr, pr[q].text) = {q}
      /\ Moving(sc) => sc.sel # q
      /\ pr \in [Slots -> SlotRec]
  BY DEF Departs, Tables, Typed
<1>2. PICK r : r = pr[q] /\ r \in SlotRec  BY <1>1
<1>3. r.size > 0 /\ r.size \in Nat
 <2>1. r.data \in Nat /\ r.stack \in Nat /\ r.size \in Nat  BY <1>2, SlotFields
 <2> QED  BY <1>2, <2>1 DEF Departs, Sized, ImageSize, USIZE
<1>4. b.at \in 0..SwapBlocks /\ b.at > 0
 <2>1. Held(sm, SwapBlocks, SwapOwner(pr, tt))  BY <1>1 DEF Tables
 <2> QED  BY <1>2, <1>3, <2>1, BlocksTaken
<1>5. PICK r2 : r2 = [r EXCEPT !.lock = TRUE, !.blk = b.at]  OBVIOUS
<1>6. /\ r2 \in SlotRec /\ r2.lock /\ r2.blk = b.at /\ r2.blk > 0
      /\ r2.stat = r.stat /\ r2.load = r.load /\ r2.addr = r.addr /\ r2.size = r.size
      /\ r2.data = r.data /\ r2.stack = r.stack /\ r2.par = r.par /\ r2.text = r.text
      /\ r2.pc = r.pc /\ r2.held = r.held /\ r2.kid = r.kid
  BY <1>2, <1>4, <1>5, Zenon DEF SlotRec
<1>7. pr2 = [pr EXCEPT ![q] = r2]  BY <1>1, <1>2, <1>5, Zenon DEF WithBlocks
<1>8. pr2[q] = r2 /\ \A s \in Slots : s # q => pr2[s] = pr[s]  BY <1>1, <1>7
<1>9. /\ Inside(r) /\ ~Inside(r2) /\ IsLeaving(r2) /\ ~IsLeaving(r)
      /\ ~IsSwapped(r) /\ ~IsSwapped(r2) /\ ImageOf(r2) = ImageOf(r)
      /\ SlotBlocks(r) = {} /\ SlotBlocks(r2) = Block(b.at, r.size)
 <2>1. /\ Inside(r) /\ ~Inside(r2) /\ IsLeaving(r2) /\ ~IsLeaving(r)
       /\ ~IsSwapped(r) /\ ~IsSwapped(r2)
   BY <1>1, <1>2, <1>6 DEF Inside, IsLeaving, IsSwapped
 <2>2. ImageOf(r2) = ImageOf(r)  BY <1>6 DEF ImageOf
 <2>3. SlotBlocks(r) = {}  BY <1>1, <1>2, <2>1 DEF SlotBlocks
 <2>4. SlotBlocks(r2) = Block(b.at, r.size)  BY <1>6, <2>1 DEF SlotBlocks
 <2> QED  BY <2>1, <2>2, <2>3, <2>4
<1>10. Leaves(mm, sm, pr, tt, sc, q, r2, pr2, b, d)
  BY <1>1, <1>2, <1>3, <1>6, <1>7, <1>9 DEF Leaves
<1>11. Tables(d.mm, b.map, pr2, d.txt, sc)  BY <1>1, <1>10, LeaveMemory
<1>12. Goods(pr2, d.txt, sc)
 <2>1. LeavesGood(pr, tt, sc, q, pr2)  BY <1>1, <1>2, <1>6, <1>8, <1>9 DEF LeavesGood, OnlySlot
 <2> QED  BY <2>1, GoodLeave
<1>13. SlotsOk(pr2)
 <2>1. Births(pr2)
  <3>1. \A s \in Slots : pr2[s].pc = pr[s].pc /\ pr2[s].par = pr[s].par /\ pr2[s].stat = pr[s].stat
    BY <1>2, <1>6, <1>8
  <3>2. Births(pr)  BY <1>1
  <3> QED  BY ONLY <3>1, <3>2 DEF Births
 <2>2. SlotOk(r2)
  <3>1. Sized(r2)  BY <1>2, <1>6 DEF Departs, Sized
  <3>2. GoingSlot(r2) \/ BornSlot(r2)  BY <1>1, <1>2, <1>6 DEF Departs, GoingSlot, BornSlot
  <3>3. r2.addr > 0 /\ r2.stat = "run" /\ (r2.pc \in {"fill", "join", "textout"} => r2.text # NoText)
    BY <1>1, <1>2, <1>6 DEF Departs
  <3> QED  BY <3>1, <3>2, <3>3 DEF SlotOk, LiveSlot
 <2> QED  BY <1>1, <1>8, <2>1, <2>2 DEF SlotsOk
<1>14. SchedOk(pr2, sc, out)
 <2>1. \A s \in Slots : IsSwapped(pr2[s]) <=> IsSwapped(pr[s])  BY <1>2, <1>8, <1>9
 <2> QED  BY <1>1, <2>1, SchedKept
<1> QED  BY <1>6, <1>8, <1>11, <1>12, <1>13, <1>14

\* A step that keeps the invariant
StaysConsistent == fault' = fault /\ Consistent(mmap', smap', proc', text', sch', swb', tx', sleepers', runout')

LEMMA LeaveKeeps ==
  ASSUME NEW mm, NEW sm, NEW pr, NEW tt, NEW q,
         Departs(mm, sm, pr, tt, sch, tx, runout, q), BufferOk(swb, tx, sleepers),
         XSwapBegin(q, pr, tt, mm, sm)
  PROVE  Happen("panic") \/ StaysConsistent
<1>1. PICK b, d : b = Alloc(sm, pr[q].size) /\ d = XccDec(pr[q].text, tt, mm)  OBVIOUS
<1>2. CASE b.at = 0  BY <1>1, <1>2 DEF XSwapBegin
<1>3. CASE b.at # 0
 <2>1. /\ proc' = WithBlocks(pr, q, b.at)
       /\ text' = d.txt /\ mmap' = d.mm /\ smap' = b.map
       /\ SwapBegin(q)
       /\ sch' = sch /\ runout' = runout /\ fault' = fault
   BY <1>1, <1>3, Zenon DEF XSwapBegin, WithBlocks
 <2>2. PICK pr2, mm2, sm2, tt2 : pr2 = proc' /\ mm2 = mmap' /\ sm2 = smap' /\ tt2 = text'  OBVIOUS
 <2>3. /\ Tables(d.mm, b.map, pr2, d.txt, sch) /\ SlotsOk(pr2) /\ Goods(pr2, d.txt, sch)
       /\ SchedOk(pr2, sch, runout)
       /\ pr2[q].lock /\ \A s \in Slots : s # q => pr2[s] = pr[s]
   BY <1>1, <1>3, <2>1, <2>2, Departed
 <2>4. /\ q \in Slots /\ q \in 0..N /\ tx[q] = "no" /\ Locks(pr, tx, sch)
   BY Consts DEF Departs, Slots
 <2>5. /\ BufferOk(swb', tx', sleepers')
       /\ tx' \in [0..N -> {"no", "want", "go"}] /\ tx'[q] # "no"
       /\ \A s \in 0..N : s # q => tx'[s] = tx[s]
   BY <2>1, <2>4, BeginKeeps
 <2>6. PICK x2, b2, z2 : x2 = tx' /\ b2 = swb' /\ z2 = sleepers'  OBVIOUS
 <2>7. Locks(pr2, x2, sch)
  <3>1. /\ x2 \in [0..N -> {"no", "want", "go"}]
        /\ pr2[q].lock <=> x2[q] # "no"
        /\ \A s \in 0..N : s # q => x2[s] = tx[s]
    BY <2>3, <2>5, <2>6
  <3>2. \A s \in Slots : s # q => pr2[s].lock = pr[s].lock  BY <2>3
  <3>3. SwapsOne(pr, tx, sch, q, pr2, x2, sch)  BY <2>4, <3>1, <3>2, Consts DEF SwapsOne, Slots
  <3> QED  BY <3>3, LocksOne
 <2>b. BufferOk(b2, x2, z2)  BY <2>5, <2>6
 <2>8. Consistent(mm2, sm2, pr2, tt2, sch, b2, x2, z2, runout)
   BY <2>1, <2>2, <2>3, <2>b, <2>7 DEF Consistent
 <2> QED  BY <2>1, <2>2, <2>6, <2>8 DEF StaysConsistent
<1> QED  BY <1>2, <1>3

\* Process p is about to get an image of size n: all is well but its size.
Grows(mm, sm, pr, tt, sc, x, out, p, n) ==
    /\ Tables(mm, sm, pr, tt, sc) /\ Goods(pr, tt, sc) /\ Locks(pr, x, sc) /\ SchedOk(pr, sc, out)
    /\ p \in Slots /\ (\A s \in Slots : s # p => SlotOk(pr[s])) /\ Births(pr)
    /\ pr[p].stat = "run" /\ pr[p].load /\ ~pr[p].lock /\ x[p] = "no"
    /\ pr[p].addr > 0 /\ pr[p].addr % 2 = 0 /\ pr[p].held = pr[p].size /\ pr[p].held > 0
    /\ pr[p].pc \in {"user", "fill", "join"}
    /\ pr[p].pc \in {"fill", "join"} => pr[p].text # NoText
    /\ pr[p].pc = "fill" => UsersOf(pr, pr[p].text) = {p}
    /\ Moving(sc) => sc.sel # p
    /\ pr[p].stack >= 2 /\ pr[p].stack % 2 = 0 /\ n = ImageSize(pr[p].data, pr[p].stack)
    /\ n <= Space /\ n # pr[p].size /\ (n < pr[p].size => n % 2 = 0)

\* Only size, place and extent of the image of p change.
Resized(pr, p, r2, pr2) ==
    /\ pr2 = [pr EXCEPT ![p] = r2] /\ r2 \in SlotRec
    /\ r2.stat = pr[p].stat /\ r2.load = pr[p].load /\ r2.lock = pr[p].lock
    /\ r2.data = pr[p].data /\ r2.stack = pr[p].stack /\ r2.par = pr[p].par
    /\ r2.text = pr[p].text /\ r2.pc = pr[p].pc /\ r2.kid = pr[p].kid

\* Expand, from a slot that runs
LEMMA GrowsFacts ==
  ASSUME NEW mm, NEW sm, NEW pr, NEW tt, NEW sc, NEW x, NEW out, NEW p, NEW n,
         Grows(mm, sm, pr, tt, sc, x, out, p, n),
         NEW r2, NEW pr2, Resized(pr, p, r2, pr2)
  PROVE  /\ pr2[p] = r2 /\ (\A s \in Slots : s # p => pr2[s] = pr[s])
         /\ SlotBlocks(pr[p]) = {} /\ SlotBlocks(r2) = {} /\ ~IsSwapped(r2) /\ ~IsSwapped(pr[p])
         /\ Inside(pr[p]) /\ Inside(r2) /\ Follows(pr, p, r2, sc)
         /\ Goods(pr2, tt, sc) /\ Locks(pr2, x, sc) /\ SchedOk(pr2, sc, out) /\ Births(pr2)
         /\ n \in Nat /\ n > 0 /\ n \in 0..Space + USIZE
         /\ pr[p].data \in Nat /\ pr[p].stack \in Nat /\ pr[p] \in SlotRec
<1>1. /\ Tables(mm, sm, pr, tt, sc) /\ Goods(pr, tt, sc) /\ Locks(pr, x, sc)
      /\ SchedOk(pr, sc, out) /\ Births(pr) /\ p \in Slots
      /\ pr[p].stat = "run" /\ pr[p].load /\ ~pr[p].lock
      /\ pr[p].pc \in {"user", "fill", "join"} /\ (Moving(sc) => sc.sel # p)
      /\ n = ImageSize(pr[p].data, pr[p].stack) /\ n <= Space
  BY DEF Grows
<1>2. pr \in [Slots -> SlotRec]  BY <1>1 DEF Tables, Typed
<1>3. PICK r : r = pr[p] /\ r \in SlotRec  BY <1>1, <1>2
<1>4. /\ r2.stat = "run" /\ r2.load /\ ~r2.lock /\ r2.pc = r.pc /\ r2.text = r.text
      /\ r2.par = r.par /\ r.stat = "run" /\ r.load /\ ~r.lock /\ r.pc \in {"user", "fill", "join"}
  BY <1>1, <1>3 DEF Resized
<1>5. pr2[p] = r2 /\ \A s \in Slots : s # p => pr2[s] = pr[s]  BY <1>1, <1>2 DEF Resized
<1>6. /\ ~IsSwapped(r) /\ ~IsSwapped(r2) /\ Inside(r) /\ Inside(r2)
      /\ SlotBlocks(r) = {} /\ SlotBlocks(r2) = {}
  BY <1>4 DEF IsSwapped, Inside, IsLeaving, SlotBlocks
<1>7. Follows(pr, p, r2, sc)  BY <1>1, <1>3, <1>4, <1>6 DEF Follows
<1>8. Goods(pr2, tt, sc)
 <2>1. \A q \in Slots : SameUse(pr[q], pr2[q], HasIn(pr[q], sc, q), HasIn(pr2[q], sc, q))
   BY <1>3, <1>4, <1>5, <1>6 DEF SameUse, HasIn
 <2>2. \A t \in Texts : SameText(tt[t], tt[t])  BY DEF SameText
 <2> QED  BY <1>1, <2>1, <2>2, GoodsKept
<1>9. Locks(pr2, x, sc)
 <2>1. \A q \in Slots : pr2[q].lock <=> pr[q].lock  BY <1>3, <1>4, <1>5
 <2> QED  BY ONLY <1>1, <2>1, LocksKept
<1>10. SchedOk(pr2, sc, out)
 <2>1. \A q \in Slots : IsSwapped(pr2[q]) <=> IsSwapped(pr[q])  BY <1>3, <1>5, <1>6
 <2> QED  BY ONLY <1>1, <2>1, SchedKept
<1>11. Births(pr2)
 <2>1. \A s \in Slots : pr2[s].pc = pr[s].pc /\ pr2[s].par = pr[s].par /\ pr2[s].stat = pr[s].stat
   BY <1>3, <1>4, <1>5
 <2>2. Births(pr)  BY <1>1
 <2> QED  BY ONLY <2>1, <2>2 DEF Births
<1>12. n \in Nat /\ n > 0 /\ n \in 0..Space + USIZE /\ r.data \in Nat /\ r.stack \in Nat
 <2>1. r.data \in Nat /\ r.stack \in Nat  BY <1>3, SlotFields
 <2> QED  BY <1>1, <1>3, <2>1, Consts DEF ImageSize, USIZE
<1> QED  BY <1>3, <1>5, <1>6, <1>7, <1>8, <1>9, <1>10, <1>11, <1>12

\* An image that stays in memory
LEMMA GrowsHere ==
  ASSUME NEW mm, NEW sm, NEW pr, NEW tt, NEW sc, NEW x, NEW out, NEW p, NEW n,
         Grows(mm, sm, pr, tt, sc, x, out, p, n),
         NEW r2, NEW pr2, Resized(pr, p, r2, pr2), r2.size = n, r2.held = n,
         r2.addr > 0, r2.addr % 2 = 0,
         NEW b, NEW z, BufferOk(b, x, z), NEW mm2, Tables(mm2, sm, pr2, tt, sc)
  PROVE  Consistent(mm2, sm, pr2, tt, sc, b, x, z, out)
<1>1. /\ pr2[p] = r2 /\ (\A s \in Slots : s # p => pr2[s] = pr[s])
      /\ Goods(pr2, tt, sc) /\ Locks(pr2, x, sc) /\ SchedOk(pr2, sc, out) /\ Births(pr2)
  BY GrowsFacts
<1>2. SlotOk(r2)
 <2>1. Sized(r2)  BY DEF Grows, Resized, Sized
 <2>2. HereSlot(r2)  BY DEF Grows, Resized, HereSlot
 <2>3. r2.stat = "run" /\ (r2.pc \in {"fill", "join", "textout"} => r2.text # NoText)
   BY DEF Grows, Resized
 <2> QED  BY <2>1, <2>2, <2>3 DEF SlotOk, LiveSlot
<1>3. SlotsOk(pr2)  BY <1>1, <1>2 DEF Grows, SlotsOk
<1> QED  BY <1>1, <1>3 DEF Consistent

LEMMA ExpandKeeps ==
  ASSUME NEW mm, NEW sm, NEW pr, NEW tt, NEW p, NEW n,
         Grows(mm, sm, pr, tt, sch, tx, runout, p, n), BufferOk(swb, tx, sleepers),
         Expand(p, n, pr, tt, mm, sm)
  PROVE  Happen("panic") \/ StaysConsistent
<1>1. /\ Tables(mm, sm, pr, tt, sch) /\ p \in Slots /\ pr \in [Slots -> SlotRec]
      /\ pr[p].addr > 0 /\ pr[p].addr % 2 = 0 /\ pr[p].held = pr[p].size /\ pr[p].held > 0
      /\ n # pr[p].size /\ (n < pr[p].size => n % 2 = 0)
  BY DEF Grows, Tables, Typed
<1>2. PICK r : r = pr[p] /\ r \in SlotRec  BY <1>1
<1>3. n \in Nat /\ n > 0 /\ n \in 0..Space + USIZE /\ r.size \in Nat
 <2>1. Resized(pr, p, r, pr)  BY <1>1, <1>2 DEF Resized
 <2>2. r.size \in Nat  BY <1>2, SlotFields
 <2>3. n \in Nat /\ n > 0 /\ n \in 0..Space + USIZE  BY <2>1, GrowsFacts
 <2> QED  BY <2>2, <2>3
<1>4. CASE n < r.size
 <2>1. /\ proc' = [pr EXCEPT ![p].size = n, ![p].held = n]
       /\ mmap' = FreeMemory(mm, r.held - n, r.addr + n)
       /\ text' = tt /\ smap' = sm /\ swb' = swb /\ tx' = tx /\ sleepers' = sleepers
       /\ sch' = sch /\ runout' = runout /\ fault' = fault
   BY <1>1, <1>2, <1>3, <1>4 DEF Expand, NoSwap
 <2>2. PICK r2 : r2 = [r EXCEPT !.size = n, !.held = n]  OBVIOUS
 <2>3. /\ r2 \in SlotRec /\ r2.size = n /\ r2.held = n /\ r2.addr = r.addr
       /\ r2.stat = r.stat /\ r2.load = r.load /\ r2.lock = r.lock
       /\ r2.data = r.data /\ r2.stack = r.stack /\ r2.par = r.par /\ r2.text = r.text
       /\ r2.pc = r.pc /\ r2.kid = r.kid
   BY <1>2, <1>3, <2>2, Zenon DEF SlotRec
 <2>4. PICK pr2, mm2 : pr2 = [pr EXCEPT ![p] = r2] /\ mm2 = FreeMemory(mm, r.held - n, r.addr + n)
   BY Zenon
 <2>5. proc' = pr2  BY <1>1, <1>2, <2>1, <2>2, <2>4, Zenon
 <2>6. Resized(pr, p, r2, pr2)  BY <1>2, <2>3, <2>4 DEF Resized
 <2>7. SlotBlocks(r) = {} /\ SlotBlocks(r2) = {} /\ Follows(pr, p, r2, sch)
   BY <1>2, <2>6, GrowsFacts
 <2>8. Tables(mm2, sm, pr2, tt, sch)
  <3>1. ShrinksImage(mm, pr, p, n, r2, pr2, mm2)
    BY <1>1, <1>2, <1>3, <1>4, <2>3, <2>4, <2>7 DEF ShrinksImage
  <3> QED  BY <1>1, <1>2, <2>7, <3>1, ShrinkImage
 <2>9. Consistent(mm2, sm, pr2, tt, sch, swb, tx, sleepers, runout)
   BY <1>1, <1>2, <2>3, <2>6, <2>8, GrowsHere
 <2> QED  BY <2>1, <2>4, <2>5, <2>9, Zenon DEF StaysConsistent
<1>5. PICK a : a = AllocMemory(mm, n)  OBVIOUS
<1>6. CASE ~(n < r.size) /\ a.at # 0
 <2>1. /\ proc' = [pr EXCEPT ![p].size = n, ![p].held = n, ![p].addr = a.at]
       /\ mmap' = FreeMemory(a.map, r.held, r.addr)
       /\ text' = tt /\ smap' = sm /\ swb' = swb /\ tx' = tx /\ sleepers' = sleepers
       /\ sch' = sch /\ runout' = runout /\ fault' = fault
   BY <1>1, <1>2, <1>3, <1>5, <1>6 DEF Expand, NoSwap
 <2>2. PICK r2 : r2 = [r EXCEPT !.size = n, !.held = n, !.addr = a.at]  OBVIOUS
 <2>a. a.at \in Halves /\ a.at > 0 /\ a.at % 2 = 0
  <3>1. Held(mm, MemPages, MemOwner(pr, tt, sch))  BY <1>1 DEF Tables
  <3> QED  BY <1>3, <1>5, <1>6, <3>1, MemoryTaken
 <2>3. /\ r2 \in SlotRec /\ r2.size = n /\ r2.held = n /\ r2.addr = a.at
       /\ r2.stat = r.stat /\ r2.load = r.load /\ r2.lock = r.lock
       /\ r2.data = r.data /\ r2.stack = r.stack /\ r2.par = r.par /\ r2.text = r.text
       /\ r2.pc = r.pc /\ r2.kid = r.kid
   BY <1>2, <1>3, <2>2, <2>a, Zenon DEF SlotRec
 <2>4. PICK pr2, mm2 : pr2 = [pr EXCEPT ![p] = r2] /\ mm2 = FreeMemory(a.map, r.held, r.addr)
   BY Zenon
 <2>5. proc' = pr2  BY <1>1, <1>2, <2>1, <2>2, <2>4, Zenon
 <2>6. Resized(pr, p, r2, pr2)  BY <1>2, <2>3, <2>4 DEF Resized
 <2>7. SlotBlocks(r) = {} /\ SlotBlocks(r2) = {} /\ Follows(pr, p, r2, sch)
   BY <1>2, <2>6, GrowsFacts
 <2>b. MovesImage(mm, pr, p, n, r2, pr2, mm2)
   BY <1>1, <1>2, <1>3, <1>5, <1>6, <2>3, <2>4, <2>7 DEF MovesImage
 <2>8. Tables(mm2, sm, pr2, tt, sch)  BY <1>1, <2>7, <2>b, MoveImage
 <2>9. Consistent(mm2, sm, pr2, tt, sch, swb, tx, sleepers, runout)
   BY <2>3, <2>6, <2>8, <2>a, GrowsHere
 <2> QED  BY <2>1, <2>4, <2>5, <2>9, Zenon DEF StaysConsistent
<1>7. CASE ~(n < r.size) /\ a.at = 0
 <2>1. PICK r2, pr2 : r2 = [r EXCEPT !.size = n] /\ pr2 = [pr EXCEPT ![p] = r2]  BY Zenon
 <2>2. pr2 = [pr EXCEPT ![p].size = n]  BY <1>1, <1>2, <2>1
 <2>3. XSwapBegin(p, pr2, tt, mm, sm)  BY <1>1, <1>2, <1>3, <1>5, <1>7, <2>2 DEF Expand
 <2>4. /\ r2 \in SlotRec /\ r2.size = n /\ r2.held = r.held /\ r2.addr = r.addr
       /\ r2.stat = r.stat /\ r2.load = r.load /\ r2.lock = r.lock
       /\ r2.data = r.data /\ r2.stack = r.stack /\ r2.par = r.par /\ r2.text = r.text
       /\ r2.pc = r.pc /\ r2.kid = r.kid
   BY <1>2, <1>3, <2>1 DEF SlotRec
 <2>5. Resized(pr, p, r2, pr2)  BY <1>2, <2>1, <2>4 DEF Resized
 <2>6. /\ pr2[p] = r2 /\ (\A s \in Slots : s # p => pr2[s] = pr[s])
       /\ SlotBlocks(r) = {} /\ SlotBlocks(r2) = {} /\ ~IsSwapped(r2) /\ ~IsSwapped(r)
       /\ Inside(r) /\ Inside(r2)
       /\ Goods(pr2, tt, sch) /\ Locks(pr2, tx, sch) /\ SchedOk(pr2, sch, runout) /\ Births(pr2)
   BY <1>2, <2>5, GrowsFacts
 <2>7. Tables(mm, sm, pr2, tt, sch)
  <3>1. pr2 \in [Slots -> SlotRec] /\ tt \in [Texts -> TextRec]
    BY <1>1, <2>1, <2>4 DEF Tables, Typed
  <3>2. \A q \in Slots : Alike(pr[q], pr2[q])  BY <1>2, <2>4, <2>6 DEF Alike, ImageOf
  <3>3. \A t \in Texts : TextAlike(tt[t], tt[t])  BY DEF TextAlike
  <3> QED  BY <1>1, <3>1, <3>2, <3>3, TablesAlike
 <2>8. UsersOf(pr2, r2.text) = UsersOf(pr, r.text)  BY <1>2, <2>4, <2>6 DEF UsersOf
 <2>9. Sized(r2)  BY <1>2, <2>4 DEF Grows, Sized
 <2>10. Departs(mm, sm, pr2, tt, sch, tx, runout, p)
  <3>1. /\ p \in Slots /\ (\A s \in Slots : s # p => SlotOk(pr[s]))
        /\ r.stat = "run" /\ r.load /\ ~r.lock /\ tx[p] = "no"
        /\ r.addr > 0 /\ r.addr % 2 = 0 /\ r.held > 0
        /\ r.pc \in {"user", "fill", "join"}
        /\ r.pc \in {"fill", "join"} => r.text # NoText
        /\ r.pc = "fill" => UsersOf(pr, r.text) = {p}
        /\ Moving(sch) => sch.sel # p
    BY <1>2 DEF Grows
  <3> QED  BY <2>4, <2>6, <2>7, <2>8, <2>9, <3>1, Zenon DEF Departs
 <2> QED  BY <2>3, <2>10, LeaveKeeps
<1> QED  BY <1>4, <1>6, <1>7

\* From the parts to the invariant
LEMMA NextOk ==
  ASSUME IInv, StaysConsistent, ops' = ops \/ (ops < MaxOps /\ ops' = ops + 1)
  PROVE  IInv'
<1>1. fault' \in Faults  BY DEF IInv, StaysConsistent
<1>2. ops' \in 0..MaxOps  BY Consts DEF IInv
<1>3. Consistent(mmap', smap', proc', text', sch', swb', tx', sleepers', runout')
  BY DEF StaysConsistent
<1> QED  BY <1>1, <1>2, <1>3 DEF IInv

LEMMA HappenOk ==
  ASSUME IInv, NEW f \in Faults, Happen(f), ops' = ops \/ (ops < MaxOps /\ ops' = ops + 1)
  PROVE  IInv'
<1>1. fault' \in Faults  BY DEF Happen
<1>2. ops' \in 0..MaxOps  BY Consts DEF IInv
<1>3. /\ mmap' = mmap /\ smap' = smap /\ proc' = proc /\ text' = text /\ sch' = sch
      /\ swb' = swb /\ tx' = tx /\ sleepers' = sleepers /\ runout' = runout
  BY DEF Happen
<1>4. Consistent(mmap', smap', proc', text', sch', swb', tx', sleepers', runout')  BY <1>3 DEF IInv
<1> QED  BY <1>1, <1>2, <1>4 DEF IInv

\* A process at a system call has new sizes of data and stack.
Resets(pr, x, p, r1, pr1, n) ==
    /\ p \in Slots /\ pr[p].stat = "run" /\ pr[p].load /\ x[p] = "no" /\ pr[p].pc = "user"
    /\ pr1 = [pr EXCEPT ![p] = r1] /\ r1 \in SlotRec
    /\ r1.stat = pr[p].stat /\ r1.load = pr[p].load /\ r1.lock = pr[p].lock
    /\ r1.addr = pr[p].addr /\ r1.size = pr[p].size /\ r1.held = pr[p].held
    /\ r1.par = pr[p].par /\ r1.text = pr[p].text /\ r1.pc = pr[p].pc /\ r1.kid = pr[p].kid
    /\ r1.blk = pr[p].blk
    /\ r1.stack >= 2 /\ r1.stack % 2 = 0 /\ n = ImageSize(r1.data, r1.stack)
    /\ n <= Space /\ n # r1.size /\ (n < r1.size => n % 2 = 0)

\* A slot with a new size is ready for Expand.
LEMMA ResetGrows ==
  ASSUME NEW mm, NEW sm, NEW pr, NEW tt, NEW sc, NEW b, NEW x, NEW z, NEW out,
         Consistent(mm, sm, pr, tt, sc, b, x, z, out),
         NEW p, NEW r1, NEW pr1, NEW n, Resets(pr, x, p, r1, pr1, n)
  PROVE  Grows(mm, sm, pr1, tt, sc, x, out, p, n)
<1>1. /\ Tables(mm, sm, pr, tt, sc) /\ Goods(pr, tt, sc) /\ Locks(pr, x, sc)
      /\ SchedOk(pr, sc, out) /\ SlotsOk(pr) /\ pr \in [Slots -> SlotRec]
      /\ tt \in [Texts -> TextRec]
  BY DEF Consistent, Tables, Typed
<1>2. p \in Slots /\ pr[p].stat = "run" /\ pr[p].load /\ x[p] = "no" /\ pr[p].pc = "user"
  BY DEF Resets
<1>3. PICK r : r = pr[p] /\ r \in SlotRec  BY <1>1, <1>2
<1>4. /\ ~r.lock /\ Inside(r) /\ ~IsSwapped(r)
      /\ r.addr > 0 /\ r.addr % 2 = 0 /\ r.held = r.size /\ r.size > 0
      /\ (Moving(sc) => sc.sel # p) /\ SlotBlocks(r) = {}
  BY <1>2, <1>3, RunFacts
<1>5. /\ r1 \in SlotRec /\ pr1 = [pr EXCEPT ![p] = r1]
      /\ r1.stat = "run" /\ r1.load /\ ~r1.lock /\ r1.addr = r.addr /\ r1.size = r.size
      /\ r1.held = r.held /\ r1.par = r.par /\ r1.text = r.text /\ r1.pc = "user"
      /\ r.pc = "user" /\ r.stat = "run"
  BY <1>2, <1>3, <1>4 DEF Resets
<1>6. pr1[p] = r1 /\ \A s \in Slots : s # p => pr1[s] = pr[s]  BY <1>1, <1>2, <1>5
<1>7. /\ ~IsSwapped(r1) /\ Inside(r1) /\ SlotBlocks(r1) = {} /\ ImageOf(r1) = ImageOf(r)
  BY <1>5 DEF IsSwapped, Inside, IsLeaving, SlotBlocks, ImageOf
<1>8. Tables(mm, sm, pr1, tt, sc)
 <2>1. pr1 \in [Slots -> SlotRec]  BY <1>1, <1>5, Zenon
 <2>2. \A q \in Slots : Alike(pr[q], pr1[q])  BY <1>3, <1>4, <1>5, <1>6, <1>7 DEF Alike
 <2>3. \A t \in Texts : TextAlike(tt[t], tt[t])  BY DEF TextAlike
 <2> QED  BY <1>1, <2>1, <2>2, <2>3, TablesAlike
<1>9. Goods(pr1, tt, sc)
 <2>1. \A q \in Slots : SameUse(pr[q], pr1[q], HasIn(pr[q], sc, q), HasIn(pr1[q], sc, q))
   BY <1>3, <1>5, <1>6, <1>7 DEF SameUse, HasIn
 <2>2. \A t \in Texts : SameText(tt[t], tt[t])  BY DEF SameText
 <2> QED  BY <1>1, <2>1, <2>2, GoodsKept
<1>10. Locks(pr1, x, sc)
 <2>1. \A q \in Slots : pr1[q].lock <=> pr[q].lock  BY <1>3, <1>4, <1>5, <1>6
 <2> QED  BY ONLY <1>1, <2>1, LocksKept
<1>11. SchedOk(pr1, sc, out)
 <2>1. \A q \in Slots : IsSwapped(pr1[q]) <=> IsSwapped(pr[q])  BY <1>3, <1>4, <1>6, <1>7
 <2> QED  BY ONLY <1>1, <2>1, SchedKept
<1>12. Births(pr1)
 <2>1. \A s \in Slots : pr1[s].pc = pr[s].pc /\ pr1[s].par = pr[s].par /\ pr1[s].stat = pr[s].stat
   BY <1>3, <1>5, <1>6
 <2>2. Births(pr)  BY <1>1 DEF SlotsOk
 <2> QED  BY ONLY <2>1, <2>2 DEF Births
<1>13. \A s \in Slots : s # p => SlotOk(pr1[s])  BY <1>1, <1>6 DEF SlotsOk
<1>14. /\ r1.stack >= 2 /\ r1.stack % 2 = 0 /\ n = ImageSize(r1.data, r1.stack)
       /\ n <= Space /\ n # r1.size /\ (n < r1.size => n % 2 = 0)
  BY DEF Resets
<1> QED  BY <1>2, <1>4, <1>5, <1>6, <1>8, <1>9, <1>10, <1>11, <1>12, <1>13, <1>14 DEF Grows

\* EstablishUserPageTable's limit bounds an image.
LEMMA FitsFacts ==
  ASSUME NEW mm, NEW sm, NEW pr, NEW sc, Tables(mm, sm, pr, text, sc), NEW p \in Slots,
         NEW d \in Nat, NEW s \in Nat, Fits(pr[p].text, d, s)
  PROVE  d <= Space /\ s <= Space /\ ImageSize(d, s) <= Space /\ ImageSize(d, s) = 2 + d + s
<1>1. PICK t : t = pr[p].text  OBVIOUS
<1>2. CASE t = NoText  BY <1>1, <1>2, Consts DEF Fits, ImageSize, USIZE
<1>3. CASE t # NoText
 <2>1. /\ Typed(pr, text, sc) /\ Counted(pr, text, sc) /\ pr[p] \in SlotRec
       /\ text \in [Texts -> TextRec]
   BY DEF Tables, Typed
 <2>2. t \in Texts  BY <1>1, <1>3, <2>1, SlotFields
 <2>3. TextOk(text, t) /\ text[t].count > 0
  <3>1. text[t].count >= 1 /\ text[t].count \in Nat  BY <1>1, <2>1, <2>2, Counts
  <3> QED  BY <2>2, <3>1 DEF Tables
 <2>4. TextOf[text[t].file] \in Nat  BY <2>1, <2>2, <2>3, TextSizes DEF TextSize
 <2>5. TextOf[text[t].file] + d + s + 2 <= Space  BY <1>1, <1>3 DEF Fits
 <2> QED  BY <2>4, <2>5, Consts DEF ImageSize, USIZE
<1> QED  BY <1>2, <1>3

\* brk and the growing stack
LEMMA BrkKeeps ==
  ASSUME IInv, NEW p \in Slots, NEW d \in Breaks, Brk(p, d)
  PROVE  IInv'
<1>1. /\ Consistent(mmap, smap, proc, text, sch, swb, tx, sleepers, runout)
      /\ proc[p].stat = "run" /\ proc[p].load /\ tx[p] = "no" /\ proc[p].pc = "user"
      /\ ops < MaxOps /\ ops' = ops + 1
      /\ d # proc[p].data /\ Fits(proc[p].text, d, proc[p].stack)
  BY DEF IInv, Brk, Call, Runs
<1>2. CASE d % 2 = 1 \/ proc[p].data % 2 = 1  BY <1>1, <1>2, HappenOk DEF Brk, Faults
<1>3. CASE ~(d % 2 = 1 \/ proc[p].data % 2 = 1)
 <2>1. PICK n, pr1 : /\ n = ImageSize(d, proc[p].stack)
                     /\ pr1 = [proc EXCEPT ![p].data = d]
   BY Zenon
 <2>2. Expand(p, n, pr1, text, mmap, smap)  BY <1>3, <2>1 DEF Brk
 <2>3. proc \in [Slots -> SlotRec] /\ Tables(mmap, smap, proc, text, sch)
       /\ BufferOk(swb, tx, sleepers)
   BY <1>1 DEF Consistent, Tables, Typed
 <2>4. PICK r : r = proc[p] /\ r \in SlotRec  BY <2>3
 <2>5. PICK r1 : r1 = [r EXCEPT !.data = d]  BY Zenon
 <2>6. r.data \in Nat /\ r.stack \in Nat /\ r.size \in Nat /\ d \in Nat
   BY <2>4, SlotFields, SwappingAssumption DEF SwappingAssumption
 <2>7. d <= Space /\ n <= Space /\ n = 2 + d + r.stack  BY <1>1, <2>1, <2>3, <2>4, <2>6, FitsFacts
 <2>8. d \in 0..Space  BY <2>6, <2>7, Consts
 <2>9. /\ r1 \in SlotRec /\ r1.data = d /\ r1.stack = r.stack /\ r1.stat = r.stat
       /\ r1.load = r.load /\ r1.lock = r.lock /\ r1.addr = r.addr /\ r1.size = r.size
       /\ r1.held = r.held /\ r1.par = r.par /\ r1.text = r.text /\ r1.pc = r.pc
       /\ r1.kid = r.kid /\ r1.blk = r.blk
   BY <2>4, <2>5, <2>8 DEF SlotRec
 <2>10. pr1 = [proc EXCEPT ![p] = r1]  BY <2>1, <2>3, <2>4, <2>5
 <2>11. Sized(r)  BY <1>1, <2>4, RunFacts
 <2>12. r.size = 2 + r.data + r.stack /\ r.stack >= 2 /\ r.stack % 2 = 0
   BY <2>6, <2>11 DEF Sized, ImageSize, USIZE
 <2>13. n % 2 = 0
  <3>1. d % 2 = 0  BY <1>3, <2>6
  <3> QED  BY <2>6, <2>7, <2>12, <3>1
 <2>14. n # r.size  BY <1>1, <2>4, <2>6, <2>7, <2>12
 <2>15. Resets(proc, tx, p, r1, pr1, n)
   BY <1>1, <2>1, <2>4, <2>7, <2>9, <2>10, <2>12, <2>13, <2>14, Zenon DEF Resets
 <2>16. Grows(mmap, smap, pr1, text, sch, tx, runout, p, n)  BY <1>1, <2>15, ResetGrows
 <2>17. Happen("panic") \/ StaysConsistent  BY <2>2, <2>3, <2>16, ExpandKeeps
 <2>18. "panic" \in Faults  BY DEF Faults
 <2> QED  BY <1>1, <2>17, <2>18, HappenOk, NextOk
<1> QED  BY <1>2, <1>3

LEMMA GrowStackKeeps ==
  ASSUME IInv, NEW p \in Slots, GrowStack(p)
  PROVE  IInv'
<1>1. /\ Consistent(mmap, smap, proc, text, sch, swb, tx, sleepers, runout)
      /\ proc[p].stat = "run" /\ proc[p].load /\ tx[p] = "no" /\ proc[p].pc = "user"
      /\ ops < MaxOps /\ ops' = ops + 1
      /\ Fits(proc[p].text, proc[p].data, proc[p].stack + 2)
  BY DEF IInv, GrowStack, Call, Runs
<1>2. CASE proc[p].data % 2 = 1  BY <1>1, <1>2, HappenOk DEF GrowStack, Faults
<1>3. CASE ~(proc[p].data % 2 = 1)
 <2>1. PICK s, n, pr1 : /\ s = proc[p].stack + 2 /\ n = ImageSize(proc[p].data, s)
                        /\ pr1 = [proc EXCEPT ![p].stack = s]
   BY Zenon
 <2>2. Expand(p, n, pr1, text, mmap, smap)  BY <1>3, <2>1 DEF GrowStack
 <2>3. proc \in [Slots -> SlotRec] /\ Tables(mmap, smap, proc, text, sch)
       /\ BufferOk(swb, tx, sleepers)
   BY <1>1 DEF Consistent, Tables, Typed
 <2>4. PICK r : r = proc[p] /\ r \in SlotRec  BY <2>3
 <2>5. PICK r1 : r1 = [r EXCEPT !.stack = s]  BY Zenon
 <2>6. r.data \in Nat /\ r.stack \in Nat /\ r.size \in Nat /\ s = r.stack + 2 /\ s \in Nat
  <3>1. r.data \in Nat /\ r.stack \in Nat /\ r.size \in Nat  BY <2>4, SlotFields
  <3> QED  BY <2>1, <2>4, <3>1
 <2>7. s <= Space /\ n <= Space /\ n = 2 + r.data + s  BY <1>1, <2>1, <2>3, <2>4, <2>6, FitsFacts
 <2>8. s \in 0..Space  BY <2>6, <2>7, Consts
 <2>9. /\ r1 \in SlotRec /\ r1.data = r.data /\ r1.stack = s /\ r1.stat = r.stat
       /\ r1.load = r.load /\ r1.lock = r.lock /\ r1.addr = r.addr /\ r1.size = r.size
       /\ r1.held = r.held /\ r1.par = r.par /\ r1.text = r.text /\ r1.pc = r.pc
       /\ r1.kid = r.kid /\ r1.blk = r.blk
   BY <2>4, <2>5, <2>8 DEF SlotRec
 <2>10. pr1 = [proc EXCEPT ![p] = r1]  BY <2>1, <2>3, <2>4, <2>5
 <2>11. Sized(r)  BY <1>1, <2>4, RunFacts
 <2>12. r.size = 2 + r.data + r.stack /\ r.stack >= 2 /\ r.stack % 2 = 0
   BY <2>6, <2>11 DEF Sized, ImageSize, USIZE
 <2>13. s >= 2 /\ s % 2 = 0 /\ n # r.size /\ ~(n < r.size)  BY ONLY <2>6, <2>7, <2>12
 <2>15. Resets(proc, tx, p, r1, pr1, n)
   BY <1>1, <2>1, <2>4, <2>7, <2>9, <2>10, <2>12, <2>13, Zenon DEF Resets
 <2>16. Grows(mmap, smap, pr1, text, sch, tx, runout, p, n)  BY <1>1, <2>15, ResetGrows
 <2>17. Happen("panic") \/ StaysConsistent  BY <2>2, <2>3, <2>16, ExpandKeeps
 <2>18. "panic" \in Faults  BY DEF Faults
 <2> QED  BY <1>1, <2>17, <2>18, HappenOk, NextOk
<1> QED  BY <1>2, <1>3

\* Exec has given up the old text and all of the image but its first page.
Emptied(mm, sm, pr, tt, p, r, tt2, pr2, mm2, sm2) ==
    /\ r = pr[p] /\ sm2 = XFree(r.text, tt, mm, sm).sm /\ tt2 = XFree(r.text, tt, mm, sm).txt
    /\ mm2 = FreeMemory(XFree(r.text, tt, mm, sm).mm, r.size - USIZE, r.addr + USIZE)
    /\ pr2 = [pr EXCEPT ![p] = [r EXCEPT !.text = NoText, !.size = USIZE, !.held = USIZE]]

\* Exec gives the old text and the old image up, all but the u area.
LEMMA ExecEmpties ==
  ASSUME NEW mm, NEW sm, NEW pr, NEW tt, NEW sc, NEW b, NEW x, NEW z, NEW out,
         Consistent(mm, sm, pr, tt, sc, b, x, z, out),
         NEW p \in Slots, NEW r, r = pr[p], r.stat = "run", r.load, x[p] = "no", r.pc = "user",
         NEW tt2, NEW pr2, NEW mm2, NEW sm2, Emptied(mm, sm, pr, tt, p, r, tt2, pr2, mm2, sm2)
  PROVE  Tables(mm2, sm2, pr2, tt2, sc) /\ Goods(pr2, tt2, sc)
<1>1. /\ Tables(mm, sm, pr, tt, sc) /\ Typed(pr, tt, sc) /\ Counted(pr, tt, sc)
      /\ Goods(pr, tt, sc) /\ pr \in [Slots -> SlotRec] /\ tt \in [Texts -> TextRec]
  BY DEF Consistent, Tables, Typed
<1>2. /\ r \in SlotRec /\ Sized(r) /\ ~r.lock /\ Inside(r) /\ SlotBlocks(r) = {}
      /\ r.addr > 0 /\ r.addr % 2 = 0 /\ r.held = r.size /\ (Moving(sc) => sc.sel # p)
  BY RunFacts
<1>3. PICK f : f = XFree(r.text, tt, mm, sm)  OBVIOUS
<1>4. PICK r1, pr1 : r1 = [r EXCEPT !.text = NoText] /\ pr1 = [pr EXCEPT ![p] = r1]  BY Zenon
<1>5. Tables(f.mm, f.sm, pr1, f.txt, sc)  BY <1>1, <1>2, <1>3, <1>4, DropText, Zenon
<1>6. /\ r1 \in SlotRec /\ r1.text = NoText /\ r1.addr = r.addr /\ r1.held = r.held
      /\ r1.stat = "run" /\ r1.load /\ ~r1.lock /\ r1.pc = "user"
  BY <1>2, <1>4, Consts DEF SlotRec, NoText
<1>7. pr1[p] = r1 /\ \A s \in Slots : s # p => pr1[s] = pr[s]  BY <1>1, <1>4
<1>8. Inside(r1) /\ SlotBlocks(r1) = {}  BY <1>6 DEF Inside, IsLeaving, SlotBlocks, IsSwapped
<1>9. Goods(pr1, f.txt, sc)
 <2>1. CASE r.text = NoText
  <3>1. f.txt = tt  BY <1>3, <2>1 DEF XFree, XccDec
  <3>2. \A q \in Slots : SameUse(pr[q], pr1[q], HasIn(pr[q], sc, q), HasIn(pr1[q], sc, q))
    BY <1>6, <1>7, <2>1 DEF SameUse
  <3>3. \A t \in Texts : SameText(tt[t], f.txt[t])  BY <3>1 DEF SameText
  <3> QED  BY <1>1, <3>2, <3>3, GoodsKept
 <2>2. CASE r.text # NoText
  <3>1. PICK t \in Texts : t = r.text  BY <1>2, <2>2, SlotFields
  <3>2. OnlySlot(pr, p, pr1) /\ pr1[p].text = NoText  BY <1>6, <1>7 DEF OnlySlot
  <3>3. f = XFree(t, tt, mm, sm) /\ pr[p].text = t /\ pr[p].pc = "user" /\ Inside(pr[p])
    BY <1>2, <1>3, <3>1
  <3> QED  BY <1>1, <3>2, <3>3, GoodDrop
 <2> QED  BY <2>1, <2>2
<1>10. PICK r2 : r2 = [r1 EXCEPT !.size = USIZE, !.held = USIZE]  OBVIOUS
<1>11. /\ r2 \in SlotRec /\ r2.text = NoText /\ r2.addr = r1.addr /\ r2.held = 2
       /\ r2.stat = "run" /\ r2.load /\ ~r2.lock /\ r2.pc = "user"
 <2>1. USIZE \in 0..Space + USIZE /\ USIZE = 2  BY Consts DEF USIZE
 <2> QED  BY <1>6, <1>10, <2>1, Zenon DEF SlotRec
<1>12. Inside(r2) /\ SlotBlocks(r2) = {}  BY <1>11 DEF Inside, IsLeaving, SlotBlocks, IsSwapped
<1>13. r.held > 2
 <2>1. r.data \in Nat /\ r.stack \in Nat  BY <1>2, SlotFields
 <2> QED  BY <1>2, <2>1 DEF Sized, ImageSize, USIZE
<1>14. pr2 = [pr1 EXCEPT ![p] = r2]
 <2>1. [r EXCEPT !.text = NoText, !.size = USIZE, !.held = USIZE] = r2  BY <1>2, <1>4, <1>10
 <2> QED  BY <1>1, <1>4, <2>1, Zenon DEF Emptied
<1>15. mm2 = FreeMemory(f.mm, r1.held - 2, r1.addr + 2)  BY <1>2, <1>3, <1>6 DEF Emptied, USIZE
<1>16. Follows(pr1, p, r2, sc)  BY <1>2, <1>6, <1>7, <1>11 DEF Follows
<1>17. Tables(mm2, f.sm, pr2, f.txt, sc)
 <2>1. ShrinksImage(f.mm, pr1, p, 2, r2, pr2, mm2)
   BY <1>2, <1>6, <1>7, <1>8, <1>11, <1>12, <1>13, <1>14, <1>15 DEF ShrinksImage
 <2> QED  BY <1>5, <1>16, <2>1, ShrinkImage
<1>18. Goods(pr2, f.txt, sc)
 <2>1. pr2[p] = r2 /\ \A s \in Slots : s # p => pr2[s] = pr1[s]  BY <1>1, <1>4, <1>14
 <2>2. \A q \in Slots : SameUse(pr1[q], pr2[q], HasIn(pr1[q], sc, q), HasIn(pr2[q], sc, q))
   BY <1>6, <1>7, <1>11, <2>1 DEF SameUse
 <2>3. \A t \in Texts : SameText(f.txt[t], f.txt[t])  BY DEF SameText
 <2> QED  BY <1>9, <2>2, <2>3, GoodsKept
<1>19. sm2 = f.sm /\ tt2 = f.txt  BY <1>3 DEF Emptied
<1> QED  BY <1>17, <1>18, <1>19

\* The image that Exec goes on with: its first page, and a text to read or to join
NewImage(pr, p, f, t, c, r3, pr3) ==
    /\ r3 = [pr[p] EXCEPT !.data = DataOf[f], !.stack = StackSize, !.text = t, !.pc = c,
                          !.size = USIZE, !.held = USIZE]
    /\ pr3 = [pr EXCEPT ![p] = r3]
    /\ c \in {"fill", "join"} /\ t \in Texts /\ f \in Files
    /\ ImageSize(DataOf[f], StackSize) <= Space

\* All that Exec does before it grows: the call, the emptied image, the new one
ExecDoes(mm, sm, pr, tt, x, p, r, f, t, c, r3, pr3, tt2, pr2, mm2, sm2) ==
    /\ p \in Slots /\ r = pr[p] /\ r.stat = "run" /\ r.load /\ x[p] = "no" /\ r.pc = "user"
    /\ NewImage(pr, p, f, t, c, r3, pr3)
    /\ Emptied(mm, sm, pr, tt, p, r, tt2, pr2, mm2, sm2)

\* Exec names the text, whose size the image has; it may be new or known.
LEMMA NewImageFacts ==
  ASSUME NEW mm, NEW sm, NEW pr, NEW tt, NEW sc, NEW b, NEW x, NEW z, NEW out,
         Consistent(mm, sm, pr, tt, sc, b, x, z, out),
         NEW p, NEW r, NEW f, NEW t, NEW c, NEW r3, NEW pr3, NEW tt2, NEW pr2, NEW mm2, NEW sm2,
         ExecDoes(mm, sm, pr, tt, x, p, r, f, t, c, r3, pr3, tt2, pr2, mm2, sm2)
  PROVE  /\ GetsText(pr2, sc, p, t, r3, pr3) /\ OnlySlot(pr2, p, pr3) /\ pr3[p] = r3
         /\ pr2[p].text = NoText
         /\ r3.stat = "run" /\ r3.load /\ ~r3.lock /\ r3.par = r.par /\ r3.pc = c /\ r3.text = t
         /\ r3.addr = r.addr /\ r3.size = 2 /\ r3.held = 2 /\ r3.data = DataOf[f] /\ r3.stack = 2
         /\ \A s \in Slots : s # p => pr3[s] = pr[s]
<1>0. /\ p \in Slots /\ r = pr[p] /\ r.stat = "run" /\ r.load /\ x[p] = "no" /\ r.pc = "user"
      /\ NewImage(pr, p, f, t, c, r3, pr3)
      /\ Emptied(mm, sm, pr, tt, p, r, tt2, pr2, mm2, sm2)
  BY DEF ExecDoes
<1>1. /\ r \in SlotRec /\ ~r.lock /\ (Moving(sc) => sc.sel # p)  BY <1>0, RunFacts
<1>2. pr \in [Slots -> SlotRec]  BY DEF Consistent, Tables, Typed
<1>3. /\ r3 = [r EXCEPT !.data = DataOf[f], !.stack = StackSize, !.text = t, !.pc = c,
                        !.size = USIZE, !.held = USIZE]
      /\ pr3 = [pr EXCEPT ![p] = r3] /\ c \in {"fill", "join"} /\ t \in Texts /\ f \in Files
      /\ ImageSize(DataOf[f], StackSize) <= Space
  BY <1>0 DEF NewImage
<1>4. PICK r2 : r2 = [r EXCEPT !.text = NoText, !.size = USIZE, !.held = USIZE]  OBVIOUS
<1>5. pr2 = [pr EXCEPT ![p] = r2]  BY <1>0, <1>4 DEF Emptied
<1>6. /\ USIZE \in 0..Space + USIZE /\ USIZE = 2 /\ StackSize \in 0..Space /\ StackSize = 2
      /\ DataOf[f] \in 0..Space /\ t \in 0..NText /\ c \in PCs
 <2>1. DataOf[f] \in Nat  BY <1>3, Consts
 <2> QED  BY <1>3, <2>1, Consts DEF USIZE, StackSize, ImageSize, Texts, PCs
<1>7. /\ r3.stat = "run" /\ r3.load /\ ~r3.lock /\ r3.par = r.par /\ r3.pc = c /\ r3.text = t
      /\ r3.addr = r.addr /\ r3.size = 2 /\ r3.held = 2 /\ r3.data = DataOf[f] /\ r3.stack = 2
      /\ r3 \in SlotRec
  BY <1>0, <1>1, <1>3, <1>6, ZenonT(60) DEF SlotRec
<1>8. r2.stat = "run" /\ r2.load /\ ~r2.lock /\ r2.pc = "user" /\ r2.text = NoText
      /\ r2.addr = r.addr /\ r2.held = 2
  BY <1>0, <1>1, <1>4, <1>6 DEF SlotRec
<1>9. /\ pr2[p] = r2 /\ pr3[p] = r3 /\ \A s \in Slots : s # p => pr2[s] = pr[s] /\ pr3[s] = pr[s]
      /\ pr3 = [pr2 EXCEPT ![p] = r3]
  BY <1>0, <1>2, <1>3, <1>5, Zenon
<1>10. Inside(r3) /\ SlotBlocks(r3) = {} /\ SlotBlocks(r2) = {} /\ ImageOf(r3) = ImageOf(r2)
  BY <1>3, <1>7, <1>8 DEF Inside, IsLeaving, IsSwapped, SlotBlocks, ImageOf
<1>11. GetsText(pr2, sc, p, t, r3, pr3)  BY <1>1, <1>7, <1>8, <1>9, <1>10 DEF GetsText
<1>12. OnlySlot(pr2, p, pr3)  BY <1>9 DEF OnlySlot
<1> QED  BY <1>7, <1>8, <1>9, <1>11, <1>12

LEMMA ExecGrows ==
  ASSUME NEW mm, NEW sm, NEW pr, NEW tt, NEW sc, NEW b, NEW x, NEW z, NEW out,
         Consistent(mm, sm, pr, tt, sc, b, x, z, out),
         NEW p, NEW r, NEW f, NEW t, NEW c, NEW r3, NEW pr3, NEW tt2, NEW pr2, NEW mm2, NEW sm2,
         ExecDoes(mm, sm, pr, tt, x, p, r, f, t, c, r3, pr3, tt2, pr2, mm2, sm2),
         NEW mm3, NEW sm3, NEW tt3, Tables(mm3, sm3, pr3, tt3, sc), Goods(pr3, tt3, sc),
         c = "fill" => UsersOf(pr3, t) = {p},
         NEW n, n = ImageSize(DataOf[f], StackSize)
  PROVE  Grows(mm3, sm3, pr3, tt3, sc, x, out, p, n)
<1>0. /\ p \in Slots /\ r = pr[p] /\ r.stat = "run" /\ r.load /\ x[p] = "no" /\ r.pc = "user"
      /\ NewImage(pr, p, f, t, c, r3, pr3)
  BY DEF ExecDoes
<1>1. /\ ~r.lock /\ ~IsSwapped(r) /\ r.addr > 0 /\ r.addr % 2 = 0 /\ (Moving(sc) => sc.sel # p)
  BY <1>0, RunFacts
<1>2. /\ pr3[p] = r3
      /\ r3.stat = "run" /\ r3.load /\ ~r3.lock /\ r3.par = r.par /\ r3.pc = c /\ r3.text = t
      /\ r3.addr = r.addr /\ r3.size = 2 /\ r3.held = 2 /\ r3.data = DataOf[f] /\ r3.stack = 2
      /\ \A s \in Slots : s # p => pr3[s] = pr[s]
  BY NewImageFacts
<1>3. c \in {"fill", "join"} /\ t \in Texts /\ f \in Files /\ n <= Space  BY <1>0 DEF NewImage
<1>4. Locks(pr, x, sc) /\ SchedOk(pr, sc, out) /\ SlotsOk(pr)  BY DEF Consistent
<1>5. Locks(pr3, x, sc)
 <2>1. \A q \in Slots : pr3[q].lock <=> pr[q].lock  BY <1>0, <1>1, <1>2
 <2> QED  BY ONLY <1>4, <2>1, LocksKept
<1>6. SchedOk(pr3, sc, out)
 <2>1. ~IsSwapped(r3)  BY <1>2 DEF IsSwapped
 <2>2. \A q \in Slots : IsSwapped(pr3[q]) <=> IsSwapped(pr[q])  BY <1>0, <1>1, <1>2, <2>1
 <2> QED  BY ONLY <1>4, <2>2, SchedKept
<1>7. Births(pr3)
 <2>1. /\ \A q \in Slots : pr3[q].pc = "born" => pr[q].pc = "born" /\ pr3[q].par = pr[q].par
       /\ \A q \in Slots : pr[q].stat = "idl" => pr3[q].stat = "idl"
   BY <1>0, <1>2, <1>3
 <2>2. Births(pr)  BY <1>4 DEF SlotsOk
 <2> QED  BY ONLY <2>1, <2>2, BirthsKept
<1>8. \A s \in Slots : s # p => SlotOk(pr3[s])  BY <1>2, <1>4 DEF SlotsOk
<1>9. t # NoText  BY <1>3 DEF Texts, NoText
<1>10. n = ImageSize(r3.data, r3.stack) /\ n # 2 /\ ~(n < 2)
 <2>1. r3.data \in Nat  BY <1>2, <1>3, Consts
 <2>2. n = 2 + r3.data + 2 /\ n = ImageSize(r3.data, r3.stack)
   BY <1>2 DEF ImageSize, StackSize, USIZE
 <2> QED  BY <2>1, <2>2
<1>11. r3.stack >= 2 /\ r3.stack % 2 = 0  BY ONLY <1>2
<1>12. r3.held > 0 /\ r3.held = r3.size  BY ONLY <1>2
<1> QED  BY <1>0, <1>1, <1>2, <1>3, <1>5, <1>6, <1>7, <1>8, <1>9, <1>10, <1>11, <1>12 DEF Grows

\* Exec joins a text that is in memory.
Joins(tt, t, tt2) ==
    tt[t].ccount > 0 /\ tt2 = [tt EXCEPT ![t].count = @ + 1, ![t].ccount = @ + 1]

LEMMA ExecJoins ==
  ASSUME NEW mm, NEW sm, NEW pr, NEW tt, NEW sc, NEW b, NEW x, NEW z, NEW out,
         Consistent(mm, sm, pr, tt, sc, b, x, z, out),
         NEW p, NEW r, NEW f, NEW t, NEW r3, NEW pr3, NEW tt2, NEW pr2, NEW mm2, NEW sm2,
         ExecDoes(mm, sm, pr, tt, x, p, r, f, t, "join", r3, pr3, tt2, pr2, mm2, sm2),
         NEW n, n = ImageSize(DataOf[f], StackSize), NEW tt3, Joins(tt2, t, tt3)
  PROVE  Grows(mm2, sm2, pr3, tt3, sc, x, out, p, n)
<1>0. /\ p \in Slots /\ r = pr[p] /\ r.stat = "run" /\ r.load /\ x[p] = "no" /\ r.pc = "user"
      /\ NewImage(pr, p, f, t, "join", r3, pr3)
      /\ Emptied(mm, sm, pr, tt, p, r, tt2, pr2, mm2, sm2)
  BY DEF ExecDoes
<1>1. Tables(mm2, sm2, pr2, tt2, sc) /\ Goods(pr2, tt2, sc)  BY <1>0, ExecEmpties
<1>2. /\ Typed(pr2, tt2, sc) /\ Counted(pr2, tt2, sc) /\ t \in Texts
      /\ tt2 \in [Texts -> TextRec] /\ tt2[t].ccount > 0
      /\ tt3 = [tt2 EXCEPT ![t].count = @ + 1, ![t].ccount = @ + 1]
  BY <1>0, <1>1 DEF Tables, Typed, NewImage, Joins
<1>3. /\ GetsText(pr2, sc, p, t, r3, pr3) /\ OnlySlot(pr2, p, pr3) /\ pr3[p] = r3
      /\ pr2[p].text = NoText /\ r3.pc = "join" /\ r3.text = t
  BY NewImageFacts
<1>4. Tables(mm2, sm2, pr3, tt3, sc)  BY <1>0, <1>1, <1>2, <1>3, JoinText, Zenon
<1>5. Goods(pr3, tt3, sc)
 <2>1. \A u \in Texts : u # t => tt3[u] = tt2[u]  BY <1>2
 <2>2. tt3[t].good = tt2[t].good /\ tt3[t].saved = tt2[t].saved  BY <1>2 DEF TextRec
 <2>3. JoinsGood(pr2, tt2, sc, p, t, pr3, tt3)  BY <1>0, <1>1, <1>2, <1>3, <2>1, <2>2 DEF JoinsGood
 <2> QED  BY <2>3, GoodJoin
<1> QED  BY <1>4, <1>5, ExecGrows

\* Exec makes a text, which it shall read.
LEMMA ExecFills ==
  ASSUME NEW mm, NEW sm, NEW pr, NEW tt, NEW sc, NEW b, NEW x, NEW z, NEW out,
         Consistent(mm, sm, pr, tt, sc, b, x, z, out),
         NEW p, NEW r, NEW f, NEW t, NEW r3, NEW pr3, NEW tt2, NEW pr2, NEW mm2, NEW sm2,
         ExecDoes(mm, sm, pr, tt, x, p, r, f, t, "fill", r3, pr3, tt2, pr2, mm2, sm2),
         NEW n, n = ImageSize(DataOf[f], StackSize),
         NEW tt3, NEW mm3, NEW sm3, Makes(mm2, sm2, tt2, t, f, tt3, mm3, sm3)
  PROVE  Grows(mm3, sm3, pr3, tt3, sc, x, out, p, n)
<1>0. /\ p \in Slots /\ r = pr[p] /\ r.stat = "run" /\ r.load /\ x[p] = "no" /\ r.pc = "user"
      /\ NewImage(pr, p, f, t, "fill", r3, pr3)
      /\ Emptied(mm, sm, pr, tt, p, r, tt2, pr2, mm2, sm2)
  BY DEF ExecDoes
<1>1. Tables(mm2, sm2, pr2, tt2, sc) /\ Goods(pr2, tt2, sc)  BY <1>0, ExecEmpties
<1>2. /\ Typed(pr2, tt2, sc) /\ Counted(pr2, tt2, sc) /\ t \in Texts
      /\ tt2 \in [Texts -> TextRec]
  BY <1>0, <1>1 DEF Tables, Typed, NewImage
<1>3. /\ GetsText(pr2, sc, p, t, r3, pr3) /\ OnlySlot(pr2, p, pr3) /\ pr3[p] = r3
      /\ pr2[p].text = NoText /\ r3.pc = "fill" /\ r3.text = t
  BY NewImageFacts
<1>4. Tables(mm3, sm3, pr3, tt3, sc)  BY <1>0, <1>1, <1>3, MakeText
<1>5. Goods(pr3, tt3, sc) /\ UsersOf(pr3, t) = {p}
 <2>1. \A u \in Texts : u # t => tt3[u] = tt2[u]  BY <1>2 DEF Makes
 <2>2. ~tt3[t].saved  BY <1>2 DEF Makes, FreeText
 <2>3. tt2[t].count = 0  BY <1>1, <1>2 DEF Makes, Tables, TextOk
 <2>4. MakesGood(pr2, tt2, sc, p, t, pr3, tt3)
   BY <1>0, <1>1, <1>2, <1>3, <2>1, <2>2, <2>3 DEF MakesGood
 <2> QED  BY <2>4, GoodMake
<1> QED  BY <1>4, <1>5, ExecGrows

\* Exec's own words, with names for what it looks up
ExecImage(p, f, t, pc) ==
    [proc EXCEPT ![p].data = DataOf[f], ![p].stack = StackSize, ![p].text = t, ![p].pc = pc,
                 ![p].size = USIZE, ![p].held = USIZE]
ExecChoice(p, f, y, mm, same, free, t, core, copy) ==
    CASE same = {} /\ free = {} -> Happen("textless")
      [] same # {} /\ y.txt[t].ccount = 0 -> Happen("stale")
      [] same # {} /\ y.txt[t].ccount > 0 ->
           Expand(p, ImageSize(DataOf[f], StackSize), ExecImage(p, f, t, "join"),
                  [y.txt EXCEPT ![t].count = @ + 1, ![t].ccount = @ + 1], mm, y.sm)
      [] same = {} /\ free # {} /\ 0 \in {core.at, copy.at} -> Happen("nocore")
      [] OTHER -> Expand(p, ImageSize(DataOf[f], StackSize), ExecImage(p, f, t, "fill"),
                         [y.txt EXCEPT ![t] = [FreeText EXCEPT !.file = f, !.count = 1, !.ccount = 1,
                                                  !.caddr = core.at, !.daddr = copy.at]],
                         core.map, copy.map)
ExecText(y, f) == Min(IF {u \in Texts : y.txt[u].file = f} # {}
                      THEN {u \in Texts : y.txt[u].file = f}
                      ELSE {u \in Texts : y.txt[u].file = NoFile})
ExecRest(p, y) == FreeMemory(y.mm, proc[p].size - USIZE, proc[p].addr + USIZE)

\* Exec, its local definitions named
LEMMA ExecWords ==
  ASSUME NEW p, NEW f, Exec(p, f)
  PROVE  ExecChoice(p, f, XFree(proc[p].text, text, mmap, smap),
                    ExecRest(p, XFree(proc[p].text, text, mmap, smap)),
                    {u \in Texts : XFree(proc[p].text, text, mmap, smap).txt[u].file = f},
                    {u \in Texts : XFree(proc[p].text, text, mmap, smap).txt[u].file = NoFile},
                    ExecText(XFree(proc[p].text, text, mmap, smap), f),
                    AllocMemory(ExecRest(p, XFree(proc[p].text, text, mmap, smap)), TextOf[f]),
                    Alloc(XFree(proc[p].text, text, mmap, smap).sm, TextOf[f]))
  BY Zenon DEF Exec, ExecChoice, ExecText, ExecRest, ExecImage

\* Exec keeps the invariant.
LEMMA ExecKeeps ==
  ASSUME IInv, NEW p \in Slots, NEW f \in Files, Exec(p, f)
  PROVE  IInv'
<1>1. /\ Consistent(mmap, smap, proc, text, sch, swb, tx, sleepers, runout)
      /\ proc[p].stat = "run" /\ proc[p].load /\ tx[p] = "no" /\ proc[p].pc = "user"
      /\ ops < MaxOps /\ ops' = ops + 1 /\ BufferOk(swb, tx, sleepers)
      /\ proc \in [Slots -> SlotRec]
  BY Zenon DEF IInv, Exec, Call, Runs, Consistent, Tables, Typed
<1>2. PICK r, y, tt2, mm2, sm2, pr2 :
         /\ r = proc[p] /\ y = XFree(r.text, text, mmap, smap) /\ tt2 = y.txt /\ sm2 = y.sm
         /\ mm2 = FreeMemory(y.mm, r.size - USIZE, r.addr + USIZE)
         /\ pr2 = [proc EXCEPT ![p] = [r EXCEPT !.text = NoText, !.size = USIZE, !.held = USIZE]]
  BY Zenon
<1>3. Emptied(mmap, smap, proc, text, p, r, tt2, pr2, mm2, sm2)  BY <1>2 DEF Emptied
<1>4. PICK same, free, t, core, copy, n :
         /\ same = {u \in Texts : tt2[u].file = f} /\ free = {u \in Texts : tt2[u].file = NoFile}
         /\ t = Min(IF same # {} THEN same ELSE free)
         /\ core = AllocMemory(mm2, TextOf[f]) /\ copy = Alloc(sm2, TextOf[f])
         /\ n = ImageSize(DataOf[f], StackSize)
  BY Zenon
<1>w. ExecChoice(p, f, y, mm2, same, free, t, core, copy)
 <2>1. mm2 = ExecRest(p, y) /\ t = ExecText(y, f)  BY <1>2, <1>4 DEF ExecRest, ExecText
 <2> QED  BY ONLY Exec(p, f), <1>2, <1>4, <2>1, ExecWords, Zenon
<1>5. TextOf[f] + n <= Space /\ n <= Space
 <2>1. TextOf[f] + n <= Space  BY <1>4, Zenon DEF Exec
 <2>2. TextOf[f] \in Nat /\ DataOf[f] \in Nat  BY Consts
 <2> QED  BY <1>4, <2>1, <2>2, Consts DEF ImageSize, USIZE, StackSize
<1>6. (same # {} \/ free # {}) => t \in IF same # {} THEN same ELSE free
 <2>1. same \subseteq Nat /\ free \subseteq Nat  BY <1>4, Consts DEF Texts
 <2> QED  BY <1>4, <2>1, MinInside
<1>7. CASE same = {} /\ free = {}
 <2>1. Happen("textless")  BY <1>w, <1>7 DEF ExecChoice
 <2>2. "textless" \in Faults  BY DEF Faults
 <2> QED  BY <1>1, <2>1, <2>2, HappenOk
<1>8. CASE same # {} /\ tt2[t].ccount = 0
 <2>1. Happen("stale")  BY <1>w, <1>2, <1>8 DEF ExecChoice
 <2>2. "stale" \in Faults  BY DEF Faults
 <2> QED  BY <1>1, <2>1, <2>2, HappenOk
<1>9. CASE same = {} /\ free # {} /\ 0 \in {core.at, copy.at}
 <2>1. Happen("nocore")  BY <1>w, <1>9 DEF ExecChoice
 <2>2. "nocore" \in Faults  BY DEF Faults
 <2> QED  BY <1>1, <2>1, <2>2, HappenOk
<1>10. CASE same # {} /\ tt2[t].ccount # 0
 <2>1. tt2 \in [Texts -> TextRec] /\ t \in Texts /\ tt2[t].ccount > 0
  <3>1. Tables(mm2, sm2, pr2, tt2, sch)  BY <1>1, <1>2, <1>3, ExecEmpties
  <3>2. tt2 \in [Texts -> TextRec] /\ t \in Texts  BY <1>4, <1>6, <1>10, <3>1 DEF Tables, Typed
  <3> QED  BY <1>10, <3>2 DEF TextRec
 <2>2. PICK r3, pr3, tt3 :
          /\ r3 = [proc[p] EXCEPT !.data = DataOf[f], !.stack = StackSize, !.text = t,
                                  !.pc = "join", !.size = USIZE, !.held = USIZE]
          /\ pr3 = [proc EXCEPT ![p] = r3]
          /\ tt3 = [tt2 EXCEPT ![t].count = @ + 1, ![t].ccount = @ + 1]
   BY Zenon
 <2>3. pr3 = ExecImage(p, f, t, "join")  BY <1>1, <2>2, Zenon DEF ExecImage
 <2>4. Expand(p, n, pr3, tt3, mm2, sm2)
   BY <1>w, <1>2, <1>4, <1>10, <2>1, <2>2, <2>3, Zenon DEF ExecChoice
 <2>5. NewImage(proc, p, f, t, "join", r3, pr3)  BY <1>4, <1>5, <2>1, <2>2 DEF NewImage
 <2>6. ExecDoes(mmap, smap, proc, text, tx, p, r, f, t, "join", r3, pr3, tt2, pr2, mm2, sm2)
   BY <1>1, <1>2, <1>3, <2>5 DEF ExecDoes
 <2>7. Grows(mm2, sm2, pr3, tt3, sch, tx, runout, p, n)
  <3>1. Joins(tt2, t, tt3)  BY <2>1, <2>2 DEF Joins
  <3> QED  BY <1>1, <1>4, <2>6, <3>1, ExecJoins
 <2>8. Happen("panic") \/ StaysConsistent  BY <1>1, <2>4, <2>7, ExpandKeeps
 <2>9. "panic" \in Faults  BY DEF Faults
 <2> QED  BY <1>1, <2>8, <2>9, HappenOk, NextOk
<1>11. CASE same = {} /\ free # {} /\ 0 \notin {core.at, copy.at}
 <2>1. t \in Texts /\ tt2[t].file = NoFile  BY <1>4, <1>6, <1>11
 <2>2. PICK r3, pr3, tt3 :
          /\ r3 = [proc[p] EXCEPT !.data = DataOf[f], !.stack = StackSize, !.text = t,
                                  !.pc = "fill", !.size = USIZE, !.held = USIZE]
          /\ pr3 = [proc EXCEPT ![p] = r3]
          /\ tt3 = [tt2 EXCEPT ![t] = [FreeText EXCEPT !.file = f, !.count = 1, !.ccount = 1,
                                          !.caddr = core.at, !.daddr = copy.at]]
   BY Zenon
 <2>3. pr3 = ExecImage(p, f, t, "fill")  BY <1>1, <2>2, Zenon DEF ExecImage
 <2>4. Expand(p, n, pr3, tt3, core.map, copy.map)
   BY <1>w, <1>2, <1>4, <1>11, <2>2, <2>3, Zenon DEF ExecChoice
 <2>5. NewImage(proc, p, f, t, "fill", r3, pr3)  BY <1>4, <1>5, <2>1, <2>2 DEF NewImage
 <2>6. ExecDoes(mmap, smap, proc, text, tx, p, r, f, t, "fill", r3, pr3, tt2, pr2, mm2, sm2)
   BY <1>1, <1>2, <1>3, <2>5 DEF ExecDoes
 <2>a. PICK mm3, sm3 : mm3 = core.map /\ sm3 = copy.map  OBVIOUS
 <2>b. Makes(mm2, sm2, tt2, t, f, tt3, mm3, sm3)  BY <1>4, <1>11, <2>1, <2>2, <2>a DEF Makes
 <2>7. Grows(mm3, sm3, pr3, tt3, sch, tx, runout, p, n)  BY <1>1, <1>4, <2>6, <2>b, ExecFills
 <2>8. Happen("panic") \/ StaysConsistent  BY <1>1, <2>4, <2>7, <2>a, ExpandKeeps
 <2>9. "panic" \in Faults  BY DEF Faults
 <2> QED  BY <1>1, <2>8, <2>9, HappenOk, NextOk
<1> QED  BY <1>7, <1>8, <1>9, <1>10, <1>11

-----------------------------------------------------------------------------
(* An image that has been written                                          *)

\* Sched is told that there is a process to bring in.
Told(sc, out) == IF out THEN [sc EXCEPT !.pc = "loop"] ELSE sc

Tells(pr, sc, out, sc2, pr2, c) ==
    /\ sc \in SchedRec /\ SchedOk(pr, sc, out) /\ sc2 = Told(sc, out)
    /\ \A q \in Slots : IsSwapped(pr[q]) => IsSwapped(pr2[q])
    /\ c \in Slots /\ IsSwapped(pr2[c])

\* Sched told, or not
LEMMA ToldFacts ==
  ASSUME NEW pr, NEW sc, NEW out, NEW sc2, NEW pr2, NEW c, Tells(pr, sc, out, sc2, pr2, c)
  PROVE  /\ SchedOk(pr2, sc2, FALSE) /\ sc2 \in SchedRec /\ (Moving(sc2) <=> Moving(sc))
         /\ sc2.pc = "data" <=> sc.pc = "data"
         /\ sc2.sel = sc.sel /\ (sc2 # sc => ~Moving(sc) /\ ~Moving(sc2))
<1>0. /\ sc \in SchedRec /\ SchedOk(pr, sc, out) /\ sc2 = Told(sc, out)
      /\ \A q \in Slots : IsSwapped(pr[q]) => IsSwapped(pr2[q])
      /\ c \in Slots /\ IsSwapped(pr2[c])
  BY DEF Tells
<1>1. CASE out
 <2>1. sc2 \in SchedRec /\ sc2.pc = "loop" /\ sc2.sel = sc.sel  BY <1>0, <1>1 DEF Told, SchedRec
 <2>2. sc.pc = "out"  BY <1>0, <1>1 DEF SchedOk
 <2> QED  BY <1>0, <2>1, <2>2, Zenon DEF SchedOk, Moving
<1>2. CASE ~out
 <2>1. sc2 = sc /\ sc.pc # "out"  BY <1>0, <1>2 DEF Told, SchedOk
 <2> QED  BY <1>0, <2>1 DEF SchedOk
<1>3. out \in BOOLEAN  BY <1>0 DEF SchedOk
<1> QED  BY <1>1, <1>2, <1>3, Zenon

\* Slot c is out: what it was written from is given up.
Written(r, r2) ==
    /\ r2 \in SlotRec /\ r2.addr = r.blk /\ r2.held = 0 /\ ~r2.load /\ ~r2.lock /\ r2.stat = "run"
    /\ r2.size = r.size /\ r2.data = r.data /\ r2.stack = r.stack /\ r2.text = r.text
    /\ r2.pc = (IF r.pc = "born" THEN "user" ELSE r.pc)

\* The slot of an image that has been written
LEMMA WrittenFacts ==
  ASSUME NEW r \in SlotRec, SlotOk(r), r.lock, r.pc \in {"user", "fill", "join", "born"},
         NEW r2, Written(r, r2)
  PROVE  /\ r.stat = "run" /\ r.load /\ IsLeaving(r) /\ ~IsSwapped(r) /\ IsSwapped(r2)
         /\ ~Inside(r) /\ ~Inside(r2) /\ SlotBlocks(r2) = SlotBlocks(r) /\ ImageOf(r2) = {}
         /\ SlotOk(r2) /\ r.addr > 0
         /\ r.pc # "born" => r.held > 0 /\ r.addr % 2 = 0
         /\ r.pc = "born" => ImageOf(r) = {}
<1>1. GoingSlot(r) \/ BornSlot(r)  BY DEF SlotOk, NullSlot, DeadSlot, LiveSlot, HereSlot, OutSlot
<1>2. /\ r.stat = "run" /\ r.load /\ r.blk > 0
      /\ r.pc # "born" => r.held > 0 /\ r.addr % 2 = 0
      /\ r.pc = "born" => r.held = 0
  BY <1>1 DEF GoingSlot, BornSlot
<1>3. r.addr > 0 /\ Sized(r) /\ (r.pc \in {"fill", "join"} => r.text # NoText)
  BY <1>2 DEF SlotOk, NullSlot, DeadSlot, LiveSlot
<1>4. /\ r2.addr = r.blk /\ r2.held = 0 /\ ~r2.load /\ ~r2.lock /\ r2.stat = "run"
      /\ r2.size = r.size /\ r2.data = r.data /\ r2.stack = r.stack /\ r2.text = r.text
      /\ r2.pc = (IF r.pc = "born" THEN "user" ELSE r.pc)
  BY DEF Written
<1>5. IsLeaving(r) /\ ~IsSwapped(r) /\ IsSwapped(r2) /\ ~Inside(r) /\ ~Inside(r2)
  BY <1>2, <1>4 DEF IsLeaving, IsSwapped, Inside
<1>6. SlotBlocks(r2) = SlotBlocks(r)  BY <1>4, <1>5 DEF SlotBlocks
<1>7. ImageOf(r2) = {} /\ (r.pc = "born" => ImageOf(r) = {})
 <2>1. r.addr \in Nat /\ r2.addr \in Nat  BY SlotFields DEF Written
 <2>2. r.addr \div 2 \in Nat /\ r2.addr \div 2 \in Nat  BY <2>1, HalfFacts
 <2>3. Block(r.addr \div 2, 0) = {} /\ Block(r2.addr \div 2, 0) = {} /\ Pages(0) = 0
   BY ONLY <2>2, EmptyBlock
 <2> QED  BY <1>2, <1>4, <2>3 DEF ImageOf
<1>8. Sized(r2)  BY <1>3, <1>4 DEF Sized
<1>9. OutSlot(r2) /\ r2.addr > 0 /\ (r2.pc \in {"fill", "join", "textout"} => r2.text # NoText)
  BY <1>2, <1>3, <1>4 DEF OutSlot
<1>10. SlotOk(r2)  BY <1>4, <1>8, <1>9 DEF SlotOk, LiveSlot
<1> QED  BY <1>2, <1>3, <1>5, <1>6, <1>7, <1>10

\* Everything but the maps, once slot c is out
EndsOut(pr, tt, sc, x, out, c, pr2, sc2, x2) ==
    /\ Goods(pr, tt, sc) /\ Locks(pr, x, sc) /\ SchedOk(pr, sc, out) /\ sc \in SchedRec
    /\ c \in Slots /\ sc2 = Told(sc, out) /\ OnlySlot(pr, c, pr2)
    /\ pr[c] \in SlotRec /\ SlotOk(pr[c]) /\ pr[c].lock /\ pr[c].pc \in {"user", "fill", "join", "born"}
    /\ Written(pr[c], pr2[c]) /\ (Moving(sc) => sc.sel # c)
    /\ x2 \in [0..N -> {"no", "want", "go"}] /\ x2[c] = "no"
    /\ \A q \in 0..N : q # c => x2[q] = x[q]

\* XSwap's second half
LEMMA EndsOutFacts ==
  ASSUME NEW pr, NEW tt, NEW sc, NEW x, NEW out, NEW c, NEW pr2, NEW sc2, NEW x2,
         EndsOut(pr, tt, sc, x, out, c, pr2, sc2, x2)
  PROVE  /\ Goods(pr2, tt, sc2) /\ Locks(pr2, x2, sc2) /\ SchedOk(pr2, sc2, FALSE)
         /\ sc2 \in SchedRec /\ (sc2 # sc => ~Moving(sc) /\ ~Moving(sc2))
<1>1. /\ Goods(pr, tt, sc) /\ Locks(pr, x, sc) /\ SchedOk(pr, sc, out) /\ sc \in SchedRec
      /\ c \in Slots /\ sc2 = Told(sc, out) /\ OnlySlot(pr, c, pr2)
      /\ pr[c] \in SlotRec /\ SlotOk(pr[c]) /\ pr[c].lock /\ pr[c].pc \in {"user", "fill", "join", "born"}
      /\ Written(pr[c], pr2[c]) /\ (Moving(sc) => sc.sel # c)
      /\ x2 \in [0..N -> {"no", "want", "go"}] /\ x2[c] = "no"
      /\ \A q \in 0..N : q # c => x2[q] = x[q]
  BY DEF EndsOut
<1>2. PICK r, r2 : r = pr[c] /\ r2 = pr2[c]  OBVIOUS
<1>3. /\ ~IsSwapped(r) /\ IsSwapped(r2) /\ ~Inside(r) /\ ~Inside(r2)
      /\ r2.text = r.text /\ r2.pc = (IF r.pc = "born" THEN "user" ELSE r.pc)
      /\ ~r2.lock
 <2>1. ~IsSwapped(r) /\ IsSwapped(r2) /\ ~Inside(r) /\ ~Inside(r2)  BY <1>1, <1>2, WrittenFacts
 <2> QED  BY <1>1, <1>2, <2>1 DEF Written
<1>4. \A q \in Slots : q # c => pr2[q] = pr[q]  BY <1>1 DEF OnlySlot
<1>5. /\ SchedOk(pr2, sc2, FALSE) /\ sc2 \in SchedRec /\ (Moving(sc2) <=> Moving(sc))
      /\ sc2.pc = "data" <=> sc.pc = "data"
      /\ sc2.sel = sc.sel /\ (sc2 # sc => ~Moving(sc) /\ ~Moving(sc2))
 <2>1. \A q \in Slots : IsSwapped(pr[q]) => IsSwapped(pr2[q])  BY <1>2, <1>3, <1>4
 <2>2. Tells(pr, sc, out, sc2, pr2, c)  BY <1>1, <1>2, <1>3, <2>1 DEF Tells
 <2> QED  BY ONLY <2>2, ToldFacts, Zenon
<1>6. Goods(pr2, tt, sc2)
 <2>1. SameUse(pr[c], pr2[c], HasIn(pr[c], sc, c), HasIn(pr2[c], sc2, c))
  <3>1. ~HasIn(r, sc, c)  BY <1>1, <1>3 DEF HasIn, Moving
  <3>2. r2.text = r.text /\ r2.pc \notin {"fill", "join"} => r.pc \notin {"fill", "join"}  BY <1>3
  <3>3. r.pc \in {"fill", "textout"} => r2.pc \in {"fill", "textout"}  BY <1>3
  <3>4. r2.text = r.text  BY <1>3
  <3> QED  BY <1>2, <3>1, <3>2, <3>3, <3>4 DEF SameUse
 <2>2. \A q \in Slots : q # c => SameUse(pr[q], pr2[q], HasIn(pr[q], sc, q), HasIn(pr2[q], sc2, q))
   BY <1>4, <1>5 DEF SameUse, HasIn
 <2>3. \A t \in Texts : SameText(tt[t], tt[t])  BY DEF SameText
 <2> QED  BY <1>1, <2>1, <2>2, <2>3, GoodsKept
<1>7. Locks(pr2, x2, sc2)
 <2>1. c \in 0..N /\ c # 0  BY <1>1, Consts DEF Slots
 <2>2. SwapsOne(pr, x, sc, c, pr2, x2, sc2)  BY <1>1, <1>2, <1>3, <1>4, <1>5, <2>1 DEF SwapsOne
 <2> QED  BY <2>2, LocksOne
<1> QED  BY <1>5, <1>6, <1>7, Zenon

\* Expand goes on after the transfer.
LEMMA ExpandSwappedKeeps ==
  ASSUME IInv, NEW p \in Slots, ExpandSwapped(p)
  PROVE  IInv'
<1>1. /\ Consistent(mmap, smap, proc, text, sch, swb, tx, sleepers, runout)
      /\ proc[p].lock /\ proc[p].pc \in {"user", "fill", "join"}
      /\ SwapEnd(p) /\ XSwapEnd(p, proc, FreeMemory(mmap, proc[p].held, proc[p].addr))
      /\ smap' = smap /\ text' = text /\ fault' = fault /\ ops' = ops
  BY DEF IInv, ExpandSwapped
<1>2. /\ Tables(mmap, smap, proc, text, sch) /\ SlotsOk(proc) /\ Goods(proc, text, sch)
      /\ Locks(proc, tx, sch) /\ BufferOk(swb, tx, sleepers) /\ SchedOk(proc, sch, runout)
      /\ proc \in [Slots -> SlotRec] /\ sch \in SchedRec
      /\ Typed(proc, text, sch) /\ SelOk(proc, text, sch)
  BY <1>1 DEF Consistent, Tables, Typed
<1>3. PICK r : r = proc[p] /\ r \in SlotRec /\ SlotOk(r)  BY <1>2 DEF SlotsOk
<1>4. PICK r2, pr2, mm2, sc2 :
         /\ r2 = [r EXCEPT !.addr = r.blk, !.blk = 0, !.held = 0, !.load = FALSE, !.lock = FALSE]
         /\ pr2 = [proc EXCEPT ![p] = r2]
         /\ mm2 = FreeMemory(mmap, r.held, r.addr) /\ sc2 = Told(sch, runout)
  BY Zenon
<1>5. proc' = pr2 /\ mmap' = mm2 /\ sch' = sc2 /\ runout' = FALSE
 <2>1. proc' = [proc EXCEPT ![p].addr = proc[p].blk, ![p].blk = 0, ![p].held = 0,
                            ![p].load = FALSE, ![p].lock = FALSE]
   BY <1>1 DEF XSwapEnd
 <2>2. proc' = pr2  BY <1>2, <1>3, <1>4, <2>1, Zenon
 <2> QED  BY <1>1, <1>3, <1>4, <2>2, Zenon DEF XSwapEnd, Told
<1>6. Written(r, r2)
 <2>1. r.blk \in 0..SwapBlocks /\ r.blk \in Halves /\ 0 \in 0..SwapBlocks /\ 0 \in 0..Space + USIZE
  <3>1. r.blk \in 0..SwapBlocks  BY <1>3, SlotFields
  <3> QED  BY <3>1, Consts DEF Halves, USIZE
 <2>2. /\ r2 \in SlotRec /\ r2.addr = r.blk /\ r2.held = 0 /\ ~r2.load /\ ~r2.lock
       /\ r2.stat = r.stat /\ r2.pc = r.pc
       /\ r2.size = r.size /\ r2.data = r.data /\ r2.stack = r.stack /\ r2.text = r.text
   BY <1>3, <1>4, <2>1, Zenon DEF SlotRec
 <2>3. r.stat = "run"
   BY <1>1, <1>3 DEF SlotOk, NullSlot, DeadSlot, LiveSlot, HereSlot, GoingSlot, BornSlot, OutSlot
 <2> QED  BY <1>1, <1>3, <2>2, <2>3 DEF Written
<1>7. /\ r.stat = "run" /\ r.load /\ ~Inside(r) /\ ~Inside(r2)
      /\ SlotBlocks(r2) = SlotBlocks(r) /\ ImageOf(r2) = {} /\ SlotOk(r2) /\ r.addr > 0
      /\ r.held > 0 /\ r.addr % 2 = 0 /\ r2.text = r.text /\ r2 \in SlotRec /\ r2.pc = r.pc
 <2>1. r.lock /\ r.pc \in {"user", "fill", "join", "born"} /\ r.pc # "born"  BY <1>1, <1>3
 <2>2. /\ r.stat = "run" /\ r.load /\ ~Inside(r) /\ ~Inside(r2)
       /\ SlotBlocks(r2) = SlotBlocks(r) /\ ImageOf(r2) = {} /\ SlotOk(r2) /\ r.addr > 0
       /\ r.held > 0 /\ r.addr % 2 = 0
   BY <1>3, <1>6, <2>1, WrittenFacts
 <2> QED  BY <1>6, <2>1, <2>2 DEF Written
<1>8. Moving(sch) => sch.sel # p  BY <1>2, <1>3, <1>7, SelOther
<1>9. pr2[p] = r2 /\ OnlySlot(proc, p, pr2)  BY <1>2, <1>4 DEF OnlySlot
<1>10. Tables(mm2, smap, pr2, text, sch)
 <2>1. DropsImage(mmap, proc, p, r2, pr2, mm2)  BY <1>3, <1>4, <1>7 DEF DropsImage
 <2>2. Follows(proc, p, r2, sch)  BY <1>3, <1>7, <1>8 DEF Follows
 <2> QED  BY <1>2, <2>1, <2>2, DropImage
<1>11. PICK x2, b2, z2 : x2 = tx' /\ b2 = swb' /\ z2 = sleepers'  OBVIOUS
<1>12. /\ BufferOk(b2, x2, z2) /\ x2 \in [0..N -> {"no", "want", "go"}] /\ x2[p] = "no"
       /\ \A q \in 0..N : q # p => x2[q] = tx[q]
 <2>1. p \in 0..N  BY Consts DEF Slots
 <2> QED  BY <1>1, <1>2, <1>11, <2>1, EndKeeps
<1>13. EndsOut(proc, text, sch, tx, runout, p, pr2, sc2, x2)
 <2>1. r.lock /\ r.pc \in {"user", "fill", "join", "born"}  BY <1>1, <1>3
 <2> QED  BY <1>2, <1>3, <1>4, <1>6, <1>8, <1>9, <1>12, <2>1 DEF EndsOut
<1>14. /\ Goods(pr2, text, sc2) /\ Locks(pr2, x2, sc2) /\ SchedOk(pr2, sc2, FALSE)
       /\ sc2 \in SchedRec /\ (sc2 # sch => ~Moving(sch) /\ ~Moving(sc2))
  BY <1>13, EndsOutFacts, Zenon
<1>15. Tables(mm2, smap, pr2, text, sc2)
 <2>1. CASE sc2 = sch  BY <1>10, <2>1
 <2>2. CASE sc2 # sch  BY <1>10, <1>14, <2>2, TablesSched
 <2> QED  BY <2>1, <2>2
<1>16. SlotsOk(pr2)
 <2>1. proc[p].stat # "idl" /\ pr2[p].pc # "born"  BY <1>1, <1>3, <1>7, <1>9
 <2> QED  BY <1>2, <1>7, <1>9, <2>1, OneSlotOk
<1>17. Consistent(mm2, smap, pr2, text, sc2, b2, x2, z2, FALSE)
  BY <1>12, <1>14, <1>15, <1>16, Zenon DEF Consistent
<1>18. StaysConsistent  BY <1>1, <1>5, <1>11, <1>17, Zenon DEF StaysConsistent
<1> QED  BY <1>1, <1>18, NextOk

\* A process in memory, at the end of a system call, runs, waits or stands idle.
Turns(mm, sm, pr, tt, sc, x, out, p, s, r2, pr2) ==
    /\ Tables(mm, sm, pr, tt, sc) /\ Goods(pr, tt, sc) /\ Locks(pr, x, sc) /\ SchedOk(pr, sc, out)
    /\ p \in Slots /\ SlotOk(pr[p]) /\ pr[p].load /\ ~pr[p].lock /\ pr[p].pc = "user"
    /\ s \in {"run", "wait", "idl"} /\ r2 = [pr[p] EXCEPT !.stat = s] /\ pr2 = [pr EXCEPT ![p] = r2]

\* A slot changes its state only.
LEMMA TurnKeeps ==
  ASSUME NEW mm, NEW sm, NEW pr, NEW tt, NEW sc, NEW x, NEW out, NEW p, NEW s, NEW r2, NEW pr2,
         Turns(mm, sm, pr, tt, sc, x, out, p, s, r2, pr2)
  PROVE  /\ Tables(mm, sm, pr2, tt, sc) /\ Goods(pr2, tt, sc) /\ Locks(pr2, x, sc)
         /\ SchedOk(pr2, sc, out) /\ SlotOk(r2) /\ pr2[p] = r2 /\ r2 \in SlotRec
         /\ \A q \in Slots : q # p => pr2[q] = pr[q]
         /\ \A q \in Slots : pr2[q].lock = pr[q].lock /\ pr2[q].pc = pr[q].pc
                          /\ pr2[q].par = pr[q].par /\ pr2[q].text = pr[q].text
<1>1. /\ Tables(mm, sm, pr, tt, sc) /\ Goods(pr, tt, sc) /\ Locks(pr, x, sc) /\ SchedOk(pr, sc, out)
      /\ p \in Slots /\ SlotOk(pr[p]) /\ pr[p].load /\ ~pr[p].lock /\ pr[p].pc = "user"
      /\ s \in {"run", "wait", "idl"} /\ r2 = [pr[p] EXCEPT !.stat = s]
      /\ pr2 = [pr EXCEPT ![p] = r2]
  BY DEF Turns
<1>2. /\ pr \in [Slots -> SlotRec] /\ tt \in [Texts -> TextRec] /\ pr[p] \in SlotRec
  BY <1>1, TablesAre
<1>3. PICK r : r = pr[p]  OBVIOUS
<1>4. /\ r2 \in SlotRec /\ r2.stat = s /\ r2.load = r.load /\ r2.lock = r.lock
      /\ r2.addr = r.addr /\ r2.size = r.size /\ r2.data = r.data /\ r2.stack = r.stack
      /\ r2.par = r.par /\ r2.text = r.text /\ r2.pc = r.pc /\ r2.blk = r.blk
      /\ r2.held = r.held /\ r2.kid = r.kid
 <2>1. s \in ProcStates  BY <1>1 DEF ProcStates
 <2> QED  BY <1>1, <1>2, <1>3, <2>1 DEF SlotRec
<1>5. pr2[p] = r2 /\ pr2 \in [Slots -> SlotRec] /\ \A q \in Slots : q # p => pr2[q] = pr[q]
  BY <1>1, <1>2, <1>4
<1>6. \A q \in Slots : /\ pr2[q].lock = pr[q].lock /\ pr2[q].pc = pr[q].pc
                       /\ pr2[q].par = pr[q].par /\ pr2[q].text = pr[q].text
  BY <1>3, <1>4, <1>5
<1>7. r.load /\ ~r.lock /\ r.pc = "user" /\ r.stat # "zomb"
  BY <1>1, <1>3 DEF SlotOk, NullSlot, DeadSlot, LiveSlot
<1>8. /\ ~IsSwapped(r) /\ ~IsSwapped(r2) /\ ~IsLeaving(r) /\ ~IsLeaving(r2)
      /\ Inside(r) /\ Inside(r2)
  BY <1>4, <1>7 DEF IsSwapped, IsLeaving, Inside
<1>9. Alike(r, r2)
 <2>1. ImageOf(r2) = ImageOf(r)  BY <1>4 DEF ImageOf
 <2>2. SlotBlocks(r2) = {} /\ SlotBlocks(r) = {}  BY <1>1, <1>4, <1>7, <1>8 DEF SlotBlocks
 <2> QED  BY <1>4, <1>8, <2>1, <2>2 DEF Alike
<1>10. Tables(mm, sm, pr2, tt, sc)
 <2>1. \A q \in Slots : Alike(pr[q], pr2[q])  BY <1>3, <1>5, <1>9 DEF Alike
 <2>2. \A t \in Texts : TextAlike(tt[t], tt[t])  BY DEF TextAlike
 <2> QED  BY <1>1, <1>2, <1>5, <2>1, <2>2, TablesAlike, Zenon
<1>11. Goods(pr2, tt, sc)
 <2>1. \A q \in Slots : HasIn(pr[q], sc, q) => HasIn(pr2[q], sc, q)  BY <1>3, <1>5, <1>8 DEF HasIn
 <2>2. \A q \in Slots : SameUse(pr[q], pr2[q], HasIn(pr[q], sc, q), HasIn(pr2[q], sc, q))
   BY <1>6, <2>1 DEF SameUse
 <2>3. \A t \in Texts : SameText(tt[t], tt[t])  BY DEF SameText
 <2> QED  BY <1>1, <2>2, <2>3, GoodsKept, Zenon
<1>12. Locks(pr2, x, sc)  BY <1>1, <1>6 DEF Locks
<1>13. SchedOk(pr2, sc, out)
 <2>1. \A q \in Slots : IsSwapped(pr2[q]) <=> IsSwapped(pr[q])  BY <1>3, <1>5, <1>8
 <2> QED  BY <1>1, <2>1, SchedKept, Zenon
<1>14. SlotOk(r2)
 <2>1. LiveSlot(r) /\ HereSlot(r)
   BY <1>1, <1>3, <1>7 DEF SlotOk, NullSlot, DeadSlot, LiveSlot, GoingSlot, BornSlot, OutSlot
 <2>2. Sized(r2)  BY <1>4, <2>1 DEF LiveSlot, Sized
 <2>3. HereSlot(r2)  BY <1>4, <1>7, <2>1 DEF HereSlot
 <2> QED  BY <1>1, <1>4, <1>7, <2>1, <2>2, <2>3 DEF SlotOk, LiveSlot
<1> QED  BY <1>4, <1>5, <1>6, <1>10, <1>11, <1>12, <1>13, <1>14

\* NewProc goes on after the transfer: the parent runs again.
LEMMA ForkSwappedKeeps ==
  ASSUME IInv, NEW c \in Slots, ForkSwapped(c)
  PROVE  IInv'
<1>1. /\ Consistent(mmap, smap, proc, text, sch, swb, tx, sleepers, runout)
      /\ proc[c].pc = "born" /\ SwapEnd(c)
      /\ XSwapEnd(c, [proc EXCEPT ![c].pc = "user", ![proc[c].par].stat = "run"], mmap)
      /\ smap' = smap /\ text' = text /\ fault' = fault /\ ops' = ops
  BY DEF IInv, ForkSwapped
<1>2. /\ Tables(mmap, smap, proc, text, sch) /\ SlotsOk(proc) /\ Goods(proc, text, sch)
      /\ Locks(proc, tx, sch) /\ BufferOk(swb, tx, sleepers) /\ SchedOk(proc, sch, runout)
      /\ proc \in [Slots -> SlotRec] /\ sch \in SchedRec
      /\ Typed(proc, text, sch) /\ SelOk(proc, text, sch)
  BY <1>1 DEF Consistent, Tables, Typed
<1>3. PICK r, p : r = proc[c] /\ r \in SlotRec /\ SlotOk(r) /\ r.pc = "born" /\ p = r.par
  BY <1>1, <1>2 DEF SlotsOk
<1>4. BornSlot(r)  BY <1>3 DEF SlotOk, NullSlot, DeadSlot, LiveSlot, HereSlot, GoingSlot, OutSlot
<1>5. p \in Slots /\ proc[p].stat = "idl" /\ p # c
 <2>1. p \in Slots /\ proc[p].stat = "idl"  BY <1>2, <1>3 DEF SlotsOk, Births
 <2> QED  BY <1>3, <1>4, <2>1 DEF BornSlot
<1>6. proc[p].load /\ ~proc[p].lock /\ proc[p].pc = "user" /\ SlotOk(proc[p])
 <2>1. SlotOk(proc[p])  BY <1>2, <1>5 DEF SlotsOk
 <2>2. HereSlot(proc[p])
   BY <1>5, <2>1 DEF SlotOk, NullSlot, DeadSlot, LiveSlot, GoingSlot, BornSlot, OutSlot
 <2> QED  BY <1>5, <2>1, <2>2 DEF HereSlot
<1>7. PICK rp, pr1, r2, pr2, sc2 :
         /\ rp = [proc[p] EXCEPT !.stat = "run"] /\ pr1 = [proc EXCEPT ![p] = rp]
         /\ r2 = [r EXCEPT !.pc = "user", !.addr = r.blk, !.blk = 0, !.held = 0,
                           !.load = FALSE, !.lock = FALSE]
         /\ pr2 = [pr1 EXCEPT ![c] = r2] /\ sc2 = Told(sch, runout)
  BY Zenon
<1>8. /\ Tables(mmap, smap, pr1, text, sch) /\ Goods(pr1, text, sch) /\ Locks(pr1, tx, sch)
      /\ SchedOk(pr1, sch, runout) /\ SlotOk(rp) /\ pr1[p] = rp /\ rp \in SlotRec
      /\ rp.pc = "user" /\ \A q \in Slots : q # p => pr1[q] = proc[q]
 <2>1. Turns(mmap, smap, proc, text, sch, tx, runout, p, "run", rp, pr1)
   BY <1>2, <1>5, <1>6, <1>7 DEF Turns
 <2>2. proc[p] \in SlotRec  BY <1>2, <1>5
 <2>3. rp.pc = "user"  BY <1>6, <1>7, <2>2 DEF SlotRec
 <2> QED  BY <2>1, <2>3, TurnKeeps
<1>9. pr1[c] = r /\ pr1 \in [Slots -> SlotRec]  BY <1>2, <1>3, <1>5, <1>7, <1>8
<1>10. proc' = pr2 /\ mmap' = mmap /\ sch' = sc2 /\ runout' = FALSE
 <2>1. PICK pr0 : pr0 = [proc EXCEPT ![c].pc = "user", ![proc[c].par].stat = "run"]  BY Zenon
 <2>2. pr0 \in [Slots -> SlotRec] /\ pr0[p] = rp /\ pr0[c] = [r EXCEPT !.pc = "user"]
       /\ \A q \in Slots : q # p /\ q # c => pr0[q] = proc[q]
  <3>1. "user" \in PCs /\ "run" \in ProcStates  BY DEF PCs, ProcStates
  <3>2. [r EXCEPT !.pc = "user"] \in SlotRec  BY <1>3, <3>1, SMTT(40) DEF SlotRec
  <3> QED  BY <1>2, <1>3, <1>5, <1>7, <1>8, <2>1, <3>2
 <2>3. proc' = [pr0 EXCEPT ![c].addr = pr0[c].blk, ![c].blk = 0, ![c].held = 0,
                           ![c].load = FALSE, ![c].lock = FALSE]
   BY <1>1, <2>1 DEF XSwapEnd
 <2>4. pr0[c] \in SlotRec /\ pr0[c].blk = r.blk  BY <1>3, <2>2 DEF SlotRec
 <2>5. [pr0[c] EXCEPT !.addr = pr0[c].blk, !.blk = 0, !.held = 0,
                           !.load = FALSE, !.lock = FALSE] = r2
   BY <1>3, <1>7, <2>2, <2>4 DEF SlotRec
 <2>6. proc' = [pr0 EXCEPT ![c] = r2]  BY <2>2, <2>3, <2>5, Zenon
 <2>7. proc' = pr2  BY <1>5, <1>7, <1>8, <1>9, <2>2, <2>6, ZenonT(60)
 <2> QED  BY <1>1, <1>7, <2>7, Zenon DEF XSwapEnd, Told
<1>11. Written(r, r2)
 <2>1. r.blk \in 0..SwapBlocks /\ r.blk \in Halves /\ 0 \in 0..SwapBlocks
       /\ 0 \in 0..Space + USIZE /\ "user" \in PCs
  <3>1. r.blk \in 0..SwapBlocks  BY <1>3, SlotFields
  <3> QED  BY <3>1, Consts DEF Halves, USIZE, PCs
 <2>2. /\ r2 \in SlotRec /\ r2.addr = r.blk /\ r2.held = 0 /\ ~r2.load /\ ~r2.lock
       /\ r2.stat = r.stat /\ r2.pc = "user"
       /\ r2.size = r.size /\ r2.data = r.data /\ r2.stack = r.stack /\ r2.text = r.text
   BY <1>3, <1>7, <2>1, Zenon DEF SlotRec
 <2> QED  BY <1>3, <1>4, <2>2 DEF Written, BornSlot
<1>12. /\ r.stat = "run" /\ r.load /\ r.lock /\ ~Inside(r) /\ ~Inside(r2)
       /\ SlotBlocks(r2) = SlotBlocks(r) /\ ImageOf(r2) = {} /\ ImageOf(r) = {} /\ SlotOk(r2)
       /\ r2.text = r.text /\ r2 \in SlotRec /\ r2.pc = "user"
 <2>1. r.lock /\ r.pc \in {"user", "fill", "join", "born"}  BY <1>3, <1>4 DEF BornSlot
 <2>2. /\ r.stat = "run" /\ r.load /\ ~Inside(r) /\ ~Inside(r2)
       /\ SlotBlocks(r2) = SlotBlocks(r) /\ ImageOf(r2) = {} /\ ImageOf(r) = {} /\ SlotOk(r2)
   BY <1>3, <1>11, <2>1, WrittenFacts
 <2> QED  BY <1>3, <1>11, <2>1, <2>2 DEF Written
<1>13. Moving(sch) => sch.sel # c  BY <1>2, <1>3, <1>12, SelOther
<1>14. pr2[c] = r2 /\ OnlySlot(pr1, c, pr2)  BY <1>7, <1>9 DEF OnlySlot
<1>15. Tables(mmap, smap, pr2, text, sch)
 <2>1. PICK O, O1 : O = MemOwner(pr1, text, sch) /\ O1 = SwapOwner(pr1, text)  OBVIOUS
 <2>2. /\ Held(mmap, MemPages, Put(O, c, ImageOf(pr1[c])))
       /\ Held(smap, SwapBlocks, Put(O1, c, SlotBlocks(pr1[c])))
   BY <1>8, <2>1, SlotHas
 <2>3. Follows(pr1, c, r2, sch)  BY <1>9, <1>12, <1>13 DEF Follows
 <2>4. ImageOf(r2) = ImageOf(pr1[c]) /\ SlotBlocks(r2) = SlotBlocks(pr1[c])  BY <1>9, <1>12
 <2>5. SlotMoves(pr1, text, sch, c, r2, pr2, mmap, smap)
   BY <1>7, <1>12, <2>1, <2>2, <2>3, <2>4 DEF SlotMoves
 <2> QED  BY <1>8, <2>5, SlotStep
<1>16. PICK x2, b2, z2 : x2 = tx' /\ b2 = swb' /\ z2 = sleepers'  OBVIOUS
<1>17. /\ BufferOk(b2, x2, z2) /\ x2 \in [0..N -> {"no", "want", "go"}] /\ x2[c] = "no"
       /\ \A q \in 0..N : q # c => x2[q] = tx[q]
 <2>1. c \in 0..N  BY Consts DEF Slots
 <2> QED  BY <1>1, <1>2, <1>16, <2>1, EndKeeps
<1>18. EndsOut(pr1, text, sch, tx, runout, c, pr2, sc2, x2)
  BY <1>2, <1>3, <1>7, <1>8, <1>9, <1>11, <1>12, <1>13, <1>14, <1>17 DEF EndsOut
<1>19. /\ Goods(pr2, text, sc2) /\ Locks(pr2, x2, sc2) /\ SchedOk(pr2, sc2, FALSE)
       /\ sc2 \in SchedRec /\ (sc2 # sch => ~Moving(sch) /\ ~Moving(sc2))
  BY <1>18, EndsOutFacts, Zenon
<1>20. Tables(mmap, smap, pr2, text, sc2)
 <2>1. CASE sc2 = sch  BY <1>15, <2>1
 <2>2. CASE sc2 # sch  BY <1>15, <1>19, <2>2, TablesSched
 <2> QED  BY <2>1, <2>2
<1>21. SlotsOk(pr2)
 <2>1. \A q \in Slots : q # p /\ q # c => pr2[q] = proc[q]  BY <1>8, <1>14 DEF OnlySlot
 <2>2. pr2[p] = rp /\ rp.pc # "born"  BY <1>5, <1>6, <1>7, <1>8, <1>14, Zenon DEF OnlySlot
 <2>3. Births(proc) /\ \A q \in Slots : SlotOk(proc[q])  BY <1>2 DEF SlotsOk
 <2>4. \A q \in Slots : proc[q].pc = "born" /\ proc[q].par = p => q = c  BY <1>3, <2>3 DEF Births
 <2>5. \A q \in Slots : SlotOk(pr2[q])  BY <1>8, <1>12, <1>14, <2>1, <2>2, <2>3
 <2>6. \A q \in Slots : pr2[q].pc = "born" => pr2[q] = proc[q] /\ q # c /\ q # p /\ proc[q].par # p
   BY <1>12, <1>14, <2>1, <2>2, <2>4
 <2>7. \A q \in Slots : proc[q].stat = "idl" /\ q # p => pr2[q].stat = "idl"  BY <1>3, <1>12, <2>1
 <2>8. Births(pr2)  BY ONLY <2>3, <2>6, <2>7 DEF Births
 <2> QED  BY <2>5, <2>8 DEF SlotsOk
<1>22. Consistent(mmap, smap, pr2, text, sc2, b2, x2, z2, FALSE)
  BY <1>17, <1>19, <1>20, <1>21, Zenon DEF Consistent
<1>23. StaysConsistent  BY <1>1, <1>10, <1>16, <1>22, Zenon DEF StaysConsistent
<1> QED  BY <1>1, <1>23, NextOk

-----------------------------------------------------------------------------
(* Fork                                                                    *)

\* Process p has a child in slot c, whose image is still to come.
Bears(mm, sm, pr, tt, sc, b, x, z, out, p, c, r1, pr1, tt2) ==
    /\ Consistent(mm, sm, pr, tt, sc, b, x, z, out)
    /\ p \in Slots /\ pr[p].stat = "run" /\ pr[p].load /\ x[p] = "no" /\ pr[p].pc = "user"
    /\ c \in Slots /\ pr[c].stat = "null"
    /\ r1 \in SlotRec /\ r1.stat = "run" /\ r1.load /\ ~r1.lock /\ r1.held = 0
    /\ r1.pc \in {"user", "born"} /\ r1.size = pr[p].size /\ r1.data = pr[p].data
    /\ r1.stack = pr[p].stack /\ r1.text = pr[p].text /\ r1.par = p
    /\ pr1 = [pr EXCEPT ![c] = r1]
    /\ tt2 = IF pr[p].text = NoText THEN tt
             ELSE [tt EXCEPT ![pr[p].text].count = @ + 1, ![pr[p].text].ccount = @ + 1]

\* The child's slot is filled in.
LEMMA BearFacts ==
  ASSUME NEW mm, NEW sm, NEW pr, NEW tt, NEW sc, NEW b, NEW x, NEW z, NEW out,
         NEW p, NEW c, NEW r1, NEW pr1, NEW tt2,
         Bears(mm, sm, pr, tt, sc, b, x, z, out, p, c, r1, pr1, tt2)
  PROVE  /\ Tables(mm, sm, pr1, tt2, sc) /\ Goods(pr1, tt2, sc) /\ Locks(pr1, x, sc)
         /\ SchedOk(pr1, sc, out) /\ pr1[c] = r1 /\ c # p /\ (Moving(sc) => sc.sel # c)
         /\ OnlySlot(pr, c, pr1)
         /\ ImageOf(r1) = {} /\ SlotBlocks(r1) = {} /\ Sized(r1) /\ x[c] = "no" /\ Inside(r1)
<1>1. /\ Consistent(mm, sm, pr, tt, sc, b, x, z, out)
      /\ p \in Slots /\ pr[p].stat = "run" /\ pr[p].load /\ x[p] = "no" /\ pr[p].pc = "user"
      /\ c \in Slots /\ pr[c].stat = "null"
      /\ r1 \in SlotRec /\ r1.stat = "run" /\ r1.load /\ ~r1.lock /\ r1.held = 0
      /\ r1.pc \in {"user", "born"} /\ r1.size = pr[p].size /\ r1.data = pr[p].data
      /\ r1.stack = pr[p].stack /\ r1.text = pr[p].text /\ r1.par = p
      /\ pr1 = [pr EXCEPT ![c] = r1]
      /\ tt2 = IF pr[p].text = NoText THEN tt
               ELSE [tt EXCEPT ![pr[p].text].count = @ + 1, ![pr[p].text].ccount = @ + 1]
  BY DEF Bears
<1>2. /\ Tables(mm, sm, pr, tt, sc) /\ SlotsOk(pr) /\ Goods(pr, tt, sc)
      /\ Locks(pr, x, sc) /\ SchedOk(pr, sc, out)
  BY <1>1 DEF Consistent
<1>3. /\ pr \in [Slots -> SlotRec] /\ tt \in [Texts -> TextRec]
      /\ Typed(pr, tt, sc) /\ Counted(pr, tt, sc) /\ SelOk(pr, tt, sc)
  BY <1>2, TablesAre
<1>4. PICK r, e, t : r = pr[p] /\ e = pr[c] /\ t = r.text  OBVIOUS
<1>5. r \in SlotRec /\ Sized(r) /\ Inside(r)  BY <1>1, <1>4, RunFacts
<1>6. NullSlot(e) /\ e \in SlotRec
 <2>1. SlotOk(e) /\ e \in SlotRec  BY <1>1, <1>2, <1>3, <1>4 DEF SlotsOk
 <2> QED  BY <1>1, <1>4, <2>1 DEF SlotOk, DeadSlot, LiveSlot
<1>7. c # p /\ pr1[c] = r1 /\ OnlySlot(pr, c, pr1)  BY <1>1, <1>3 DEF OnlySlot
<1>8. x[c] = "no"  BY <1>1, <1>2, <1>4, <1>6 DEF Locks, NullSlot
<1>9. Moving(sc) => sc.sel # c  BY <1>1, <1>3, SelOther
<1>10. Sized(r1)  BY <1>1, <1>4, <1>5 DEF Sized
<1>11. ImageOf(r1) = {} /\ ImageOf(e) = {}
 <2>1. r1.addr \in Nat /\ e.addr \in Nat /\ e.held = 0 /\ r1.held = 0
   BY <1>1, <1>6, SlotFields DEF NullSlot
 <2>2. r1.addr \div 2 \in Nat /\ e.addr \div 2 \in Nat  BY <2>1, HalfFacts
 <2>3. Block(r1.addr \div 2, 0) = {} /\ Block(e.addr \div 2, 0) = {} /\ Pages(0) = 0
   BY ONLY <2>2, EmptyBlock
 <2> QED  BY <2>1, <2>3 DEF ImageOf
<1>12. /\ SlotBlocks(r1) = {} /\ SlotBlocks(e) = {} /\ Inside(r1)
       /\ ~IsSwapped(r1) /\ ~IsSwapped(e) /\ e.text = NoText
  BY <1>1, <1>4, <1>6 DEF SlotBlocks, IsSwapped, IsLeaving, Inside, NullSlot
<1>13. Locks(pr1, x, sc)  BY <1>1, <1>2, <1>4, <1>6, <1>7 DEF Locks, NullSlot, OnlySlot
<1>14. SchedOk(pr1, sc, out)
 <2>1. \A q \in Slots : IsSwapped(pr1[q]) <=> IsSwapped(pr[q])  BY <1>4, <1>7, <1>12 DEF OnlySlot
 <2> QED  BY <1>2, <2>1, SchedKept
<1>15. CASE t = NoText
 <2>1. tt2 = tt /\ r1.text = NoText  BY <1>1, <1>4, <1>15
 <2>2. Tables(mm, sm, pr1, tt, sc)
  <3>1. PICK O, O1 : O = MemOwner(pr, tt, sc) /\ O1 = SwapOwner(pr, tt)  OBVIOUS
  <3>2. /\ Held(mm, MemPages, Put(O, c, ImageOf(pr[c])))
        /\ Held(sm, SwapBlocks, Put(O1, c, SlotBlocks(pr[c])))
    BY <1>1, <1>2, <3>1, SlotHas
  <3>3. Follows(pr, c, r1, sc)  BY <1>4, <1>9, <1>12, <2>1 DEF Follows
  <3>4. ImageOf(r1) = ImageOf(pr[c]) /\ SlotBlocks(r1) = SlotBlocks(pr[c])  BY <1>4, <1>11, <1>12
  <3>5. SlotMoves(pr, tt, sc, c, r1, pr1, mm, sm)  BY <1>1, <3>1, <3>2, <3>3, <3>4 DEF SlotMoves
  <3> QED  BY <1>2, <3>5, SlotStep
 <2>3. Goods(pr1, tt, sc)
  <3>1. \A q \in Slots : SameUse(pr[q], pr1[q], HasIn(pr[q], sc, q), HasIn(pr1[q], sc, q))
    BY <1>4, <1>7, <1>12, <2>1 DEF SameUse, OnlySlot
  <3>2. \A u \in Texts : SameText(tt[u], tt[u])  BY DEF SameText
  <3> QED  BY <1>2, <3>1, <3>2, GoodsKept
 <2> QED  BY <1>7, <1>8, <1>9, <1>10, <1>11, <1>12, <1>13, <1>14, <2>1, <2>2, <2>3
<1>16. CASE t \in Texts
 <2>1. tt2 = [tt EXCEPT ![t].count = @ + 1, ![t].ccount = @ + 1] /\ r1.text = t
   BY <1>1, <1>4, <1>16 DEF Texts, NoText
 <2>2. tt[t].ccount > 0
  <3>1. tt[t].ccount >= 1 /\ tt[t].ccount \in Nat
    BY <1>1, <1>3, <1>4, <1>5, <1>16, Counts DEF HasIn
  <3> QED  BY <3>1
 <2>3. Tables(mm, sm, pr1, tt2, sc)
  <3>1. GetsText(pr, sc, c, t, r1, pr1)  BY <1>1, <1>4, <1>9, <1>11, <1>12, <2>1 DEF GetsText
  <3>2. c \in Slots /\ Tables(mm, sm, pr, tt, sc)  BY <1>1, <1>2
  <3>3. tt2 = [tt EXCEPT ![t].count = @ + 1, ![t].ccount = @ + 1]  BY <2>1
  <3> QED  BY ONLY <1>16, <2>2, <3>1, <3>2, <3>3, JoinText, Zenon
 <2>4. Goods(pr1, tt2, sc)
  <3>1. tt[t].good \/ tt[t].saved  BY <1>1, <1>2, <1>4, <1>16 DEF Goods, GoodText, UsersOf
  <3>2. /\ \A u \in Texts : u # t => tt2[u] = tt[u]
        /\ tt2[t].good = tt[t].good /\ tt2[t].saved = tt[t].saved
    BY <1>3, <1>16, <2>1 DEF TextRec
  <3>3. JoinsGood(pr, tt, sc, c, t, pr1, tt2)
    BY <1>1, <1>2, <1>3, <1>4, <1>7, <1>12, <1>16, <2>1, <2>2, <3>1, <3>2 DEF JoinsGood
  <3> QED  BY <3>3, GoodJoin
 <2> QED  BY <1>7, <1>8, <1>9, <1>10, <1>11, <1>12, <1>13, <1>14, <2>3, <2>4
<1>17. t = NoText \/ t \in Texts  BY <1>4, <1>5, SlotFields
<1> QED  BY <1>15, <1>16, <1>17

\* The child is in memory, or is copied to the swap area.
LEMMA BornHere ==
  ASSUME NEW mm, NEW sm, NEW pr, NEW tt, NEW sc, NEW b, NEW x, NEW z, NEW out,
         NEW p, NEW c, NEW r1, NEW pr1, NEW tt2,
         Bears(mm, sm, pr, tt, sc, b, x, z, out, p, c, r1, pr1, tt2), r1.pc = "user",
         NEW a, a = AllocMemory(mm, pr[p].size), a.at # 0, r1.addr = a.at,
         NEW r2, r2 = [r1 EXCEPT !.held = pr[p].size], NEW pr2, pr2 = [pr EXCEPT ![c] = r2]
  PROVE  Consistent(a.map, sm, pr2, tt2, sc, b, x, z, out)
<1>1. /\ Consistent(mm, sm, pr, tt, sc, b, x, z, out)
      /\ p \in Slots /\ pr[p].stat = "run" /\ pr[p].load /\ x[p] = "no" /\ pr[p].pc = "user"
      /\ c \in Slots /\ pr[c].stat = "null"
      /\ r1 \in SlotRec /\ r1.stat = "run" /\ r1.load /\ ~r1.lock /\ r1.held = 0
      /\ r1.size = pr[p].size /\ r1.data = pr[p].data
      /\ r1.stack = pr[p].stack /\ r1.text = pr[p].text /\ r1.par = p
      /\ pr1 = [pr EXCEPT ![c] = r1]
  BY DEF Bears
<1>2. /\ Tables(mm, sm, pr1, tt2, sc) /\ Goods(pr1, tt2, sc) /\ Locks(pr1, x, sc)
      /\ SchedOk(pr1, sc, out) /\ pr1[c] = r1 /\ c # p /\ (Moving(sc) => sc.sel # c)
      /\ OnlySlot(pr, c, pr1)
      /\ ImageOf(r1) = {} /\ SlotBlocks(r1) = {} /\ Sized(r1) /\ x[c] = "no" /\ Inside(r1)
  BY BearFacts
<1>3. PICK n : n = pr[p].size /\ n \in Nat /\ n > 0 /\ n \in 0..Space + USIZE
 <2>1. pr[p] \in SlotRec /\ pr[p].size > 0  BY <1>1, RunFacts
 <2> QED  BY <2>1, SlotFields
<1>4. /\ r2 \in SlotRec /\ r2.held = n /\ r2.stat = "run" /\ r2.load /\ ~r2.lock
      /\ r2.pc = "user" /\ r2.size = n /\ r2.data = r1.data /\ r2.stack = r1.stack
      /\ r2.text = r1.text /\ r2.addr = a.at
  BY <1>1, <1>3 DEF SlotRec
<1>5. pr2 = [pr1 EXCEPT ![c] = r2] /\ pr2[c] = r2 /\ OnlySlot(pr1, c, pr2) /\ OnlySlot(pr, c, pr2)
 <2>1. pr \in [Slots -> SlotRec]  BY <1>1, TablesAre DEF Consistent
 <2> QED  BY <1>1, <2>1, Zenon DEF OnlySlot
<1>6. SlotBlocks(r2) = {} /\ Inside(r2) /\ ~IsSwapped(r2) /\ ~IsSwapped(r1)
  BY <1>1, <1>4 DEF SlotBlocks, IsSwapped, IsLeaving, Inside
<1>7. Tables(a.map, sm, pr2, tt2, sc)
 <2>1. AllocMemory(mm, n).at # 0 /\ r2.addr = AllocMemory(mm, n).at /\ a.map = AllocMemory(mm, n).map
   BY <1>3, <1>4
 <2>2. ImageOf(pr1[c]) = {} /\ SlotBlocks(r2) = SlotBlocks(pr1[c])  BY <1>2, <1>6
 <2>3. GivesImage(mm, pr1, c, n, r2, pr2, a.map)
   BY <1>3, <1>4, <1>5, <2>1, <2>2, Zenon DEF GivesImage
 <2>4. Follows(pr1, c, r2, sc)  BY <1>2, <1>4, <1>6 DEF Follows
 <2> QED  BY <1>1, <1>2, <2>3, <2>4, GiveImage
<1>8. Goods(pr2, tt2, sc)
 <2>1. \A q \in Slots : q # c => pr2[q] = pr1[q]  BY <1>5 DEF OnlySlot
 <2>2. HasIn(pr2[c], sc, c)  BY <1>5, <1>6 DEF HasIn
 <2>3. pr2[c].text = pr1[c].text /\ pr2[c].pc = pr1[c].pc  BY <1>2, <1>4, <1>5, Zenon
 <2>4. \A q \in Slots : SameUse(pr1[q], pr2[q], HasIn(pr1[q], sc, q), HasIn(pr2[q], sc, q))
   BY <2>1, <2>2, <2>3 DEF SameUse
 <2>5. \A u \in Texts : SameText(tt2[u], tt2[u])  BY DEF SameText
 <2> QED  BY <1>2, <2>4, <2>5, GoodsKept, Zenon
<1>9. Locks(pr2, x, sc)  BY <1>1, <1>2, <1>4, <1>5 DEF Locks, OnlySlot
<1>10. SchedOk(pr2, sc, out)
 <2>1. \A q \in Slots : IsSwapped(pr2[q]) <=> IsSwapped(pr1[q])  BY <1>2, <1>5, <1>6 DEF OnlySlot
 <2> QED  BY <1>2, <2>1, SchedKept, Zenon
<1>11. SlotsOk(pr2)
 <2>1. a.at \in Nat /\ a.at % 2 = 0 /\ a.at > 0
  <3>1. Held(mm, MemPages, MemOwner(pr, tt, sc))  BY <1>1, TablesAre DEF Consistent
  <3> QED  BY <1>3, <3>1, MemoryTaken
 <2>2. HereSlot(r2)  BY <1>4, <2>1 DEF HereSlot
 <2>3. Sized(r2)  BY <1>1, <1>2, <1>3, <1>4 DEF Sized
 <2>4. SlotOk(r2)  BY <1>4, <2>1, <2>2, <2>3 DEF SlotOk, LiveSlot
 <2>5. SlotsOk(pr) /\ pr[c].stat # "idl" /\ pr2[c].pc # "born" /\ SlotOk(pr2[c])
   BY <1>1, <1>4, <1>5, <2>4, Zenon DEF Consistent
 <2> QED  BY <1>1, <1>5, <2>5, OneSlotOk, Zenon
<1>12. BufferOk(b, x, z)  BY <1>1 DEF Consistent
<1> QED  BY <1>7, <1>8, <1>9, <1>10, <1>11, <1>12 DEF Consistent

LEMMA BornAway ==
  ASSUME NEW mm, NEW sm, NEW pr, NEW tt, NEW sc, NEW b, NEW x, NEW z, NEW out,
         NEW p, NEW c, NEW r1, NEW pr1, NEW tt2,
         Bears(mm, sm, pr, tt, sc, b, x, z, out, p, c, r1, pr1, tt2), r1.pc = "born", r1.addr > 0,
         NEW rp, rp = [pr[p] EXCEPT !.stat = "idl"], NEW pr2, pr2 = [pr1 EXCEPT ![p] = rp]
  PROVE  Departs(mm, sm, pr2, tt2, sc, x, out, c)
<1>1. /\ Consistent(mm, sm, pr, tt, sc, b, x, z, out)
      /\ p \in Slots /\ pr[p].stat = "run" /\ pr[p].load /\ x[p] = "no" /\ pr[p].pc = "user"
      /\ c \in Slots /\ pr[c].stat = "null"
      /\ r1 \in SlotRec /\ r1.stat = "run" /\ r1.load /\ ~r1.lock /\ r1.held = 0
      /\ r1.text = pr[p].text /\ r1.par = p /\ pr1 = [pr EXCEPT ![c] = r1]
  BY DEF Bears
<1>2. /\ Tables(mm, sm, pr1, tt2, sc) /\ Goods(pr1, tt2, sc) /\ Locks(pr1, x, sc)
      /\ SchedOk(pr1, sc, out) /\ pr1[c] = r1 /\ c # p /\ (Moving(sc) => sc.sel # c)
      /\ OnlySlot(pr, c, pr1) /\ Sized(r1) /\ x[c] = "no"
  BY BearFacts
<1>3. pr1[p] = pr[p] /\ SlotOk(pr[p]) /\ ~pr[p].lock /\ SlotsOk(pr)
      /\ \A q \in Slots : pr[q].pc = "born" => pr[q].par # p
 <2>1. SlotOk(pr[p]) /\ ~pr[p].lock /\ \A q \in Slots : pr[q].pc = "born" => pr[q].par # p
   BY <1>1, RunFacts
 <2> QED  BY <1>1, <1>2, <2>1 DEF Consistent, OnlySlot
<1>4. /\ Tables(mm, sm, pr2, tt2, sc) /\ Goods(pr2, tt2, sc) /\ Locks(pr2, x, sc)
      /\ SchedOk(pr2, sc, out) /\ SlotOk(rp) /\ pr2[p] = rp /\ rp \in SlotRec
      /\ \A q \in Slots : q # p => pr2[q] = pr1[q]
      /\ pr2[p].pc = pr1[p].pc
 <2>1. Turns(mm, sm, pr1, tt2, sc, x, out, p, "idl", rp, pr2)  BY <1>1, <1>2, <1>3 DEF Turns
 <2>2. /\ Tables(mm, sm, pr2, tt2, sc) /\ Goods(pr2, tt2, sc) /\ Locks(pr2, x, sc)
       /\ SchedOk(pr2, sc, out) /\ SlotOk(rp) /\ pr2[p] = rp /\ rp \in SlotRec
       /\ \A q \in Slots : q # p => pr2[q] = pr1[q]
   BY ONLY <2>1, TurnKeeps
 <2>3. \A q \in Slots : pr2[q].pc = pr1[q].pc  BY ONLY <2>1, TurnKeeps
 <2> QED  BY <1>1, <2>2, <2>3, Zenon
<1>5. /\ pr2[c] = r1 /\ pr2[p].pc = "user" /\ pr2[p].stat = "idl"
      /\ \A q \in Slots : q # p /\ q # c => pr2[q] = pr[q]
 <2>1. pr[p] \in SlotRec  BY <1>1, RunFacts
 <2>2. rp.stat = "idl"  BY <2>1 DEF SlotRec
 <2>3. pr2[c] = r1 /\ \A q \in Slots : q # p /\ q # c => pr2[q] = pr[q]
   BY <1>1, <1>2, <1>4, ZenonT(60) DEF OnlySlot
 <2>4. pr2[p].pc = "user"  BY <1>1, <1>3, <1>4
 <2>5. pr2[p].stat = "idl"  BY <1>4, <2>2, Zenon
 <2> QED  BY <2>3, <2>4, <2>5
<1>6. \A s \in Slots : s # c => SlotOk(pr2[s])  BY <1>3, <1>4, <1>5 DEF SlotsOk
<1>7. Births(pr2)
 <2>1. Births(pr)  BY <1>3 DEF SlotsOk
 <2>2. pr2[c].par = p /\ pr2[p].stat = "idl" /\ pr2[p].pc # "born"  BY <1>1, <1>5
 <2>3. \A q \in Slots : q # c /\ pr2[q].pc = "born" =>
          pr2[q] = pr[q] /\ pr[q].par # p
   BY <1>3, <1>5, <2>2
 <2>4. \A q \in Slots : pr[q].stat = "idl" => pr2[q].stat = "idl"  BY <1>1, <1>5, Zenon
 <2> QED  BY ONLY <1>1, <2>1, <2>2, <2>3, <2>4 DEF Births
<1>8. p # 0  BY <1>1, UserNames
<1> QED  BY <1>1, <1>2, <1>4, <1>5, <1>6, <1>7, <1>8, Zenon DEF Departs

\* The text table once process p has a child
TextShared(p) ==
    IF proc[p].text = NoText THEN text
    ELSE [text EXCEPT ![proc[p].text].count = @ + 1, ![proc[p].text].ccount = @ + 1]

\* What Fork does once slot c is chosen and a is what the map of memory offers
ForkHere(p, c, a, txt) ==
    /\ a.at # 0
    /\ proc' = [proc EXCEPT ![c] = [Clone(p) EXCEPT
                    !.addr = a.at, !.pc = "user", !.held = proc[p].size]]
    /\ mmap' = a.map /\ text' = txt
    /\ NoSwap /\ UNCHANGED <<smap, sch, runout, fault>>
ForkAway(p, c, txt) ==
    XSwapBegin(c, [proc EXCEPT ![p].stat = "idl", ![c] =
                     [Clone(p) EXCEPT !.addr = proc[p].addr, !.pc = "born"]],
               txt, mmap, smap)

\* Fork, its local definitions named
LEMMA ForkWords ==
  ASSUME NEW p, Fork(p)
  PROVE  /\ Runs(p, "user") /\ ops < MaxOps /\ ops' = ops + 1
         /\ {c \in Slots : proc[c].stat = "null"} # {}
         /\ \/ ForkHere(p, Min({c \in Slots : proc[c].stat = "null"}),
                        AllocMemory(mmap, proc[p].size), TextShared(p))
            \/ ForkAway(p, Min({c \in Slots : proc[c].stat = "null"}), TextShared(p))
  BY DEF Fork, Call, ForkHere, ForkAway, TextShared

\* A clone, placed
CloneAt(p, a, c) == [Clone(p) EXCEPT !.addr = a, !.pc = c]

LEMMA CloneFacts ==
  ASSUME NEW p \in Slots, NEW r, r = proc[p], r \in SlotRec, NEW a \in Halves, NEW c \in PCs,
         NEW e, e = CloneAt(p, a, c)
  PROVE  /\ e \in SlotRec /\ e.stat = "run" /\ e.load /\ ~e.lock /\ e.held = 0
         /\ e.pc = c /\ e.size = r.size /\ e.data = r.data
         /\ e.stack = r.stack /\ e.text = r.text /\ e.par = p /\ e.addr = a
<1>1. FreeSlot \in SlotRec /\ FreeSlot.held = 0 /\ ~FreeSlot.lock
 <2>1. /\ "null" \in ProcStates /\ 0 \in Halves /\ 0 \in 0..Space + USIZE /\ 0 \in 0..Space
       /\ 0 \in 0..N /\ 0 \in 0..NText /\ "none" \in PCs /\ 0 \in 0..SwapBlocks /\ NoText = 0
   BY Consts DEF ProcStates, Halves, USIZE, PCs, NoText
 <2> QED  BY <2>1 DEF FreeSlot, SlotRec
<1>2. /\ "run" \in ProcStates /\ p \in 0..N
      /\ r.size \in 0..Space + USIZE /\ r.data \in 0..Space /\ r.stack \in 0..Space
      /\ r.text \in 0..NText
  BY SlotFields, Consts DEF ProcStates, Slots
<1>3. PICK f : f = [FreeSlot EXCEPT !.stat = "run", !.load = TRUE, !.size = r.size,
                      !.data = r.data, !.stack = r.stack, !.par = p, !.text = r.text]
  OBVIOUS
<1>4. /\ f \in SlotRec /\ f.stat = "run" /\ f.load /\ ~f.lock /\ f.held = 0
      /\ f.size = r.size /\ f.data = r.data
      /\ f.stack = r.stack /\ f.text = r.text /\ f.par = p
  BY <1>1, <1>2, <1>3, ZenonT(60) DEF SlotRec
<1>5. e = [f EXCEPT !.addr = a, !.pc = c]  BY <1>3 DEF CloneAt, Clone
<1> QED  BY <1>4, <1>5, ZenonT(60) DEF SlotRec

\* Fork keeps the invariant.
LEMMA ForkKeeps ==
  ASSUME IInv, NEW p \in Slots, Fork(p)
  PROVE  IInv'
<1>1. PICK c, a, tt2 : /\ c = Min({s \in Slots : proc[s].stat = "null"})
                       /\ a = AllocMemory(mmap, proc[p].size) /\ tt2 = TextShared(p)
  BY Zenon
<1>2. /\ Runs(p, "user") /\ ops < MaxOps /\ ops' = ops + 1
      /\ {s \in Slots : proc[s].stat = "null"} # {}
      /\ ForkHere(p, c, a, tt2) \/ ForkAway(p, c, tt2)
  BY ONLY Fork(p), <1>1, ForkWords, Zenon
<1>3. c \in Slots /\ proc[c].stat = "null"
 <2>1. PICK S : S = {s \in Slots : proc[s].stat = "null"}  BY Zenon
 <2>2. S # {} /\ S \subseteq Int  BY <1>2, <2>1 DEF Slots
 <2>3. \A x \in S : x >= 1  BY <2>1 DEF Slots
 <2>4. c \in S  BY <1>1, <2>1, <2>2, <2>3, MinInside
 <2> QED  BY <2>1, <2>4
<1>4. /\ Consistent(mmap, smap, proc, text, sch, swb, tx, sleepers, runout)
      /\ proc[p].stat = "run" /\ proc[p].load /\ tx[p] = "no" /\ proc[p].pc = "user"
  BY <1>2 DEF IInv, Runs
<1>5. PICK r : r = proc[p] /\ r \in SlotRec /\ r.addr > 0 /\ r.size > 0  BY <1>4, RunFacts
<1>6. BufferOk(swb, tx, sleepers) /\ proc \in [Slots -> SlotRec]
      /\ Held(mmap, MemPages, MemOwner(proc, text, sch))
  BY <1>4, TablesAre DEF Consistent
<1>7. tt2 = (IF proc[p].text = NoText THEN text
             ELSE [text EXCEPT ![proc[p].text].count = @ + 1, ![proc[p].text].ccount = @ + 1])
  BY <1>1 DEF TextShared
<1>8. CASE ForkHere(p, c, a, tt2)
 <2>1. a.at \in Halves /\ a.at # 0
  <3>1. r.size \in Nat  BY <1>5, SlotFields
  <3> QED  BY <1>1, <1>5, <1>6, <1>8, <3>1, MemoryTaken DEF ForkHere
 <2>2. PICK r1, pr1, r2, pr2 :
          /\ r1 = CloneAt(p, a.at, "user") /\ pr1 = [proc EXCEPT ![c] = r1]
          /\ r2 = [r1 EXCEPT !.held = proc[p].size] /\ pr2 = [proc EXCEPT ![c] = r2]
   BY Zenon
 <2>3. /\ r1 \in SlotRec /\ r1.stat = "run" /\ r1.load /\ ~r1.lock /\ r1.held = 0
       /\ r1.pc = "user" /\ r1.size = r.size /\ r1.data = r.data
       /\ r1.stack = r.stack /\ r1.text = r.text /\ r1.par = p /\ r1.addr = a.at
  <3>1. "user" \in PCs  BY DEF PCs
  <3> QED  BY <1>5, <2>1, <2>2, <3>1, CloneFacts
 <2>4. Bears(mmap, smap, proc, text, sch, swb, tx, sleepers, runout, p, c, r1, pr1, tt2)
   BY <1>3, <1>4, <1>5, <1>7, <2>2, <2>3 DEF Bears
 <2>5. Consistent(a.map, smap, pr2, tt2, sch, swb, tx, sleepers, runout)
   BY ONLY <1>1, <2>1, <2>2, <2>3, <2>4, BornHere, Zenon
 <2>6. proc' = pr2  BY <1>8, <2>2 DEF ForkHere, CloneAt
 <2>7. StaysConsistent  BY <1>8, <2>5, <2>6, Zenon DEF StaysConsistent, ForkHere, NoSwap
 <2> QED  BY <1>2, <2>7, NextOk
<1>9. CASE ForkAway(p, c, tt2)
 <2>1. PICK r1, pr1, rp, pr2 :
          /\ r1 = CloneAt(p, r.addr, "born") /\ pr1 = [proc EXCEPT ![c] = r1]
          /\ rp = [proc[p] EXCEPT !.stat = "idl"] /\ pr2 = [pr1 EXCEPT ![p] = rp]
   BY Zenon
 <2>2. /\ r1 \in SlotRec /\ r1.stat = "run" /\ r1.load /\ ~r1.lock /\ r1.held = 0
       /\ r1.pc = "born" /\ r1.size = r.size /\ r1.data = r.data
       /\ r1.stack = r.stack /\ r1.text = r.text /\ r1.par = p /\ r1.addr = r.addr
  <3>1. "born" \in PCs /\ r.addr \in Halves  BY <1>5, SlotFields DEF PCs
  <3> QED  BY <1>5, <2>1, <3>1, CloneFacts
 <2>3. Bears(mmap, smap, proc, text, sch, swb, tx, sleepers, runout, p, c, r1, pr1, tt2)
   BY <1>3, <1>4, <1>5, <1>7, <2>1, <2>2 DEF Bears
 <2>4. r1.addr > 0  BY <1>5, <2>2
 <2>5. Departs(mmap, smap, pr2, tt2, sch, tx, runout, c)
   BY ONLY <2>1, <2>2, <2>3, <2>4, BornAway, Zenon
 <2>6. [proc EXCEPT ![p].stat = "idl", ![c] = CloneAt(p, r.addr, "born")] = pr2
  <3>1. c # p  BY <1>3, <1>4
  <3>2. rp \in SlotRec
   <4>1. "idl" \in ProcStates  BY DEF ProcStates
   <4> QED  BY <1>5, <2>1, <4>1 DEF SlotRec
  <3> QED  BY <1>3, <1>6, <2>1, <2>2, <3>1, <3>2, Zenon
 <2>7. XSwapBegin(c, pr2, tt2, mmap, smap)
  <3>1. XSwapBegin(c, [proc EXCEPT ![p].stat = "idl", ![c] = CloneAt(p, r.addr, "born")],
                   tt2, mmap, smap)
    BY <1>5, <1>9 DEF ForkAway, CloneAt
  <3> QED  BY <2>6, <3>1, Zenon
 <2>8. Happen("panic") \/ StaysConsistent  BY <1>6, <2>5, <2>7, LeaveKeeps
 <2>9. "panic" \in Faults  BY DEF Faults
 <2> QED  BY <1>2, <2>8, <2>9, NextOk, HappenOk
<1> QED  BY <1>2, <1>8, <1>9

-----------------------------------------------------------------------------
(* Exit                                                                    *)

\* Exit keeps the invariant: text, image and block are given up or passed on.
LEMMA ExitKeeps ==
  ASSUME IInv, NEW p \in Slots, Exit(p)
  PROVE  IInv'
<1>1. PICK x, b : x = XFree(proc[p].text, text, mmap, smap) /\ b = Alloc(x.sm, 1)  OBVIOUS
<1>2. /\ Runs(p, "user") /\ ops < MaxOps /\ ops' = ops + 1
      /\ \/ Happen("panic")
         \/ /\ b.at # 0
            /\ proc' = [proc EXCEPT ![p].text = NoText, ![p].pc = "dying", ![p].blk = b.at]
            /\ text' = x.txt /\ mmap' = x.mm /\ smap' = b.map
            /\ NoSwap /\ UNCHANGED <<sch, runout, fault>>
  BY <1>1 DEF Exit, Call
<1>3. CASE Happen("panic")
 <2>1. "panic" \in Faults  BY DEF Faults
 <2> QED  BY <1>2, <1>3, <2>1, HappenOk
<1>4. CASE /\ b.at # 0
           /\ proc' = [proc EXCEPT ![p].text = NoText, ![p].pc = "dying", ![p].blk = b.at]
           /\ text' = x.txt /\ mmap' = x.mm /\ smap' = b.map
           /\ NoSwap /\ UNCHANGED <<sch, runout, fault>>
 <2>1. /\ Consistent(mmap, smap, proc, text, sch, swb, tx, sleepers, runout)
       /\ proc[p].stat = "run" /\ proc[p].load /\ tx[p] = "no" /\ proc[p].pc = "user"
   BY <1>2 DEF IInv, Runs
 <2>2. /\ Tables(mmap, smap, proc, text, sch) /\ SlotsOk(proc) /\ Goods(proc, text, sch)
       /\ Locks(proc, tx, sch) /\ BufferOk(swb, tx, sleepers) /\ SchedOk(proc, sch, runout)
       /\ Typed(proc, text, sch) /\ Counted(proc, text, sch)
       /\ proc \in [Slots -> SlotRec] /\ text \in [Texts -> TextRec]
   BY <2>1, TablesAre DEF Consistent
 <2>3. PICK r : r = proc[p]  OBVIOUS
 <2>4. /\ r \in SlotRec /\ HereSlot(r) /\ Sized(r) /\ ~r.lock /\ Inside(r) /\ ~IsSwapped(r)
       /\ r.addr > 0 /\ (Moving(sch) => sch.sel # p) /\ SlotBlocks(r) = {}
   BY <2>1, <2>3, RunFacts
 <2>5. PICK r1, pr1 : r1 = [r EXCEPT !.text = NoText] /\ pr1 = [proc EXCEPT ![p] = r1]  BY Zenon
 <2>6. Tables(x.mm, x.sm, pr1, x.txt, sch)  BY <1>1, <2>2, <2>3, <2>4, <2>5, DropText, Zenon
 <2>7. Held(x.sm, SwapBlocks, SwapOwner(pr1, x.txt))  BY <2>6, TablesAre
 <2>8. b.at \in 0..SwapBlocks /\ b.at > 0  BY <1>1, <1>4, <2>7, BlocksTaken
 <2>9. PICK r2, pr2 : r2 = [r1 EXCEPT !.pc = "dying", !.blk = b.at] /\ pr2 = [proc EXCEPT ![p] = r2]
   BY Zenon
 <2>10. r1 \in SlotRec /\ r1.text = NoText /\ r1.addr = r.addr /\ r1.held = r.held
        /\ r1.load = r.load /\ r1.lock = r.lock /\ r1.stat = r.stat /\ r1.pc = r.pc
        /\ r1.size = r.size /\ r1.data = r.data /\ r1.stack = r.stack
  <3>1. NoText \in 0..NText  BY Consts DEF NoText
  <3> QED  BY <2>4, <2>5, <3>1 DEF SlotRec
 <2>11. r2 \in SlotRec /\ r2.text = NoText /\ r2.addr = r.addr /\ r2.held = r.held
        /\ r2.load = r.load /\ r2.lock = r.lock /\ r2.stat = r.stat /\ r2.pc = "dying"
        /\ r2.size = r.size /\ r2.data = r.data /\ r2.stack = r.stack /\ r2.blk = b.at
  <3>1. "dying" \in PCs  BY DEF PCs
  <3> QED  BY <2>8, <2>9, <2>10, <3>1, Zenon DEF SlotRec
 <2>12. proc' = pr2  BY <1>4, <2>2, <2>3, <2>4, <2>5, <2>9, <2>10, <2>11, Zenon
 <2>13. /\ pr1[p] = r1 /\ pr2[p] = r2 /\ pr2 = [pr1 EXCEPT ![p] = r2]
        /\ OnlySlot(proc, p, pr2)
   BY <2>2, <2>5, <2>9, Zenon DEF OnlySlot
 <2>14. /\ r.stat = "run" /\ r.load /\ r.pc = "user" /\ Inside(r2) /\ ~IsSwapped(r2)
        /\ ImageOf(r2) = ImageOf(r1) /\ SlotBlocks(r1) = {} /\ SlotBlocks(r2) = Block(b.at, 1)
  <3>1. r.stat = "run" /\ r.load /\ r.pc = "user"  BY <2>1, <2>3
  <3>2. Inside(r2) /\ ~IsSwapped(r2) /\ ~IsSwapped(r1) /\ ~IsLeaving(r1) /\ ~IsLeaving(r2)
    BY <2>4, <2>10, <2>11, <3>1 DEF Inside, IsSwapped, IsLeaving
  <3>3. ImageOf(r2) = ImageOf(r1)  BY <2>10, <2>11 DEF ImageOf
  <3>4. SlotBlocks(r1) = {}  BY <2>10, <3>1, <3>2 DEF SlotBlocks
  <3>5. SlotBlocks(r2) = Block(b.at, 1)  BY <2>11, <3>2 DEF SlotBlocks
  <3> QED  BY <3>1, <3>2, <3>3, <3>4, <3>5
 <2>15. Tables(x.mm, b.map, pr2, x.txt, sch)
  <3>1. Follows(pr1, p, r2, sch)  BY <2>4, <2>10, <2>11, <2>13 DEF Follows
  <3>2. TakesBlock(x.sm, pr1, p, r2, pr2, b.map)  BY <1>1, <1>4, <2>11, <2>13, <2>14 DEF TakesBlock
  <3> QED  BY <2>6, <3>1, <3>2, TakeBlock
 <2>16. Goods(pr2, x.txt, sch)
  <3>1. CASE r.text = NoText
   <4>1. x.txt = text  BY <1>1, <2>3, <3>1 DEF XFree, XccDec
   <4>2. \A q \in Slots : SameUse(proc[q], pr2[q], HasIn(proc[q], sch, q), HasIn(pr2[q], sch, q))
     BY <2>3, <2>11, <2>13, <3>1 DEF SameUse, OnlySlot
   <4>3. \A u \in Texts : SameText(text[u], text[u])  BY DEF SameText
   <4> QED  BY <2>2, <4>1, <4>2, <4>3, GoodsKept
  <3>2. CASE r.text \in Texts
   <4>1. pr2[p].text = NoText  BY <2>11, <2>13
   <4> QED  BY <1>1, <2>2, <2>3, <2>4, <2>13, <2>14, <3>2, <4>1, GoodDrop, Zenon
  <3>3. r.text = NoText \/ r.text \in Texts  BY <2>4, SlotFields
  <3> QED  BY <3>1, <3>2, <3>3
 <2>17. Locks(pr2, tx, sch)  BY <2>2, <2>3, <2>11, <2>13 DEF Locks, OnlySlot
 <2>18. SchedOk(pr2, sch, runout)
  <3>1. \A q \in Slots : IsSwapped(pr2[q]) <=> IsSwapped(proc[q])
    BY <2>3, <2>4, <2>13, <2>14 DEF OnlySlot
  <3> QED  BY <2>2, <3>1, SchedKept
 <2>19. SlotsOk(pr2)
  <3>1. HereSlot(r2)  BY <2>4, <2>8, <2>11, <2>14 DEF HereSlot
  <3>2. Sized(r2)  BY <2>4, <2>11 DEF Sized
  <3>3. SlotOk(r2)  BY <2>4, <2>11, <2>14, <3>1, <3>2 DEF SlotOk, LiveSlot
  <3>4. pr2[p].pc # "born" /\ proc[p].stat # "idl" /\ SlotOk(pr2[p])  BY <2>1, <2>11, <2>13, <3>3
  <3> QED  BY <2>2, <2>13, <3>4, OneSlotOk, Zenon
 <2>20. Consistent(x.mm, b.map, pr2, x.txt, sch, swb, tx, sleepers, runout)
   BY <2>2, <2>15, <2>16, <2>17, <2>18, <2>19 DEF Consistent
 <2>21. StaysConsistent  BY <1>4, <2>12, <2>20, Zenon DEF StaysConsistent, NoSwap
 <2> QED  BY <1>2, <2>21, NextOk
<1> QED  BY <1>2, <1>3, <1>4

\* What the death of p does to another process
Touch(r, e, p) ==
    \/ e = r
    \/ r.stat = "wait" /\ e = [r EXCEPT !.stat = "run"]
    \/ r.par = p /\ e = [r EXCEPT !.par = 1]

\* A child changes its parent.
LEMMA TouchFacts ==
  ASSUME NEW r \in SlotRec, SlotOk(r), NEW p, NEW e, Touch(r, e, p)
  PROVE  /\ e \in SlotRec /\ Alike(r, e) /\ SlotOk(e) /\ e.text = r.text /\ e.pc = r.pc
         /\ e.lock = r.lock /\ e.load = r.load /\ (Inside(e) <=> Inside(r))
         /\ (IsSwapped(e) <=> IsSwapped(r))
         /\ (r.stat = "idl" => e.stat = "idl") /\ (r.pc = "born" /\ r.par # p => e = r)
<1>1. CASE e = r  BY <1>1 DEF Alike
<1>2. CASE r.stat = "wait" /\ e = [r EXCEPT !.stat = "run"]
 <2>1. LiveSlot(r) /\ HereSlot(r) /\ r.pc = "user" /\ r.load /\ ~r.lock
   BY <1>2 DEF SlotOk, NullSlot, DeadSlot, LiveSlot, HereSlot, GoingSlot, BornSlot, OutSlot
 <2>2. /\ e \in SlotRec /\ e.stat = "run" /\ e.load = r.load /\ e.lock = r.lock
       /\ e.addr = r.addr /\ e.size = r.size /\ e.data = r.data /\ e.stack = r.stack
       /\ e.text = r.text /\ e.pc = r.pc /\ e.blk = r.blk /\ e.held = r.held
  <3>1. "run" \in ProcStates  BY DEF ProcStates
  <3> QED  BY <1>2, <3>1 DEF SlotRec
 <2>3. /\ ~IsSwapped(r) /\ ~IsSwapped(e) /\ ~IsLeaving(r) /\ ~IsLeaving(e)
       /\ Inside(r) /\ Inside(e)
   BY <2>1, <2>2 DEF IsSwapped, IsLeaving, Inside
 <2>4. ImageOf(e) = ImageOf(r)  BY <2>2 DEF ImageOf
 <2>5. SlotBlocks(e) = {} /\ SlotBlocks(r) = {}  BY <1>2, <2>1, <2>2, <2>3 DEF SlotBlocks
 <2>6. Alike(r, e)  BY <2>2, <2>3, <2>4, <2>5 DEF Alike
 <2>7. SlotOk(e)
  <3>1. Sized(e)  BY <2>1, <2>2 DEF LiveSlot, Sized
  <3>2. HereSlot(e)  BY <2>1, <2>2 DEF HereSlot
  <3> QED  BY <2>1, <2>2, <3>1, <3>2 DEF SlotOk, LiveSlot
 <2> QED  BY <1>2, <2>1, <2>2, <2>3, <2>6, <2>7, Zenon
<1>3. CASE r.par = p /\ e = [r EXCEPT !.par = 1]
 <2>1. /\ e \in SlotRec /\ e.stat = r.stat /\ e.load = r.load /\ e.lock = r.lock
       /\ e.addr = r.addr /\ e.size = r.size /\ e.data = r.data /\ e.stack = r.stack
       /\ e.text = r.text /\ e.pc = r.pc /\ e.blk = r.blk /\ e.held = r.held /\ e.par = 1
       /\ e.kid = r.kid
  <3>1. 1 \in 0..N  BY Consts
  <3> QED  BY <1>3, <3>1 DEF SlotRec
 <2>2. (IsSwapped(e) <=> IsSwapped(r)) /\ (Inside(e) <=> Inside(r)) /\ (IsLeaving(e) <=> IsLeaving(r))
   BY <2>1 DEF IsSwapped, IsLeaving, Inside
 <2>3. ImageOf(e) = ImageOf(r) /\ SlotBlocks(e) = SlotBlocks(r)
   BY <2>1, <2>2 DEF ImageOf, SlotBlocks
 <2>4. Alike(r, e)  BY <2>1, <2>2, <2>3 DEF Alike
 <2>5. SlotOk(e)
  <3>1. Sized(r) => Sized(e)  BY <2>1 DEF Sized
  <3>2. /\ NullSlot(r) => NullSlot(e)
        /\ DeadSlot(r) => DeadSlot(e)
    BY <2>1 DEF NullSlot, DeadSlot
  <3>3. /\ HereSlot(r) => HereSlot(e)
        /\ GoingSlot(r) => GoingSlot(e)
        /\ BornSlot(r) => BornSlot(e)
        /\ OutSlot(r) => OutSlot(e)
    BY <2>1 DEF HereSlot, GoingSlot, BornSlot, OutSlot
  <3>4. LiveSlot(r) => LiveSlot(e)  BY <2>1, <3>1, <3>3 DEF LiveSlot
  <3> QED  BY <3>2, <3>4 DEF SlotOk
 <2> QED  BY <1>3, <2>1, <2>2, <2>4, <2>5
<1> QED  BY <1>1, <1>2, <1>3 DEF Touch

\* One slot changes, and who swaps or is out stays the same.
OneTurns(mm, sm, pr, tt, sc, b, x, z, out, p, r2, pr2, mm2, sm2, tt2) ==
    /\ Consistent(mm, sm, pr, tt, sc, b, x, z, out)
    /\ p \in Slots /\ OnlySlot(pr, p, pr2) /\ pr2[p] = r2 /\ SlotOk(r2) /\ r2.pc # "born"
    /\ pr[p].stat # "idl" /\ r2.lock = pr[p].lock /\ (IsSwapped(r2) <=> IsSwapped(pr[p]))
    /\ Tables(mm2, sm2, pr2, tt2, sc) /\ Goods(pr2, tt2, sc)

\* One slot changes, the swap buffer does not.
LEMMA OneKeeps ==
  ASSUME NEW mm, NEW sm, NEW pr, NEW tt, NEW sc, NEW b, NEW x, NEW z, NEW out,
         NEW p, NEW r2, NEW pr2, NEW mm2, NEW sm2, NEW tt2,
         OneTurns(mm, sm, pr, tt, sc, b, x, z, out, p, r2, pr2, mm2, sm2, tt2)
  PROVE  Consistent(mm2, sm2, pr2, tt2, sc, b, x, z, out)
<1>1. /\ Consistent(mm, sm, pr, tt, sc, b, x, z, out)
      /\ p \in Slots /\ OnlySlot(pr, p, pr2) /\ pr2[p] = r2 /\ SlotOk(r2) /\ r2.pc # "born"
      /\ pr[p].stat # "idl" /\ r2.lock = pr[p].lock /\ (IsSwapped(r2) <=> IsSwapped(pr[p]))
      /\ Tables(mm2, sm2, pr2, tt2, sc) /\ Goods(pr2, tt2, sc)
  BY DEF OneTurns
<1>2. SlotsOk(pr) /\ Locks(pr, x, sc) /\ BufferOk(b, x, z) /\ SchedOk(pr, sc, out)
  BY <1>1 DEF Consistent
<1>3. SlotsOk(pr2)  BY <1>1, <1>2, OneSlotOk
<1>4. Locks(pr2, x, sc)  BY <1>1, <1>2 DEF Locks, OnlySlot
<1>5. SchedOk(pr2, sc, out)
 <2>1. \A q \in Slots : IsSwapped(pr2[q]) <=> IsSwapped(pr[q])  BY <1>1 DEF OnlySlot
 <2> QED  BY <1>2, <2>1, SchedKept
<1> QED  BY <1>1, <1>2, <1>3, <1>4, <1>5 DEF Consistent

\* The process is a zombie; its children get another parent.
LEMMA DieKeeps ==
  ASSUME IInv, NEW p \in Slots, Die(p)
  PROVE  IInv'
<1>1. /\ Consistent(mmap, smap, proc, text, sch, swb, tx, sleepers, runout)
      /\ proc[p].stat = "run" /\ proc[p].load /\ tx[p] = "no" /\ proc[p].pc = "dying"
  BY DEF IInv, Die, Runs
<1>2. /\ Tables(mmap, smap, proc, text, sch) /\ SlotsOk(proc) /\ Goods(proc, text, sch)
      /\ Locks(proc, tx, sch) /\ BufferOk(swb, tx, sleepers) /\ SchedOk(proc, sch, runout)
      /\ proc \in [Slots -> SlotRec] /\ text \in [Texts -> TextRec]
  BY <1>1, TablesAre DEF Consistent
<1>3. PICK r : r = proc[p]  OBVIOUS
<1>4. /\ r \in SlotRec /\ HereSlot(r) /\ ~r.lock /\ Inside(r) /\ ~IsSwapped(r)
      /\ r.addr > 0 /\ r.addr % 2 = 0 /\ r.held = r.size /\ r.size > 0
      /\ (Moving(sch) => sch.sel # p)
      /\ \A q \in Slots : proc[q].pc = "born" => proc[q].par # p
  BY <1>1, <1>3, RunFacts
<1>5. r.text = NoText /\ r.blk > 0 /\ r.pc = "dying" /\ r.stat = "run" /\ r.blk \in Halves
 <2>1. r.blk \in 0..SwapBlocks  BY <1>4, SlotFields
 <2>2. r.blk \in Halves  BY <2>1, Consts DEF Halves
 <2> QED  BY <1>1, <1>3, <1>4, <2>2 DEF HereSlot
<1>6. PICK r2, pr1, pr2, mm2 :
         /\ r2 = [r EXCEPT !.stat = "zomb", !.addr = r.blk, !.pc = "none", !.blk = 0, !.held = 0]
         /\ pr1 = [proc EXCEPT ![p] = r2] /\ pr2 = proc' /\ mm2 = FreeMemory(mmap, r.held, r.addr)
  BY Zenon
<1>7. /\ r2 \in SlotRec /\ r2.stat = "zomb" /\ r2.addr = r.blk /\ r2.pc = "none"
      /\ r2.held = 0 /\ r2.lock = r.lock /\ r2.text = r.text /\ r2.load = r.load
 <2>1. /\ "zomb" \in ProcStates /\ "none" \in PCs /\ 0 \in 0..SwapBlocks
       /\ 0 \in 0..Space + USIZE
   BY Consts DEF ProcStates, PCs, USIZE
 <2> QED  BY <1>4, <1>5, <1>6, <2>1, Zenon DEF SlotRec
<1>8. /\ pr2 \in [Slots -> SlotRec] /\ pr2[p] = r2 /\ pr1[p] = r2
      /\ \A q \in Slots : q # p => pr1[q] = proc[q] /\ Touch(proc[q], pr2[q], p)
 <2>1. pr2 = [c \in Slots |->
       CASE c = p -> [proc[p] EXCEPT !.stat = "zomb", !.addr = proc[p].blk, !.pc = "none",
                                     !.blk = 0, !.held = 0]
         [] c # p /\ c = proc[p].par /\ proc[c].stat = "wait" ->
               [proc[c] EXCEPT !.stat = "run"]
         [] c # p /\ proc[c].par = p -> [proc[c] EXCEPT !.par = 1]
         [] OTHER -> proc[c]]
   BY <1>6 DEF Die
 <2>2. pr2[p] = r2  BY <1>3, <1>6, <2>1
 <2>3. \A q \in Slots : q # p => Touch(proc[q], pr2[q], p)  BY <2>1 DEF Touch
 <2>4. \A q \in Slots : q # p => pr2[q] \in SlotRec  BY <1>2, <2>3, TouchFacts DEF SlotsOk
 <2>5. pr2 \in [Slots -> SlotRec]  BY <1>7, <2>1, <2>2, <2>4
 <2> QED  BY <1>2, <1>6, <2>2, <2>3, <2>5, Zenon
<1>9. \A q \in Slots : q # p =>
        /\ Alike(proc[q], pr2[q]) /\ SlotOk(pr2[q]) /\ pr2[q].text = proc[q].text
        /\ pr2[q].pc = proc[q].pc /\ pr2[q].lock = proc[q].lock
        /\ (Inside(pr2[q]) <=> Inside(proc[q]))
        /\ (IsSwapped(pr2[q]) <=> IsSwapped(proc[q]))
        /\ (proc[q].stat = "idl" => pr2[q].stat = "idl")
        /\ (proc[q].pc = "born" => pr2[q] = proc[q])
 <2> SUFFICES ASSUME NEW q \in Slots, q # p
              PROVE  /\ Alike(proc[q], pr2[q]) /\ SlotOk(pr2[q])
                     /\ pr2[q].text = proc[q].text
                     /\ pr2[q].pc = proc[q].pc /\ pr2[q].lock = proc[q].lock
                     /\ (Inside(pr2[q]) <=> Inside(proc[q]))
                     /\ (IsSwapped(pr2[q]) <=> IsSwapped(proc[q]))
                     /\ (proc[q].stat = "idl" => pr2[q].stat = "idl")
                     /\ (proc[q].pc = "born" => pr2[q] = proc[q])
   OBVIOUS
 <2>1. proc[q] \in SlotRec /\ SlotOk(proc[q]) /\ Touch(proc[q], pr2[q], p)
   BY <1>2, <1>8 DEF SlotsOk
 <2>2. proc[q].pc = "born" => proc[q].par # p  BY <1>4
 <2> QED  BY <2>1, <2>2, TouchFacts
<1>10. /\ ~IsSwapped(r2) /\ SlotBlocks(r2) = SlotBlocks(r) /\ ImageOf(r2) = {}
 <2>1. r2.addr \in Nat  BY <1>7, SlotFields
 <2>2. r2.addr \div 2 \in Nat  BY <2>1, HalfFacts
 <2>3. Block(r2.addr \div 2, 0) = {} /\ Pages(0) = 0  BY ONLY <2>2, EmptyBlock
 <2>4. ImageOf(r2) = {}  BY <1>7, <2>3 DEF ImageOf
 <2>5. ~IsSwapped(r2) /\ ~IsLeaving(r2) /\ ~IsLeaving(r)  BY <1>4, <1>7 DEF IsSwapped, IsLeaving
 <2>6. SlotBlocks(r2) = Block(r.blk, 1) /\ SlotBlocks(r) = Block(r.blk, 1)
   BY <1>4, <1>5, <1>7, <2>5 DEF SlotBlocks
 <2> QED  BY <2>4, <2>5, <2>6
<1>11. Tables(mm2, smap, pr1, text, sch)
 <2>1. Follows(proc, p, r2, sch)  BY <1>3, <1>4, <1>5, <1>7 DEF Follows
 <2>2. DropsImage(mmap, proc, p, r2, pr1, mm2)  BY <1>3, <1>4, <1>6, <1>7, <1>10 DEF DropsImage
 <2> QED  BY <1>2, <2>1, <2>2, DropImage
<1>12. Tables(mm2, smap, pr2, text, sch)
 <2>1. \A q \in Slots : Alike(pr1[q], pr2[q])  BY <1>8, <1>9 DEF Alike
 <2>2. \A t \in Texts : TextAlike(text[t], text[t])  BY DEF TextAlike
 <2> QED  BY <1>2, <1>8, <1>11, <2>1, <2>2, TablesAlike
<1>13. Goods(pr2, text, sch)
 <2>1. \A q \in Slots : q # p => (HasIn(proc[q], sch, q) => HasIn(pr2[q], sch, q))
   BY <1>9 DEF HasIn
 <2>2. pr2[p].text = NoText /\ proc[p].text = NoText  BY <1>3, <1>5, <1>7, <1>8
 <2>3. \A q \in Slots : SameUse(proc[q], pr2[q], HasIn(proc[q], sch, q), HasIn(pr2[q], sch, q))
   BY <1>9, <2>1, <2>2 DEF SameUse
 <2>4. \A t \in Texts : SameText(text[t], text[t])  BY DEF SameText
 <2> QED  BY <1>2, <2>3, <2>4, GoodsKept
<1>14. Locks(pr2, tx, sch)  BY <1>2, <1>3, <1>7, <1>8, <1>9 DEF Locks
<1>15. SchedOk(pr2, sch, runout)
 <2>1. \A q \in Slots : IsSwapped(pr2[q]) <=> IsSwapped(proc[q])  BY <1>3, <1>4, <1>8, <1>9, <1>10
 <2> QED  BY <1>2, <2>1, SchedKept
<1>16. SlotsOk(pr2)
 <2>1. SlotOk(r2)  BY <1>4, <1>5, <1>7 DEF SlotOk, DeadSlot
 <2>2. Births(proc)  BY <1>2 DEF SlotsOk
 <2>3. \A q \in Slots : pr2[q].pc = "born" => proc[q].pc = "born" /\ pr2[q].par = proc[q].par
   BY <1>7, <1>8, <1>9
 <2>4. \A q \in Slots : proc[q].stat = "idl" => pr2[q].stat = "idl"  BY <1>1, <1>9
 <2>5. Births(pr2)  BY <2>2, <2>3, <2>4, BirthsKept
 <2> QED  BY <1>8, <1>9, <2>1, <2>5 DEF SlotsOk
<1>17. Consistent(mm2, smap, pr2, text, sch, swb, tx, sleepers, runout)
  BY <1>2, <1>12, <1>13, <1>14, <1>15, <1>16 DEF Consistent
<1>18. mmap' = mm2 /\ ops' = ops /\ fault' = fault  BY <1>3, <1>4, <1>6 DEF Die
<1>19. StaysConsistent  BY <1>6, <1>17, <1>18 DEF StaysConsistent, Die, NoSwap
<1> QED  BY <1>18, <1>19, NextOk

-----------------------------------------------------------------------------
(* Wait                                                                    *)

\* Sched sleeps, or is woken.
LEMMA SchedTurns ==
  ASSUME NEW mm, NEW sm, NEW pr, NEW tt, NEW sc, NEW x, Tables(mm, sm, pr, tt, sc),
         Goods(pr, tt, sc), Locks(pr, x, sc), ~Moving(sc), NEW sc2 \in SchedRec, ~Moving(sc2)
  PROVE  Tables(mm, sm, pr, tt, sc2) /\ Goods(pr, tt, sc2) /\ Locks(pr, x, sc2)
<1>1. Tables(mm, sm, pr, tt, sc2)  BY TablesSched
<1>2. Goods(pr, tt, sc2)
 <2>1. \A q \in Slots : HasIn(pr[q], sc2, q) <=> HasIn(pr[q], sc, q)  BY DEF HasIn, Moving
 <2>2. \A q \in Slots : SameUse(pr[q], pr[q], HasIn(pr[q], sc, q), HasIn(pr[q], sc2, q))
   BY <2>1 DEF SameUse
 <2>3. \A u \in Texts : SameText(tt[u], tt[u])  BY DEF SameText
 <2> QED  BY <2>2, <2>3, GoodsKept
<1>3. Locks(pr, x, sc2)  BY DEF Locks
<1> QED  BY <1>1, <1>2, <1>3

\* Wait sleeps, finds a dead child, has read its u area.
LEMMA WaitKeeps ==
  ASSUME IInv, NEW p \in Slots, Wait(p)
  PROVE  IInv'
<1>1. /\ Consistent(mmap, smap, proc, text, sch, swb, tx, sleepers, runout)
      /\ proc[p].stat = "run" /\ proc[p].load /\ tx[p] = "no" /\ proc[p].pc = "user"
  BY DEF IInv, Wait, Runs
<1>2. /\ Tables(mmap, smap, proc, text, sch) /\ SlotsOk(proc) /\ Goods(proc, text, sch)
      /\ Locks(proc, tx, sch) /\ BufferOk(swb, tx, sleepers) /\ SchedOk(proc, sch, runout)
      /\ proc \in [Slots -> SlotRec] /\ sch \in SchedRec
  BY <1>1, TablesAre DEF Consistent
<1>3. SlotOk(proc[p]) /\ ~proc[p].lock  BY <1>1, RunFacts
<1>4. PICK r2, pr2, sc2 :
         /\ r2 = [proc[p] EXCEPT !.stat = "wait"] /\ pr2 = [proc EXCEPT ![p] = r2]
         /\ sc2 = IF sch.pc = "in" THEN [sch EXCEPT !.pc = "loop"] ELSE sch
  BY Zenon
<1>5. Turns(mmap, smap, proc, text, sch, tx, runout, p, "wait", r2, pr2)
  BY <1>1, <1>2, <1>3, <1>4 DEF Turns
<1>6. /\ Tables(mmap, smap, pr2, text, sch) /\ Goods(pr2, text, sch) /\ Locks(pr2, tx, sch)
      /\ SchedOk(pr2, sch, runout) /\ SlotOk(r2) /\ pr2[p] = r2 /\ r2 \in SlotRec
      /\ \A q \in Slots : q # p => pr2[q] = proc[q]
  BY ONLY <1>5, TurnKeeps
<1>7. \A q \in Slots : pr2[q].pc = proc[q].pc  BY ONLY <1>5, TurnKeeps
<1>8. /\ Tables(mmap, smap, pr2, text, sc2) /\ Goods(pr2, text, sc2) /\ Locks(pr2, tx, sc2)
      /\ SchedOk(pr2, sc2, runout)
 <2>1. CASE sch.pc # "in"  BY <1>4, <1>6, <2>1
 <2>2. CASE sch.pc = "in"
  <3>1. sc2 \in SchedRec /\ sc2.pc = "loop" /\ ~Moving(sc2) /\ ~Moving(sch)
    BY <1>2, <1>4, <2>2 DEF SchedRec, Moving
  <3>2. SchedOk(pr2, sc2, runout)  BY <1>6, <2>2, <3>1 DEF SchedOk
  <3> QED  BY <1>6, <3>1, <3>2, SchedTurns
 <2> QED  BY <2>1, <2>2
<1>9. SlotsOk(pr2)
 <2>1. OnlySlot(proc, p, pr2) /\ SlotOk(pr2[p]) /\ pr2[p].pc # "born" /\ proc[p].stat # "idl"
   BY <1>1, <1>6, <1>7 DEF OnlySlot
 <2> QED  BY <1>2, <2>1, OneSlotOk
<1>10. Consistent(mmap, smap, pr2, text, sc2, swb, tx, sleepers, runout)
  BY <1>2, <1>8, <1>9 DEF Consistent
<1>11. proc' = pr2 /\ sch' = sc2  BY <1>2, <1>4 DEF Wait
<1>12. StaysConsistent  BY <1>10, <1>11, Zenon DEF StaysConsistent, Wait, NoSwap
<1>13. ops' = ops  BY DEF Wait
<1> QED  BY <1>12, <1>13, NextOk

LEMMA ReapKeeps ==
  ASSUME IInv, NEW p \in Slots, Reap(p)
  PROVE  IInv'
<1>1. /\ Consistent(mmap, smap, proc, text, sch, swb, tx, sleepers, runout)
      /\ proc[p].stat = "run" /\ proc[p].load /\ tx[p] = "no" /\ proc[p].pc = "user"
  BY Zenon DEF IInv, Reap, Runs
<1>2. /\ Tables(mmap, smap, proc, text, sch) /\ SlotsOk(proc) /\ Goods(proc, text, sch)
      /\ Locks(proc, tx, sch) /\ BufferOk(swb, tx, sleepers) /\ SchedOk(proc, sch, runout)
      /\ proc \in [Slots -> SlotRec] /\ Typed(proc, text, sch) /\ SelOk(proc, text, sch)
      /\ Held(smap, SwapBlocks, SwapOwner(proc, text))
  BY <1>1, TablesAre DEF Consistent
<1>3. PICK c : /\ c = Min({s \in Slots : proc[s].stat = "zomb" /\ proc[s].par = p})
               /\ {s \in Slots : proc[s].stat = "zomb" /\ proc[s].par = p} # {}
  BY Zenon DEF Reap
<1>4. c \in Slots /\ proc[c].stat = "zomb" /\ c # p
 <2>1. PICK S : S = {s \in Slots : proc[s].stat = "zomb" /\ proc[s].par = p}  BY Zenon
 <2>2. S # {} /\ S \subseteq Nat  BY <1>3, <2>1 DEF Slots
 <2>3. c \in S  BY <1>3, <2>1, <2>2, MinInside
 <2> QED  BY <1>1, <2>1, <2>3
<1>5. PICK r, k, a : r = proc[p] /\ k = proc[c] /\ a = k.addr  OBVIOUS
<1>6. /\ r \in SlotRec /\ HereSlot(r) /\ Sized(r) /\ ~r.lock /\ Inside(r) /\ ~IsSwapped(r)
      /\ r.addr > 0 /\ (Moving(sch) => sch.sel # p) /\ SlotBlocks(r) = {}
  BY <1>1, <1>5, RunFacts
<1>7. k \in SlotRec /\ DeadSlot(k)
 <2>1. SlotOk(k) /\ k \in SlotRec  BY <1>2, <1>4, <1>5 DEF SlotsOk
 <2> QED  BY <1>4, <1>5, <2>1 DEF SlotOk, NullSlot, LiveSlot
<1>8. /\ k.text = NoText /\ k.held = 0 /\ ~k.lock /\ a > 0 /\ k.pc = "none"
      /\ SlotBlocks(k) = Block(a, 1) /\ ~IsSwapped(k)
 <2>1. ~IsSwapped(k) /\ ~IsLeaving(k)  BY <1>4, <1>5, <1>7 DEF IsSwapped, IsLeaving, DeadSlot
 <2> QED  BY <1>4, <1>5, <1>7, <2>1 DEF DeadSlot, SlotBlocks
<1>9. a \in 0..SwapBlocks /\ a \in Halves
 <2>1. SwapOwner(proc, text)[c] = Block(a, 1)  BY <1>4, <1>5, <1>8, SwapOwnerAt
 <2>2. Block(a, 1) \subseteq 1..SwapBlocks  BY <1>2, <1>4, <2>1, UserNames DEF Held
 <2>3. a \in Nat /\ a \in Halves  BY <1>5, <1>7, SlotFields
 <2>4. a \in Block(a, 1)  BY <2>3 DEF Block
 <2> QED  BY <2>2, <2>3, <2>4
<1>10. PICK rc, rp, pr2 :
          /\ rc = [FreeSlot EXCEPT !.addr = a]
          /\ rp = [r EXCEPT !.pc = "reap", !.kid = c, !.blk = a]
          /\ pr2 = [proc EXCEPT ![c] = rc, ![p] = rp]
  BY Zenon
<1>11. /\ rc \in SlotRec /\ rc.stat = "null" /\ ~rc.load /\ ~rc.lock /\ rc.text = NoText
       /\ rc.pc = "none" /\ rc.held = 0
 <2>1. /\ "null" \in ProcStates /\ 0 \in Halves /\ 0 \in 0..Space + USIZE /\ 0 \in 0..Space
       /\ 0 \in 0..N /\ 0 \in 0..NText /\ "none" \in PCs /\ 0 \in 0..SwapBlocks /\ NoText = 0
   BY Consts DEF ProcStates, Halves, USIZE, PCs, NoText
 <2> QED  BY <1>9, <1>10, <2>1, Zenon DEF FreeSlot, SlotRec
<1>12. /\ rp \in SlotRec /\ rp.stat = r.stat /\ rp.load = r.load /\ rp.lock = r.lock
       /\ rp.addr = r.addr /\ rp.size = r.size /\ rp.data = r.data /\ rp.stack = r.stack
       /\ rp.text = r.text /\ rp.pc = "reap" /\ rp.blk = a /\ rp.held = r.held /\ rp.kid = c
       /\ rp.par = r.par
 <2>1. "reap" \in PCs /\ c \in 0..N  BY <1>4, Consts DEF PCs, Slots
 <2> QED  BY <1>6, <1>9, <1>10, <2>1, Zenon DEF SlotRec
<1>13. pr2[c] = rc /\ pr2[p] = rp /\ \A q \in Slots : q # c /\ q # p => pr2[q] = proc[q]
  BY <1>2, <1>4, <1>10
<1>14. r.stat = "run" /\ r.load /\ r.pc = "user"  BY <1>1, <1>5
<1>15. Inside(rp) /\ ~IsSwapped(rp) /\ ~IsSwapped(rc) /\ ~IsLeaving(rp) /\ ~IsLeaving(rc)
  BY <1>6, <1>11, <1>12, <1>14 DEF Inside, IsSwapped, IsLeaving
<1>16. ImageOf(rp) = ImageOf(r) /\ ImageOf(rc) = ImageOf(k)
 <2>1. ImageOf(rp) = ImageOf(r)  BY <1>12 DEF ImageOf
 <2>2. rc.addr \in Nat /\ k.addr \in Nat  BY <1>7, <1>11, SlotFields
 <2>3. rc.addr \div 2 \in Nat /\ k.addr \div 2 \in Nat  BY <2>2, HalfFacts
 <2>4. Block(rc.addr \div 2, 0) = {} /\ Block(k.addr \div 2, 0) = {} /\ Pages(0) = 0
   BY ONLY <2>3, EmptyBlock
 <2> QED  BY <1>8, <1>11, <2>1, <2>4 DEF ImageOf
<1>17. SlotBlocks(rc) = {} /\ SlotBlocks(rp) = SlotBlocks(k)
 <2>1. SlotBlocks(rc) = {}  BY <1>11, <1>15 DEF SlotBlocks
 <2>2. SlotBlocks(rp) = Block(a, 1)  BY <1>12, <1>15 DEF SlotBlocks
 <2> QED  BY <1>8, <2>1, <2>2
<1>18. Moving(sch) => sch.sel # c /\ sch.sel # p  BY <1>2, <1>4, <1>6, SelOther
<1>19. Tables(mmap, smap, pr2, text, sch)
 <2>1. TakesOver(proc, sch, c, p, rc, rp, pr2)
   BY <1>4, <1>5, <1>6, <1>8, <1>10, <1>11, <1>12, <1>15, <1>16, <1>17, <1>18 DEF TakesOver
 <2> QED  BY <1>2, <2>1, TakeOver
<1>20. Goods(pr2, text, sch)
 <2>1. HasIn(pr2[p], sch, p)  BY <1>13, <1>15 DEF HasIn
 <2>2. pr2[c].text = NoText /\ proc[c].text = NoText  BY <1>5, <1>8, <1>11, <1>13
 <2>3. /\ pr2[p].text = proc[p].text /\ proc[p].pc = "user"  BY <1>1, <1>5, <1>12, <1>13
 <2>4. \A q \in Slots : SameUse(proc[q], pr2[q], HasIn(proc[q], sch, q), HasIn(pr2[q], sch, q))
   BY <1>13, <2>1, <2>2, <2>3 DEF SameUse
 <2>5. \A u \in Texts : SameText(text[u], text[u])  BY DEF SameText
 <2> QED  BY <1>2, <2>4, <2>5, GoodsKept
<1>21. Locks(pr2, tx, sch)  BY <1>2, <1>5, <1>6, <1>8, <1>11, <1>12, <1>13 DEF Locks
<1>22. SchedOk(pr2, sch, runout)
 <2>1. \A q \in Slots : IsSwapped(pr2[q]) <=> IsSwapped(proc[q])  BY <1>5, <1>6, <1>8, <1>13, <1>15
 <2> QED  BY <1>2, <2>1, SchedKept
<1>23. SlotsOk(pr2)
 <2>1. SlotOk(rc)  BY <1>11 DEF SlotOk, NullSlot
 <2>2. HereSlot(rp)  BY <1>4, <1>6, <1>8, <1>12, <1>14, UserNames DEF HereSlot
 <2>3. Sized(rp)  BY <1>6, <1>12 DEF Sized
 <2>4. SlotOk(rp)  BY <1>6, <1>12, <1>14, <2>2, <2>3 DEF SlotOk, LiveSlot
 <2>5. Births(proc) /\ \A q \in Slots : SlotOk(proc[q])  BY <1>2 DEF SlotsOk
 <2>6. \A q \in Slots : pr2[q].pc = "born" => proc[q].pc = "born" /\ pr2[q].par = proc[q].par
   BY <1>11, <1>12, <1>13
 <2>7. \A q \in Slots : proc[q].stat = "idl" => pr2[q].stat = "idl"  BY <1>1, <1>4, <1>13
 <2>8. Births(pr2)  BY <2>5, <2>6, <2>7, BirthsKept
 <2>9. \A q \in Slots : SlotOk(pr2[q])  BY <1>13, <2>1, <2>4, <2>5
 <2> QED  BY <2>8, <2>9 DEF SlotsOk
<1>24. Consistent(mmap, smap, pr2, text, sch, swb, tx, sleepers, runout)
  BY <1>2, <1>19, <1>20, <1>21, <1>22, <1>23 DEF Consistent
<1>25. proc' = pr2
 <2>1. proc' = [proc EXCEPT ![c] = [FreeSlot EXCEPT !.addr = proc[c].addr],
                            ![p].pc = "reap", ![p].kid = c, ![p].blk = proc[c].addr]
   BY <1>3, Zenon DEF Reap
 <2> QED  BY <1>2, <1>4, <1>5, <1>6, <1>10, <1>11, <2>1, Zenon
<1>26. StaysConsistent  BY <1>24, <1>25, Zenon DEF StaysConsistent, Reap, NoSwap
<1>27. ops' = ops  BY Zenon DEF Reap
<1> QED  BY <1>26, <1>27, NextOk

LEMMA ReapedKeeps ==
  ASSUME IInv, NEW p \in Slots, Reaped(p)
  PROVE  IInv'
<1>1. PICK b : b = proc[p].blk  OBVIOUS
<1>2. /\ Runs(p, "reap") /\ ops' = ops
      /\ \/ Happen("reused")
         \/ /\ smap' = Free(smap, 1, b)
            /\ proc' = [proc EXCEPT ![p].pc = "user", ![p].kid = 0, ![p].blk = 0]
            /\ NoSwap /\ UNCHANGED <<mmap, text, sch, runout, fault>>
  BY <1>1 DEF Reaped
<1>3. CASE Happen("reused")
 <2>1. "reused" \in Faults  BY DEF Faults
 <2> QED  BY <1>2, <1>3, <2>1, HappenOk
<1>4. CASE /\ smap' = Free(smap, 1, b)
           /\ proc' = [proc EXCEPT ![p].pc = "user", ![p].kid = 0, ![p].blk = 0]
           /\ NoSwap /\ UNCHANGED <<mmap, text, sch, runout, fault>>
 <2>1. /\ Consistent(mmap, smap, proc, text, sch, swb, tx, sleepers, runout)
       /\ proc[p].stat = "run" /\ proc[p].load /\ tx[p] = "no" /\ proc[p].pc = "reap"
   BY <1>2 DEF IInv, Runs
 <2>2. /\ Tables(mmap, smap, proc, text, sch) /\ Goods(proc, text, sch)
       /\ proc \in [Slots -> SlotRec]
   BY <2>1, TablesAre DEF Consistent
 <2>3. PICK r : r = proc[p]  OBVIOUS
 <2>4. /\ r \in SlotRec /\ HereSlot(r) /\ Sized(r) /\ ~r.lock /\ Inside(r) /\ ~IsSwapped(r)
       /\ r.addr > 0 /\ (Moving(sch) => sch.sel # p)
   BY <2>1, <2>3, RunFacts
 <2>5. b \in Nat /\ b > 0 /\ r.stat = "run" /\ r.load /\ r.pc = "reap" /\ b = r.blk
  <3>1. r.blk \in Nat  BY <2>4, SlotFields
  <3> QED  BY <1>1, <2>1, <2>3, <2>4, <3>1 DEF HereSlot
 <2>6. PICK r2, pr2 : /\ r2 = [r EXCEPT !.pc = "user", !.kid = 0, !.blk = 0]
                      /\ pr2 = [proc EXCEPT ![p] = r2]
   BY Zenon
 <2>7. /\ r2 \in SlotRec /\ r2.stat = r.stat /\ r2.load = r.load /\ r2.lock = r.lock
       /\ r2.addr = r.addr /\ r2.size = r.size /\ r2.data = r.data /\ r2.stack = r.stack
       /\ r2.text = r.text /\ r2.pc = "user" /\ r2.held = r.held
  <3>1. "user" \in PCs /\ 0 \in 0..N /\ 0 \in 0..SwapBlocks  BY Consts DEF PCs
  <3> QED  BY <2>4, <2>6, <3>1, Zenon DEF SlotRec
 <2>8. pr2[p] = r2 /\ OnlySlot(proc, p, pr2)  BY <2>2, <2>6 DEF OnlySlot
 <2>9. /\ Inside(r2) /\ ~IsSwapped(r2) /\ ImageOf(r2) = ImageOf(r)
       /\ SlotBlocks(r) = Block(b, 1) /\ SlotBlocks(r2) = {}
  <3>1. Inside(r2) /\ ~IsSwapped(r2) /\ ~IsLeaving(r2) /\ ~IsLeaving(r)
    BY <2>4, <2>5, <2>7 DEF Inside, IsSwapped, IsLeaving
  <3>2. ImageOf(r2) = ImageOf(r)  BY <2>7 DEF ImageOf
  <3>3. SlotBlocks(r) = Block(b, 1) /\ SlotBlocks(r2) = {}  BY <2>4, <2>5, <2>7, <3>1 DEF SlotBlocks
  <3> QED  BY <3>1, <3>2, <3>3
 <2>10. Tables(mmap, smap', pr2, text, sch)
  <3>1. Follows(proc, p, r2, sch)  BY <2>3, <2>4, <2>7, <2>9 DEF Follows
  <3>2. DropsBlock(smap, proc, p, b, r2, pr2, smap')
    BY <1>4, <2>3, <2>5, <2>6, <2>7, <2>9 DEF DropsBlock
  <3> QED  BY <2>2, <3>1, <3>2, DropBlock
 <2>11. Goods(pr2, text, sch)
  <3>1. HasIn(pr2[p], sch, p) /\ pr2[p].text = proc[p].text /\ proc[p].pc = "reap"
    BY <2>3, <2>5, <2>7, <2>8, <2>9 DEF HasIn
  <3>2. \A q \in Slots : SameUse(proc[q], pr2[q], HasIn(proc[q], sch, q), HasIn(pr2[q], sch, q))
    BY <2>8, <3>1 DEF SameUse, OnlySlot
  <3>3. \A u \in Texts : SameText(text[u], text[u])  BY DEF SameText
  <3> QED  BY <2>2, <3>2, <3>3, GoodsKept
 <2>12. SlotOk(r2)
  <3>1. HereSlot(r2)  BY <2>4, <2>5, <2>7 DEF HereSlot
  <3>2. Sized(r2)  BY <2>4, <2>7 DEF Sized
  <3> QED  BY <2>4, <2>5, <2>7, <3>1, <3>2 DEF SlotOk, LiveSlot
 <2>13. Consistent(mmap, smap', pr2, text, sch, swb, tx, sleepers, runout)
  <3>1. OneTurns(mmap, smap, proc, text, sch, swb, tx, sleepers, runout, p, r2, pr2,
                 mmap, smap', text)
    BY <2>1, <2>3, <2>4, <2>7, <2>8, <2>9, <2>10, <2>11, <2>12 DEF OneTurns
  <3> QED  BY <3>1, OneKeeps
 <2>14. proc' = pr2  BY <1>4, <2>2, <2>3, <2>4, <2>6, Zenon
 <2>15. StaysConsistent  BY <1>4, <2>13, <2>14, Zenon DEF StaysConsistent, NoSwap
 <2> QED  BY <1>2, <2>15, NextOk
<1> QED  BY <1>2, <1>3, <1>4

-----------------------------------------------------------------------------
(* The text's first user, and those who come after                         *)

\* A process in memory comes to an end of its place in Swap, or to its start.
OneSwaps(mm, sm, pr, tt, sc, b, x, z, out, p, r2, pr2, tt2, b2, x2, z2) ==
    /\ Consistent(mm, sm, pr, tt, sc, b, x, z, out)
    /\ p \in Slots /\ OnlySlot(pr, p, pr2) /\ pr2[p] = r2 /\ SlotOk(r2) /\ r2.pc # "born"
    /\ pr[p].stat # "idl" /\ (IsSwapped(r2) <=> IsSwapped(pr[p]))
    /\ Tables(mm, sm, pr2, tt2, sc) /\ Goods(pr2, tt2, sc)
    /\ BufferOk(b2, x2, z2) /\ x2 \in [0..N -> {"no", "want", "go"}]
    /\ (r2.lock <=> x2[p] # "no") /\ \A q \in 0..N : q # p => x2[q] = x[q]

\* One slot enters or leaves Swap, the tables do not change.
LEMMA OneSwapKeeps ==
  ASSUME NEW mm, NEW sm, NEW pr, NEW tt, NEW sc, NEW b, NEW x, NEW z, NEW out,
         NEW p, NEW r2, NEW pr2, NEW tt2, NEW b2, NEW x2, NEW z2,
         OneSwaps(mm, sm, pr, tt, sc, b, x, z, out, p, r2, pr2, tt2, b2, x2, z2)
  PROVE  Consistent(mm, sm, pr2, tt2, sc, b2, x2, z2, out)
<1>1. /\ Consistent(mm, sm, pr, tt, sc, b, x, z, out)
      /\ p \in Slots /\ OnlySlot(pr, p, pr2) /\ pr2[p] = r2 /\ SlotOk(r2) /\ r2.pc # "born"
      /\ pr[p].stat # "idl" /\ (IsSwapped(r2) <=> IsSwapped(pr[p]))
      /\ Tables(mm, sm, pr2, tt2, sc) /\ Goods(pr2, tt2, sc)
      /\ BufferOk(b2, x2, z2) /\ x2 \in [0..N -> {"no", "want", "go"}]
      /\ (r2.lock <=> x2[p] # "no") /\ \A q \in 0..N : q # p => x2[q] = x[q]
  BY DEF OneSwaps
<1>2. SlotsOk(pr) /\ Locks(pr, x, sc) /\ SchedOk(pr, sc, out)  BY <1>1 DEF Consistent
<1>3. SlotsOk(pr2)  BY <1>1, <1>2, OneSlotOk
<1>4. Locks(pr2, x2, sc)
 <2>1. p \in 0..N /\ p # 0  BY <1>1, Consts DEF Slots
 <2>2. \A q \in Slots : q # p => pr2[q].lock = pr[q].lock  BY <1>1 DEF OnlySlot
 <2>3. SwapsOne(pr, x, sc, p, pr2, x2, sc)  BY <1>1, <1>2, <2>1, <2>2 DEF SwapsOne
 <2> QED  BY <2>3, LocksOne
<1>5. SchedOk(pr2, sc, out)
 <2>1. \A q \in Slots : IsSwapped(pr2[q]) <=> IsSwapped(pr[q])  BY <1>1 DEF OnlySlot
 <2> QED  BY <1>2, <2>1, SchedKept
<1> QED  BY <1>1, <1>3, <1>4, <1>5 DEF Consistent

\* The process that saves its text changes only its lock and its place.
Saves(r, r2) ==
    /\ r.stat = "run" /\ r.load /\ r.text \in Texts /\ r2 \in SlotRec
    /\ r2.stat = r.stat /\ r2.load = r.load /\ r2.text = r.text /\ r2.addr = r.addr
    /\ r2.size = r.size /\ r2.data = r.data /\ r2.stack = r.stack /\ r2.held = r.held
    /\ \/ r.pc = "fill" /\ ~r.lock /\ r2.pc = "textout" /\ r2.lock
       \/ r.pc = "textout" /\ r.lock /\ r2.pc = "user" /\ ~r2.lock

LEMMA SavesFacts ==
  ASSUME NEW r \in SlotRec, SlotOk(r), NEW r2, Saves(r, r2)
  PROVE  Alike(r, r2) /\ SlotOk(r2) /\ Inside(r) /\ Inside(r2) /\ ~IsSwapped(r) /\ ~IsSwapped(r2)
<1>1. /\ r.stat = "run" /\ r.load /\ r.text \in Texts /\ r2 \in SlotRec
      /\ r2.stat = r.stat /\ r2.load = r.load /\ r2.text = r.text /\ r2.addr = r.addr
      /\ r2.size = r.size /\ r2.data = r.data /\ r2.stack = r.stack /\ r2.held = r.held
      /\ \/ r.pc = "fill" /\ ~r.lock /\ r2.pc = "textout" /\ r2.lock
         \/ r.pc = "textout" /\ r.lock /\ r2.pc = "user" /\ ~r2.lock
  BY DEF Saves
<1>2. /\ ~IsSwapped(r) /\ ~IsSwapped(r2) /\ ~IsLeaving(r) /\ ~IsLeaving(r2)
      /\ Inside(r) /\ Inside(r2)
  BY <1>1 DEF IsSwapped, IsLeaving, Inside
<1>3. ImageOf(r2) = ImageOf(r) /\ SlotBlocks(r) = {} /\ SlotBlocks(r2) = {}
  BY <1>1, <1>2 DEF ImageOf, SlotBlocks
<1>4. Alike(r, r2)  BY <1>1, <1>2, <1>3 DEF Alike
<1>5. LiveSlot(r) /\ HereSlot(r)
  BY <1>1 DEF SlotOk, NullSlot, DeadSlot, LiveSlot, GoingSlot, BornSlot, OutSlot
<1>6. SlotOk(r2)
 <2>1. Sized(r2)  BY <1>1, <1>5 DEF LiveSlot, Sized
 <2>2. HereSlot(r2)  BY <1>1, <1>5 DEF HereSlot
 <2>3. r2.text # NoText  BY <1>1 DEF Texts, NoText
 <2> QED  BY <1>1, <1>5, <2>1, <2>2, <2>3 DEF SlotOk, LiveSlot
<1> QED  BY <1>2, <1>4, <1>6

SavesText(mm, sm, pr, tt, sc, b, x, z, out, p, t, r2, pr2, tt2, b2, x2, z2) ==
    /\ Consistent(mm, sm, pr, tt, sc, b, x, z, out) /\ p \in Slots /\ t = pr[p].text
    /\ Saves(pr[p], r2) /\ pr2 = [pr EXCEPT ![p] = r2]
    /\ tt2 \in [Texts -> TextRec] /\ TextAlike(tt[t], tt2[t])
    /\ \A u \in Texts : u # t => tt2[u] = tt[u]
    /\ tt2[t].good /\ (tt2[t].saved \/ r2.pc = "textout")
    /\ BufferOk(b2, x2, z2) /\ x2 \in [0..N -> {"no", "want", "go"}]
    /\ (r2.lock <=> x2[p] # "no") /\ \A q \in 0..N : q # p => x2[q] = x[q]

\* One process writes the copy of its text.
LEMMA SavesTextKeeps ==
  ASSUME NEW mm, NEW sm, NEW pr, NEW tt, NEW sc, NEW b, NEW x, NEW z, NEW out,
         NEW p, NEW t, NEW r2, NEW pr2, NEW tt2, NEW b2, NEW x2, NEW z2,
         SavesText(mm, sm, pr, tt, sc, b, x, z, out, p, t, r2, pr2, tt2, b2, x2, z2)
  PROVE  Consistent(mm, sm, pr2, tt2, sc, b2, x2, z2, out)
<1>1. /\ Consistent(mm, sm, pr, tt, sc, b, x, z, out) /\ p \in Slots /\ t = pr[p].text
      /\ Saves(pr[p], r2) /\ pr2 = [pr EXCEPT ![p] = r2]
      /\ tt2 \in [Texts -> TextRec] /\ TextAlike(tt[t], tt2[t])
      /\ \A u \in Texts : u # t => tt2[u] = tt[u]
      /\ tt2[t].good /\ (tt2[t].saved \/ r2.pc = "textout")
      /\ BufferOk(b2, x2, z2) /\ x2 \in [0..N -> {"no", "want", "go"}]
      /\ (r2.lock <=> x2[p] # "no") /\ \A q \in 0..N : q # p => x2[q] = x[q]
  BY DEF SavesText
<1>2. /\ Tables(mm, sm, pr, tt, sc) /\ SlotsOk(pr) /\ Goods(pr, tt, sc)
      /\ pr \in [Slots -> SlotRec] /\ Typed(pr, tt, sc) /\ Counted(pr, tt, sc)
  BY <1>1, TablesAre DEF Consistent
<1>3. PICK r : r = pr[p] /\ r \in SlotRec /\ SlotOk(r)  BY <1>1, <1>2 DEF SlotsOk
<1>4. /\ Alike(r, r2) /\ SlotOk(r2) /\ Inside(r) /\ Inside(r2)
      /\ ~IsSwapped(r) /\ ~IsSwapped(r2)
  BY <1>1, <1>3, SavesFacts
<1>5. /\ r2 \in SlotRec /\ r.stat = "run" /\ r.text \in Texts /\ r2.text = r.text
      /\ r2.pc \in {"user", "textout"}
  BY <1>1, <1>3 DEF Saves
<1>6. pr2[p] = r2 /\ OnlySlot(pr, p, pr2) /\ pr2 \in [Slots -> SlotRec]
  BY <1>1, <1>2, <1>5 DEF OnlySlot
<1>7. Tables(mm, sm, pr2, tt2, sc)
 <2>1. \A q \in Slots : Alike(pr[q], pr2[q])  BY <1>3, <1>4, <1>6 DEF Alike, OnlySlot
 <2>2. \A u \in Texts : TextAlike(tt[u], tt2[u])  BY <1>1 DEF TextAlike
 <2> QED  BY <1>1, <1>2, <1>6, <2>1, <2>2, TablesAlike, Zenon
<1>8. Goods(pr2, tt2, sc)
 <2>1. TurnsGood(pr, tt, sc, p, t, pr2, tt2)  BY <1>1, <1>2, <1>3, <1>4, <1>5, <1>6 DEF TurnsGood
 <2> QED  BY <2>1, GoodTurn
<1>9. OneSwaps(mm, sm, pr, tt, sc, b, x, z, out, p, r2, pr2, tt2, b2, x2, z2)
  BY <1>1, <1>3, <1>4, <1>5, <1>6, <1>7, <1>8 DEF OneSwaps
<1> QED  BY <1>9, OneSwapKeeps

\* The first user reads the text and writes its copy.
LEMMA FillKeeps ==
  ASSUME IInv, NEW p \in Slots, Fill(p)
  PROVE  IInv'
<1>1. /\ Consistent(mmap, smap, proc, text, sch, swb, tx, sleepers, runout)
      /\ proc[p].stat = "run" /\ proc[p].load /\ tx[p] = "no" /\ proc[p].pc = "fill"
  BY DEF IInv, Fill, Runs
<1>2. /\ proc \in [Slots -> SlotRec] /\ text \in [Texts -> TextRec]
      /\ BufferOk(swb, tx, sleepers)
  BY <1>1, TablesAre DEF Consistent
<1>3. PICK r, t : r = proc[p] /\ t = r.text  OBVIOUS
<1>4. r \in SlotRec /\ ~r.lock /\ t \in Texts
 <2>1. r \in SlotRec /\ ~r.lock /\ SlotOk(r)  BY <1>1, <1>3, RunFacts
 <2>2. r.text # NoText  BY <1>1, <1>3, <2>1 DEF SlotOk, NullSlot, DeadSlot, LiveSlot
 <2> QED  BY <1>3, <2>1, <2>2, SlotFields
<1>5. PICK r2, pr2, tt2, b2, x2, z2 :
         /\ r2 = [r EXCEPT !.lock = TRUE, !.pc = "textout"] /\ pr2 = [proc EXCEPT ![p] = r2]
         /\ tt2 = [text EXCEPT ![t].good = TRUE] /\ b2 = swb' /\ x2 = tx' /\ z2 = sleepers'
  BY Zenon
<1>6. Saves(r, r2)
 <2>1. "textout" \in PCs  BY DEF PCs
 <2>2. /\ r2 \in SlotRec /\ r2.stat = r.stat /\ r2.load = r.load /\ r2.text = r.text
       /\ r2.addr = r.addr /\ r2.size = r.size /\ r2.data = r.data /\ r2.stack = r.stack
       /\ r2.held = r.held /\ r2.pc = "textout" /\ r2.lock
   BY <1>4, <1>5, <2>1, Zenon DEF SlotRec
 <2> QED  BY <1>1, <1>3, <1>4, <2>2, Zenon DEF Saves
<1>7. r2.pc = "textout" /\ r2.lock  BY <1>4, <1>5 DEF SlotRec
<1>8. /\ tt2 \in [Texts -> TextRec] /\ TextAlike(text[t], tt2[t]) /\ tt2[t].good
      /\ \A u \in Texts : u # t => tt2[u] = text[u]
  BY <1>2, <1>4, <1>5, Zenon DEF TextRec, TextAlike
<1>9. /\ BufferOk(b2, x2, z2) /\ x2 \in [0..N -> {"no", "want", "go"}] /\ x2[p] # "no"
      /\ \A q \in 0..N : q # p => x2[q] = tx[q]
 <2>1. p \in 0..N  BY Consts DEF Slots
 <2>2. SwapBegin(p)  BY DEF Fill
 <2> QED  BY <1>1, <1>2, <1>5, <2>1, <2>2, BeginKeeps
<1>10. SavesText(mmap, smap, proc, text, sch, swb, tx, sleepers, runout, p, t, r2, pr2, tt2,
                 b2, x2, z2)
  BY <1>1, <1>3, <1>5, <1>6, <1>7, <1>8, <1>9 DEF SavesText
<1>11. Consistent(mmap, smap, pr2, tt2, sch, b2, x2, z2, runout)  BY ONLY <1>10, SavesTextKeeps
<1>12. proc' = pr2 /\ text' = tt2
 <2>1. /\ proc' = [proc EXCEPT ![p].lock = TRUE, ![p].pc = "textout"]
       /\ text' = [text EXCEPT ![proc[p].text].good = TRUE]
   BY DEF Fill
 <2> QED  BY <1>2, <1>3, <1>4, <1>5, <2>1, Zenon
<1>13. StaysConsistent  BY <1>5, <1>11, <1>12, Zenon DEF StaysConsistent, Fill
<1>14. ops' = ops  BY DEF Fill
<1> QED  BY <1>13, <1>14, NextOk

LEMMA TextSavedKeeps ==
  ASSUME IInv, NEW p \in Slots, TextSaved(p)
  PROVE  IInv'
<1>1. /\ Consistent(mmap, smap, proc, text, sch, swb, tx, sleepers, runout)
      /\ proc[p].pc = "textout" /\ SwapEnd(p)
  BY DEF IInv, TextSaved
<1>2. /\ proc \in [Slots -> SlotRec] /\ text \in [Texts -> TextRec] /\ Goods(proc, text, sch)
      /\ BufferOk(swb, tx, sleepers) /\ SlotsOk(proc)
      /\ Typed(proc, text, sch) /\ Counted(proc, text, sch)
  BY <1>1, TablesAre DEF Consistent
<1>3. PICK r, t : r = proc[p] /\ t = r.text  OBVIOUS
<1>4. r \in SlotRec /\ r.lock /\ r.load /\ r.stat = "run" /\ t \in Texts /\ r.pc = "textout"
 <2>1. r \in SlotRec /\ SlotOk(r) /\ r.pc = "textout"  BY <1>1, <1>2, <1>3 DEF SlotsOk
 <2>2. HereSlot(r) /\ r.text # NoText /\ r.stat \in {"run", "wait", "idl"}
   BY <2>1 DEF SlotOk, NullSlot, DeadSlot, LiveSlot, GoingSlot, BornSlot, OutSlot
 <2>3. r.text \in Texts  BY <2>1, <2>2, SlotFields
 <2> QED  BY <1>3, <2>1, <2>2, <2>3 DEF HereSlot
<1>5. text[t].good
 <2>1. Inside(r)  BY <1>4 DEF Inside, IsLeaving
 <2>2. text[t].ccount >= 1 /\ text[t].ccount \in Nat  BY <1>2, <1>3, <1>4, <2>1, Counts DEF HasIn
 <2>3. text[t].ccount > 0  BY <2>2
 <2>4. text[t].good \/ text[t].saved  BY <1>2, <1>3, <1>4 DEF Goods, GoodText, UsersOf
 <2> QED  BY <1>2, <1>4, <2>3, <2>4 DEF Goods, GoodText
<1>6. PICK r2, pr2, tt2, b2, x2, z2 :
         /\ r2 = [r EXCEPT !.lock = FALSE, !.pc = "user"] /\ pr2 = [proc EXCEPT ![p] = r2]
         /\ tt2 = [text EXCEPT ![t].saved = TRUE] /\ b2 = swb' /\ x2 = tx' /\ z2 = sleepers'
  BY Zenon
<1>7. Saves(r, r2)
 <2>1. "user" \in PCs  BY DEF PCs
 <2>2. /\ r2 \in SlotRec /\ r2.stat = r.stat /\ r2.load = r.load /\ r2.text = r.text
       /\ r2.addr = r.addr /\ r2.size = r.size /\ r2.data = r.data /\ r2.stack = r.stack
       /\ r2.held = r.held /\ r2.pc = "user" /\ ~r2.lock
   BY <1>4, <1>6, <2>1, Zenon DEF SlotRec
 <2> QED  BY <1>3, <1>4, <2>2 DEF Saves
<1>8. ~r2.lock  BY <1>4, <1>6 DEF SlotRec
<1>9. /\ tt2 \in [Texts -> TextRec] /\ TextAlike(text[t], tt2[t]) /\ tt2[t].good
      /\ tt2[t].saved /\ \A u \in Texts : u # t => tt2[u] = text[u]
  BY <1>2, <1>4, <1>5, <1>6, Zenon DEF TextRec, TextAlike
<1>10. /\ BufferOk(b2, x2, z2) /\ x2 \in [0..N -> {"no", "want", "go"}] /\ x2[p] = "no"
       /\ \A q \in 0..N : q # p => x2[q] = tx[q]
 <2>1. p \in 0..N  BY Consts DEF Slots
 <2> QED  BY <1>1, <1>2, <1>6, <2>1, EndKeeps
<1>11. SavesText(mmap, smap, proc, text, sch, swb, tx, sleepers, runout, p, t, r2, pr2, tt2,
                 b2, x2, z2)
  BY <1>1, <1>3, <1>6, <1>7, <1>8, <1>9, <1>10 DEF SavesText
<1>12. Consistent(mmap, smap, pr2, tt2, sch, b2, x2, z2, runout)  BY ONLY <1>11, SavesTextKeeps
<1>13. proc' = pr2 /\ text' = tt2
 <2>1. /\ proc' = [proc EXCEPT ![p].lock = FALSE, ![p].pc = "user"]
       /\ text' = [text EXCEPT ![proc[p].text].saved = TRUE]
   BY DEF TextSaved
 <2> QED  BY <1>2, <1>3, <1>4, <1>6, <2>1, Zenon
<1>14. StaysConsistent  BY <1>6, <1>12, <1>13, Zenon DEF StaysConsistent, TextSaved
<1>15. ops' = ops  BY DEF TextSaved
<1> QED  BY <1>14, <1>15, NextOk

\* A process starts to run the text that another has read.
Enters(pr, tt, sc, p, t, pr2) ==
    /\ Goods(pr, tt, sc) /\ p \in Slots /\ OnlySlot(pr, p, pr2)
    /\ pr[p].text = t /\ pr2[p].text = t /\ t \in Texts /\ tt[t].good
    /\ pr[p].pc = "join" /\ Inside(pr[p]) /\ Inside(pr2[p])

\* Who joins a text runs when it is right.
LEMMA GoodEnter ==
  ASSUME NEW pr, NEW tt, NEW sc, NEW p, NEW t, NEW pr2, Enters(pr, tt, sc, p, t, pr2)
  PROVE  Goods(pr2, tt, sc)
<1>1. /\ Goods(pr, tt, sc) /\ p \in Slots /\ OnlySlot(pr, p, pr2)
      /\ pr[p].text = t /\ pr2[p].text = t /\ t \in Texts /\ tt[t].good
      /\ pr[p].pc = "join" /\ Inside(pr[p]) /\ Inside(pr2[p])
  BY DEF Enters
<1>2. ASSUME NEW u \in Texts, u # t PROVE GoodText(pr2, tt, sc, u)
 <2>1. pr[p].text # u /\ pr2[p].text # u /\ GoodText(pr, tt, sc, u)  BY <1>1, <1>2 DEF Goods
 <2> QED  BY <1>1, <2>1, OthersKept
<1>3. GoodText(pr2, tt, sc, t)
 <2>1. UsersOf(pr2, t) = UsersOf(pr, t) /\ CoreOf(pr2, sc, t) = CoreOf(pr, sc, t)
   BY <1>1 DEF UsersOf, CoreOf, OnlySlot, HasIn
 <2>2. \A q \in UsersOf(pr, t) : pr[q].pc \in {"fill", "textout"} => pr2[q] = pr[q]
   BY <1>1 DEF UsersOf, OnlySlot
 <2>3. GoodText(pr, tt, sc, t)  BY <1>1 DEF Goods
 <2> QED  BY <1>1, <2>1, <2>2, <2>3 DEF GoodText
<1> QED  BY <1>2, <1>3 DEF Goods

\* A later user of a text begins.
LEMMA JoinKeeps ==
  ASSUME IInv, NEW p \in Slots, Join(p)
  PROVE  IInv'
<1>1. PICK r, t : r = proc[p] /\ t = r.text  OBVIOUS
<1>2. /\ Runs(p, "join") /\ ops' = ops
      /\ \/ Happen("early")
         \/ /\ text[t].good /\ proc' = [proc EXCEPT ![p].pc = "user"]
            /\ NoSwap /\ UNCHANGED <<mmap, smap, text, sch, runout, fault>>
  BY <1>1 DEF Join
<1>3. CASE Happen("early")
 <2>1. "early" \in Faults  BY DEF Faults
 <2> QED  BY <1>2, <1>3, <2>1, HappenOk
<1>4. CASE /\ text[t].good /\ proc' = [proc EXCEPT ![p].pc = "user"]
           /\ NoSwap /\ UNCHANGED <<mmap, smap, text, sch, runout, fault>>
 <2>1. /\ Consistent(mmap, smap, proc, text, sch, swb, tx, sleepers, runout)
       /\ proc[p].stat = "run" /\ proc[p].load /\ tx[p] = "no" /\ proc[p].pc = "join"
   BY <1>2 DEF IInv, Runs
 <2>2. /\ Tables(mmap, smap, proc, text, sch) /\ Goods(proc, text, sch)
       /\ proc \in [Slots -> SlotRec] /\ text \in [Texts -> TextRec]
   BY <2>1, TablesAre DEF Consistent
 <2>3. /\ r \in SlotRec /\ SlotOk(r) /\ HereSlot(r) /\ Sized(r) /\ ~r.lock /\ Inside(r)
       /\ ~IsSwapped(r) /\ r.addr > 0 /\ SlotBlocks(r) = {}
       /\ r.stat = "run" /\ r.load /\ r.pc = "join"
   BY <1>1, <2>1, RunFacts
 <2>4. t \in Texts
  <3>1. r.text # NoText  BY <2>3 DEF SlotOk, NullSlot, DeadSlot, LiveSlot
  <3> QED  BY <1>1, <2>3, <3>1, SlotFields
 <2>5. PICK r2, pr2 : r2 = [r EXCEPT !.pc = "user"] /\ pr2 = [proc EXCEPT ![p] = r2]  BY Zenon
 <2>6. /\ r2 \in SlotRec /\ r2.stat = r.stat /\ r2.load = r.load /\ r2.lock = r.lock
       /\ r2.addr = r.addr /\ r2.size = r.size /\ r2.data = r.data /\ r2.stack = r.stack
       /\ r2.text = r.text /\ r2.pc = "user" /\ r2.held = r.held
  <3>1. "user" \in PCs  BY DEF PCs
  <3> QED  BY <2>3, <2>5, <3>1, Zenon DEF SlotRec
 <2>7. pr2[p] = r2 /\ OnlySlot(proc, p, pr2) /\ pr2 \in [Slots -> SlotRec]
   BY <2>2, <2>5, <2>6 DEF OnlySlot
 <2>8. Inside(r2) /\ ~IsSwapped(r2) /\ Alike(r, r2)
  <3>1. Inside(r2) /\ ~IsSwapped(r2) /\ ~IsLeaving(r2)
    BY <2>3, <2>6 DEF Inside, IsSwapped, IsLeaving
  <3>2. ImageOf(r2) = ImageOf(r) /\ SlotBlocks(r2) = {}  BY <2>3, <2>6, <3>1 DEF ImageOf, SlotBlocks
  <3> QED  BY <2>3, <2>6, <3>1, <3>2 DEF Alike
 <2>9. Tables(mmap, smap, pr2, text, sch)
  <3>1. \A q \in Slots : Alike(proc[q], pr2[q])  BY <1>1, <2>7, <2>8 DEF Alike, OnlySlot
  <3>2. \A u \in Texts : TextAlike(text[u], text[u])  BY DEF TextAlike
  <3> QED  BY <2>2, <2>7, <3>1, <3>2, TablesAlike
 <2>10. Goods(pr2, text, sch)
  <3>1. Enters(proc, text, sch, p, t, pr2)
    BY <1>1, <1>4, <2>2, <2>3, <2>4, <2>6, <2>7, <2>8 DEF Enters
  <3> QED  BY <3>1, GoodEnter
 <2>11. SlotOk(r2)
  <3>1. HereSlot(r2)  BY <2>3, <2>6 DEF HereSlot
  <3>2. Sized(r2)  BY <2>3, <2>6 DEF Sized
  <3> QED  BY <2>3, <2>6, <3>1, <3>2 DEF SlotOk, LiveSlot
 <2>12. Consistent(mmap, smap, pr2, text, sch, swb, tx, sleepers, runout)
  <3>1. OneTurns(mmap, smap, proc, text, sch, swb, tx, sleepers, runout, p, r2, pr2,
                 mmap, smap, text)
    BY <1>1, <2>1, <2>3, <2>6, <2>7, <2>8, <2>9, <2>10, <2>11 DEF OneTurns
  <3> QED  BY <3>1, OneKeeps
 <2>13. proc' = pr2  BY <1>1, <1>4, <2>2, <2>3, <2>5
 <2>14. StaysConsistent  BY <1>4, <2>12, <2>13, Zenon DEF StaysConsistent, NoSwap
 <2> QED  BY <1>2, <2>14, NextOk
<1> QED  BY <1>2, <1>3, <1>4

-----------------------------------------------------------------------------
(* The buffer's own steps                                                  *)

\* Whoever wanted the buffer tries again; the transfer is done.
LEMMA SwapRetryKeeps ==
  ASSUME IInv, NEW q \in 0..N, SwapRetry(q)
  PROVE  IInv'
<1>1. Consistent(mmap, smap, proc, text, sch, swb, tx, sleepers, runout)  BY DEF IInv
<1>2. BufferOk(swb, tx, sleepers) /\ Locks(proc, tx, sch)  BY <1>1 DEF Consistent
<1>3. SwapBegin(q) /\ tx[q] = "want" /\ q \notin sleepers  BY DEF SwapRetry
<1>4. PICK b2, x2, z2 : b2 = swb' /\ x2 = tx' /\ z2 = sleepers'  OBVIOUS
<1>5. /\ BufferOk(b2, x2, z2) /\ x2 \in [0..N -> {"no", "want", "go"}] /\ x2[q] # "no"
      /\ \A v \in 0..N : v # q => x2[v] = tx[v]
  BY <1>2, <1>3, <1>4, BeginKeeps
<1>6. Locks(proc, x2, sch)
 <2>1. \A v \in 0..N : x2[v] # "no" <=> tx[v] # "no"  BY <1>3, <1>5
 <2>2. 0 \in 0..N /\ Slots \subseteq 0..N  BY Consts DEF Slots
 <2> QED  BY <1>2, <1>5, <2>1, <2>2 DEF Locks
<1>7. Consistent(mmap, smap, proc, text, sch, b2, x2, z2, runout)
  BY <1>1, <1>5, <1>6 DEF Consistent
<1>8. StaysConsistent  BY <1>4, <1>7 DEF StaysConsistent, SwapRetry
<1>9. ops' = ops  BY DEF SwapRetry
<1> QED  BY <1>8, <1>9, NextOk

LEMMA SwapIODoneKeeps ==
  ASSUME IInv, SwapIODone
  PROVE  IInv'
<1>1. Consistent(mmap, smap, proc, text, sch, swb, tx, sleepers, runout)  BY DEF IInv
<1>2. BufferOk(swb, tx, sleepers)  BY <1>1 DEF Consistent
<1>3. PICK b2 : b2 = [swb EXCEPT !.done = TRUE, !.wanted = FALSE]  OBVIOUS
<1>4. /\ b2 \in [owner : -1..N, wanted : BOOLEAN, done : BOOLEAN]
      /\ b2.owner = swb.owner /\ b2.done
  BY <1>2, <1>3, Zenon DEF BufferOk
<1>5. BufferOk(b2, tx, {})  BY <1>2, <1>4 DEF BufferOk
<1>6. Consistent(mmap, smap, proc, text, sch, b2, tx, {}, runout)  BY <1>1, <1>5 DEF Consistent
<1>7. StaysConsistent  BY <1>3, <1>6 DEF StaysConsistent, SwapIODone
<1>8. ops' = ops  BY DEF SwapIODone
<1> QED  BY <1>7, <1>8, NextOk

-----------------------------------------------------------------------------
(* Sched                                                                   *)

\* Who is out
LEMMA CandidatesAre ==
  ASSUME TRUE
  PROVE  \A c : c \in Candidates <=> c \in Slots /\ IsSwapped(proc[c])
  BY DEF Candidates, IsSwapped

\* Sched without a transfer: nothing but its own state changes.
LEMMA SchedRests ==
  ASSUME IInv, NEW sc2 \in SchedRec, ~Moving(sch), ~Moving(sc2), NEW out2,
         SchedOk(proc, sc2, out2)
  PROVE  Consistent(mmap, smap, proc, text, sc2, swb, tx, sleepers, out2)
<1>1. /\ Tables(mmap, smap, proc, text, sch) /\ SlotsOk(proc) /\ Goods(proc, text, sch)
      /\ Locks(proc, tx, sch) /\ BufferOk(swb, tx, sleepers)
  BY DEF IInv, Consistent
<1>2. Tables(mmap, smap, proc, text, sc2) /\ Goods(proc, text, sc2) /\ Locks(proc, tx, sc2)
  BY <1>1, SchedTurns
<1> QED  BY <1>1, <1>2 DEF Consistent

\* Nobody to bring in; the clock; no room
LEMMA SchedSleepsKeeps ==
  ASSUME IInv, SchedSleeps
  PROVE  IInv'
<1>1. sch \in SchedRec
 <2>1. Tables(mmap, smap, proc, text, sch)  BY DEF IInv, Consistent
 <2> QED  BY <2>1, TablesAre
<1>2. sch.pc = "loop" /\ Candidates = {}  BY DEF SchedSleeps
<1>3. PICK sc2 : sc2 = [sch EXCEPT !.pc = "out"]  BY Zenon
<1>4. sc2 \in SchedRec /\ sc2.pc = "out" /\ ~Moving(sc2) /\ ~Moving(sch)
  BY <1>1, <1>2, <1>3 DEF SchedRec, Moving
<1>5. SchedOk(proc, sc2, TRUE)  BY <1>2, <1>4, CandidatesAre DEF SchedOk
<1>6. Consistent(mmap, smap, proc, text, sc2, swb, tx, sleepers, TRUE)
  BY <1>4, <1>5, SchedRests, Zenon
<1>7. StaysConsistent  BY <1>3, <1>6, Zenon DEF StaysConsistent, SchedSleeps, NoSwap
<1>8. ops' = ops  BY DEF SchedSleeps
<1> QED  BY <1>7, <1>8, NextOk

LEMMA TickKeeps ==
  ASSUME IInv, Tick
  PROVE  IInv'
<1>1. sch \in SchedRec /\ SchedOk(proc, sch, runout)
 <2>1. Tables(mmap, smap, proc, text, sch) /\ SchedOk(proc, sch, runout)  BY DEF IInv, Consistent
 <2> QED  BY <2>1, TablesAre
<1>2. sch.pc = "in"  BY DEF Tick
<1>3. PICK sc2 : sc2 = [sch EXCEPT !.pc = "loop"]  BY Zenon
<1>4. sc2 \in SchedRec /\ sc2.pc = "loop" /\ ~Moving(sc2) /\ ~Moving(sch)
  BY <1>1, <1>2, <1>3 DEF SchedRec, Moving
<1>5. SchedOk(proc, sc2, runout)  BY <1>1, <1>2, <1>4 DEF SchedOk
<1>6. Consistent(mmap, smap, proc, text, sc2, swb, tx, sleepers, runout)  BY <1>4, <1>5, SchedRests
<1>7. StaysConsistent  BY <1>3, <1>6 DEF StaysConsistent, Tick, NoSwap
<1>8. ops' = ops  BY DEF Tick
<1> QED  BY <1>7, <1>8, NextOk

\* No room: Sched waits, or goes for a victim.
LEMMA SchedNoRoomKeeps ==
  ASSUME IInv, NEW c \in Slots, SchedNoRoom(c)
  PROVE  IInv'
<1>1. sch \in SchedRec /\ SchedOk(proc, sch, runout)
 <2>1. Tables(mmap, smap, proc, text, sch) /\ SchedOk(proc, sch, runout)  BY DEF IInv, Consistent
 <2> QED  BY <2>1, TablesAre
<1>2. sch.pc = "loop" /\ c \in Candidates /\ ops' = ops /\ ops \in 0..MaxOps
  BY DEF SchedNoRoom, IInv
<1>3. CASE Victims # {}
 <2>1. PICK sc2 : sc2 = [sch EXCEPT !.sel = c]  BY Zenon
 <2>2. c \in 0..N  BY Consts DEF Slots
 <2>3. sc2 \in SchedRec /\ sc2.pc = "loop" /\ ~Moving(sc2) /\ ~Moving(sch)
   BY <1>1, <1>2, <2>1, <2>2 DEF SchedRec, Moving
 <2>4. SchedOk(proc, sc2, runout)  BY <1>1, <1>2, <2>3 DEF SchedOk
 <2>5. Consistent(mmap, smap, proc, text, sc2, swb, tx, sleepers, runout)  BY <2>3, <2>4, SchedRests
 <2>6. "victim" \in Faults  BY DEF Faults
 <2>7. /\ fault' = "victim" /\ sch' = sc2 /\ mmap' = mmap /\ smap' = smap /\ proc' = proc
       /\ text' = text /\ runout' = runout /\ swb' = swb /\ tx' = tx /\ sleepers' = sleepers
   BY <1>3, <2>1 DEF SchedNoRoom, NoSwap
 <2> QED  BY <1>2, <2>5, <2>6, <2>7 DEF IInv
<1>4. CASE Victims = {}
 <2>1. PICK sc2 : sc2 = [sch EXCEPT !.pc = "in"]  BY Zenon
 <2>3. sc2 \in SchedRec /\ sc2.pc = "in" /\ ~Moving(sc2) /\ ~Moving(sch)
   BY <1>1, <1>2, <2>1 DEF SchedRec, Moving
 <2>4. SchedOk(proc, sc2, runout)  BY <1>1, <1>2, <2>3, CandidatesAre DEF SchedOk
 <2>5. Consistent(mmap, smap, proc, text, sc2, swb, tx, sleepers, runout)  BY <2>3, <2>4, SchedRests
 <2>7. StaysConsistent  BY <1>4, <2>1, <2>5 DEF StaysConsistent, SchedNoRoom, NoSwap
 <2> QED  BY <1>2, <2>7, NextOk
<1> QED  BY <1>3, <1>4

\* Sched takes memory for a process, and for its text if nobody has it.
LEMMA SchedInWords ==
  ASSUME NEW c, SchedIn(c), NEW t, t = proc[c].text,
         NEW out, out = (t # NoText /\ text[t].ccount = 0),
         NEW n, n = proc[c].size + (IF out THEN TextSize(text, t) ELSE 0)
  PROVE  /\ fault = "none" /\ sch.pc = "loop" /\ c \in Candidates
         /\ AllocMemory(mmap, n).at # 0 /\ mmap' = AllocMemory(mmap, n).map
         /\ sch' = [pc |-> IF out THEN "text" ELSE "data", sel |-> c,
                    des |-> AllocMemory(mmap, n).at]
         /\ text' = IF out \/ t = NoText THEN text ELSE [text EXCEPT ![t].ccount = @ + 1]
         /\ SwapBegin(Sched)
         /\ smap' = smap /\ proc' = proc /\ runout' = runout /\ fault' = fault /\ ops' = ops
  BY Zenon DEF SchedIn, TextSize

\* Sched begins to bring somebody in.
LEMMA SchedInKeeps ==
  ASSUME IInv, NEW c \in Slots, SchedIn(c)
  PROVE  IInv'
<1>1. /\ Tables(mmap, smap, proc, text, sch) /\ SlotsOk(proc) /\ Goods(proc, text, sch)
      /\ Locks(proc, tx, sch) /\ BufferOk(swb, tx, sleepers) /\ SchedOk(proc, sch, runout)
  BY DEF IInv, Consistent
<1>2. /\ proc \in [Slots -> SlotRec] /\ text \in [Texts -> TextRec] /\ sch \in SchedRec
      /\ \A u \in Texts : text[u].ccount \in Nat /\ text[u] \in TextRec
      /\ Counted(proc, text, sch) /\ Typed(proc, text, sch)
  BY <1>1, TablesAre
<1>3. PICK t : t = proc[c].text  OBVIOUS
<1>4. PICK out \in BOOLEAN : out = (t # NoText /\ text[t].ccount = 0)  BY Zenon
<1>5. PICK n : n = proc[c].size + (IF out THEN TextSize(text, t) ELSE 0)  OBVIOUS
<1>6. /\ sch.pc = "loop" /\ c \in Candidates
      /\ AllocMemory(mmap, n).at # 0 /\ mmap' = AllocMemory(mmap, n).map
      /\ sch' = [pc |-> IF out THEN "text" ELSE "data", sel |-> c,
                 des |-> AllocMemory(mmap, n).at]
      /\ text' = IF out \/ t = NoText THEN text ELSE [text EXCEPT ![t].ccount = @ + 1]
      /\ SwapBegin(Sched)
      /\ smap' = smap /\ proc' = proc /\ runout' = runout /\ fault' = fault /\ ops' = ops
  BY <1>3, <1>4, <1>5, SchedInWords
<1>7. PICK mm2, sc2, tt2 : mm2 = mmap' /\ sc2 = sch' /\ tt2 = text'  OBVIOUS
<1>8. IsSwapped(proc[c]) /\ ~Moving(sch) /\ proc[c].size > 0 /\ proc[c] \in SlotRec
 <2>1. IsSwapped(proc[c]) /\ ~Moving(sch)  BY <1>6, CandidatesAre DEF Moving
 <2>2. SlotOk(proc[c]) /\ proc[c] \in SlotRec  BY <1>1, <1>2 DEF SlotsOk
 <2>3. Sized(proc[c])  BY <2>1, <2>2 DEF IsSwapped, SlotOk, NullSlot, DeadSlot, LiveSlot
 <2>4. proc[c].size > 0  BY <2>2, <2>3, SlotFields DEF Sized, ImageSize, USIZE
 <2> QED  BY <2>1, <2>2, <2>4
<1>9. StartsIn(mmap, proc, text, sch, c, t, out, n, tt2, sc2, mm2)
  BY <1>3, <1>4, <1>5, <1>6, <1>7, <1>8, Zenon DEF StartsIn
<1>10. Tables(mm2, smap, proc, tt2, sc2)  BY <1>1, <1>9, StartIn
<1>11. sc2.pc \in {"text", "data"} /\ Moving(sc2)  BY <1>6, <1>7 DEF Moving
<1>12. Goods(proc, tt2, sc2)
 <2>1. \A q \in Slots : HasIn(proc[q], sch, q) => HasIn(proc[q], sc2, q)  BY <1>6 DEF HasIn
 <2>2. \A q \in Slots : SameUse(proc[q], proc[q], HasIn(proc[q], sch, q), HasIn(proc[q], sc2, q))
   BY <2>1 DEF SameUse
 <2>3. ASSUME NEW u \in Texts PROVE SameText(text[u], tt2[u])
  <3>1. CASE tt2 = text  BY <3>1 DEF SameText
  <3>2. CASE tt2 = [text EXCEPT ![t].ccount = @ + 1] /\ ~out /\ t # NoText
   <4>1. t \in Texts  BY <1>3, <1>8, <3>2, SlotFields
   <4>2. text[t].ccount > 0 /\ text[t] \in TextRec
    <5>1. text[t].ccount # 0  BY ONLY <1>4, <3>2, Zenon
    <5> QED  BY <1>2, <4>1, <5>1
   <4>3. u # t => tt2[u] = text[u]  BY <1>2, <3>2
   <4>4. tt2[t] = [text[t] EXCEPT !.ccount = @ + 1]  BY <1>2, <3>2, <4>1
   <4>5. SameText(text[t], tt2[t])  BY <4>2, <4>4 DEF SameText, TextRec
   <4> QED  BY <3>2, <4>3, <4>5 DEF SameText
  <3> QED  BY <1>6, <1>7, <3>1, <3>2
 <2> QED  BY <1>1, <2>2, <2>3, GoodsKept
<1>13. PICK b2, x2, z2 : b2 = swb' /\ x2 = tx' /\ z2 = sleepers'  OBVIOUS
<1>14. /\ BufferOk(b2, x2, z2) /\ x2 \in [0..N -> {"no", "want", "go"}] /\ x2[0] # "no"
       /\ \A q \in 0..N : q # 0 => x2[q] = tx[q]
 <2>1. 0 \in 0..N /\ SwapBegin(0) /\ tx[0] = "no"  BY <1>1, <1>6, <1>8, Consts DEF Sched, Locks
 <2> QED  BY <1>1, <1>13, <2>1, BeginKeeps
<1>15. Locks(proc, x2, sc2)
 <2>1. SwapsOne(proc, tx, sch, 0, proc, x2, sc2)  BY <1>1, <1>11, <1>14, Consts DEF SwapsOne
 <2> QED  BY <2>1, LocksOne
<1>16. SchedOk(proc, sc2, runout)  BY <1>1, <1>6, <1>11 DEF SchedOk
<1>17. Consistent(mm2, smap, proc, tt2, sc2, b2, x2, z2, runout)
  BY <1>1, <1>10, <1>12, <1>14, <1>15, <1>16 DEF Consistent
<1>18. StaysConsistent  BY <1>6, <1>7, <1>13, <1>17 DEF StaysConsistent
<1> QED  BY <1>6, <1>18, NextOk

\* Sched has the text: its pages are the text's.
LEMMA SchedTextInKeeps ==
  ASSUME IInv, SchedTextIn
  PROVE  IInv'
<1>1. /\ Tables(mmap, smap, proc, text, sch) /\ SlotsOk(proc) /\ Goods(proc, text, sch)
      /\ Locks(proc, tx, sch) /\ BufferOk(swb, tx, sleepers) /\ SchedOk(proc, sch, runout)
  BY DEF IInv, Consistent
<1>2. /\ proc \in [Slots -> SlotRec] /\ text \in [Texts -> TextRec] /\ sch \in SchedRec
      /\ \A u \in Texts : text[u].ccount \in Nat /\ text[u] \in TextRec
      /\ Counted(proc, text, sch) /\ Typed(proc, text, sch) /\ SelOk(proc, text, sch)
  BY <1>1, TablesAre
<1>3. PICK c, t, d : c = sch.sel /\ t = proc[c].text /\ d = TextSize(text, t)  OBVIOUS
<1>4. /\ sch.pc = "text" /\ tx[0] = "go" /\ 0 \notin sleepers /\ ops' = ops
      /\ IF (sch.des + d) % 2 = 1 THEN Happen("unaligned")
         ELSE /\ text' = [text EXCEPT ![t].caddr = sch.des, ![t].ccount = @ + 1,
                                      ![t].good = text[t].saved]
              /\ sch' = [sch EXCEPT !.pc = "data", !.des = sch.des + d]
              /\ swb' = [owner |-> 0, wanted |-> FALSE, done |-> FALSE]
              /\ sleepers' = {0} \cup IF swb.wanted THEN {} ELSE sleepers
              /\ UNCHANGED <<mmap, smap, proc, tx, runout, fault>>
  BY <1>3, Zenon DEF SchedTextIn, Sched, TextSize
<1>5. CASE (sch.des + d) % 2 = 1  BY <1>4, <1>5, HappenOk DEF Faults
<1>6. CASE ~((sch.des + d) % 2 = 1)
 <2>1. PICK tt2, sc2, b2, z2 :
         /\ tt2 = [text EXCEPT ![t].caddr = sch.des, ![t].ccount = @ + 1,
                               ![t].good = text[t].saved]
         /\ sc2 = [sch EXCEPT !.pc = "data", !.des = sch.des + d]
         /\ b2 = [owner |-> 0, wanted |-> FALSE, done |-> FALSE]
         /\ z2 = {0} \cup IF swb.wanted THEN {} ELSE sleepers
   BY Zenon
 <2>2. /\ c \in Slots /\ IsSwapped(proc[c]) /\ sch.des \in Nat
       /\ t # NoText /\ text[t].ccount = 0 /\ text[t].file \in Files
   BY <1>2, <1>3, <1>4 DEF SelOk, Moving, SchedRec, Halves
 <2>3. proc[c] \in SlotRec /\ SlotOk(proc[c]) /\ t \in Texts /\ proc[c].size > 0
  <3>1. proc[c] \in SlotRec /\ SlotOk(proc[c])  BY <1>1, <1>2, <2>2 DEF SlotsOk
  <3>2. Sized(proc[c])  BY <2>2, <3>1 DEF IsSwapped, SlotOk, NullSlot, DeadSlot, LiveSlot
  <3>3. proc[c].size > 0  BY <3>1, <3>2, SlotFields DEF Sized, ImageSize, USIZE
  <3>4. t \in Texts  BY <1>3, <2>2, <3>1, SlotFields
  <3> QED  BY <3>1, <3>3, <3>4
 <2>4. d \in Nat  BY <1>3, <2>2, Consts DEF TextSize
 <2>5. (sch.des + d) % 2 = 0
  <3>1. sch.des + d \in Nat /\ ~((sch.des + d) % 2 = 1)  BY <1>6, <2>2, <2>4, SMTT(40)
  <3> QED  BY ONLY <3>1
 <2>6. TextComes(proc, text, sch, c, t, d, tt2, sc2)  BY <1>3, <1>4, <2>1, <2>3, <2>5 DEF TextComes
 <2>7. Tables(mmap, smap, proc, tt2, sc2)  BY <1>1, <2>6, TextCame
 <2>8. Goods(proc, tt2, sc2)
  <3>1. /\ \A u \in Texts : u # t => tt2[u] = text[u]
        /\ tt2[t] = [text[t] EXCEPT !.caddr = sch.des, !.ccount = @ + 1, !.good = text[t].saved]
    BY <1>2, <2>1, <2>3
  <3>2. /\ tt2[t].saved = text[t].saved /\ tt2[t].good = text[t].saved
        /\ tt2[t].count = text[t].count
    BY <1>2, <2>3, <3>1 DEF TextRec
  <3>3. ASSUME NEW q \in Slots, proc[q].pc = "textout" PROVE Inside(proc[q])
   <4>1. SlotOk(proc[q])  BY <1>1 DEF SlotsOk
   <4> QED  BY <3>3, <4>1 DEF SlotOk, NullSlot, DeadSlot, LiveSlot, HereSlot, GoingSlot,
                              BornSlot, OutSlot, Inside, IsLeaving
  <3>4. ComesGood(proc, text, sch, t, tt2, sc2)
    BY <1>1, <1>2, <1>4, <2>2, <2>3, <3>1, <3>2, <3>3 DEF ComesGood
  <3> QED  BY <3>4, GoodCome
 <2>9. sc2.pc = "data" /\ Moving(sc2) /\ Moving(sch)  BY <1>2, <1>4, <2>1 DEF SchedRec, Moving
 <2>10. Locks(proc, tx, sc2)  BY <1>1, <2>9, LocksKept
 <2>11. BufferOk(b2, tx, z2)
  <3>1. /\ b2 \in [owner : -1..N, wanted : BOOLEAN, done : BOOLEAN]
        /\ b2.owner = 0 /\ ~b2.done /\ ~b2.wanted /\ 0 \in 0..N
    BY <2>1, Consts
  <3>2. swb.owner = 0  BY <1>1, <1>4, <3>1 DEF BufferOk
  <3>3. z2 \subseteq 0..N /\ 0 \in z2  BY <1>1, <2>1, <3>1 DEF BufferOk
  <3>4. \A q \in 0..N : tx[q] = "go" <=> q = 0  BY <1>1, <3>2 DEF BufferOk
  <3> QED  BY <1>1, <3>1, <3>3, <3>4 DEF BufferOk
 <2>12. SchedOk(proc, sc2, runout)  BY <1>1, <1>4, <2>9 DEF SchedOk
 <2>13. Consistent(mmap, smap, proc, tt2, sc2, b2, tx, z2, runout)
   BY <1>1, <2>7, <2>8, <2>10, <2>11, <2>12 DEF Consistent
 <2>14. StaysConsistent  BY <1>4, <1>6, <2>1, <2>13, Zenon DEF StaysConsistent
 <2> QED  BY <1>4, <2>14, NextOk
<1> QED  BY <1>5, <1>6

\* Sched has the image: its pages are the process's, its blocks free.
LEMMA SchedDataInKeeps ==
  ASSUME IInv, SchedDataIn
  PROVE  IInv'
<1>1. /\ Tables(mmap, smap, proc, text, sch) /\ SlotsOk(proc) /\ Goods(proc, text, sch)
      /\ Locks(proc, tx, sch) /\ BufferOk(swb, tx, sleepers) /\ SchedOk(proc, sch, runout)
  BY DEF IInv, Consistent
<1>2. /\ proc \in [Slots -> SlotRec] /\ text \in [Texts -> TextRec] /\ sch \in SchedRec
      /\ Typed(proc, text, sch) /\ SelOk(proc, text, sch)
  BY <1>1, TablesAre
<1>3. PICK c, r : c = sch.sel /\ r = proc[c]  OBVIOUS
<1>4. /\ sch.pc = "data" /\ SwapEnd(0) /\ smap' = Free(smap, r.size, r.addr)
      /\ proc' = [proc EXCEPT ![c].addr = sch.des, ![c].load = TRUE, ![c].held = r.size]
      /\ sch' = [pc |-> "loop", sel |-> 0, des |-> 0]
      /\ UNCHANGED <<mmap, text, runout, fault, ops>>
  BY <1>3 DEF SchedDataIn, Sched
<1>5. /\ c \in Slots /\ IsSwapped(r) /\ sch.des > 0 /\ sch.des % 2 = 0 /\ sch.des \in Halves
      /\ r \in SlotRec /\ SlotOk(r)
 <2>1. c \in Slots /\ IsSwapped(r) /\ sch.des > 0 /\ sch.des % 2 = 0
   BY <1>2, <1>3, <1>4 DEF SelOk, Moving
 <2>2. sch.des \in Halves  BY <1>2 DEF SchedRec
 <2> QED  BY <1>1, <1>2, <1>3, <2>1, <2>2 DEF SlotsOk
<1>6. OutSlot(r) /\ LiveSlot(r) /\ Sized(r) /\ r.addr > 0
  BY <1>5 DEF IsSwapped, SlotOk, NullSlot, DeadSlot, LiveSlot, HereSlot, GoingSlot, BornSlot
<1>7. r.size > 0 /\ r.size \in 0..Space + USIZE
  BY <1>5, <1>6, SlotFields DEF Sized, ImageSize, USIZE
<1>8. PICK r2, pr2, sc2, sm2 :
         /\ r2 = [r EXCEPT !.addr = sch.des, !.load = TRUE, !.held = r.size]
         /\ pr2 = [proc EXCEPT ![c] = r2]
         /\ sc2 = [pc |-> "loop", sel |-> 0, des |-> 0]
         /\ sm2 = Free(smap, r.size, r.addr)
  BY Zenon
<1>9. /\ r2 \in SlotRec /\ r2.addr = sch.des /\ r2.load /\ r2.held = r.size
      /\ r2.stat = r.stat /\ r2.lock = r.lock /\ r2.size = r.size /\ r2.data = r.data
      /\ r2.stack = r.stack /\ r2.text = r.text /\ r2.pc = r.pc /\ r2.par = r.par
  BY <1>5, <1>7, <1>8, Zenon DEF SlotRec
<1>10. /\ r.stat = "run" /\ ~r.load /\ ~r.lock /\ r.pc \in {"user", "fill", "join"}
       /\ r.held = 0
  BY <1>6 DEF OutSlot
<1>11. Inside(r2) /\ ~IsSwapped(r2) /\ ~IsLeaving(r2) /\ SlotBlocks(r2) = {}
 <2>1. Inside(r2) /\ ~IsSwapped(r2) /\ ~IsLeaving(r2)
   BY <1>9, <1>10 DEF Inside, IsSwapped, IsLeaving
 <2> QED  BY <1>9, <1>10, <2>1 DEF SlotBlocks
<1>12. ImageOf(r) = {}
 <2>1. r.addr \div 2 \in Nat  BY <1>5, SlotFields, HalfFacts
 <2>2. Block(r.addr \div 2, 0) = {} /\ Pages(0) = 0  BY ONLY <2>1, EmptyBlock
 <2> QED  BY <1>10, <2>2 DEF ImageOf
<1>13. Tables(mmap, sm2, pr2, text, sc2)
 <2>1. DataComes(smap, proc, sch, c, r2, pr2, sc2, sm2)
   BY <1>3, <1>4, <1>6, <1>7, <1>8, <1>9, <1>11, <1>12 DEF DataComes
 <2> QED  BY <1>1, <2>1, DataCame
<1>14. pr2[c] = r2 /\ (\A q \in Slots : q # c => pr2[q] = proc[q]) /\ OnlySlot(proc, c, pr2)
  BY <1>2, <1>5, <1>8 DEF OnlySlot
<1>15. ~Moving(sc2) /\ sc2.pc = "loop" /\ Moving(sch)  BY <1>4, <1>8 DEF Moving
<1>16. Goods(pr2, text, sc2)
 <2>1. \A q \in Slots : HasIn(proc[q], sch, q) => HasIn(pr2[q], sc2, q)
   BY <1>3, <1>11, <1>14 DEF HasIn
 <2>2. \A q \in Slots : SameUse(proc[q], pr2[q], HasIn(proc[q], sch, q), HasIn(pr2[q], sc2, q))
   BY <1>3, <1>9, <1>14, <2>1 DEF SameUse
 <2>3. \A u \in Texts : SameText(text[u], text[u])  BY DEF SameText
 <2> QED  BY <1>1, <2>2, <2>3, GoodsKept
<1>17. PICK b2, x2, z2 : b2 = swb' /\ x2 = tx' /\ z2 = sleepers'  OBVIOUS
<1>18. /\ BufferOk(b2, x2, z2) /\ x2 \in [0..N -> {"no", "want", "go"}] /\ x2[0] = "no"
       /\ \A q \in 0..N : q # 0 => x2[q] = tx[q]
 <2>1. 0 \in 0..N  BY Consts
 <2> QED  BY <1>1, <1>4, <1>17, <2>1, EndKeeps
<1>19. Locks(pr2, x2, sc2)
 <2>1. \A q \in Slots : pr2[q].lock = proc[q].lock  BY <1>3, <1>9, <1>14
 <2>2. SwapsOne(proc, tx, sch, 0, pr2, x2, sc2)  BY <1>1, <1>15, <1>18, <2>1, Consts DEF SwapsOne
 <2> QED  BY <2>2, LocksOne
<1>20. SchedOk(pr2, sc2, runout)  BY <1>1, <1>4, <1>15 DEF SchedOk
<1>21. SlotsOk(pr2)
 <2>1. HereSlot(r2)  BY <1>5, <1>9, <1>10 DEF HereSlot
 <2>2. SlotOk(r2)  BY <1>5, <1>6, <1>9, <2>1 DEF SlotOk, LiveSlot, Sized
 <2> QED  BY <1>1, <1>3, <1>5, <1>9, <1>10, <1>14, <2>2, OneSlotOk
<1>22. Consistent(mmap, sm2, pr2, text, sc2, b2, x2, z2, runout)
  BY <1>13, <1>16, <1>18, <1>19, <1>20, <1>21 DEF Consistent
<1>23. proc' = pr2  BY <1>2, <1>3, <1>4, <1>5, <1>8, Zenon
<1>24. StaysConsistent  BY <1>4, <1>8, <1>17, <1>22, <1>23, Zenon DEF StaysConsistent
<1> QED  BY <1>4, <1>24, NextOk

-----------------------------------------------------------------------------
(* The initial states                                                      *)

\* One node that has all there is.
LEMMA OneFreeNode ==
  ASSUME NEW hi \in Nat, hi >= 1, NEW map, map = <<[a |-> 1, n |-> hi]>>
  PROVE  /\ map \in Seq(Node) /\ Ordered(map) /\ CellsOf(map) = 1..hi
         /\ \A n \in Nat : n > 0 /\ n <= hi => Alloc(map, n).at = 1
         /\ \A O : (\A w \in Users : O[w] = {}) => Held(map, hi, O)
<1>1. PICK e : e = [a |-> 1, n |-> hi]  OBVIOUS
<1>2. e \in Node /\ e.a = 1 /\ e.n = hi  BY <1>1 DEF Node
<1>3. map = <<e>>  BY <1>1
<1>4. map \in Seq(Node) /\ Len(map) = 1 /\ map[1] = e /\ DOMAIN map = {1}  BY <1>2, <1>3
<1>5. Ordered(map)  BY <1>4 DEF Ordered
<1>6. CellsOf(map) = 1..hi
 <2>1. CellsOf(map) = Block(e.a, e.n)  BY <1>4 DEF CellsOf
 <2> QED  BY <1>2, <2>1 DEF Block
<1>7. ASSUME NEW n \in Nat, n > 0, n <= hi PROVE Alloc(map, n).at = 1
 <2>1. PICK S : S = {i \in DOMAIN map : map[i].n >= n}  BY Zenon
 <2>2. S = {1}  BY <1>2, <1>4, <1>7, <2>1
 <2>3. Min(S) = 1
  <3>1. Min(S) \in S  BY <2>2, MinInside
  <3> QED  BY <2>2, <3>1
 <2>4. Alloc(map, n).at = map[Min(S)].a  BY <2>1, <2>2 DEF Alloc
 <2> QED  BY <1>2, <1>4, <2>3, <2>4
<1>8. ASSUME NEW O, \A w \in Users : O[w] = {} PROVE Held(map, hi, O)
  BY <1>4, <1>5, <1>6, <1>8 DEF Held, MapOk, Disjoint
<1> QED  BY <1>4, <1>5, <1>6, <1>7, <1>8

\* An empty slot
LEMMA FreeSlotRec ==
  ASSUME TRUE
  PROVE  /\ FreeSlot \in SlotRec /\ NullSlot(FreeSlot) /\ FreeSlot.addr = 0
         /\ ImageOf(FreeSlot) = {} /\ SlotBlocks(FreeSlot) = {} /\ ~IsSwapped(FreeSlot)
<1>1. /\ "null" \in ProcStates /\ 0 \in Halves /\ 0 \in 0..Space + USIZE /\ 0 \in 0..Space
      /\ 0 \in 0..N /\ 0 \in 0..NText /\ "none" \in PCs /\ 0 \in 0..SwapBlocks /\ NoText = 0
  BY Consts DEF ProcStates, Halves, USIZE, PCs, NoText
<1>2. FreeSlot \in SlotRec /\ NullSlot(FreeSlot) /\ FreeSlot.addr = 0 /\ FreeSlot.held = 0
  BY <1>1 DEF FreeSlot, SlotRec, NullSlot
<1>3. ImageOf(FreeSlot) = {}
 <2>1. 0 \div 2 \in Nat  OBVIOUS
 <2>2. Block(0 \div 2, 0) = {} /\ Pages(0) = 0  BY ONLY <2>1, EmptyBlock
 <2> QED  BY <1>2, <2>2 DEF ImageOf
<1>4. ~IsSwapped(FreeSlot) /\ ~IsLeaving(FreeSlot)  BY <1>2 DEF NullSlot, IsSwapped, IsLeaving
<1>5. SlotBlocks(FreeSlot) = {}  BY <1>2, <1>4 DEF SlotBlocks, NullSlot
<1> QED  BY <1>2, <1>3, <1>4, <1>5

\* The slot of process 1
LEMMA FirstSlot ==
  ASSUME NEW at \in Halves, at > 0, at % 2 = 0, NEW e,
         e = [FreeSlot EXCEPT !.stat = "run", !.load = TRUE, !.addr = at,
                              !.size = ImageSize(2, StackSize), !.held = ImageSize(2, StackSize),
                              !.data = 2, !.stack = StackSize, !.pc = "user"]
  PROVE  /\ e \in SlotRec /\ SlotOk(e) /\ e.text = NoText /\ ~e.lock /\ e.pc = "user"
         /\ ~IsSwapped(e) /\ SlotBlocks(e) = {}
         /\ ImageOf(e) = Block(at \div 2, Pages(ImageSize(2, StackSize)))
<1>1. PICK six : six = ImageSize(2, StackSize)  OBVIOUS
<1>2. six = 6 /\ StackSize = 2 /\ six <= Space /\ Space \in Nat /\ six \in 0..Space + USIZE
  BY <1>1, FirstImageFits, Consts DEF ImageSize, StackSize, USIZE
<1>3. "run" \in ProcStates /\ "user" \in PCs /\ 2 \in 0..Space  BY <1>2 DEF ProcStates, PCs
<1>4. e = [FreeSlot EXCEPT !.stat = "run", !.load = TRUE, !.addr = at, !.size = six,
                           !.held = six, !.data = 2, !.stack = 2, !.pc = "user"]
  BY <1>1, <1>2
<1>5. /\ e \in SlotRec /\ e.stat = "run" /\ e.load /\ e.addr = at /\ e.size = six /\ e.held = six
      /\ e.data = 2 /\ e.stack = 2 /\ e.pc = "user" /\ e.text = FreeSlot.text
      /\ e.lock = FreeSlot.lock
 <2>1. PICK s : s = FreeSlot  OBVIOUS
 <2>2. s \in SlotRec  BY <2>1, FreeSlotRec
 <2>3. PICK two : two = 2  OBVIOUS
 <2>4. two \in 0..Space  BY <1>3, <2>3
 <2>5. e = [s EXCEPT !.stat = "run", !.load = TRUE, !.addr = at, !.size = six,
                     !.held = six, !.data = two, !.stack = two, !.pc = "user"]
   BY <1>4, <2>1, <2>3
 <2>6. six \in 0..Space + USIZE /\ at \in Halves  BY <1>2
 <2>7. /\ e \in SlotRec /\ e.stat = "run" /\ e.load /\ e.addr = at /\ e.size = six
       /\ e.held = six /\ e.data = two /\ e.stack = two /\ e.pc = "user"
       /\ e.text = s.text /\ e.lock = s.lock
   BY ONLY <1>3, <2>2, <2>4, <2>5, <2>6, Zenon DEF SlotRec
 <2> QED  BY <2>1, <2>3, <2>7
<1>6. e.text = NoText /\ ~e.lock  BY <1>5, FreeSlotRec DEF NullSlot
<1>7. HereSlot(e)  BY <1>5, <1>6 DEF HereSlot
<1>8. Sized(e)  BY <1>1, <1>2, <1>5 DEF Sized
<1>9. SlotOk(e)  BY <1>5, <1>6, <1>7, <1>8 DEF SlotOk, LiveSlot
<1>10. ~IsSwapped(e) /\ ~IsLeaving(e)  BY <1>5, <1>6 DEF IsSwapped, IsLeaving
<1>11. SlotBlocks(e) = {}  BY <1>5, <1>10 DEF SlotBlocks
<1> QED  BY <1>1, <1>5, <1>6, <1>9, <1>10, <1>11 DEF ImageOf

\* The initial states have the invariant.
LEMMA InitInv ==
  ASSUME Init
  PROVE  IInv
<1>1. PICK six, map, a : /\ six = ImageSize(2, StackSize)
                         /\ map = <<[a |-> 1, n |-> MemPages]>> /\ a = AllocMemory(map, six)
  BY Zenon
<1>2. PICK e : e = [FreeSlot EXCEPT !.stat = "run", !.load = TRUE, !.addr = a.at,
                            !.size = six, !.held = six,
                            !.data = 2, !.stack = StackSize, !.pc = "user"]
  OBVIOUS
<1>3. /\ mmap = a.map /\ smap = <<[a |-> 1, n |-> SwapBlocks]>>
      /\ proc = [p \in Slots |-> IF p # 1 THEN FreeSlot ELSE e]
      /\ text = [t \in Texts |-> FreeText]
      /\ swb = [owner |-> -1, wanted |-> FALSE, done |-> FALSE]
      /\ tx = [q \in 0..N |-> "no"] /\ sleepers = {}
      /\ sch = [pc |-> "loop", sel |-> 0, des |-> 0]
      /\ runout = FALSE /\ fault = "none" /\ ops = 0
  BY <1>1, <1>2 DEF Init
<1>4. six \in Nat /\ six > 0 /\ Pages(six) <= MemPages /\ Pages(six) \in Nat /\ Pages(six) > 0
 <2>1. six \in Nat /\ six > 0  BY <1>1 DEF ImageSize, USIZE, StackSize
 <2> QED  BY <1>1, <2>1, FirstImageFits, PagesFacts
<1>5. a.at = 2
 <2>1. Alloc(map, Pages(six)).at = 1  BY <1>1, <1>4, OneFreeNode, Consts, SwappingAssumption
 <2> QED  BY <1>1, <2>1 DEF AllocMemory
<1>6. a.at \in Halves  BY <1>5, Consts, SwappingAssumption DEF Halves
<1>7. a.at > 0 /\ a.at % 2 = 0  BY <1>5
<1>8. /\ e \in SlotRec /\ SlotOk(e) /\ e.text = NoText /\ ~e.lock /\ e.pc = "user"
      /\ ~IsSwapped(e) /\ SlotBlocks(e) = {} /\ ImageOf(e) = Block(a.at \div 2, Pages(six))
  BY <1>1, <1>2, <1>6, <1>7, FirstSlot, Zenon
<1>9. /\ 1 \in Slots /\ proc[1] = e /\ \A p \in Slots : p # 1 => proc[p] = FreeSlot
  BY <1>3, Consts DEF Slots
<1>10. \A p \in Slots : /\ proc[p] \in SlotRec /\ SlotOk(proc[p]) /\ proc[p].text = NoText
                        /\ ~proc[p].lock /\ proc[p].pc # "born"
                        /\ ~IsSwapped(proc[p]) /\ SlotBlocks(proc[p]) = {}
  BY <1>8, <1>9, FreeSlotRec DEF SlotOk, NullSlot
<1>11. Typed(proc, text, sch)
 <2>1. proc \in [Slots -> SlotRec]  BY <1>3, <1>8, FreeSlotRec
 <2>2. text \in [Texts -> TextRec]  BY <1>3, FreeTextRec
 <2>3. sch \in SchedRec  BY <1>3, Consts DEF SchedRec, Halves
 <2> QED  BY <2>1, <2>2, <2>3 DEF Typed
<1>12. ~Moving(sch) /\ sch.pc = "loop"  BY <1>3 DEF Moving
<1>13. \A t \in Texts : text[t].file = NoFile /\ text[t].count = 0 /\ text[t].ccount = 0
  BY <1>3, FreeTextRec
<1>14. \A t \in Texts : UsersOf(proc, t) = {} /\ CoreOf(proc, sch, t) = {}
  BY <1>10 DEF UsersOf, CoreOf, Texts, NoText
<1>15. Counted(proc, text, sch)
 <2>1. Cardinality({}) = 0  BY CardFacts
 <2> QED  BY <1>13, <1>14, <2>1 DEF Counted
<1>16. Held(smap, SwapBlocks, SwapOwner(proc, text))
 <2>1. ASSUME NEW w \in Users PROVE SwapOwner(proc, text)[w] = {}
  <3>1. \A t \in Texts : CopyBlocks(text, t) = {}  BY <1>13 DEF CopyBlocks
  <3>2. CASE w = 0  BY <3>2, SwapOwnerAt
  <3>3. CASE w \in Slots  BY <1>10, <3>3, SwapOwnerAt
  <3>4. CASE w - N \in Texts
   <4>1. PICK t \in Texts : w = N + t  BY <3>4, Consts DEF Texts, Users
   <4> QED  BY <3>1, <4>1, SwapOwnerAt
  <3> QED  BY <3>2, <3>3, <3>4, UserKinds
 <2>2. SwapBlocks >= 1 /\ SwapBlocks \in Nat  BY Consts, SwappingAssumption
 <2> QED  BY <1>3, <2>1, <2>2, OneFreeNode
<1>17. Held(mmap, MemPages, MemOwner(proc, text, sch))
 <2>1. PICK O : O = [w \in Users |-> {}]  BY Zenon
 <2>2. Held(map, MemPages, O)  BY <1>1, <2>1, OneFreeNode, Consts, SwappingAssumption
 <2>3. 1 \in Users /\ 1 # 0 /\ O[1] = {}  BY <1>9, <2>1, UserNames
 <2>4. MemOwner(proc, text, sch)[1] = Block(a.at \div 2, Pages(six))  BY <1>8, <1>9, MemOwnerAt
 <2>5. ASSUME NEW w \in Users, w # 1 PROVE MemOwner(proc, text, sch)[w] = {}
  <3>1. \A t \in Texts : TextPages(text, t) = {}  BY <1>13 DEF TextPages
  <3>2. ComingPages(proc, text, sch) = {}  BY <1>12 DEF ComingPages
  <3>3. CASE w = 0  BY <3>2, <3>3, MemOwnerAt
  <3>4. CASE w \in Slots  BY <1>9, <2>5, <3>4, FreeSlotRec, MemOwnerAt
  <3>5. CASE w - N \in Texts
   <4>1. PICK t \in Texts : w = N + t  BY <3>5, Consts DEF Texts, Users
   <4> QED  BY <3>1, <4>1, MemOwnerAt
  <3> QED  BY <3>3, <3>4, <3>5, UserKinds
 <2>6. PICK O2 : O2 = MemOwner(proc, text, sch)  OBVIOUS
 <2>7. SameBut(O, O2, 1) /\ O2[1] = O[1] \cup Block(a.at \div 2, Pages(six))
   BY <2>1, <2>3, <2>4, <2>5, <2>6 DEF SameBut
 <2>8. PICK at : at = a.at  OBVIOUS
 <2>9. Held(AllocMemory(map, six).map, MemPages, O2)
   BY <1>1, <1>4, <1>7, <2>2, <2>3, <2>7, <2>8, MemoryTaken
 <2> QED  BY <1>1, <1>3, <2>6, <2>9
<1>18. Tables(mmap, smap, proc, text, sch)
  BY <1>11, <1>12, <1>13, <1>15, <1>16, <1>17 DEF Tables, TextOk, SelOk
<1>19. SlotsOk(proc)  BY <1>10 DEF SlotsOk, Births
<1>20. Goods(proc, text, sch)  BY <1>13, <1>14 DEF Goods, GoodText
<1>21. Locks(proc, tx, sch)  BY <1>3, <1>10, <1>12, Consts DEF Locks, Slots
<1>22. BufferOk(swb, tx, sleepers)
 <2>1. /\ swb \in [owner : -1..N, wanted : BOOLEAN, done : BOOLEAN]
       /\ swb.owner = -1 /\ tx \in [0..N -> {"no", "want", "go"}]
   BY <1>3, Consts
 <2>2. \A q \in 0..N : tx[q] = "no" /\ swb.owner # q  BY <1>3, <2>1
 <2> QED  BY <1>3, <2>1, <2>2 DEF BufferOk
<1>23. SchedOk(proc, sch, runout)  BY <1>3, Zenon DEF SchedOk
<1>24. fault \in Faults /\ ops \in 0..MaxOps  BY <1>3, Consts DEF Faults
<1> QED  BY <1>18, <1>19, <1>20, <1>21, <1>22, <1>23, <1>24 DEF IInv, Consistent

-----------------------------------------------------------------------------
(* The invariant holds                                                     *)

\* Every step keeps it.
LEMMA StepKeeps ==
  ASSUME IInv, [Next]_vars
  PROVE  IInv'
<1>1. CASE UNCHANGED vars  BY <1>1 DEF vars, IInv
<1>2. ASSUME NEW q \in 0..N, SwapRetry(q) PROVE IInv'  BY <1>2, SwapRetryKeeps
<1>3. ASSUME NEW p \in Slots,
             Fork(p) \/ ForkSwapped(p) \/ ExpandSwapped(p) \/ GrowStack(p)
               \/ (\E d \in Breaks : Brk(p, d)) \/ (\E f \in Files : Exec(p, f))
      PROVE  IInv'
  BY <1>3, ForkKeeps, ForkSwappedKeeps, ExpandSwappedKeeps, GrowStackKeeps, BrkKeeps, ExecKeeps
<1>4. ASSUME NEW p \in Slots,
             Fill(p) \/ TextSaved(p) \/ Join(p) \/ Exit(p) \/ Die(p)
               \/ Wait(p) \/ Reap(p) \/ Reaped(p)
      PROVE  IInv'
  BY <1>4, FillKeeps, TextSavedKeeps, JoinKeeps, ExitKeeps, DieKeeps, WaitKeeps, ReapKeeps,
     ReapedKeeps
<1>5. ASSUME NEW p \in Slots, SchedIn(p) \/ SchedNoRoom(p) PROVE IInv'
  BY <1>5, SchedInKeeps, SchedNoRoomKeeps
<1>6. ASSUME SwapIODone \/ SchedSleeps \/ SchedTextIn \/ SchedDataIn \/ Tick PROVE IInv'
  BY <1>6, SwapIODoneKeeps, SchedSleepsKeeps, SchedTextInKeeps, SchedDataInKeeps, TickKeeps
<1>7. CASE Next  BY <1>2, <1>3, <1>4, <1>5, <1>6, <1>7 DEF Next
<1> QED  BY <1>1, <1>7

\* Every state has the invariant.
THEOREM SwappingInv == Spec => []IInv
<1>1. Init => IInv  BY InitInv
<1>2. IInv /\ [Next]_vars => IInv'  BY StepKeeps
<1> QED  BY <1>1, <1>2, PTL DEF Spec

-----------------------------------------------------------------------------
(* Nobody sleeps for nothing                                               *)

\* The invariant says it.
LEMMA InvForgetsNobody ==
  ASSUME IInv
  PROVE  NobodyForgotten
<1>1. BufferOk(swb, tx, sleepers) /\ SchedOk(proc, sch, runout)  BY DEF IInv, Consistent
<1>2. sch.pc = "out" => runout /\ Candidates = {}  BY <1>1, CandidatesAre DEF SchedOk
<1>3. sch.pc = "in" => Candidates # {}  BY <1>1, CandidatesAre DEF SchedOk
<1> QED  BY <1>1, <1>2, <1>3 DEF NobodyForgotten, BufferOk

\* Sched asleep on RunOut has nobody to bring in and is noticed (runout is
\* set) when there is somebody, asleep on RunIn it has somebody; whoever has
\* the swap buffer sleeps until its transfer is done and not longer, and
\* whoever sleeps for the buffer will be woken, by the transfer or the owner.
THEOREM ForgetsNobody == Spec => []NobodyForgotten
<1>1. IInv => NobodyForgotten  BY InvForgetsNobody
<1> QED  BY <1>1, SwappingInv, PTL

-----------------------------------------------------------------------------
(* Shared texts                                                            *)

\* The invariant says it.
LEMMA InvTexts ==
  ASSUME IInv
  PROVE  TextsRight
<1>1. /\ Tables(mmap, smap, proc, text, sch) /\ SlotsOk(proc) /\ Goods(proc, text, sch)
  BY DEF IInv, Consistent
<1>2. Counted(proc, text, sch) /\ Typed(proc, text, sch) /\ SelOk(proc, text, sch)
  BY <1>1, TablesAre
<1> SUFFICES ASSUME NEW t \in Texts
             PROVE  /\ text[t].count = Cardinality(Sharers(t))
                    /\ text[t].ccount = Cardinality(InCore(t))
                    /\ \A p \in InCore(t) : proc[p].pc \in {"user", "textout"} => text[t].good
                    /\ text[t].ccount = 0 =>
                         \A p \in Sharers(t) : proc[p].pc = "fill" \/ text[t].saved
  BY DEF TextsRight
<1>3. Sharers(t) = UsersOf(proc, t)  BY DEF Sharers, UsersOf
<1>4. InCore(t) = CoreOf(proc, sch, t)
 <2>1. \A p : p \in Selected /\ sch.pc = "data" <=> p = sch.sel /\ sch.pc = "data"  BY DEF Selected
 <2>2. sch.pc = "data" => sch.sel \in Slots  BY <1>2 DEF SelOk, Moving
 <2>3. \A p \in Slots : proc[p].load /\ p \notin Leaving <=> Inside(proc[p])
   BY DEF Leaving, Inside, IsLeaving
 <2>4. \A p : p \in InCore(t) <=> p \in CoreOf(proc, sch, t)
   BY <2>1, <2>2, <2>3 DEF InCore, CoreOf, HasIn, Sharers
 <2> QED  BY <2>4
<1>5. GoodText(proc, text, sch, t)  BY <1>1 DEF Goods
<1>6. /\ CoreOf(proc, sch, t) \subseteq UsersOf(proc, t)
      /\ text[t].ccount > 0 <=> CoreOf(proc, sch, t) # {}
      /\ text[t].count > 0 <=> UsersOf(proc, t) # {}
  BY <1>2, CoreCounts
<1>7. ASSUME NEW p \in InCore(t), proc[p].pc \in {"user", "textout"} PROVE text[t].good
 <2>1. p \in UsersOf(proc, t) /\ proc[p].pc \notin {"fill", "join"}  BY <1>4, <1>6, <1>7
 <2>2. text[t].ccount > 0  BY <1>4, <1>6
 <2> QED  BY <1>5, <2>1, <2>2 DEF GoodText
<1>8. ASSUME text[t].ccount = 0, NEW p \in Sharers(t), ~text[t].saved PROVE proc[p].pc = "fill"
 <2>1. CoreOf(proc, sch, t) = {}  BY <1>6, <1>8
 <2>2. text[t].count > 0  BY <1>3, <1>6
 <2>3. PICK q \in UsersOf(proc, t) : /\ proc[q].pc \in {"fill", "textout"}
                                     /\ UsersOf(proc, t) = {q}
   BY <1>5, <1>8, <2>1, <2>2 DEF GoodText
 <2>4. p = q  BY <1>3, <2>3
 <2>5. proc[q].pc # "textout"
  <3>1. q \in Slots /\ proc[q].text = t  BY <2>3 DEF UsersOf
  <3>2. SlotOk(proc[q])  BY <1>1, <3>1 DEF SlotsOk
  <3>3. proc[q].pc = "textout" => Inside(proc[q])
    BY <3>2 DEF SlotOk, NullSlot, DeadSlot, LiveSlot, HereSlot, GoingSlot, BornSlot, OutSlot,
                Inside, IsLeaving
  <3> QED  BY <2>1, <3>1, <3>3 DEF CoreOf, HasIn
 <2> QED  BY <2>3, <2>4, <2>5
<1> QED  BY <1>2, <1>3, <1>4, <1>7, <1>8 DEF Counted

\* x_count and x_ccount count who uses a text and who has it in memory, at
\* every step of fork, exec, exit, XSwap and Sched; who runs runs the text of
\* its file; and a text that is out of memory can be read again.
THEOREM TextsStayRight == Spec => []TextsRight
<1>1. IInv => TextsRight  BY InvTexts
<1> QED  BY <1>1, SwappingInv, PTL

-----------------------------------------------------------------------------
(* Every page and every block has one holder                               *)

\* An extent has a cell; the extent of a free node
Covers(e, x) == e.a <= x /\ x < e.a + e.n
FreeExtent(map, i) == [who |-> <<"free", i>>, a |-> map[i].a, n |-> map[i].n]

\* held has the free nodes and the extents F of the owners.
HeldAre(held, map, hi, O, F) ==
    /\ \A i \in DOMAIN map : FreeExtent(map, i) \in held
    /\ \A w \in Users, x \in 1..hi : x \in O[w] => F[w] \in held /\ Covers(F[w], x)
    /\ \A e \in held, x \in 1..hi : Covers(e, x) =>
         \/ \E i \in DOMAIN map : e = FreeExtent(map, i)
         \/ \E w \in Users : x \in O[w] /\ e = F[w]

\* Where the owners are disjoint and have what is not free, every cell has one holder.
LEMMA OneHolds ==
  ASSUME NEW hi \in Nat, NEW map, NEW O, NEW F, NEW held, Held(map, hi, O),
         HeldAre(held, map, hi, O, F)
  PROVE  OneHolderEach(held, hi)
<1> SUFFICES ASSUME NEW x \in 1..hi PROVE Cardinality({e \in held : Covers(e, x)}) = 1
  BY DEF OneHolderEach, Covers
<1>1. /\ map \in Seq(Node) /\ Ordered(map) /\ DOMAIN map = 1..Len(map)  BY DEF Held, MapOk
<1>2. \A i \in DOMAIN map : Covers(FreeExtent(map, i), x) <=> map[i].a <= x /\ x < map[i].a + map[i].n
  BY DEF Covers, FreeExtent
<1>3. x \in CellsOf(map) <=> \E i \in DOMAIN map : Covers(FreeExtent(map, i), x)
  BY <1>1, <1>2, CellIn
<1>4. \A i, j \in DOMAIN map :
        Covers(FreeExtent(map, i), x) /\ Covers(FreeExtent(map, j), x) => i = j
  BY <1>1, <1>2, OneNode
<1>5. /\ \A w \in Users : x \in O[w] => x \notin CellsOf(map)
      /\ \A w, v \in Users : x \in O[w] /\ x \in O[v] => w = v
      /\ x \in CellsOf(map) \/ \E w \in Users : x \in O[w]
  BY DEF Held, Disjoint
<1>6. PICK e \in held : Covers(e, x)
 <2>1. CASE x \in CellsOf(map)  BY <1>3, <2>1 DEF HeldAre
 <2>2. CASE \E w \in Users : x \in O[w]  BY <2>2 DEF HeldAre
 <2> QED  BY <1>5, <2>1, <2>2
<1>7. ASSUME NEW f \in held, Covers(f, x) PROVE f = e
 <2>1. \/ \E i \in DOMAIN map : e = FreeExtent(map, i)
       \/ \E w \in Users : x \in O[w] /\ e = F[w]
   BY <1>6 DEF HeldAre
 <2>2. \/ \E i \in DOMAIN map : f = FreeExtent(map, i)
       \/ \E w \in Users : x \in O[w] /\ f = F[w]
   BY <1>7 DEF HeldAre
 <2>3. CASE (\E i \in DOMAIN map : e = FreeExtent(map, i)) /\ (\E i \in DOMAIN map : f = FreeExtent(map, i))
   BY <1>4, <1>6, <1>7, <2>3
 <2>4. CASE (\E w \in Users : x \in O[w] /\ e = F[w]) /\ (\E w \in Users : x \in O[w] /\ f = F[w])
   BY <1>5, <2>4
 <2>5. CASE \E i \in DOMAIN map : e = FreeExtent(map, i)  BY <1>3, <1>5, <1>6, <2>2, <2>3, <2>5
 <2>6. CASE \E i \in DOMAIN map : f = FreeExtent(map, i)  BY <1>3, <1>5, <1>7, <2>1, <2>3, <2>6
 <2> QED  BY <2>1, <2>2, <2>4, <2>5, <2>6
<1>8. {f \in held : Covers(f, x)} = {e}  BY <1>6, <1>7
<1> QED  BY <1>8, FS_Singleton

\* A node lies inside its map.
LEMMA NodesInside ==
  ASSUME NEW hi \in Nat, NEW map, MapOk(map, hi)
  PROVE  map \in Seq(Nodes(hi)) /\ Tidy(map)
<1>1. map \in Seq(Node) /\ Ordered(map) /\ DOMAIN map = 1..Len(map) /\ Len(map) \in Nat
  BY DEF MapOk
<1>2. ASSUME NEW i \in 1..Len(map) PROVE map[i] \in Nodes(hi)
 <2>1. PICK a, n : a = map[i].a /\ n = map[i].n  BY Zenon
 <2>2. a \in Nat /\ n \in Nat /\ a >= 1 /\ n >= 1 /\ map[i] \in Node  BY <1>1, <2>1, NodeAt
 <2>m. PICK z \in Nat : z = a + n - 1  BY <2>2
 <2>i. map[i].a <= a /\ a < map[i].a + map[i].n /\ map[i].a <= z /\ z < map[i].a + map[i].n
   BY <2>1, <2>2, <2>m, SMTT(40)
 <2>3. a \in CellsOf(map) /\ z \in CellsOf(map)  BY <1>1, <2>2, <2>m, <2>i, CellIn
 <2>4. a \in 1..hi /\ z \in 1..hi  BY <2>3 DEF MapOk
 <2>5. n \in 1..hi  BY <2>2, <2>4, <2>m
 <2> QED  BY <2>1, <2>2, <2>4, <2>5 DEF Nodes, Node
<1>3. map \in Seq(Nodes(hi))  BY <1>1, <1>2
<1>4. Tidy(map)  BY <1>1 DEF Tidy, Ordered
<1> QED  BY <1>3, <1>4

\* The owners as extents
MemExtents ==
    [w \in Users |->
       IF w = 0 THEN [who |-> <<"coming", sch.sel>>, a |-> sch.des \div 2,
                      n |-> Pages(ComingSize(proc, text, sch))]
       ELSE IF w <= N THEN [who |-> <<"image", w>>, a |-> proc[w].addr \div 2,
                            n |-> Pages(proc[w].held)]
       ELSE [who |-> <<"text", w - N>>, a |-> text[w - N].caddr \div 2,
             n |-> Pages(TextSize(text, w - N))]]

SwapExtents ==
    [w \in Users |->
       IF w <= N
       THEN IF IsSwapped(proc[w]) THEN [who |-> <<"image", w>>, a |-> proc[w].addr, n |-> proc[w].size]
            ELSE IF IsLeaving(proc[w]) THEN [who |-> <<"going", w>>, a |-> proc[w].blk, n |-> proc[w].size]
            ELSE IF proc[w].pc \in {"dying", "reap"} THEN [who |-> <<"u", w>>, a |-> proc[w].blk, n |-> 1]
            ELSE [who |-> <<"dead", w>>, a |-> proc[w].addr, n |-> 1]
       ELSE [who |-> <<"copy", w - N>>, a |-> text[w - N].daddr, n |-> TextSize(text, w - N)]]

\* x is in the block of an extent when the extent covers it.
LEMMA ExtentFacts ==
  ASSUME NEW a \in Nat, NEW n \in Nat, NEW w, NEW e, e = [who |-> w, a |-> a, n |-> n]
  PROVE  /\ \A x \in Nat : x \in Block(a, n) <=> Covers(e, x)
         /\ \A x \in Nat : Covers(e, x) => e.n > 0
  BY DEF Covers, Block

\* The elements of MemoryHeld
LEMMA MemoryElements ==
  ASSUME TRUE
  PROVE  \A e : e \in MemoryHeld <=>
            /\ e.n > 0
            /\ \/ \E i \in DOMAIN mmap : e = FreeExtent(mmap, i)
               \/ \E p \in Slots : e = [who |-> <<"image", p>>, a |-> proc[p].addr \div 2,
                                        n |-> Pages(proc[p].held)]
               \/ \E t \in Texts : /\ text[t].ccount > 0
                                   /\ e = [who |-> <<"text", t>>, a |-> text[t].caddr \div 2,
                                           n |-> Pages(TextSize(text, t))]
               \/ /\ Moving(sch)
                  /\ e = [who |-> <<"coming", sch.sel>>, a |-> sch.des \div 2,
                          n |-> Pages(ComingSize(proc, text, sch))]
<1>1. \A c \in Selected : Moving(sch) /\ c = sch.sel  BY DEF Selected, Moving
<1>2. Moving(sch) => Selected = {sch.sel}  BY DEF Selected, Moving
<1>3. ComingSize(proc, text, sch) =
        proc[sch.sel].size + IF sch.pc = "text" THEN TextOf[text[proc[sch.sel].text].file] ELSE 0
  BY DEF ComingSize, TextSize
<1>4. ASSUME NEW e
      PROVE  e \in {[who |-> <<"coming", c>>, a |-> sch.des \div 2,
                     n |-> Pages(proc[c].size + IF sch.pc = "text"
                                       THEN TextOf[text[proc[c].text].file] ELSE 0)]
                      : c \in Selected}
              <=> /\ Moving(sch)
                  /\ e = [who |-> <<"coming", sch.sel>>, a |-> sch.des \div 2,
                          n |-> Pages(ComingSize(proc, text, sch))]
  BY <1>1, <1>2, <1>3
<1>5. ASSUME NEW e PROVE e \in FreeOf(mmap) <=> \E i \in DOMAIN mmap : e = FreeExtent(mmap, i)
  BY DEF FreeOf, FreeExtent
<1>6. ASSUME NEW e
      PROVE  e \in {[who |-> <<"text", t>>, a |-> text[t].caddr \div 2, n |-> Pages(TextOf[text[t].file])]
                      : t \in {u \in Texts : text[u].ccount > 0}}
              <=> \E t \in Texts : /\ text[t].ccount > 0
                                   /\ e = [who |-> <<"text", t>>, a |-> text[t].caddr \div 2,
                                           n |-> Pages(TextSize(text, t))]
  BY DEF TextSize
<1> QED  BY <1>4, <1>5, <1>6, Zenon DEF MemoryHeld, Extents

\* MemoryHeld lists the owners of the pages.
LEMMA MemoryHolders ==
  ASSUME IInv
  PROVE  HeldAre(MemoryHeld, mmap, MemPages, MemOwner(proc, text, sch), MemExtents)
<1>1. /\ Tables(mmap, smap, proc, text, sch) /\ SlotsOk(proc)  BY DEF IInv, Consistent
<1>2. /\ proc \in [Slots -> SlotRec] /\ text \in [Texts -> TextRec] /\ sch \in SchedRec
      /\ Held(mmap, MemPages, MemOwner(proc, text, sch)) /\ SelOk(proc, text, sch)
      /\ \A u \in Texts : TextOk(text, u) /\ text[u] \in TextRec
  BY <1>1, TablesAre
<1>3. mmap \in Seq(Node) /\ MapOk(mmap, MemPages) /\ MemPages \in Nat
  BY <1>2, Consts DEF Held, MapOk
<1>4. ASSUME NEW i \in DOMAIN mmap PROVE FreeExtent(mmap, i) \in MemoryHeld
 <2>1. FreeExtent(mmap, i).n > 0
  <3>1. mmap[i].n >= 1 /\ mmap[i].n \in Nat  BY <1>3, NodeAt
  <3> QED  BY <3>1 DEF FreeExtent
 <2> QED  BY <2>1, MemoryElements
<1>5. ASSUME NEW p \in Slots
      PROVE  /\ MemExtents[p] = [who |-> <<"image", p>>, a |-> proc[p].addr \div 2,
                                 n |-> Pages(proc[p].held)]
             /\ p \in Users
             /\ \A x \in Nat : x \in MemOwner(proc, text, sch)[p] <=> Covers(MemExtents[p], x)
             /\ \A x \in Nat : Covers(MemExtents[p], x) => MemExtents[p] \in MemoryHeld
 <2>1. p \in Users /\ p # 0 /\ p <= N  BY UserNames
 <2>2. MemExtents[p] = [who |-> <<"image", p>>, a |-> proc[p].addr \div 2,
                        n |-> Pages(proc[p].held)]
   BY <2>1 DEF MemExtents
 <2>3. proc[p].addr \div 2 \in Nat /\ Pages(proc[p].held) \in Nat
   BY <1>2, SlotFields, HalfFacts, PagesFacts, Zenon
 <2>4. MemOwner(proc, text, sch)[p] = Block(proc[p].addr \div 2, Pages(proc[p].held))
   BY MemOwnerAt DEF ImageOf
 <2>m. MemExtents[p].n > 0 => MemExtents[p] \in MemoryHeld  BY <2>2, MemoryElements
 <2>x. /\ \A x \in Nat : x \in MemOwner(proc, text, sch)[p] <=> Covers(MemExtents[p], x)
       /\ \A x \in Nat : Covers(MemExtents[p], x) => MemExtents[p].n > 0
   BY <2>2, <2>3, <2>4, ExtentFacts
 <2> QED  BY <2>1, <2>2, <2>m, <2>x
<1>6. ASSUME NEW t \in Texts, text[t].ccount > 0
      PROVE  /\ MemExtents[N + t] = [who |-> <<"text", t>>, a |-> text[t].caddr \div 2,
                                     n |-> Pages(TextSize(text, t))]
             /\ N + t \in Users
             /\ \A x \in Nat : x \in MemOwner(proc, text, sch)[N + t] <=> Covers(MemExtents[N + t], x)
             /\ \A x \in Nat : Covers(MemExtents[N + t], x) => MemExtents[N + t] \in MemoryHeld
 <2>1. N + t \in Users /\ N + t # 0 /\ ~(N + t <= N) /\ (N + t) - N = t  BY UserNames
 <2>2. MemExtents[N + t] = [who |-> <<"text", t>>, a |-> text[t].caddr \div 2,
                            n |-> Pages(TextSize(text, t))]
   BY <2>1 DEF MemExtents
 <2>3. text[t].caddr \div 2 \in Nat /\ Pages(TextSize(text, t)) \in Nat
   BY <1>2, <1>6, TextSizes, HalfFacts, PagesFacts, Zenon
 <2>4. MemOwner(proc, text, sch)[N + t] = Block(text[t].caddr \div 2, Pages(TextSize(text, t)))
   BY <1>6, MemOwnerAt DEF TextPages
 <2>m. MemExtents[N + t].n > 0 => MemExtents[N + t] \in MemoryHeld  BY <1>6, <2>2, MemoryElements
 <2>x. /\ \A x \in Nat : x \in MemOwner(proc, text, sch)[N + t] <=> Covers(MemExtents[N + t], x)
       /\ \A x \in Nat : Covers(MemExtents[N + t], x) => MemExtents[N + t].n > 0
   BY <2>2, <2>3, <2>4, ExtentFacts
 <2> QED  BY <2>1, <2>2, <2>m, <2>x
<1>7. ASSUME Moving(sch)
      PROVE  /\ MemExtents[0] = [who |-> <<"coming", sch.sel>>, a |-> sch.des \div 2,
                                 n |-> Pages(ComingSize(proc, text, sch))]
             /\ 0 \in Users
             /\ \A x \in Nat : x \in MemOwner(proc, text, sch)[0] <=> Covers(MemExtents[0], x)
             /\ \A x \in Nat : Covers(MemExtents[0], x) => MemExtents[0] \in MemoryHeld
 <2>1. 0 \in Users  BY UserNames
 <2>2. MemExtents[0] = [who |-> <<"coming", sch.sel>>, a |-> sch.des \div 2,
                        n |-> Pages(ComingSize(proc, text, sch))]
   BY <2>1 DEF MemExtents
 <2>3. /\ sch.sel \in Slots /\ sch.des > 0
       /\ sch.pc = "text" => proc[sch.sel].text # NoText /\ text[proc[sch.sel].text].file \in Files
   BY <1>2, <1>7 DEF SelOk
 <2>4. proc[sch.sel].size \in Nat  BY <1>2, <2>3, SlotFields
 <2>5. sch.pc = "text" => TextSize(text, proc[sch.sel].text) \in Nat  BY <2>3, Consts DEF TextSize
 <2>6. ComingSize(proc, text, sch) \in Nat  BY <2>4, <2>5 DEF ComingSize
 <2>7. sch.des \in Nat  BY <1>2 DEF SchedRec, Halves
 <2>8. sch.des \div 2 \in Nat /\ Pages(ComingSize(proc, text, sch)) \in Nat
   BY <2>6, <2>7, HalfFacts, PagesFacts, Zenon
 <2>9. MemOwner(proc, text, sch)[0] = Block(sch.des \div 2, Pages(ComingSize(proc, text, sch)))
   BY <1>7, MemOwnerAt DEF ComingPages
 <2>m. MemExtents[0].n > 0 => MemExtents[0] \in MemoryHeld  BY <1>7, <2>2, MemoryElements
 <2>x. /\ \A x \in Nat : x \in MemOwner(proc, text, sch)[0] <=> Covers(MemExtents[0], x)
       /\ \A x \in Nat : Covers(MemExtents[0], x) => MemExtents[0].n > 0
   BY <2>2, <2>8, <2>9, ExtentFacts
 <2> QED  BY <2>1, <2>2, <2>m, <2>x
<1>8. ASSUME NEW w \in Users, NEW x \in 1..MemPages, x \in MemOwner(proc, text, sch)[w]
      PROVE  MemExtents[w] \in MemoryHeld /\ Covers(MemExtents[w], x)
 <2>0. x \in Nat  BY <1>3
 <2>1. CASE w = 0
  <3>1. Moving(sch)  BY <1>8, <2>1, MemOwnerAt DEF ComingPages
  <3>2. Covers(MemExtents[0], x)  BY <1>7, <1>8, <2>0, <2>1, <3>1
  <3> QED  BY <1>7, <2>0, <2>1, <3>1, <3>2
 <2>2. CASE w \in Slots
  <3>1. Covers(MemExtents[w], x)  BY <1>5, <1>8, <2>0, <2>2, Zenon
  <3> QED  BY <1>5, <2>0, <2>2, <3>1, Zenon
 <2>3. CASE w - N \in Texts
  <3>1. PICK t \in Texts : w = N + t  BY <2>3, Consts DEF Texts, Users
  <3>2. text[t].ccount > 0  BY <1>8, <3>1, MemOwnerAt DEF TextPages
  <3>3. Covers(MemExtents[w], x)  BY <1>6, <1>8, <2>0, <3>1, <3>2, Zenon
  <3> QED  BY <1>6, <2>0, <3>1, <3>2, <3>3, Zenon
 <2> QED  BY <2>1, <2>2, <2>3, UserKinds
<1>9. ASSUME NEW e \in MemoryHeld, NEW x \in 1..MemPages, Covers(e, x)
      PROVE  \/ \E i \in DOMAIN mmap : e = FreeExtent(mmap, i)
             \/ \E w \in Users : x \in MemOwner(proc, text, sch)[w] /\ e = MemExtents[w]
 <2>0. x \in Nat  BY <1>3
 <2>1. CASE \E p \in Slots : e = [who |-> <<"image", p>>, a |-> proc[p].addr \div 2,
                                  n |-> Pages(proc[p].held)]
  <3>1. PICK p \in Slots : e = MemExtents[p]  BY <1>5, <2>1
  <3> QED  BY <1>5, <1>9, <2>0, <3>1, Zenon
 <2>2. CASE \E t \in Texts : /\ text[t].ccount > 0
                             /\ e = [who |-> <<"text", t>>, a |-> text[t].caddr \div 2,
                                     n |-> Pages(TextSize(text, t))]
  <3>1. PICK t \in Texts : text[t].ccount > 0 /\ e = MemExtents[N + t]  BY <1>6, <2>2
  <3>2. N + t \in Users /\ x \in MemOwner(proc, text, sch)[N + t]  BY <1>6, <1>9, <2>0, <3>1, Zenon
  <3> QED  BY <3>1, <3>2
 <2>3. CASE /\ Moving(sch)
            /\ e = [who |-> <<"coming", sch.sel>>, a |-> sch.des \div 2,
                    n |-> Pages(ComingSize(proc, text, sch))]
   BY <1>7, <1>9, <2>0, <2>3
 <2> QED  BY <2>1, <2>2, <2>3, MemoryElements
<1> QED  BY <1>4, <1>8, <1>9 DEF HeldAre

\* What a slot has in the swap area is of one kind: e is the extent of p's.
SlotExtent(p, e) ==
    \/ IsSwapped(proc[p]) /\ e = [who |-> <<"image", p>>, a |-> proc[p].addr, n |-> proc[p].size]
    \/ IsLeaving(proc[p]) /\ e = [who |-> <<"going", p>>, a |-> proc[p].blk, n |-> proc[p].size]
    \/ proc[p].pc \in {"dying", "reap"} /\ e = [who |-> <<"u", p>>, a |-> proc[p].blk, n |-> 1]
    \/ proc[p].stat = "zomb" /\ e = [who |-> <<"dead", p>>, a |-> proc[p].addr, n |-> 1]

\* The elements of SwapHeld
LEMMA SwapElements ==
  ASSUME TRUE
  PROVE  \A e : e \in SwapHeld <=>
            /\ e.n > 0
            /\ \/ \E i \in DOMAIN smap : e = FreeExtent(smap, i)
               \/ \E p \in Slots : SlotExtent(p, e)
               \/ \E t \in Texts : /\ text[t].count > 0
                                   /\ e = [who |-> <<"copy", t>>, a |-> text[t].daddr,
                                           n |-> TextSize(text, t)]
<1> SUFFICES ASSUME NEW e
             PROVE  e \in SwapHeld <=>
                      /\ e.n > 0
                      /\ \/ \E i \in DOMAIN smap : e = FreeExtent(smap, i)
                         \/ \E p \in Slots : SlotExtent(p, e)
                         \/ \E t \in Texts : /\ text[t].count > 0
                                             /\ e = [who |-> <<"copy", t>>, a |-> text[t].daddr,
                                                     n |-> TextSize(text, t)]
  OBVIOUS
<1>1. e \in FreeOf(smap) <=> \E i \in DOMAIN smap : e = FreeExtent(smap, i)
  BY DEF FreeOf, FreeExtent
<1>2. e \in {[who |-> <<"copy", t>>, a |-> text[t].daddr, n |-> TextOf[text[t].file]]
               : t \in {u \in Texts : text[u].count > 0}}
        <=> \E t \in Texts : /\ text[t].count > 0
                             /\ e = [who |-> <<"copy", t>>, a |-> text[t].daddr,
                                     n |-> TextSize(text, t)]
  BY DEF TextSize
<1>3. e \in {[who |-> <<"image", p>>, a |-> proc[p].addr, n |-> proc[p].size] : p \in Swapped}
        <=> \E p \in Slots : /\ IsSwapped(proc[p])
                             /\ e = [who |-> <<"image", p>>, a |-> proc[p].addr, n |-> proc[p].size]
  BY DEF Swapped, IsSwapped
<1>4. e \in {[who |-> <<"going", p>>, a |-> proc[p].blk, n |-> proc[p].size] : p \in Leaving}
        <=> \E p \in Slots : /\ IsLeaving(proc[p])
                             /\ e = [who |-> <<"going", p>>, a |-> proc[p].blk, n |-> proc[p].size]
  BY DEF Leaving, IsLeaving
<1>5. e \in {[who |-> <<"u", p>>, a |-> proc[p].blk, n |-> 1]
               : p \in {q \in Slots : proc[q].pc \in {"dying", "reap"}}}
        <=> \E p \in Slots : /\ proc[p].pc \in {"dying", "reap"}
                             /\ e = [who |-> <<"u", p>>, a |-> proc[p].blk, n |-> 1]
  OBVIOUS
<1>6. e \in {[who |-> <<"dead", p>>, a |-> proc[p].addr, n |-> 1]
               : p \in {q \in Slots : proc[q].stat = "zomb"}}
        <=> \E p \in Slots : /\ proc[p].stat = "zomb"
                             /\ e = [who |-> <<"dead", p>>, a |-> proc[p].addr, n |-> 1]
  OBVIOUS
<1>7. (\E p \in Slots : SlotExtent(p, e)) <=>
        \/ \E p \in Slots : /\ IsSwapped(proc[p])
                            /\ e = [who |-> <<"image", p>>, a |-> proc[p].addr, n |-> proc[p].size]
        \/ \E p \in Slots : /\ IsLeaving(proc[p])
                            /\ e = [who |-> <<"going", p>>, a |-> proc[p].blk, n |-> proc[p].size]
        \/ \E p \in Slots : /\ proc[p].pc \in {"dying", "reap"}
                            /\ e = [who |-> <<"u", p>>, a |-> proc[p].blk, n |-> 1]
        \/ \E p \in Slots : /\ proc[p].stat = "zomb"
                            /\ e = [who |-> <<"dead", p>>, a |-> proc[p].addr, n |-> 1]
  BY Zenon DEF SlotExtent
<1> QED  BY <1>1, <1>2, <1>3, <1>4, <1>5, <1>6, <1>7, Zenon DEF SwapHeld, Extents

\* The kinds exclude each other.
LEMMA SlotExtentIs ==
  ASSUME NEW p \in Slots, proc[p] \in SlotRec, SlotOk(proc[p])
  PROVE  /\ p \in Users
         /\ \A e : SlotExtent(p, e) => e = SwapExtents[p]
         /\ SlotBlocks(proc[p]) # {} => SlotExtent(p, SwapExtents[p])
         /\ \A x \in Nat : \A e : SlotExtent(p, e) => (x \in SlotBlocks(proc[p]) <=> Covers(e, x))
         /\ \A x \in Nat : \A e : SlotExtent(p, e) /\ Covers(e, x) => e.n > 0
<1>1. p \in Users /\ p <= N  BY UserNames
<1>2. PICK r : r = proc[p]  OBVIOUS
<1>3. PICK k : k = SwapExtents[p]  OBVIOUS
<1>4. k = IF IsSwapped(r) THEN [who |-> <<"image", p>>, a |-> r.addr, n |-> r.size]
          ELSE IF IsLeaving(r) THEN [who |-> <<"going", p>>, a |-> r.blk, n |-> r.size]
          ELSE IF r.pc \in {"dying", "reap"} THEN [who |-> <<"u", p>>, a |-> r.blk, n |-> 1]
          ELSE [who |-> <<"dead", p>>, a |-> r.addr, n |-> 1]
  BY <1>1, <1>2, <1>3 DEF SwapExtents
<1>5. /\ IsSwapped(r) => ~IsLeaving(r) /\ r.pc \notin {"dying", "reap"} /\ r.stat # "zomb"
      /\ IsLeaving(r) => ~IsSwapped(r) /\ r.pc \notin {"dying", "reap"} /\ r.stat # "zomb"
      /\ r.pc \in {"dying", "reap"} => ~IsSwapped(r) /\ ~IsLeaving(r) /\ r.stat # "zomb"
      /\ r.stat = "zomb" => ~IsSwapped(r) /\ ~IsLeaving(r) /\ r.pc \notin {"dying", "reap"}
  BY <1>2 DEF SlotOk, NullSlot, DeadSlot, LiveSlot, HereSlot, GoingSlot, BornSlot, OutSlot,
              IsSwapped, IsLeaving
<1>6. r.addr \in Nat /\ r.blk \in Nat /\ r.size \in Nat /\ 1 \in Nat  BY <1>2, SlotFields
<1>7. \A e : SlotExtent(p, e) <=>
        \/ IsSwapped(r) /\ e = [who |-> <<"image", p>>, a |-> r.addr, n |-> r.size]
        \/ IsLeaving(r) /\ e = [who |-> <<"going", p>>, a |-> r.blk, n |-> r.size]
        \/ r.pc \in {"dying", "reap"} /\ e = [who |-> <<"u", p>>, a |-> r.blk, n |-> 1]
        \/ r.stat = "zomb" /\ e = [who |-> <<"dead", p>>, a |-> r.addr, n |-> 1]
  BY <1>2 DEF SlotExtent
<1>8. ASSUME NEW e, SlotExtent(p, e)
      PROVE  e = k /\ \A x \in Nat : (x \in SlotBlocks(r) <=> Covers(e, x)) /\ (Covers(e, x) => e.n > 0)
 <2>1. CASE IsSwapped(r)
  <3>1. e = [who |-> <<"image", p>>, a |-> r.addr, n |-> r.size] /\ SlotBlocks(r) = Block(r.addr, r.size)
    BY <1>5, <1>7, <1>8, <2>1 DEF SlotBlocks
  <3>2. \A x \in Nat : (x \in Block(r.addr, r.size) <=> Covers(e, x)) /\ (Covers(e, x) => e.n > 0)
    BY ONLY <1>6, <3>1, ExtentFacts
  <3> QED  BY <1>4, <2>1, <3>1, <3>2
 <2>2. CASE IsLeaving(r)
  <3>1. e = [who |-> <<"going", p>>, a |-> r.blk, n |-> r.size] /\ SlotBlocks(r) = Block(r.blk, r.size)
    BY <1>5, <1>7, <1>8, <2>2 DEF SlotBlocks
  <3>2. \A x \in Nat : (x \in Block(r.blk, r.size) <=> Covers(e, x)) /\ (Covers(e, x) => e.n > 0)
    BY ONLY <1>6, <3>1, ExtentFacts
  <3> QED  BY <1>4, <1>5, <2>2, <3>1, <3>2
 <2>3. CASE r.pc \in {"dying", "reap"}
  <3>1. e = [who |-> <<"u", p>>, a |-> r.blk, n |-> 1] /\ SlotBlocks(r) = Block(r.blk, 1)
    BY <1>5, <1>7, <1>8, <2>3 DEF SlotBlocks
  <3>2. \A x \in Nat : (x \in Block(r.blk, 1) <=> Covers(e, x)) /\ (Covers(e, x) => e.n > 0)
    BY ONLY <1>6, <3>1, ExtentFacts
  <3> QED  BY <1>4, <1>5, <2>3, <3>1, <3>2
 <2>4. CASE r.stat = "zomb"
  <3>1. e = [who |-> <<"dead", p>>, a |-> r.addr, n |-> 1] /\ SlotBlocks(r) = Block(r.addr, 1)
    BY <1>5, <1>7, <1>8, <2>4 DEF SlotBlocks
  <3>2. \A x \in Nat : (x \in Block(r.addr, 1) <=> Covers(e, x)) /\ (Covers(e, x) => e.n > 0)
    BY ONLY <1>6, <3>1, ExtentFacts
  <3> QED  BY <1>4, <1>5, <2>4, <3>1, <3>2
 <2> QED  BY <1>7, <1>8, <2>1, <2>2, <2>3, <2>4
<1>9. SlotBlocks(r) # {} => SlotExtent(p, k)
 <2>1. SlotBlocks(r) # {} => IsSwapped(r) \/ IsLeaving(r) \/ r.pc \in {"dying", "reap"} \/ r.stat = "zomb"
   BY DEF SlotBlocks
 <2> QED  BY <1>4, <1>5, <1>7, <2>1
<1> QED  BY <1>1, <1>2, <1>3, <1>8, <1>9

\* SwapHeld lists the owners of the blocks.
LEMMA SwapHolders ==
  ASSUME IInv
  PROVE  HeldAre(SwapHeld, smap, SwapBlocks, SwapOwner(proc, text), SwapExtents)
<1>1. /\ Tables(mmap, smap, proc, text, sch) /\ SlotsOk(proc)  BY DEF IInv, Consistent
<1>2. /\ proc \in [Slots -> SlotRec] /\ text \in [Texts -> TextRec]
      /\ Held(smap, SwapBlocks, SwapOwner(proc, text))
      /\ \A u \in Texts : TextOk(text, u) /\ text[u] \in TextRec
  BY <1>1, TablesAre
<1>3. smap \in Seq(Node) /\ SwapBlocks \in Nat  BY <1>2, Consts DEF Held, MapOk
<1>4. ASSUME NEW i \in DOMAIN smap PROVE FreeExtent(smap, i) \in SwapHeld
 <2>1. FreeExtent(smap, i).n > 0
  <3>1. smap[i].n >= 1 /\ smap[i].n \in Nat  BY <1>3, NodeAt
  <3> QED  BY <3>1 DEF FreeExtent
 <2> QED  BY <2>1, SwapElements
<1>5. ASSUME NEW p \in Slots
      PROVE  /\ p \in Users /\ SwapOwner(proc, text)[p] = SlotBlocks(proc[p])
             /\ \A e : SlotExtent(p, e) => e = SwapExtents[p]
             /\ SlotBlocks(proc[p]) # {} => SlotExtent(p, SwapExtents[p])
             /\ \A x \in Nat : \A e : SlotExtent(p, e) =>
                   /\ x \in SlotBlocks(proc[p]) <=> Covers(e, x)
                   /\ Covers(e, x) => e.n > 0
 <2>1. proc[p] \in SlotRec /\ SlotOk(proc[p])  BY <1>1, <1>2 DEF SlotsOk
 <2> QED  BY <2>1, SlotExtentIs, SwapOwnerAt
<1>6. ASSUME NEW t \in Texts, text[t].count > 0
      PROVE  /\ SwapExtents[N + t] = [who |-> <<"copy", t>>, a |-> text[t].daddr,
                                      n |-> TextSize(text, t)]
             /\ N + t \in Users
             /\ \A x \in Nat : x \in SwapOwner(proc, text)[N + t] <=> Covers(SwapExtents[N + t], x)
             /\ \A x \in Nat : Covers(SwapExtents[N + t], x) => SwapExtents[N + t] \in SwapHeld
 <2>1. N + t \in Users /\ N + t # 0 /\ ~(N + t <= N) /\ (N + t) - N = t  BY UserNames
 <2>2. SwapExtents[N + t] = [who |-> <<"copy", t>>, a |-> text[t].daddr, n |-> TextSize(text, t)]
   BY <2>1 DEF SwapExtents
 <2>3. text[t].daddr \in Nat /\ TextSize(text, t) \in Nat  BY <1>2, <1>6, TextSizes
 <2>4. SwapOwner(proc, text)[N + t] = Block(text[t].daddr, TextSize(text, t))
   BY <1>6, SwapOwnerAt DEF CopyBlocks
 <2>m. SwapExtents[N + t].n > 0 => SwapExtents[N + t] \in SwapHeld  BY <1>6, <2>2, SwapElements
 <2>x. /\ \A x \in Nat : x \in SwapOwner(proc, text)[N + t] <=> Covers(SwapExtents[N + t], x)
       /\ \A x \in Nat : Covers(SwapExtents[N + t], x) => SwapExtents[N + t].n > 0
   BY <2>2, <2>3, <2>4, ExtentFacts
 <2> QED  BY <2>1, <2>2, <2>m, <2>x
<1>7. ASSUME NEW w \in Users, NEW x \in 1..SwapBlocks, x \in SwapOwner(proc, text)[w]
      PROVE  SwapExtents[w] \in SwapHeld /\ Covers(SwapExtents[w], x)
 <2>0. x \in Nat  BY <1>3
 <2>1. CASE w = 0  BY <1>7, <2>1, SwapOwnerAt
 <2>2. CASE w \in Slots
  <3>1. SlotExtent(w, SwapExtents[w]) /\ Covers(SwapExtents[w], x) /\ SwapExtents[w].n > 0
    BY <1>5, <1>7, <2>0, <2>2
  <3> QED  BY <2>2, <3>1, SwapElements
 <2>3. CASE w - N \in Texts
  <3>1. PICK t \in Texts : w = N + t  BY <2>3, Consts DEF Texts, Users
  <3>2. text[t].count > 0  BY <1>7, <3>1, SwapOwnerAt DEF CopyBlocks
  <3> QED  BY <1>6, <1>7, <2>0, <3>1, <3>2, Zenon
 <2> QED  BY <2>1, <2>2, <2>3, UserKinds
<1>8. ASSUME NEW e \in SwapHeld, NEW x \in 1..SwapBlocks, Covers(e, x)
      PROVE  \/ \E i \in DOMAIN smap : e = FreeExtent(smap, i)
             \/ \E w \in Users : x \in SwapOwner(proc, text)[w] /\ e = SwapExtents[w]
 <2>0. x \in Nat  BY <1>3
 <2>1. CASE \E p \in Slots : SlotExtent(p, e)  BY <1>5, <1>8, <2>0, <2>1
 <2>2. CASE \E t \in Texts : /\ text[t].count > 0
                             /\ e = [who |-> <<"copy", t>>, a |-> text[t].daddr,
                                     n |-> TextSize(text, t)]
  <3>1. PICK t \in Texts : text[t].count > 0 /\ e = SwapExtents[N + t]  BY <1>6, <2>2
  <3>2. N + t \in Users /\ x \in SwapOwner(proc, text)[N + t]  BY <1>6, <1>8, <2>0, <3>1, Zenon
  <3> QED  BY <3>1, <3>2
 <2> QED  BY <2>1, <2>2, SwapElements
<1> QED  BY <1>4, <1>7, <1>8 DEF HeldAre

-----------------------------------------------------------------------------
(* What a process sees                                                     *)

\* The u area takes one page, data and stack come after it.
LEMMA PagesOfImage ==
  ASSUME NEW d \in Nat, NEW s \in Nat, s % 2 = 0
  PROVE  /\ Pages(2 + d + s) = 1 + Pages(d) + Pages(s)
         /\ Pages(d) \in Nat /\ Pages(s) \in Nat
  BY DEF Pages

\* The page table shows the process its own pages.
LEMMA InvMaps ==
  ASSUME IInv, NEW p \in Slots, proc[p].load, proc[p].pc = "user", tx[p] = "no"
  PROVE  MapToPageTable(p) \subseteq OwnPages(p)
<1>1. SlotsOk(proc) /\ Locks(proc, tx, sch) /\ Tables(mmap, smap, proc, text, sch)
  BY DEF IInv, Consistent
<1>2. PICK r : r = proc[p]  OBVIOUS
<1>3. r \in SlotRec /\ SlotOk(r)  BY <1>1, <1>2, TablesAre DEF SlotsOk
<1>4. ~r.lock  BY <1>1, <1>2 DEF Locks
<1>5. HereSlot(r) /\ Sized(r)
  BY <1>2, <1>3, <1>4 DEF SlotOk, NullSlot, DeadSlot, LiveSlot, GoingSlot, BornSlot, OutSlot
<1>6. PICK b, d, s : b = r.addr \div 2 /\ d = r.data /\ s = r.stack  OBVIOUS
<1>7. b \in Nat /\ d \in Nat /\ s \in Nat /\ s % 2 = 0 /\ r.held = 2 + d + s
 <2>1. r.addr \in Nat /\ d \in Nat /\ s \in Nat  BY <1>3, <1>6, SlotFields
 <2>2. r.held = r.size /\ r.size = 2 + d + s /\ s % 2 = 0
   BY <1>5, <1>6 DEF HereSlot, Sized, ImageSize, USIZE
 <2>3. b \in Nat  BY <1>6, <2>1, HalfFacts
 <2> QED  BY <2>1, <2>2, <2>3
<1>8. PICK pd, ps, ph : pd = Pages(d) /\ ps = Pages(s) /\ ph = Pages(r.held)  OBVIOUS
<1>9. pd \in Nat /\ ps \in Nat /\ ph = 1 + pd + ps  BY <1>7, <1>8, PagesOfImage, Zenon
<1>10. /\ (b + 1)..(b + 1 + pd - 1) \subseteq b..(b + ph - 1)
       /\ (b + 1 + pd)..(b + 1 + pd + ps - 1) \subseteq b..(b + ph - 1)
  BY <1>7, <1>9
<1>11. MapToPageTable(p) = TextMapped(r.text) \cup ((b + 1)..(b + 1 + pd - 1))
                             \cup ((b + 1 + pd)..(b + 1 + pd + ps - 1))
  BY <1>2, <1>6, <1>8 DEF MapToPageTable, MapEntry
<1>12. OwnPages(p) = TextMapped(r.text) \cup (b..(b + ph - 1))
  BY <1>2, <1>6, <1>8 DEF OwnPages, MapEntry
<1> QED  BY <1>10, <1>11, <1>12

\* The state has its types.
LEMMA InvTypes ==
  ASSUME IInv
  PROVE  TypeOK
<1>1. /\ Tables(mmap, smap, proc, text, sch) /\ SlotsOk(proc) /\ BufferOk(swb, tx, sleepers)
      /\ SchedOk(proc, sch, runout) /\ fault \in Faults /\ ops \in 0..MaxOps
  BY DEF IInv, Consistent
<1>2. /\ proc \in [Slots -> SlotRec] /\ text \in [Texts -> TextRec] /\ sch \in SchedRec
      /\ Held(mmap, MemPages, MemOwner(proc, text, sch)) /\ Held(smap, SwapBlocks, SwapOwner(proc, text))
      /\ Typed(proc, text, sch) /\ Counted(proc, text, sch)
      /\ \A u \in Texts : TextOk(text, u) /\ text[u] \in TextRec
  BY <1>1, TablesAre
<1>3. mmap \in Seq(Nodes(MemPages)) /\ smap \in Seq(Nodes(SwapBlocks))
  BY <1>2, Consts, NodesInside DEF Held
<1>4. text \in [Texts -> [file : Files \cup {NoFile}, count : 0..N, ccount : 0..N,
                          caddr : Halves, daddr : 0..SwapBlocks,
                          good : BOOLEAN, saved : BOOLEAN]]
 <2>1. ASSUME NEW t \in Texts
       PROVE  text[t] \in [file : Files \cup {NoFile}, count : 0..N, ccount : 0..N,
                           caddr : Halves, daddr : 0..SwapBlocks,
                           good : BOOLEAN, saved : BOOLEAN]
  <3>1. /\ text[t].ccount <= text[t].count /\ text[t].count \in Nat /\ text[t].ccount \in Nat
        /\ text[t].count <= N
    BY <1>2, Counts
  <3>2. text[t].ccount \in 0..N /\ text[t].count \in 0..N  BY <3>1, Consts
  <3> QED  BY <1>2, <3>2 DEF TextRec
 <2> QED  BY <1>2, <2>1
<1>5. \A p \in Slots : proc[p].stat # "null" => proc[p].addr # 0
 <2>1. \A p \in Slots : SlotOk(proc[p])  BY <1>1 DEF SlotsOk
 <2> QED  BY <2>1 DEF SlotOk, NullSlot, DeadSlot, LiveSlot
<1>6. \A t \in Texts : text[t].file # NoFile => text[t].caddr # 0 /\ text[t].daddr # 0
  BY <1>2 DEF TextOk
<1>7. proc \in [Slots -> [stat : ProcStates, load : BOOLEAN, lock : BOOLEAN,
                          addr : Halves, size : 0..Space + USIZE, data : 0..Space,
                          stack : 0..Space, par : 0..N, text : 0..NText, pc : PCs,
                          blk : 0..SwapBlocks, held : 0..Space + USIZE, kid : 0..N]]
  BY <1>2 DEF SlotRec
<1>8. /\ swb \in [owner : -1..N, wanted : BOOLEAN, done : BOOLEAN]
      /\ tx \in [0..N -> {"no", "want", "go"}] /\ sleepers \subseteq 0..N
      /\ runout \in BOOLEAN
  BY <1>1 DEF BufferOk, SchedOk
<1>9. sch \in [pc : {"loop", "out", "in", "text", "data"}, sel : 0..N, des : Halves]
  BY <1>2 DEF SchedRec
<1> QED  BY <1>1, <1>3, <1>4, <1>5, <1>6, <1>7, <1>8, <1>9 DEF TypeOK

\* The invariant says all of it.
LEMMA InvOwns ==
  ASSUME IInv
  PROVE  StoreOwned
<1>1. Tables(mmap, smap, proc, text, sch)  BY DEF IInv, Consistent
<1>2. /\ Held(mmap, MemPages, MemOwner(proc, text, sch))
      /\ Held(smap, SwapBlocks, SwapOwner(proc, text))
  BY <1>1, TablesAre
<1>3. MemPages \in Nat /\ SwapBlocks \in Nat  BY Consts
<1>4. OneHolderEach(MemoryHeld, MemPages)  BY <1>2, <1>3, MemoryHolders, OneHolds
<1>5. OneHolderEach(SwapHeld, SwapBlocks)  BY <1>2, <1>3, SwapHolders, OneHolds
<1>6. Tidy(mmap) /\ Tidy(smap)  BY <1>2, <1>3, NodesInside DEF Held
<1> QED  BY <1>4, <1>5, <1>6, InvTypes, InvMaps DEF StoreOwned

\* Every page of memory and every block of the swap area has exactly one
\* holder at every moment - a free node, an image, a text or its copy, a
\* transfer under way, the u area of a dead process -, through growth, moves,
\* swaps, fork, exec and exit; the lists of free nodes stay in order and
\* merged; and no process in user mode is shown a page that is not its own.
THEOREM StoreStaysOwned == Spec => []StoreOwned
<1>1. IInv => StoreOwned  BY InvOwns
<1> QED  BY <1>1, SwappingInv, PTL
=============================================================================
