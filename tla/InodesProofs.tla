---------------------------- MODULE InodesProofs -----------------------------
(***************************************************************************)
(* Theorems about Inodes, for any processes, names, sizes and bounds.      *)
(*                                                                         *)
(* A count is right only because every place of a call holds the references *)
(* it is known to hold: LocalOK says what the local variables of a process  *)
(* are at each place.  Own(r, i) is the number of references to slot i of a *)
(* process with variables r; a step of p changes Refs(i) by the change of   *)
(* its own references (RefsStep), so each action is compared with that, and *)
(* no cardinality is computed again.                                       *)
(*                                                                         *)
(* The second half is about what the numbers stand for: FilesInv, on which *)
(* FilesAllocated rests, says of each number whether it is in use and has a *)
(* link, wherever its inode is at the moment.                              *)
(***************************************************************************)
EXTENDS Inodes, FiniteSetTheorems, WellFoundedInduction, TLAPS

IPutPCs == {"iput", "itrunc", "iupdate", "iwrite", "iputend"}
SyncPCs == {"sync", "syncread", "syncwrite"}

\* On the way to a new inode, with the directory in u_pdir
Making(r) == \/ r.pc \in {"ialloc", "isearch", "pop", "new", "writedir"}
             \/ r.pc \in {"iget", "load"} /\ r.ret = "new"
             \/ r.pc \in IPutPCs /\ r.ret = "pop"

\* What a process has in its local variables at each place
LocalOK(r) ==
    /\ r.pc \in {"idle", "nflock", "io", "fstat"} => /\ r.op = "none"
                                                     /\ r.ip = NoSlot
                                                     /\ r.at = NoEntry
    /\ r.pc \in {"nflock", "io", "fstat"} => r.fd # NoSlot
    /\ r.op = "sync" <=> r.pc \in SyncPCs
    /\ r.op \in {"open", "creat"} => r.fd = NoSlot
    /\ r.pc = "iget" =>
          /\ r.ip = NoSlot
          /\ \/ r.ret = "search" /\ r.num = Root
             \/ r.ret \in {"file", "new"} /\ r.num \notin {0, Root}
    /\ r.pc = "load" => r.ret \in {"file", "new"} /\ r.num \notin {0, Root}
    /\ r.pc \in {"ialloc", "isearch", "pop", "panic"} => r.ip = NoSlot
    /\ r.pc = "search" => r.ip = Root
    /\ r.pc \in {"load", "file", "trunc", "opened", "new", "writedir", "clear", "stat"}
                \cup (IPutPCs \ {"iput"}) => r.ip \in Slots \ {Root}
    /\ r.pc = "iput" => r.ip \in Slots
    /\ r.pc \in {"syncread", "syncwrite"} => r.ip \in Slots
    /\ r.pc \in IPutPCs => r.ret \in {"idle", "pop"}
    /\ r.pc \in {"trunc", "opened"} => r.op \in {"open", "creat"}
    /\ Making(r) => r.op = "creat" /\ r.at # NoEntry
    /\ (r.op = "unlink" /\ r.pc \in {"iget", "load"} /\ r.ret = "file") => r.at # NoEntry
    /\ (r.op = "unlink" /\ r.pc = "file") => r.at # NoEntry
    /\ r.pc = "clear" => r.at # NoEntry /\ r.op = "unlink"

LocalInv == \A p \in Procs : LocalOK(u[p])

\* The directory is in its slot, and in no other
RootInv == /\ inode[Root].num = Root
           /\ \A i \in Slots \ {Root} : inode[i].num # Root

IndInv == TypeOK /\ LocalInv /\ RootInv /\ OneEntryPerInode /\ CountExact
-----------------------------------------------------------------------------
(* Constants, and the least slot.                                          *)

LEMMA Consts ==
    /\ NInode \in Nat /\ NInode >= 2 /\ Last \in Nat /\ Last >= 2
    /\ Cap \in Nat /\ Cap >= 1 /\ NEntry \in Nat
    /\ MaxCalls \in Nat /\ MaxSyncs \in Nat /\ NFile < Last /\ NFile \in Nat
    /\ Root \in Slots /\ Root \notin Files /\ Files \subseteq Nat /\ NoNum \notin Files
    /\ Slots \subseteq Nat /\ NoSlot \notin Slots /\ NoEntry \notin Entries /\ 0 \notin Files
    /\ NoProc \notin Procs /\ NoName \notin Names
    /\ IsFiniteSet(Procs) /\ Cardinality(Procs) \in Nat /\ Cardinality(Procs) >= 1
<1>1. Cardinality(Procs) \in Nat /\ Cardinality(Procs) >= 1
 <2>1. IsFiniteSet(Procs) /\ Procs # {}  BY InodesAssumption DEF InodesAssumption
 <2>2. Cardinality(Procs) # 0 /\ Cardinality(Procs) \in Nat
   BY <2>1, FS_EmptySet, FS_CardinalityType
 <2> QED  BY <2>2
<1> QED  BY <1>1, InodesAssumption
  DEF InodesAssumption, Slots, Files, Root, NoNum, NoSlot, NoEntry, Entries

Less == {ss \in Nat \X Nat : ss[1] < ss[2]}

\* A set of naturals that is not empty has a least element.
LEMMA Least ==
  ASSUME NEW S, S \subseteq Nat, S # {}
  PROVE  \E m \in S : \A k \in S : m <= k
<1>1. IsWellFoundedOn(Less, Nat)  BY NatLessThanWellFounded, Zenon DEF OpToRel, Less
<1>2. PICK m \in S : \A k \in S : <<k, m>> \notin Less  BY <1>1, WFMin, Zenon
<1>3. \A k \in S : ~(k < m)  BY <1>2 DEF Less
<1> QED  BY <1>2, <1>3

\* IsLoaded is empty only if no slot has the inode.
LEMMA NotLoaded ==
  ASSUME NEW n, IsLoaded(n) = {}
  PROVE  \A i \in Slots : ~Matches(i, n)
<1> SUFFICES ASSUME NEW i \in Slots, Matches(i, n) PROVE FALSE  OBVIOUS
<1> DEFINE S == {j \in Slots : Matches(j, n)}
<1>1. S \subseteq Nat /\ S # {}  BY Consts
<1>2. PICK m \in S : \A k \in S : m <= k  BY <1>1, Least
<1>3. \A j \in 1..(m - 1) : ~Matches(j, n)
 <2> SUFFICES ASSUME NEW j \in 1..(m - 1), Matches(j, n) PROVE FALSE  OBVIOUS
 <2>1. m \in 1..NInode  BY DEF Slots
 <2>2. j \in S /\ j < m  BY <2>1, Consts DEF Slots
 <2> QED  BY <1>2, <2>2, Consts
<1> QED  BY <1>2, <1>3 DEF IsLoaded
-----------------------------------------------------------------------------
(* Counts and references.                                                  *)

\* Two sets of processes that differ at most in p
LEMMA OneChanges ==
  ASSUME NEW S \in SUBSET Procs, NEW T \in SUBSET Procs, NEW p \in Procs,
         \A q \in Procs \ {p} : q \in S <=> q \in T
  PROVE  /\ Cardinality(S) \in Nat /\ Cardinality(T) \in Nat
         /\ Cardinality(S) >= (IF p \in S THEN 1 ELSE 0)
         /\ Cardinality(T) = Cardinality(S) + (IF p \in T THEN 1 ELSE 0)
                                            - (IF p \in S THEN 1 ELSE 0)
<1> DEFINE R == S \ {p}
<1>1. R = T \ {p}  OBVIOUS
<1>2. IsFiniteSet(S) /\ IsFiniteSet(T) /\ IsFiniteSet(R)  BY Consts, FS_Subset
<1>3. Cardinality(R) \in Nat  BY <1>2, FS_CardinalityType
<1>4. /\ Cardinality(S) \in Nat
      /\ Cardinality(S) = Cardinality(R) + (IF p \in S THEN 1 ELSE 0)
 <2>1. CASE p \in S
  <3>1. S = R \cup {p} /\ p \notin R  BY <2>1
  <3>2. Cardinality(R \cup {p}) = Cardinality(R) + 1  BY <1>2, <3>1, FS_AddElement
  <3> HIDE DEF R
  <3> QED  BY <2>1, <3>1, <3>2, <1>3
 <2>2. CASE p \notin S
  <3>1. S = R  BY <2>2
  <3> HIDE DEF R
  <3> QED  BY <2>2, <3>1, <1>3
 <2> QED  BY <2>1, <2>2
<1>5. /\ Cardinality(T) \in Nat
      /\ Cardinality(T) = Cardinality(R) + (IF p \in T THEN 1 ELSE 0)
 <2>1. CASE p \in T
  <3>1. T = R \cup {p} /\ p \notin R  BY <2>1, <1>1
  <3>2. Cardinality(R \cup {p}) = Cardinality(R) + 1  BY <1>2, <3>1, FS_AddElement
  <3> HIDE DEF R
  <3> QED  BY <2>1, <3>1, <3>2, <1>3
 <2>2. CASE p \notin T
  <3>1. T = R  BY <2>2, <1>1
  <3> HIDE DEF R
  <3> QED  BY <2>2, <3>1, <1>3
 <2> QED  BY <2>1, <2>2
<1> HIDE DEF R
<1> QED  BY <1>3, <1>4, <1>5

InodeRec == [num : {NoNum, Root} \cup Files, count : Nat, lock : BOOLEAN,
             want : BOOLEAN, dirty : BOOLEAN, mode : BOOLEAN, nlink : Int]
Local == [pc : PCs, op : Calls \cup {"none", "sync"}, name : Names \cup {NoName},
          at : Entries \cup {NoEntry}, num : {NoNum, 0, Root} \cup Files,
          ip : 0..(NInode + 1), ret : PCs, fd : Slots \cup {NoSlot}]
\* What TypeOK says of the other variables
TypeRest ==
    /\ disk \in [{Root} \cup Files -> [mode : BOOLEAN, nlink : Int]]
    /\ dir \in [Entries -> [name : Names \cup {NoName}, ino : {NoNum, 0} \cup Files]]
    /\ stk \in Seq({NoNum} \cup Files) /\ Len(stk) <= Cap
    /\ {ilock, updlock, wild} \subseteq BOOLEAN
    /\ chan \in [Procs -> Slots \cup {Awake, LocalChan, ILockChan}]
    /\ cpu \in Procs \cup {NoProc}
    /\ calls \in 0..MaxCalls /\ syncs \in 0..MaxSyncs

\* TypeOK, in three parts
LEMMA TypeParts ==
  TypeOK <=> inode \in [Slots -> InodeRec] /\ u \in [Procs -> Local] /\ TypeRest
  BY Zenon DEF TypeOK, InodeRec, Local, TypeRest

\* The references to slot i that a process with r has
Own(r, i) == (IF r.fd = i THEN 1 ELSE 0)
             + (IF r.ip = i /\ r.op # "sync" THEN 1 ELSE 0)
             + (IF i = Root /\ r.at # NoEntry THEN 1 ELSE 0)

\* A step of p changes the references by what p's change.
LEMMA RefsStep ==
  ASSUME NEW p \in Procs, NEW r, NEW i, u \in [Procs -> Local],
         u' = [u EXCEPT ![p] = r]
  PROVE  /\ Refs(i) \in Nat /\ Refs(i)' \in Nat
         /\ Refs(i)' = Refs(i) + Own(r, i) - Own(u[p], i)
<1> DEFINE F  == {q \in Procs : u[q].fd = i}
           F1 == {q \in Procs : u'[q].fd = i}
           I  == {q \in Procs : u[q].ip = i /\ u[q].op # "sync"}
           I1 == {q \in Procs : u'[q].ip = i /\ u'[q].op # "sync"}
           A  == {q \in Procs : u[q].at # NoEntry}
           A1 == {q \in Procs : u'[q].at # NoEntry}
<1>1. u'[p] = r /\ \A q \in Procs \ {p} : u'[q] = u[q]  OBVIOUS
<1>2. /\ Cardinality(F) \in Nat /\ Cardinality(F1) \in Nat
      /\ Cardinality(F) >= (IF u[p].fd = i THEN 1 ELSE 0)
      /\ Cardinality(F1) = Cardinality(F) + (IF r.fd = i THEN 1 ELSE 0)
                                          - (IF u[p].fd = i THEN 1 ELSE 0)
 <2>1. F \in SUBSET Procs /\ F1 \in SUBSET Procs  OBVIOUS
 <2>2. \A q \in Procs \ {p} : q \in F <=> q \in F1  BY <1>1
 <2>3. (p \in F <=> u[p].fd = i) /\ (p \in F1 <=> r.fd = i)  BY <1>1
 <2> HIDE DEF F, F1
 <2> QED  BY <2>1, <2>2, <2>3, OneChanges
<1>3. /\ Cardinality(I) \in Nat /\ Cardinality(I1) \in Nat
      /\ Cardinality(I) >= (IF u[p].ip = i /\ u[p].op # "sync" THEN 1 ELSE 0)
      /\ Cardinality(I1) = Cardinality(I) + (IF r.ip = i /\ r.op # "sync" THEN 1 ELSE 0)
                                          - (IF u[p].ip = i /\ u[p].op # "sync" THEN 1 ELSE 0)
 <2>1. I \in SUBSET Procs /\ I1 \in SUBSET Procs  OBVIOUS
 <2>2. \A q \in Procs \ {p} : q \in I <=> q \in I1  BY <1>1
 <2>3. /\ p \in I <=> (u[p].ip = i /\ u[p].op # "sync")
       /\ p \in I1 <=> (r.ip = i /\ r.op # "sync")
   BY <1>1
 <2> HIDE DEF I, I1
 <2> QED  BY <2>1, <2>2, <2>3, OneChanges
<1>4. /\ Cardinality(A) \in Nat /\ Cardinality(A1) \in Nat
      /\ Cardinality(A) >= (IF u[p].at # NoEntry THEN 1 ELSE 0)
      /\ Cardinality(A1) = Cardinality(A) + (IF r.at # NoEntry THEN 1 ELSE 0)
                                          - (IF u[p].at # NoEntry THEN 1 ELSE 0)
 <2>1. A \in SUBSET Procs /\ A1 \in SUBSET Procs  OBVIOUS
 <2>2. \A q \in Procs \ {p} : q \in A <=> q \in A1  BY <1>1
 <2>3. /\ p \in A <=> u[p].at # NoEntry
       /\ p \in A1 <=> r.at # NoEntry
   BY <1>1
 <2> HIDE DEF A, A1
 <2> QED  BY <2>1, <2>2, <2>3, OneChanges
<1>5. Refs(i) = Cardinality(F) + Cardinality(I)
                + IF i = Root THEN Cardinality(A) + Cardinality(Procs) + 1 ELSE 0
  BY DEF Refs
<1>6. Refs(i)' = Cardinality(F1) + Cardinality(I1)
                 + IF i = Root THEN Cardinality(A1) + Cardinality(Procs) + 1 ELSE 0
  BY DEF Refs
<1>7. Cardinality(Procs) \in Nat  BY Consts
<1> HIDE DEF F, F1, I, I1, A, A1
<1>8. CASE i = Root  BY <1>2, <1>3, <1>4, <1>5, <1>6, <1>7, <1>8 DEF Own
<1>9. CASE i # Root  BY <1>2, <1>3, <1>4, <1>5, <1>6, <1>7, <1>9 DEF Own
<1> QED  BY <1>8, <1>9

\* The references are at least those of one process.
LEMMA RefsNat ==
  ASSUME NEW p \in Procs, NEW i
  PROVE  /\ Refs(i) \in Nat
         /\ i = Root => Refs(i) >= Cardinality(Procs) + 1
         /\ Refs(i) >= Own(u[p], i)
<1> DEFINE F == {q \in Procs : u[q].fd = i}
           I == {q \in Procs : u[q].ip = i /\ u[q].op # "sync"}
           A == {q \in Procs : u[q].at # NoEntry}
<1>1. F \in SUBSET Procs /\ I \in SUBSET Procs /\ A \in SUBSET Procs  OBVIOUS
<1>2. /\ p \in F <=> u[p].fd = i
      /\ p \in I <=> (u[p].ip = i /\ u[p].op # "sync")
      /\ p \in A <=> u[p].at # NoEntry
  OBVIOUS
<1>3. Refs(i) = Cardinality(F) + Cardinality(I)
                + IF i = Root THEN Cardinality(A) + Cardinality(Procs) + 1 ELSE 0
  BY DEF Refs
<1>4. Cardinality(Procs) \in Nat  BY Consts
<1> HIDE DEF F, I, A
<1>5. /\ Cardinality(F) \in Nat /\ Cardinality(F) >= (IF p \in F THEN 1 ELSE 0)
      /\ Cardinality(I) \in Nat /\ Cardinality(I) >= (IF p \in I THEN 1 ELSE 0)
      /\ Cardinality(A) \in Nat /\ Cardinality(A) >= (IF p \in A THEN 1 ELSE 0)
  BY <1>1, OneChanges
<1>6. CASE i = Root  BY <1>2, <1>3, <1>4, <1>5, <1>6 DEF Own
<1>7. CASE i # Root  BY <1>2, <1>3, <1>4, <1>5, <1>7 DEF Own
<1> QED  BY <1>6, <1>7
-----------------------------------------------------------------------------
(* Steps that change the slots of others no more than the invariant allows. *)

\* Slot i has its number or none, and is not taken
Kept(i, s) == /\ s.num \in {inode[i].num, NoNum}
              /\ s.count # 0 => inode[i].count # 0
              /\ i = Root => s.num = Root

\* The count of slot i, as p goes from u[p] to r, changes as p's references do; that of
\* the directory may be more
Counted(i, c, p, r) == LET new == inode[i].count + Own(r, i) - Own(u[p], i)
                       IN c = new \/ (i = Root /\ c > new)

\* ... and so are the counts; the directory has two in any case.
LEMMA Counts ==
  ASSUME IndInv, NEW i \in Slots, NEW p \in Procs
  PROVE  /\ inode[i].count \in Nat /\ inode[i].count >= Own(u[p], i)
         /\ inode[Root].count >= 2
<1>1. inode \in [Slots -> InodeRec] /\ u \in [Procs -> Local] /\ CountExact  BY TypeParts DEF IndInv
<1>3. \A j \in Slots : inode[j].count \in Nat  BY <1>1 DEF InodeRec
<1>4. \A j \in Slots : inode[j].count >= Refs(j) \/ inode[j].count = Refs(j)
 <2> TAKE j \in Slots
 <2>1. inode[j].count = Refs(j) \/ (j = Root /\ inode[j].count > Refs(j))  BY <1>1 DEF CountExact
 <2>2. CASE inode[j].count = Refs(j)  BY <2>2
 <2>3. CASE inode[j].count > Refs(j)
  <3>1. Refs(j) \in Nat  BY RefsNat
  <3> QED  BY <2>3, <3>1, <1>3
 <2> QED  BY <2>1, <2>2, <2>3
<1>5. Refs(i) \in Nat /\ Refs(i) >= Own(u[p], i)  BY RefsNat
<1>6. Refs(Root) \in Nat /\ Refs(Root) >= Cardinality(Procs) + 1  BY RefsNat
<1>7. Own(u[p], i) \in Nat  BY DEF Own
<1> QED  BY <1>3, <1>4, <1>5, <1>6, <1>7, Consts

\* What a step may do to the slots and to p
LEMMA Step ==
  ASSUME IndInv, NEW p \in Procs, NEW r \in Local, LocalOK(r),
         u' = [u EXCEPT ![p] = r],
         inode' \in [Slots -> InodeRec], TypeRest',
         \A i \in Slots : Kept(i, inode'[i]) /\ Counted(i, inode'[i].count, p, r)
  PROVE  IndInv'
<1>1. inode \in [Slots -> InodeRec] /\ u \in [Procs -> Local] /\ CountExact
      /\ RootInv /\ OneEntryPerInode /\ LocalInv
  BY TypeParts DEF IndInv
<1>2. u' \in [Procs -> Local]  BY <1>1
<1>3. TypeOK'
 <2>1. (inode \in [Slots -> InodeRec] /\ u \in [Procs -> Local] /\ TypeRest)'
   BY <1>2, Zenon DEF InodeRec, Local
 <2> QED  BY <2>1, TypeParts, PTL
<1>4. LocalInv'  BY <1>1 DEF LocalInv, LocalOK, Making
<1>5. RootInv'  BY <1>1, Consts DEF RootInv, Kept, NoNum, Root
<1>6. OneEntryPerInode'  BY <1>1 DEF OneEntryPerInode, Kept
<1>7. CountExact'
 <2> SUFFICES ASSUME NEW i \in Slots
              PROVE  inode'[i].count = Refs(i)' \/ (i = Root /\ inode'[i].count > Refs(i)')
   BY DEF CountExact
 <2>1. /\ Refs(i) \in Nat /\ Refs(i)' \in Nat
       /\ Refs(i)' = Refs(i) + Own(r, i) - Own(u[p], i)
   BY <1>1, RefsStep
 <2>2. inode[i].count = Refs(i) \/ (i = Root /\ inode[i].count > Refs(i))  BY <1>1 DEF CountExact
 <2>3. inode[i].count \in Nat /\ inode'[i].count \in Nat  BY <1>1 DEF InodeRec
 <2>4. Own(r, i) \in Nat /\ Own(u[p], i) \in Nat  BY DEF Own
 <2>5. Counted(i, inode'[i].count, p, r)  OBVIOUS
 <2> QED  BY <2>1, <2>2, <2>3, <2>4, <2>5 DEF Counted
<1> QED  BY <1>3, <1>4, <1>5, <1>6, <1>7 DEF IndInv

\* A step that changes only slot i
LEMMA StepSlot ==
  ASSUME IndInv, NEW p \in Procs, NEW r \in Local, LocalOK(r),
         u' = [u EXCEPT ![p] = r], TypeRest',
         NEW i \in Slots, NEW s \in InodeRec, inode' = [inode EXCEPT ![i] = s],
         Kept(i, s), Counted(i, s.count, p, r),
         \A j \in Slots \ {i} : \/ Own(r, j) = Own(u[p], j)
                                \/ j = Root /\ Own(r, j) < Own(u[p], j)
  PROVE  IndInv'
<1>1. inode \in [Slots -> InodeRec] /\ RootInv  BY TypeParts DEF IndInv
<1>2. inode' \in [Slots -> InodeRec]  BY <1>1
<1>3. \A j \in Slots \ {i} : Kept(j, inode'[j]) /\ Counted(j, inode'[j].count, p, r)
 <2> TAKE j \in Slots \ {i}
 <2>1. inode'[j] = inode[j]  BY <1>1
 <2>2. inode[j].count \in Nat  BY <1>1 DEF InodeRec
 <2>3. Own(r, j) \in Nat /\ Own(u[p], j) \in Nat  BY DEF Own
 <2>4. Kept(j, inode'[j])  BY <2>1, <1>1 DEF Kept, RootInv
 <2>5. Own(r, j) = Own(u[p], j) \/ (j = Root /\ Own(r, j) < Own(u[p], j))  OBVIOUS
 <2> QED  BY <2>1, <2>2, <2>3, <2>4, <2>5 DEF Counted
<1>4. inode'[i] = s  BY <1>1
<1> QED  BY <1>2, <1>3, <1>4, Step

\* A step that changes no slot
LEMMA StepSame ==
  ASSUME IndInv, NEW p \in Procs, NEW r \in Local, LocalOK(r),
         u' = [u EXCEPT ![p] = r], TypeRest', UNCHANGED inode,
         \A j \in Slots : \/ Own(r, j) = Own(u[p], j)
                          \/ j = Root /\ Own(r, j) < Own(u[p], j)
  PROVE  IndInv'
<1>1. inode \in [Slots -> InodeRec] /\ RootInv  BY TypeParts DEF IndInv
<1>2. inode' = [inode EXCEPT ![Root] = inode[Root]] /\ inode[Root] \in InodeRec  BY <1>1, Consts
<1>3. Kept(Root, inode[Root])  BY <1>1 DEF Kept, RootInv
<1>4. Counted(Root, inode[Root].count, p, r)
 <2>1. inode[Root].count \in Nat  BY <1>1, <1>2 DEF InodeRec
 <2>2. Own(r, Root) \in Nat /\ Own(u[p], Root) \in Nat  BY DEF Own
 <2>3. Own(r, Root) = Own(u[p], Root) \/ Own(r, Root) < Own(u[p], Root)  BY Consts
 <2> QED  BY <2>1, <2>2, <2>3 DEF Counted
<1> QED  BY <1>2, <1>3, <1>4, Consts, StepSlot

\* Wakings keep the channels' type.
LEMMA Wakes ==
  ASSUME TypeRest, NEW i, PreleWakes(i) \/ WakeUpAll(i) \/ UNCHANGED chan
  PROVE  chan' \in [Procs -> Slots \cup {Awake, LocalChan, ILockChan}]
  BY DEF TypeRest, PreleWakes, WakeUpAll
\* The parts of the invariant, for one process
LEMMA Facts ==
  ASSUME IndInv, NEW p \in Procs
  PROVE  /\ u \in [Procs -> Local] /\ u[p] \in Local /\ LocalOK(u[p])
         /\ u[p].ret \in PCs /\ u[p].fd \in Slots \cup {NoSlot}
         /\ u[p].num \in {NoNum, 0, Root} \cup Files /\ u[p].ip \in 0..(NInode + 1)
         /\ inode \in [Slots -> InodeRec] /\ TypeRest /\ RootInv
         /\ Root \in Slots /\ Slots \subseteq Nat /\ NoSlot \notin Slots
         /\ Slots \cup {NoSlot} \subseteq 0..(NInode + 1)
<1>1. /\ u \in [Procs -> Local] /\ LocalOK(u[p])
      /\ inode \in [Slots -> InodeRec] /\ TypeRest /\ RootInv
  BY TypeParts DEF IndInv, LocalInv
<1>2. /\ u[p].ret \in PCs /\ u[p].fd \in Slots \cup {NoSlot}
      /\ u[p].num \in {NoNum, 0, Root} \cup Files /\ u[p].ip \in 0..(NInode + 1)
  BY <1>1 DEF Local
<1>3. Slots \cup {NoSlot} \subseteq 0..(NInode + 1)  BY Consts DEF Slots, NoSlot
<1> QED  BY <1>1, <1>2, <1>3, Consts

\* What the operators on slots do
LEMMA Recs ==
  ASSUME NEW t \in InodeRec
  PROVE  /\ Hit(t) \in InodeRec /\ Hit(t).num = t.num /\ Hit(t).count = t.count + 1
         /\ Unlocked(t) \in InodeRec /\ Unlocked(t).num = t.num
         /\ Unlocked(t).count = t.count
         /\ t.count >= 1 => PutRec(t) \in InodeRec
         /\ PutRec(t).num = t.num /\ PutRec(t).count = t.count - 1
         /\ PutRec(t) \in [num : {NoNum, Root} \cup Files, count : Int, lock : BOOLEAN,
                           want : BOOLEAN, dirty : BOOLEAN, mode : BOOLEAN, nlink : Int]
<1>1. t.count \in Nat /\ t.count + 1 \in Nat /\ t.count - 1 \in Int
      /\ (t.count >= 1 => t.count - 1 \in Nat)
  BY DEF InodeRec
<1>2. Hit(t) \in InodeRec /\ Hit(t).num = t.num /\ Hit(t).count = t.count + 1
  BY <1>1 DEF Hit, InodeRec
<1>3. Unlocked(t) \in InodeRec /\ Unlocked(t).num = t.num /\ Unlocked(t).count = t.count
  BY DEF Unlocked, InodeRec
<1>4. PutRec(t) = [Unlocked(t) EXCEPT !.count = t.count - 1]  BY DEF PutRec, Unlocked, InodeRec
<1>5. PutRec(t).num = t.num /\ PutRec(t).count = t.count - 1  BY <1>3, <1>4 DEF InodeRec
<1>6. t.count >= 1 => PutRec(t) \in InodeRec  BY <1>1, <1>3, <1>4 DEF InodeRec
<1>7. PutRec(t) \in [num : {NoNum, Root} \cup Files, count : Int, lock : BOOLEAN,
                     want : BOOLEAN, dirty : BOOLEAN, mode : BOOLEAN, nlink : Int]
  BY <1>1, <1>3, <1>4 DEF InodeRec
<1> QED  BY <1>2, <1>3, <1>5, <1>6, <1>7

\* A change of mode, links and the dirty flag
LEMMA SetRec ==
  ASSUME NEW t \in InodeRec, NEW m \in BOOLEAN, NEW n \in Int, NEW d \in BOOLEAN
  PROVE  LET s == [t EXCEPT !.mode = m, !.nlink = n, !.dirty = d]
         IN s \in InodeRec /\ s.num = t.num /\ s.count = t.count
  BY DEF InodeRec

\* The variables of a process that is in no call, and has file f open
LEMMA IdleType ==
  ASSUME NEW f \in Slots \cup {NoSlot}
  PROVE  LET r == [Idle EXCEPT !.fd = f]
         IN /\ r \in Local /\ LocalOK(r)
            /\ r.pc = "idle" /\ r.op = "none" /\ r.ip = NoSlot /\ r.at = NoEntry /\ r.fd = f
<1> DEFINE r == [Idle EXCEPT !.fd = f]
<1>1. "idle" \in PCs  BY DEF PCs
<1>2. NoSlot \in 0..(NInode + 1)  BY Consts DEF NoSlot
<1>3. r \in Local  BY <1>1, <1>2 DEF Local, Idle
<1>4. r.pc = "idle" /\ r.op = "none" /\ r.ip = NoSlot /\ r.at = NoEntry /\ r.fd = f  BY DEF Idle
<1>5. LocalOK(r)
 <2> HIDE DEF r
 <2> QED  BY <1>4 DEF LocalOK, Making, IPutPCs, SyncPCs
<1> QED  BY <1>3, <1>4, <1>5

\* A slot that keeps its number and whose count is c
LEMMA Same ==
  ASSUME IndInv, NEW i \in Slots, NEW s, s.num = inode[i].num,
         s.count # 0 => inode[i].count # 0
  PROVE  Kept(i, s)
  BY Facts DEF Kept, RootInv, IndInv

\* p has the same references
LEMMA SameOwn ==
  ASSUME NEW r, NEW t, NEW i, r.fd = t.fd, r.ip = t.ip, r.op = t.op, r.at = t.at
  PROVE  Own(r, i) = Own(t, i) /\ Own(r, i) \in Nat
  BY DEF Own
-----------------------------------------------------------------------------
(* IGet.                                                                   *)

LEMMA IGetWaitStep ==
  ASSUME IndInv, NEW p \in Procs, IGetWait(p)
  PROVE  IndInv'
<1>1. PICK i \in IsLoaded(u[p].num) :
         /\ inode' = [inode EXCEPT ![i].want = TRUE]
         /\ SleepOn(p, LocalChan)
  BY DEF IGetWait
<1>2. i \in Slots  BY DEF IsLoaded
<1> DEFINE s == [inode[i] EXCEPT !.want = TRUE]
<1>3. inode' = [inode EXCEPT ![i] = s] /\ s \in InodeRec  BY <1>1, <1>2, Facts DEF InodeRec
<1>4. Kept(i, s) /\ Counted(i, s.count, p, u[p])
  BY <1>2, Facts DEF Kept, Counted, InodeRec, RootInv, Own
<1>5. u' = [u EXCEPT ![p] = u[p]] /\ u[p] \in Local /\ LocalOK(u[p])  BY <1>1, Facts DEF SleepOn
<1>6. TypeRest'  BY <1>1, Facts DEF IGetWait, SleepOn, TypeRest
<1> HIDE DEF s
<1> QED  BY <1>2, <1>3, <1>4, <1>5, <1>6, StepSlot

\* One reference more, of the process that gets the slot
LEMMA IGetHitStep ==
  ASSUME IndInv, NEW p \in Procs, IGetHit(p)
  PROVE  IndInv'
<1>1. PICK i \in IsLoaded(u[p].num) :
         /\ ~inode[i].lock
         /\ inode' = [inode EXCEPT ![i] = Hit(@)]
         /\ LET r == [u[p] EXCEPT !.pc = u[p].ret, !.ip = i]
            IN IF u[p].ret = "search" THEN GoSleepy(p, r) ELSE Go(p, r)
  BY DEF IGetHit
<1>2. i \in Slots /\ Matches(i, u[p].num) /\ u[p].pc = "iget"  BY DEF IsLoaded, IGetHit, At
<1> DEFINE s == Hit(inode[i])
           r == [u[p] EXCEPT !.pc = u[p].ret, !.ip = i]
<1>3. inode' = [inode EXCEPT ![i] = s] /\ s \in InodeRec
 <2>1. inode' = [inode EXCEPT ![i] = s]  BY <1>1, Zenon
 <2>2. inode[i] \in InodeRec  BY <1>2, Facts
 <2> QED  BY <2>1, <2>2, Recs
<1>4. r \in Local  BY <1>2, Facts DEF Local
<1>5. u[p].ip = NoSlot /\ u[p].op # "sync"  BY <1>2, Facts DEF LocalOK, SyncPCs
<1>6. LocalOK(r)
 <2>1. u[p].ret = "search" => i = Root  BY <1>2, Facts DEF LocalOK, Matches, RootInv
 <2>2. u[p].ret # "search" => i # Root  BY <1>2, Facts DEF LocalOK, Matches, RootInv
 <2> QED  BY <1>2, <2>1, <2>2, <1>4, <1>5, Facts DEF LocalOK, Local, Making, IPutPCs, SyncPCs
<1>7. /\ r.fd = u[p].fd /\ r.at = u[p].at /\ r.op = u[p].op /\ r.ip = i  BY Facts DEF Local
<1> HIDE DEF r
<1>8. \A j \in Slots \ {i} : Own(r, j) = Own(u[p], j)  BY <1>7, <1>5, <1>2, Facts DEF Own
<1>9. Own(r, i) = Own(u[p], i) + 1  BY <1>7, <1>5, <1>2, Facts DEF Own
<1>10. Kept(i, s) /\ Counted(i, s.count, p, r)
 <2>1. s.count = inode[i].count + 1 /\ s.num = inode[i].num  BY <1>2, Facts, Recs
 <2>2. Own(u[p], i) \in Nat /\ inode[i].count \in Nat  BY <1>2, Facts DEF Own, InodeRec
 <2> HIDE DEF s
 <2> QED  BY <1>2, <1>9, <2>1, <2>2, Facts DEF Kept, Counted, Matches, RootInv
<1>11. u' = [u EXCEPT ![p] = r]  BY <1>1 DEF Go, GoSleepy, r
<1>12. TypeRest'  BY <1>1, Facts DEF IGetHit, Go, GoSleepy, TypeRest
<1> HIDE DEF s
<1> QED  BY <1>2, <1>3, <1>4, <1>6, <1>8, <1>10, <1>11, <1>12, StepSlot
LEMMA IGetFullStep ==
  ASSUME IndInv, NEW p \in Procs, IGetFull(p)
  PROVE  IndInv'
<1> DEFINE r == IF u[p].op = "unlink" THEN Pc(p, "panic") ELSE [Idle EXCEPT !.fd = u[p].fd]
<1>1. u' = [u EXCEPT ![p] = r] /\ u[p].pc = "iget" /\ UNCHANGED inode
  BY DEF IGetFull, Go, Return, GoSleepy, At
<1>2. r \in Local  BY Facts DEF Local, Pc, Idle, PCs
<1>3. LocalOK(r)  BY <1>1, Facts DEF LocalOK, Pc, Idle, Local, Making, IPutPCs, SyncPCs
<1>4. r.fd = u[p].fd  BY Facts DEF Idle, Local, Pc
<1>5. r.ip = NoSlot /\ (r.at = u[p].at \/ r.at = NoEntry)
  BY <1>1, Facts DEF Idle, Local, Pc, LocalOK
<1>6. u[p].ip = NoSlot  BY <1>1, Facts DEF LocalOK
<1> HIDE DEF r
<1>7. \A j \in Slots : \/ Own(r, j) = Own(u[p], j)
                       \/ j = Root /\ Own(r, j) < Own(u[p], j)
  BY <1>4, <1>5, <1>6, Facts DEF Own
<1>8. TypeRest'  BY Facts DEF IGetFull, Go, Return, GoSleepy, TypeRest
<1> QED  BY <1>1, <1>2, <1>3, <1>7, <1>8, StepSame

\* The only step that takes a slot: no other slot has the inode, by NotLoaded.
LEMMA IGetClaimStep ==
  ASSUME IndInv, NEW p \in Procs, IGetClaim(p)
  PROVE  IndInv'
<1> DEFINE n == u[p].num
<1>1. PICK i \in FreeInode :
         /\ inode' = [inode EXCEPT ![i].num = n, ![i].lock = TRUE,
                                   ![i].want = FALSE, ![i].dirty = FALSE,
                                   ![i].count = @ + 1]
         /\ GoSleepy(p, [u[p] EXCEPT !.pc = "load", !.ip = i])
  BY DEF IGetClaim
<1> DEFINE r == [u[p] EXCEPT !.pc = "load", !.ip = i]
           s == [num |-> n, count |-> 1, lock |-> TRUE, want |-> FALSE, dirty |-> FALSE,
                 mode |-> inode[i].mode, nlink |-> inode[i].nlink]
<1>2. i \in Slots /\ inode[i].count = 0 /\ u[p].pc = "iget" /\ IsLoaded(n) = {}
  BY DEF FreeInode, IGetClaim, At
<1>3. \A j \in Slots : ~Matches(j, n)  BY <1>2, NotLoaded, Zenon
<1>4. i # Root  BY <1>2, Counts
<1>5. u[p].ip = NoSlot /\ u[p].ret \in {"file", "new"} /\ n \notin {0, Root}
 <2>1. u[p].ip = NoSlot /\ \/ u[p].ret = "search" /\ n = Root
                           \/ u[p].ret \in {"file", "new"} /\ n \notin {0, Root}
   BY <1>2, Facts DEF LocalOK
 <2>2. inode[Root].num = Root /\ inode[Root].count # 0  BY Facts, Counts DEF RootInv
 <2>3. n # Root  BY <2>2, <1>3, Facts DEF Matches
 <2> QED  BY <2>1, <2>3
<1>6. s \in InodeRec
 <2>1. inode[i].mode \in BOOLEAN /\ inode[i].nlink \in Int  BY <1>2, Facts DEF InodeRec
 <2>2. n \in {NoNum, Root} \cup Files  BY <1>5, Facts
 <2> QED  BY <2>1, <2>2 DEF InodeRec
<1>7. inode' = [inode EXCEPT ![i] = s]  BY <1>1, <1>2, Facts DEF InodeRec
<1>8. r \in Local
 <2>1. "load" \in PCs  BY DEF PCs
 <2> QED  BY <1>2, <2>1, Facts DEF Local
<1>10. r.fd = u[p].fd /\ r.at = u[p].at /\ r.op = u[p].op /\ r.ip = i /\ u[p].op # "sync"
  BY <1>2, Facts DEF Local, LocalOK, SyncPCs
<1>9. LocalOK(r)
 <2>1. r.pc = "load" /\ r.ret = u[p].ret /\ r.num = n  BY Facts DEF Local
 <2> HIDE DEF r, n
 <2>2. n = u[p].num  BY DEF n
 <2> QED  BY <1>2, <1>4, <1>5, <1>10, <2>1, <2>2, Facts DEF LocalOK, Making, IPutPCs, SyncPCs
<1>11. u' = [u EXCEPT ![p] = r] /\ u' \in [Procs -> Local] /\ inode' \in [Slots -> InodeRec]
  BY <1>1, <1>6, <1>7, <1>8, Facts DEF GoSleepy
<1>12. TypeRest'  BY <1>1, Facts DEF IGetClaim, GoSleepy, TypeRest
<1>13. \A j \in Slots \ {i} : inode'[j] = inode[j]  BY <1>7, Facts
<1>14. inode'[i].num = n /\ inode'[i].count = 1  BY <1>2, <1>7, Facts
<1>15. LocalInv'  BY <1>9, <1>11 DEF IndInv, LocalInv, LocalOK, Making
<1> HIDE DEF r, s, n
<1>16. RootInv'  BY <1>4, <1>5, <1>13, <1>14, Facts DEF RootInv
<1>17. OneEntryPerInode'  BY <1>2, <1>3, <1>13, <1>14 DEF OneEntryPerInode, IndInv, Matches
<1>18. CountExact'
 <2> SUFFICES ASSUME NEW j \in Slots
              PROVE  inode'[j].count = Refs(j)' \/ (j = Root /\ inode'[j].count > Refs(j)')
   BY DEF CountExact
 <2>1. Refs(j)' = Refs(j) + Own(r, j) - Own(u[p], j) /\ Refs(j) \in Nat  BY <1>11, Facts, RefsStep
 <2>2. inode[j].count = Refs(j) \/ (j = Root /\ inode[j].count > Refs(j))  BY DEF CountExact, IndInv
 <2>3. CASE j = i
  <3>1. Own(r, j) = Own(u[p], j) + 1 /\ Own(u[p], j) \in Nat
    BY <2>3, <1>4, <1>5, <1>10, Facts DEF Own
  <3> QED  BY <1>2, <1>4, <1>14, <2>1, <2>2, <2>3, <3>1
 <2>4. CASE j # i
  <3>1. Own(r, j) = Own(u[p], j) /\ Own(u[p], j) \in Nat  BY <2>4, <1>5, <1>10, Facts DEF Own
  <3> QED  BY <1>13, <2>1, <2>2, <2>4, <3>1
 <2> QED  BY <2>3, <2>4
<1>19. TypeOK'
 <2>1. (inode \in [Slots -> InodeRec] /\ u \in [Procs -> Local] /\ TypeRest)'
   BY <1>11, <1>12, Zenon DEF InodeRec, Local
 <2> QED  BY <2>1, TypeParts, PTL
<1> QED  BY <1>15, <1>16, <1>17, <1>18, <1>19 DEF IndInv

LEMMA IGetLoadStep ==
  ASSUME IndInv, NEW p \in Procs, IGetLoad(p)
  PROVE  IndInv'
<1> DEFINE r == Pc(p, u[p].ret)
           i == u[p].ip
<1>1. u' = [u EXCEPT ![p] = r] /\ u[p].pc = "load"  BY DEF IGetLoad, Go, At
<1>2. i \in Slots \ {Root} /\ u[p].ret \in {"file", "new"} /\ u[p].num \notin {0, Root}
  BY <1>1, Facts DEF LocalOK
<1>3. r \in Local  BY Facts DEF Local, Pc
<1>4. LocalOK(r)  BY <1>1, <1>2, Facts DEF LocalOK, Local, Pc, Making, IPutPCs, SyncPCs
<1>5. r.fd = u[p].fd /\ r.at = u[p].at /\ r.op = u[p].op /\ r.ip = u[p].ip  BY Facts DEF Local, Pc
<1>6. TypeRest'  BY Facts DEF IGetLoad, Go, TypeRest
<1>7. \A j : Own(r, j) = Own(u[p], j) /\ Own(r, j) \in Nat  BY <1>5, SameOwn
<1>8. CASE u[p].num = NoNum
 <2>1. UNCHANGED inode  BY <1>8 DEF IGetLoad
 <2> HIDE DEF r
 <2> QED  BY <2>1, <1>1, <1>3, <1>4, <1>6, <1>7, StepSame
<1>9. CASE u[p].num # NoNum
 <2> DEFINE d == disk[u[p].num]
            s == [inode[i] EXCEPT !.mode = d.mode, !.nlink = d.nlink]
 <2>1. d.mode \in BOOLEAN /\ d.nlink \in Int  BY <1>2, <1>9, Facts DEF TypeRest
 <2>2. inode' = [inode EXCEPT ![i] = s] /\ s \in InodeRec
  <3> HIDE DEF d
  <3>1. inode' = [inode EXCEPT ![i].mode = d.mode, ![i].nlink = d.nlink]  BY <1>9 DEF IGetLoad, d
  <3>2. inode' = [inode EXCEPT ![i] = s]  BY <1>2, <3>1, Facts
  <3>3. inode[i] \in InodeRec  BY <1>2, Facts
  <3> HIDE DEF i
  <3>4. s \in InodeRec  BY <2>1, <3>3 DEF InodeRec
  <3> QED  BY <3>2, <3>4
 <2>3. s.num = inode[i].num /\ s.count = inode[i].count /\ inode[i].count \in Nat
   BY <1>2, Facts DEF InodeRec
 <2> HIDE DEF d, s, r
 <2>4. Kept(i, s) /\ Counted(i, s.count, p, r)  BY <1>2, <2>3, <1>7, Same DEF Counted
 <2> HIDE DEF i
 <2>5. i \in Slots /\ u' = [u EXCEPT ![p] = r]  BY <1>1, <1>2
 <2>6. \A j \in Slots \ {i} : \/ Own(r, j) = Own(u[p], j)
                              \/ j = Root /\ Own(r, j) < Own(u[p], j)
   BY <1>7
 <2> QED  BY <1>3, <1>4, <1>6, <2>2, <2>4, <2>5, <2>6, StepSlot
<1> QED  BY <1>8, <1>9
-----------------------------------------------------------------------------
(* IPut.                                                                   *)

\* A step that leaves the number and the count of slot i
LEMMA StepKeep ==
  ASSUME IndInv, NEW p \in Procs, NEW r \in Local, LocalOK(r),
         u' = [u EXCEPT ![p] = r], TypeRest',
         NEW i \in Slots, NEW s \in InodeRec, inode' = [inode EXCEPT ![i] = s],
         s.num = inode[i].num, s.count = inode[i].count,
         \A j \in Slots : \/ Own(r, j) = Own(u[p], j)
                          \/ j = Root /\ Own(r, j) < Own(u[p], j)
  PROVE  IndInv'
<1>1. Kept(i, s)  BY Same
<1>2. Own(r, i) \in Nat /\ Own(u[p], i) \in Nat /\ inode[i].count \in Nat  BY Counts DEF Own
<1>3. Counted(i, s.count, p, r)  BY <1>2 DEF Counted
<1> QED  BY <1>1, <1>3, StepSlot

\* A step that gives back p's reference to slot i
LEMMA StepPut ==
  ASSUME IndInv, NEW p \in Procs, NEW r \in Local, LocalOK(r),
         u' = [u EXCEPT ![p] = r], TypeRest',
         NEW i \in Slots, NEW s \in InodeRec, inode' = [inode EXCEPT ![i] = s],
         Kept(i, s), s.count = inode[i].count - 1,
         u[p].ip = i, u[p].op # "sync",
         r.fd = u[p].fd, r.ip = NoSlot, r.at \in {u[p].at, NoEntry}
  PROVE  IndInv'
<1>1. Own(r, i) \in Nat /\ Own(u[p], i) \in Nat /\ inode[i].count \in Nat  BY Counts DEF Own
<1>2. \/ Own(r, i) = Own(u[p], i) - 1
      \/ i = Root /\ Own(r, i) < Own(u[p], i) - 1
  BY Facts DEF Own
<1>3. Counted(i, s.count, p, r)  BY <1>1, <1>2 DEF Counted
<1>4. \A j \in Slots \ {i} : \/ Own(r, j) = Own(u[p], j)
                             \/ j = Root /\ Own(r, j) < Own(u[p], j)
  BY Facts DEF Own
<1> QED  BY <1>3, <1>4, StepSlot

\* After IPut
LEMMA AfterPutRec ==
  ASSUME IndInv, NEW p \in Procs, u[p].pc \in IPutPCs, AfterPut(p)
  PROVE  /\ cpu' \in {p, NoProc}
         /\ \E r \in Local : /\ LocalOK(r) /\ u' = [u EXCEPT ![p] = r]
                             /\ r.fd = u[p].fd /\ r.ip = NoSlot
                             /\ r.at \in {u[p].at, NoEntry}
<1>1. cpu' \in {p, NoProc}  BY DEF AfterPut, Return, Go, GoSleepy
<1> DEFINE r == IF u[p].ret = "idle" THEN [Idle EXCEPT !.fd = u[p].fd]
                ELSE [u[p] EXCEPT !.pc = u[p].ret, !.ip = NoSlot]
<1>2. u' = [u EXCEPT ![p] = r]  BY DEF AfterPut, Return, Go, GoSleepy
<1>3. r \in Local
 <2>1. [Idle EXCEPT !.fd = u[p].fd] \in Local  BY Facts, IdleType
 <2>2. [u[p] EXCEPT !.pc = u[p].ret, !.ip = NoSlot] \in Local  BY Facts DEF Local
 <2> QED  BY <2>1, <2>2
<1>4. r.fd = u[p].fd /\ r.ip = NoSlot /\ r.at \in {u[p].at, NoEntry}  BY Facts DEF Local, Idle
<1>5. LocalOK(r)
 <2>1. CASE u[p].ret = "idle"
  <3>1. /\ r.pc = "idle" /\ r.op = "none" /\ r.ip = NoSlot /\ r.at = NoEntry  BY <2>1 DEF Idle
  <3> HIDE DEF r
  <3> QED  BY <3>1 DEF LocalOK, Making, IPutPCs, SyncPCs
 <2>2. CASE u[p].ret # "idle"
  <3>1. u[p].ret = "pop" /\ Making(u[p])  BY <2>2, Facts DEF LocalOK, Making
  <3>2. r.pc = "pop" /\ r.op = u[p].op /\ r.at = u[p].at /\ r.ret = "pop"
    BY <2>2, <3>1, Facts DEF Local
  <3>3. u[p].op = "creat" /\ u[p].at # NoEntry /\ u[p].fd = NoSlot  BY <3>1, Facts DEF LocalOK
  <3> HIDE DEF r
  <3> QED  BY <1>4, <3>2, <3>3 DEF LocalOK, Making, IPutPCs, SyncPCs
 <2> QED  BY <2>1, <2>2
<1> HIDE DEF r
<1> QED  BY <1>1, <1>2, <1>3, <1>4, <1>5

LEMMA IPutSharedStep ==
  ASSUME IndInv, NEW p \in Procs, IPutShared(p)
  PROVE  IndInv'
<1> DEFINE i == u[p].ip
<1>1. /\ u[p].pc = "iput" /\ inode' = [inode EXCEPT ![i] = PutRec(@)]
      /\ PreleWakes(i) /\ AfterPut(p)
  BY DEF IPutShared, At
<1>2. i \in Slots /\ u[p].op # "sync"  BY <1>1, Facts DEF LocalOK, SyncPCs
<1>3. PICK r \in Local : /\ LocalOK(r) /\ u' = [u EXCEPT ![p] = r]
                         /\ r.fd = u[p].fd /\ r.ip = NoSlot
                         /\ r.at \in {u[p].at, NoEntry}
  BY <1>1, AfterPutRec DEF IPutPCs
<1>4. TypeRest'
 <2>1. chan' \in [Procs -> Slots \cup {Awake, LocalChan, ILockChan}]  BY <1>1, Facts, Wakes
 <2>2. cpu' \in {p, NoProc}  BY <1>1, AfterPutRec DEF IPutPCs
 <2> QED  BY <2>1, <2>2, Facts DEF IPutShared, TypeRest
<1> DEFINE s == PutRec(inode[i])
<1>5. inode[i] \in InodeRec /\ inode[i].count >= 1
 <2>1. Own(u[p], i) >= 1  BY <1>2 DEF Own
 <2>2. inode[i].count >= Own(u[p], i) /\ inode[i].count \in Nat  BY <1>2, Counts
 <2>3. Own(u[p], i) \in Nat  BY DEF Own
 <2> QED  BY <2>1, <2>2, <2>3, <1>2, Facts
<1>6. s \in InodeRec /\ s.num = inode[i].num /\ s.count = inode[i].count - 1  BY <1>5, Recs
<1>7. inode' = [inode EXCEPT ![i] = s]  BY <1>1, Zenon
<1> HIDE DEF s
<1>8. Kept(i, s)  BY <1>2, <1>5, <1>6, Same
<1>9. i = u[p].ip  OBVIOUS
<1> HIDE DEF i
<1> QED  BY <1>2, <1>3, <1>4, <1>6, <1>7, <1>8, <1>9, StepPut

\* The slot is not the directory's, whose count is at least 2.
LEMMA IPutLastStep ==
  ASSUME IndInv, NEW p \in Procs, IPutLast(p)
  PROVE  IndInv'
<1> DEFINE i == u[p].ip
           r == IF inode[i].nlink <= 0 THEN Pc(p, "itrunc") ELSE Pc(p, "iupdate")
           s == [inode[i] EXCEPT !.lock = TRUE]
<1>1. /\ u[p].pc = "iput" /\ inode' = [inode EXCEPT ![i] = s]
      /\ u' = [u EXCEPT ![p] = r] /\ inode[i].count = 1
  BY DEF IPutLast, At, LastRef, Go, GoSleepy
<1>2. i \in Slots /\ i # Root  BY <1>1, Facts, Counts DEF LocalOK
<1>3. r \in Local  BY Facts DEF Local, Pc, PCs
<1>4. /\ r.pc \in {"itrunc", "iupdate"} /\ r.fd = u[p].fd /\ r.ip = u[p].ip
      /\ r.op = u[p].op /\ r.at = u[p].at /\ r.ret = u[p].ret
  BY Facts DEF Local, Pc
<1>5. s \in InodeRec /\ s.num = inode[i].num /\ s.count = inode[i].count
  BY <1>2, Facts DEF InodeRec
<1>6. i = u[p].ip  OBVIOUS
<1> HIDE DEF r, s, i
<1>7. LocalOK(r)  BY <1>1, <1>2, <1>4, <1>6, Facts DEF LocalOK, Making, IPutPCs, SyncPCs
<1>8. TypeRest'  BY Facts DEF IPutLast, Go, GoSleepy, TypeRest
<1>9. \A j \in Slots : Own(r, j) = Own(u[p], j)  BY <1>4, SameOwn
<1>10. i \in Slots /\ u' = [u EXCEPT ![p] = r] /\ inode' = [inode EXCEPT ![i] = s]  BY <1>1, <1>2
<1> QED  BY <1>3, <1>5, <1>7, <1>8, <1>9, <1>10, StepKeep

LEMMA IPutFreeStep ==
  ASSUME IndInv, NEW p \in Procs, IPutFree(p)
  PROVE  IndInv'
<1> DEFINE i == u[p].ip
           r == Pc(p, "iupdate")
           s == [inode[i] EXCEPT !.mode = FALSE, !.nlink = 1, !.dirty = TRUE]
<1>1. /\ u[p].pc = "itrunc"
      /\ u' = [u EXCEPT ![p] = r]
      /\ inode' = [inode EXCEPT ![i].mode = FALSE, ![i].nlink = 1, ![i].dirty = TRUE]
      /\ IFree(inode[i].num)
  BY DEF IPutFree, At, Go
<1>2. i \in Slots /\ i # Root  BY <1>1, Facts DEF LocalOK, IPutPCs
<1>3. r \in Local  BY Facts DEF Local, Pc, PCs
<1>4. /\ r.pc = "iupdate" /\ r.fd = u[p].fd /\ r.ip = u[p].ip
      /\ r.op = u[p].op /\ r.at = u[p].at /\ r.ret = u[p].ret
  BY Facts DEF Local, Pc
<1>5. s \in InodeRec /\ s.num = inode[i].num /\ s.count = inode[i].count
 <2>1. inode[i] \in InodeRec /\ FALSE \in BOOLEAN /\ TRUE \in BOOLEAN /\ 1 \in Int  BY <1>2, Facts
 <2> QED  BY <2>1, SetRec, Zenon
<1>6. inode' = [inode EXCEPT ![i] = s]  BY <1>1, <1>2, Facts
<1>7. i = u[p].ip  OBVIOUS
<1> HIDE DEF r, s, i
<1>8. LocalOK(r)  BY <1>1, <1>2, <1>4, <1>7, Facts DEF LocalOK, Making, IPutPCs, SyncPCs
<1>9. TypeRest'
 <2>1. stk' \in Seq({NoNum} \cup Files) /\ Len(stk') <= Cap
  <3>1. inode[i].num \in {NoNum} \cup Files  BY <1>2, Facts DEF RootInv, InodeRec
  <3>2. stk \in Seq({NoNum} \cup Files) /\ Len(stk) <= Cap  BY Facts DEF TypeRest
  <3> QED  BY <1>1, <3>1, <3>2, Consts DEF IFree, StackFull
 <2> QED  BY <2>1, Facts DEF IPutFree, Go, TypeRest
<1>10. \A j \in Slots : Own(r, j) = Own(u[p], j)  BY <1>4, SameOwn
<1>11. i \in Slots /\ u' = [u EXCEPT ![p] = r]  BY <1>1, <1>2
<1> QED  BY <1>3, <1>5, <1>6, <1>8, <1>9, <1>10, <1>11, StepKeep

LEMMA IUpdateStep ==
  ASSUME IndInv, NEW p \in Procs, IUpdate(p)
  PROVE  IndInv'
<1> DEFINE r == IF inode[u[p].ip].dirty THEN Pc(p, "iwrite") ELSE Pc(p, "iputend")
<1>1. u[p].pc = "iupdate" /\ u' = [u EXCEPT ![p] = r] /\ UNCHANGED inode
  BY DEF IUpdate, At, Go, GoSleepy
<1>2. r \in Local  BY Facts DEF Local, Pc, PCs
<1>3. /\ r.pc \in {"iwrite", "iputend"} /\ r.fd = u[p].fd /\ r.ip = u[p].ip
      /\ r.op = u[p].op /\ r.at = u[p].at /\ r.ret = u[p].ret
  BY Facts DEF Local, Pc
<1> HIDE DEF r
<1>4. LocalOK(r)  BY <1>1, <1>3, Facts DEF LocalOK, Making, IPutPCs, SyncPCs
<1>5. TypeRest'  BY Facts DEF IUpdate, Go, GoSleepy, TypeRest
<1>6. \A j \in Slots : Own(r, j) = Own(u[p], j)  BY <1>3, SameOwn
<1> QED  BY <1>1, <1>2, <1>4, <1>5, <1>6, StepSame

\* The disk's type after an inode is written
LEMMA CopiedType ==
  ASSUME IndInv, NEW i \in Slots, Copied(i)
  PROVE  /\ disk' \in [{Root} \cup Files -> [mode : BOOLEAN, nlink : Int]]
         /\ wild' \in BOOLEAN
<1>1. /\ inode[i].num \in {NoNum, Root} \cup Files
      /\ inode[i].mode \in BOOLEAN /\ inode[i].nlink \in Int
  BY TypeParts DEF IndInv, InodeRec
<1>2. disk \in [{Root} \cup Files -> [mode : BOOLEAN, nlink : Int]]
  BY TypeParts DEF IndInv, TypeRest
<1> QED  BY <1>1, <1>2 DEF Copied

LEMMA IUpdateWriteStep ==
  ASSUME IndInv, NEW p \in Procs, IUpdateWrite(p)
  PROVE  IndInv'
<1> DEFINE r == Pc(p, "iputend")
<1>1. u[p].pc = "iwrite" /\ u' = [u EXCEPT ![p] = r] /\ UNCHANGED inode /\ Copied(u[p].ip)
  BY DEF IUpdateWrite, At, GoSleepy
<1>2. r \in Local  BY Facts DEF Local, Pc, PCs
<1>3. /\ r.pc = "iputend" /\ r.fd = u[p].fd /\ r.ip = u[p].ip
      /\ r.op = u[p].op /\ r.at = u[p].at /\ r.ret = u[p].ret
  BY Facts DEF Local, Pc
<1> HIDE DEF r
<1>4. LocalOK(r)  BY <1>1, <1>3, Facts DEF LocalOK, Making, IPutPCs, SyncPCs
<1>5. TypeRest'
 <2>1. u[p].ip \in Slots  BY <1>1, Facts DEF LocalOK, IPutPCs
 <2>2. /\ disk' \in [{Root} \cup Files -> [mode : BOOLEAN, nlink : Int]]
       /\ wild' \in BOOLEAN
   BY <1>1, <2>1, CopiedType
 <2> QED  BY <2>2, Facts DEF IUpdateWrite, GoSleepy, TypeRest
<1>6. \A j \in Slots : Own(r, j) = Own(u[p], j)  BY <1>3, SameOwn
<1> QED  BY <1>1, <1>2, <1>4, <1>5, <1>6, StepSame

LEMMA IPutEndStep ==
  ASSUME IndInv, NEW p \in Procs, IPutEnd(p)
  PROVE  IndInv'
<1> DEFINE i == u[p].ip
           s == [PutRec(inode[i]) EXCEPT !.num = NoNum, !.dirty = FALSE]
<1>1. /\ u[p].pc = "iputend"
      /\ inode' = [inode EXCEPT ![i] = s]
      /\ PreleWakes(i) /\ AfterPut(p)
  BY DEF IPutEnd, At
<1>2. i \in Slots /\ i # Root /\ u[p].op # "sync"  BY <1>1, Facts DEF LocalOK, SyncPCs, IPutPCs
<1>3. PICK r \in Local : /\ LocalOK(r) /\ u' = [u EXCEPT ![p] = r]
                         /\ r.fd = u[p].fd /\ r.ip = NoSlot
                         /\ r.at \in {u[p].at, NoEntry}
  BY <1>1, AfterPutRec DEF IPutPCs
<1>4. TypeRest'
 <2>1. chan' \in [Procs -> Slots \cup {Awake, LocalChan, ILockChan}]  BY <1>1, Facts, Wakes
 <2>2. cpu' \in {p, NoProc}  BY <1>1, AfterPutRec DEF IPutPCs
 <2> QED  BY <2>1, <2>2, Facts DEF IPutEnd, TypeRest
<1>5. inode[i] \in InodeRec /\ inode[i].count >= 1
 <2>1. Own(u[p], i) >= 1  BY <1>2 DEF Own
 <2>2. inode[i].count >= Own(u[p], i) /\ inode[i].count \in Nat  BY <1>2, Counts
 <2>3. Own(u[p], i) \in Nat  BY DEF Own
 <2> QED  BY <2>1, <2>2, <2>3, <1>2, Facts
<1>6. s \in InodeRec /\ s.num = NoNum /\ s.count = inode[i].count - 1
 <2> DEFINE t == PutRec(inode[i])
 <2>1. t \in InodeRec /\ t.count = inode[i].count - 1  BY <1>5, Recs
 <2> HIDE DEF t
 <2>2. s = [t EXCEPT !.num = NoNum, !.dirty = FALSE]  BY DEF t
 <2> HIDE DEF s
 <2> QED  BY <2>1, <2>2 DEF InodeRec
<1>7. i = u[p].ip  OBVIOUS
<1> HIDE DEF s, i
<1>8. Kept(i, s)  BY <1>2, <1>5, <1>6 DEF Kept
<1> QED  BY <1>1, <1>2, <1>3, <1>4, <1>6, <1>7, <1>8, StepPut
-----------------------------------------------------------------------------
(* NameI, and the calls.                                                   *)

LEMMA CallNameStep ==
  ASSUME IndInv, NEW p \in Procs, CallName(p)
  PROVE  IndInv'
<1>1. PICK o \in Calls, n \in Names :
         /\ o \in {"open", "creat"} => u[p].fd = NoSlot
         /\ u' = [u EXCEPT ![p] = [u[p] EXCEPT !.pc = "iget", !.op = o, !.name = n,
                                               !.num = Root, !.ret = "search"]]
  BY DEF CallName, Go
<1> DEFINE r == [u[p] EXCEPT !.pc = "iget", !.op = o, !.name = n, !.num = Root,
                             !.ret = "search"]
<1>2. u[p].pc = "idle" /\ UNCHANGED inode  BY DEF CallName, At
<1>3. u[p].op = "none" /\ u[p].ip = NoSlot /\ u[p].at = NoEntry  BY <1>2, Facts DEF LocalOK
<1>4. r \in Local
 <2>1. "iget" \in PCs /\ "search" \in PCs  BY DEF PCs
 <2> QED  BY <2>1, Facts DEF Local
<1>5. /\ r.pc = "iget" /\ r.op = o /\ r.num = Root /\ r.ret = "search"
      /\ r.fd = u[p].fd /\ r.ip = u[p].ip /\ r.at = u[p].at
  BY Facts DEF Local
<1>6. u' = [u EXCEPT ![p] = r]  BY <1>1
<1> HIDE DEF r
<1>7. LocalOK(r)
 <2>1. /\ o \in {"open", "creat", "unlink", "chmod", "stat"}
       /\ o \in {"open", "creat"} => u[p].fd = NoSlot
   BY <1>1 DEF Calls
 <2> QED  BY <2>1, <1>3, <1>5, Facts DEF LocalOK, Making, IPutPCs, SyncPCs
<1>8. TypeRest'
 <2>1. calls' \in 0..MaxCalls  BY Facts, Consts DEF CallName, TypeRest
 <2> QED  BY <2>1, Facts DEF CallName, Go, TypeRest
<1>9. \A j \in Slots : Own(r, j) = Own(u[p], j)  BY <1>3, <1>5, Facts DEF Own
<1> QED  BY <1>2, <1>4, <1>6, <1>7, <1>8, <1>9, StepSame

LEMMA NameFoundStep ==
  ASSUME IndInv, NEW p \in Procs, NameFound(p)
  PROVE  IndInv'
<1> DEFINE s == IF u[p].op = "unlink" THEN Unlocked(inode[Root]) ELSE PutRec(inode[Root])
<1>1. PICK e \in Named(u[p].name) :
         /\ inode' = [inode EXCEPT ![Root] = s]
         /\ u' = [u EXCEPT ![p] =
                    [u[p] EXCEPT !.pc = "iget", !.num = dir[e].ino, !.ret = "file",
                                 !.ip = NoSlot,
                                 !.at = IF u[p].op = "unlink" THEN e ELSE NoEntry]]
         /\ cpu' = p
  BY DEF NameFound, Go
<1> DEFINE a == IF u[p].op = "unlink" THEN e ELSE NoEntry
           r == [u[p] EXCEPT !.pc = "iget", !.num = dir[e].ino, !.ret = "file",
                             !.ip = NoSlot, !.at = a]
<1>2. u[p].pc = "search" /\ e \in Entries /\ dir[e].ino # 0  BY DEF NameFound, At, Named
<1>3. u[p].ip = Root /\ u[p].op # "sync"  BY <1>2, Facts DEF LocalOK, SyncPCs
<1>4. dir[e].ino \in {NoNum} \cup Files /\ dir[e].ino \notin {0, Root}
 <2>1. dir[e] \in [name : Names \cup {NoName}, ino : {NoNum, 0} \cup Files]
   BY <1>2, Facts DEF TypeRest
 <2>2. NoNum # Root  BY DEF NoNum, Root
 <2> QED  BY <1>2, <2>1, <2>2, Consts
<1>5. a \in Entries \cup {NoEntry} /\ (u[p].op = "unlink" => a # NoEntry)
      /\ (u[p].op # "unlink" => a = NoEntry)
  BY <1>2, Consts
<1> HIDE DEF a
<1>6. r \in Local
 <2>1. "iget" \in PCs /\ "file" \in PCs  BY DEF PCs
 <2> QED  BY <2>1, <1>4, <1>5, Facts DEF Local
<1>7. /\ r.pc = "iget" /\ r.op = u[p].op /\ r.num = dir[e].ino /\ r.ret = "file"
      /\ r.fd = u[p].fd /\ r.ip = NoSlot /\ r.at = a
  BY Facts DEF Local
<1>8. u' = [u EXCEPT ![p] = r] /\ cpu' = p  BY <1>1 DEF a
<1> HIDE DEF r
<1>9. LocalOK(r)  BY <1>2, <1>3, <1>4, <1>5, <1>7, Facts DEF LocalOK, Making, IPutPCs, SyncPCs
<1>10. TypeRest'
 <2>1. PreleWakes(Root)  BY DEF NameFound
 <2>2. chan' \in [Procs -> Slots \cup {Awake, LocalChan, ILockChan}]  BY <2>1, Facts, Wakes
 <2> QED  BY <1>8, <2>2, Facts DEF NameFound, TypeRest
<1>11. inode[Root] \in InodeRec /\ inode[Root].count >= 2 /\ inode[Root].count \in Nat
  BY Facts, Counts
<1>12. CASE u[p].op = "unlink"
 <2>1. s \in InodeRec /\ s.num = inode[Root].num /\ s.count = inode[Root].count
   BY <1>11, <1>12, Recs
 <2>2. inode' = [inode EXCEPT ![Root] = s]  BY <1>1
 <2> HIDE DEF s
 <2>3. \A j \in Slots : \/ Own(r, j) = Own(u[p], j)
                        \/ j = Root /\ Own(r, j) < Own(u[p], j)
   BY <1>3, <1>7, Facts DEF Own
 <2>4. Root \in Slots /\ u' = [u EXCEPT ![p] = r]  BY <1>8, Facts
 <2> QED  BY <1>6, <1>9, <1>10, <2>1, <2>2, <2>3, <2>4, StepKeep
<1>13. CASE u[p].op # "unlink"
 <2>1. s \in InodeRec /\ s.num = inode[Root].num /\ s.count = inode[Root].count - 1
   BY <1>11, <1>13, Recs
 <2>2. inode' = [inode EXCEPT ![Root] = s]  BY <1>1
 <2> HIDE DEF s
 <2>3. Kept(Root, s)  BY <1>11, <2>1, Facts, Same
 <2>4. Root \in Slots /\ u' = [u EXCEPT ![p] = r] /\ r.at \in {u[p].at, NoEntry}
       /\ r.fd = u[p].fd /\ r.ip = NoSlot
   BY <1>5, <1>7, <1>8, <1>13, Facts
 <2> QED  BY <1>3, <1>6, <1>9, <1>10, <2>1, <2>2, <2>3, <2>4, StepPut
<1> QED  BY <1>12, <1>13

\* p goes on to IPut of the inode it has
LEMMA PutSame ==
  ASSUME IndInv, NEW p \in Procs, u[p].ip \in Slots, NEW l, l \in {"idle", "pop"},
         u[p].op # "sync", l = "pop" => u[p].op = "creat" /\ u[p].at # NoEntry
  PROVE  LET r == [u[p] EXCEPT !.pc = "iput", !.ip = u[p].ip, !.ret = l]
         IN  /\ r \in Local /\ LocalOK(r) /\ \A j \in Slots : Own(r, j) = Own(u[p], j)
<1> DEFINE r == [u[p] EXCEPT !.pc = "iput", !.ip = u[p].ip, !.ret = l]
<1>1. r \in Local
 <2>1. "iput" \in PCs /\ l \in PCs  BY DEF PCs
 <2> QED  BY <2>1, Facts DEF Local
<1>2. /\ r.pc = "iput" /\ r.op = u[p].op /\ r.ret = l
      /\ r.fd = u[p].fd /\ r.ip = u[p].ip /\ r.at = u[p].at
  BY Facts DEF Local
<1> HIDE DEF r
<1>3. LocalOK(r)  BY <1>2, Facts DEF LocalOK, Making, IPutPCs, SyncPCs
<1>4. \A j \in Slots : Own(r, j) = Own(u[p], j)  BY <1>2, SameOwn
<1> QED  BY <1>1, <1>3, <1>4 DEF r

\* ... and does nothing else
LEMMA PutSameStep ==
  ASSUME IndInv, NEW p \in Procs, u[p].ip \in Slots, NEW l, l \in {"idle", "pop"},
         u[p].op # "sync", l = "pop" => u[p].op = "creat" /\ u[p].at # NoEntry,
         Put(p, u[p].ip, l),
         UNCHANGED <<inode, disk, dir, stk, ilock, chan, updlock, wild, calls, syncs>>
  PROVE  IndInv'
<1> DEFINE r == [u[p] EXCEPT !.pc = "iput", !.ip = u[p].ip, !.ret = l]
<1>1. r \in Local /\ LocalOK(r) /\ \A j \in Slots : Own(r, j) = Own(u[p], j)  BY PutSame, Zenon
<1>2. u' = [u EXCEPT ![p] = r] /\ UNCHANGED inode  BY DEF Put, Go
<1>3. TypeRest'  BY Facts DEF Put, Go, TypeRest
<1> HIDE DEF r
<1> QED  BY <1>1, <1>2, <1>3, StepSame

LEMMA NameMissingStep ==
  ASSUME IndInv, NEW p \in Procs, NameMissing(p)
  PROVE  IndInv'
<1>1. /\ u[p].pc = "search" /\ Put(p, u[p].ip, "idle")
      /\ UNCHANGED <<inode, disk, dir, stk, ilock, chan, updlock, wild, calls, syncs>>
  BY DEF NameMissing, At
<1>2. u[p].ip \in Slots /\ u[p].op # "sync"  BY <1>1, Facts DEF LocalOK, SyncPCs
<1> QED  BY <1>1, <1>2, PutSameStep

LEMMA NameNewStep ==
  ASSUME IndInv, NEW p \in Procs, NameNew(p)
  PROVE  IndInv'
<1>1. PICK e \in FirstFree : Go(p, [u[p] EXCEPT !.pc = "ialloc", !.at = e, !.ip = NoSlot])
  BY DEF NameNew
<1> DEFINE r == [u[p] EXCEPT !.pc = "ialloc", !.at = e, !.ip = NoSlot]
<1>2. /\ u[p].pc = "search" /\ u[p].op = "creat" /\ e \in Entries /\ e # NoEntry
      /\ UNCHANGED inode
  BY Consts DEF NameNew, At, FirstFree
<1>3. u[p].ip = Root  BY <1>2, Facts DEF LocalOK
<1>4. r \in Local
 <2>1. "ialloc" \in PCs  BY DEF PCs
 <2> QED  BY <1>2, <2>1, Facts DEF Local
<1>5. /\ r.pc = "ialloc" /\ r.op = u[p].op /\ r.ret = u[p].ret
      /\ r.fd = u[p].fd /\ r.ip = NoSlot /\ r.at = e
  BY Facts DEF Local
<1>6. u' = [u EXCEPT ![p] = r] /\ cpu' = p  BY <1>1 DEF Go
<1> HIDE DEF r
<1>7. LocalOK(r)  BY <1>2, <1>5, Facts DEF LocalOK, Making, IPutPCs, SyncPCs
<1>8. TypeRest'  BY <1>6, Facts DEF NameNew, TypeRest
<1>9. \A j \in Slots : \/ Own(r, j) = Own(u[p], j)
                       \/ j = Root /\ Own(r, j) < Own(u[p], j)
  BY <1>2, <1>3, <1>5, Facts DEF Own
<1> QED  BY <1>2, <1>4, <1>6, <1>7, <1>8, <1>9, StepSame

LEMMA OpenDeniedStep ==
  ASSUME IndInv, NEW p \in Procs, OpenDenied(p)
  PROVE  IndInv'
<1>1. /\ u[p].pc = "file" /\ Put(p, u[p].ip, "idle")
      /\ UNCHANGED <<inode, disk, dir, stk, ilock, chan, updlock, wild, calls, syncs>>
  BY DEF OpenDenied, At
<1>2. u[p].ip \in Slots /\ u[p].op # "sync"  BY <1>1, Facts DEF LocalOK, SyncPCs
<1> QED  BY <1>1, <1>2, PutSameStep

\* p goes on to another place with the same inode and directory
LEMMA PcRec ==
  ASSUME IndInv, NEW p \in Procs, NEW l \in PCs
  PROVE  /\ Pc(p, l) \in Local /\ Pc(p, l).pc = l
         /\ Pc(p, l).fd = u[p].fd /\ Pc(p, l).ip = u[p].ip /\ Pc(p, l).op = u[p].op
         /\ Pc(p, l).at = u[p].at /\ Pc(p, l).ret = u[p].ret /\ Pc(p, l).num = u[p].num
         /\ \A j : Own(Pc(p, l), j) = Own(u[p], j)
<1> DEFINE r == Pc(p, l)
<1>1. r \in Local /\ r.pc = l  BY Facts DEF Pc, Local
<1>2. /\ r.fd = u[p].fd /\ r.ip = u[p].ip /\ r.op = u[p].op /\ r.at = u[p].at
      /\ r.ret = u[p].ret /\ r.num = u[p].num
  BY Facts DEF Pc, Local
<1>3. \A j : Own(r, j) = Own(u[p], j)
 <2> HIDE DEF r
 <2> QED  BY <1>2, SameOwn
<1> QED  BY <1>1, <1>2, <1>3

LEMMA OpenFileStep ==
  ASSUME IndInv, NEW p \in Procs, OpenFile(p)
  PROVE  IndInv'
<1> DEFINE l == IF u[p].op = "open" THEN "opened" ELSE "trunc"
           r == Pc(p, l)
<1>1. /\ u[p].pc = "file" /\ u[p].op \in {"open", "creat"} /\ UNCHANGED inode
      /\ u' = [u EXCEPT ![p] = r]
  BY DEF OpenFile, At, Go, GoSleepy
<1>2. l \in PCs /\ l \in {"opened", "trunc"}  BY DEF PCs
<1> HIDE DEF l
<1>3. /\ r \in Local /\ r.pc = l /\ r.fd = u[p].fd /\ r.ip = u[p].ip /\ r.op = u[p].op
      /\ r.at = u[p].at /\ r.ret = u[p].ret
  BY <1>2, PcRec
<1>4. \A j \in Slots : Own(r, j) = Own(u[p], j)  BY <1>2, PcRec
<1> HIDE DEF r
<1>5. LocalOK(r)  BY <1>1, <1>2, <1>3, Facts DEF LocalOK, Making, IPutPCs, SyncPCs
<1>6. TypeRest'  BY Facts DEF OpenFile, Go, GoSleepy, TypeRest
<1> QED  BY <1>1, <1>3, <1>4, <1>5, <1>6, StepSame

LEMMA CreatTruncStep ==
  ASSUME IndInv, NEW p \in Procs, CreatTrunc(p)
  PROVE  IndInv'
<1> DEFINE i == u[p].ip
           r == Pc(p, "opened")
           s == [inode[i] EXCEPT !.nlink = 1, !.dirty = TRUE]
<1>1. /\ u[p].pc = "trunc" /\ u' = [u EXCEPT ![p] = r]
      /\ inode' = [inode EXCEPT ![i].nlink = 1, ![i].dirty = TRUE]
  BY DEF CreatTrunc, At, Go
<1>2. i \in Slots /\ i # Root /\ u[p].op \in {"open", "creat"}  BY <1>1, Facts DEF LocalOK
<1>3. "opened" \in PCs  BY DEF PCs
<1>4. /\ r \in Local /\ r.pc = "opened" /\ r.fd = u[p].fd /\ r.ip = u[p].ip
      /\ r.op = u[p].op /\ r.at = u[p].at /\ r.ret = u[p].ret
  BY <1>3, PcRec
<1>5. \A j \in Slots : Own(r, j) = Own(u[p], j)  BY <1>3, PcRec
<1>6. s \in InodeRec /\ s.num = inode[i].num /\ s.count = inode[i].count
 <2>1. inode[i] \in InodeRec /\ 1 \in Int  BY <1>2, Facts
 <2> QED  BY <2>1 DEF InodeRec
<1>7. inode' = [inode EXCEPT ![i] = s]  BY <1>1, <1>2, Facts
<1>8. i = u[p].ip  OBVIOUS
<1> HIDE DEF r, s, i
<1>9. LocalOK(r)  BY <1>1, <1>2, <1>4, <1>8, Facts DEF LocalOK, Making, IPutPCs, SyncPCs
<1>10. TypeRest'  BY Facts DEF CreatTrunc, Go, TypeRest
<1>11. i \in Slots /\ r \in Local /\ u' = [u EXCEPT ![p] = r]  BY <1>1, <1>2, <1>4
<1> QED  BY <1>5, <1>6, <1>7, <1>9, <1>10, <1>11, StepKeep

LEMMA OpenedStep ==
  ASSUME IndInv, NEW p \in Procs, Opened(p)
  PROVE  IndInv'
<1> DEFINE i == u[p].ip
           s == Unlocked(inode[i])
<1>1. /\ u[p].pc = "opened" /\ inode' = [inode EXCEPT ![i] = s] /\ PreleWakes(i)
      /\ \/ GoSleepy(p, [Idle EXCEPT !.fd = i])
         \/ Put(p, i, "idle")
  BY DEF Opened, At
<1>2. i \in Slots /\ i # Root /\ u[p].op # "sync" /\ u[p].fd = NoSlot
  BY <1>1, Facts DEF LocalOK, SyncPCs
<1>3. s \in InodeRec /\ s.num = inode[i].num /\ s.count = inode[i].count  BY <1>2, Facts, Recs
<1>4. TypeRest'
 <2>1. chan' \in [Procs -> Slots \cup {Awake, LocalChan, ILockChan}]  BY <1>1, Facts, Wakes
 <2> QED  BY <1>1, <2>1, Facts DEF Opened, GoSleepy, Put, Go, TypeRest
<1>5. CASE GoSleepy(p, [Idle EXCEPT !.fd = i])
 <2> DEFINE r == [Idle EXCEPT !.fd = i]
 <2>1. /\ r \in Local /\ LocalOK(r)
       /\ r.op = "none" /\ r.ip = NoSlot /\ r.at = NoEntry /\ r.fd = i
  <3>1. i \in Slots \cup {NoSlot}  BY <1>2
  <3> QED  BY <3>1, IdleType, Zenon
 <2>2. u' = [u EXCEPT ![p] = r]  BY <1>5 DEF GoSleepy
 <2> HIDE DEF r
 <2>3. \A j \in Slots : \/ Own(r, j) = Own(u[p], j)
                        \/ j = Root /\ Own(r, j) < Own(u[p], j)
   BY <1>2, <2>1, Facts DEF Own
 <2>4. i \in Slots /\ inode' = [inode EXCEPT ![i] = s]  BY <1>1, <1>2
 <2> HIDE DEF i, s
 <2> QED  BY <1>3, <1>4, <2>1, <2>2, <2>3, <2>4, StepKeep
<1>6. CASE Put(p, i, "idle")
 <2> DEFINE r == [u[p] EXCEPT !.pc = "iput", !.ip = u[p].ip, !.ret = "idle"]
 <2>1. r \in Local /\ LocalOK(r) /\ \A j \in Slots : Own(r, j) = Own(u[p], j)
  <3>1. u[p].ip \in Slots /\ "idle" \in {"idle", "pop"} /\ "idle" # "pop"  BY <1>2
  <3> QED  BY <1>2, <3>1, PutSame, Zenon
 <2>2. u' = [u EXCEPT ![p] = r]  BY <1>6 DEF Put, Go
 <2>3. i \in Slots /\ inode' = [inode EXCEPT ![i] = s]  BY <1>1, <1>2
 <2> HIDE DEF i, s, r
 <2> QED  BY <1>3, <1>4, <2>1, <2>2, <2>3, StepKeep
<1> QED  BY <1>1, <1>5, <1>6

LEMMA UnLinkStep ==
  ASSUME IndInv, NEW p \in Procs, UnLink(p)
  PROVE  IndInv'
<1> DEFINE r == Pc(p, "clear")
<1>1. /\ u[p].pc = "file" /\ u[p].op = "unlink" /\ UNCHANGED inode
      /\ u' = [u EXCEPT ![p] = r]
  BY DEF UnLink, At, GoSleepy
<1>2. "clear" \in PCs  BY DEF PCs
<1>3. /\ r \in Local /\ r.pc = "clear" /\ r.fd = u[p].fd /\ r.ip = u[p].ip
      /\ r.op = u[p].op /\ r.at = u[p].at /\ r.ret = u[p].ret
  BY <1>2, PcRec
<1>4. \A j \in Slots : Own(r, j) = Own(u[p], j)  BY <1>2, PcRec
<1> HIDE DEF r
<1>5. LocalOK(r)  BY <1>1, <1>3, Facts DEF LocalOK, Making, IPutPCs, SyncPCs
<1>6. TypeRest'  BY Facts DEF UnLink, GoSleepy, TypeRest
<1> QED  BY <1>1, <1>3, <1>4, <1>5, <1>6, StepSame
\* The only step that changes two slots
LEMMA UnLinkEndStep ==
  ASSUME IndInv, NEW p \in Procs, UnLinkEnd(p)
  PROVE  IndInv'
<1> DEFINE i == u[p].ip
           r == [u[p] EXCEPT !.pc = "iput", !.ret = "idle", !.at = NoEntry]
           s == [inode[i] EXCEPT !.nlink = @ - 1, !.dirty = TRUE]
           d == [PutRec(inode[Root]) EXCEPT !.dirty = TRUE]
<1>1. /\ u[p].pc = "clear" /\ u' = [u EXCEPT ![p] = r] /\ PreleWakes(Root)
      /\ dir' = Cleared(u[p].at) /\ cpu' = p
  BY DEF UnLinkEnd, At, Go
<1>2. i \in Slots /\ i # Root /\ u[p].op = "unlink" /\ u[p].at # NoEntry  BY <1>1, Facts DEF LocalOK
<1>3. inode' = [inode EXCEPT ![i].nlink = @ - 1, ![i].dirty = TRUE,
                             ![Root] = [PutRec(@) EXCEPT !.dirty = TRUE]]
  BY DEF UnLinkEnd
<1>4. inode[i] \in InodeRec /\ inode[Root] \in InodeRec /\ inode[Root].count >= 2
      /\ inode[Root].count \in Nat
  BY <1>2, Facts, Counts
<1>5. s \in InodeRec /\ s.num = inode[i].num /\ s.count = inode[i].count
 <2>1. inode[i].nlink - 1 \in Int  BY <1>4 DEF InodeRec
 <2> QED  BY <1>4, <2>1 DEF InodeRec
<1>6. d \in InodeRec /\ d.num = inode[Root].num /\ d.count = inode[Root].count - 1
 <2> DEFINE t == PutRec(inode[Root])
 <2>1. t \in InodeRec /\ t.num = inode[Root].num /\ t.count = inode[Root].count - 1  BY <1>4, Recs
 <2> HIDE DEF t
 <2>2. d = [t EXCEPT !.dirty = TRUE]  BY DEF t
 <2> HIDE DEF d
 <2> QED  BY <2>1, <2>2 DEF InodeRec
<1>7. inode'[i] = s /\ inode'[Root] = d
      /\ \A j \in Slots \ {i, Root} : inode'[j] = inode[j]
  BY <1>2, <1>3, Facts
<1>8. DOMAIN inode' = Slots /\ inode' = [j \in Slots |-> inode'[j]]  BY <1>3, Facts
<1>9. r \in Local
 <2>1. "iput" \in PCs /\ "idle" \in PCs  BY DEF PCs
 <2> QED  BY <2>1, Facts DEF Local
<1>10. /\ r.pc = "iput" /\ r.op = u[p].op /\ r.ret = "idle" /\ r.fd = u[p].fd
       /\ r.ip = u[p].ip /\ r.at = NoEntry
  BY Facts DEF Local
<1>11. i = u[p].ip  OBVIOUS
<1> HIDE DEF i, r, s, d
<1>12. LocalOK(r)  BY <1>2, <1>10, <1>11, Facts DEF LocalOK, Making, IPutPCs, SyncPCs
<1>13. TypeRest'
 <2>1. chan' \in [Procs -> Slots \cup {Awake, LocalChan, ILockChan}]  BY <1>1, Facts, Wakes
 <2>2. dir' \in [Entries -> [name : Names \cup {NoName}, ino : {NoNum, 0} \cup Files]]
   BY <1>1, Facts DEF Cleared, FreeEntry, TypeRest
 <2> QED  BY <1>1, <2>1, <2>2, Facts DEF UnLinkEnd, TypeRest
<1>14. inode' \in [Slots -> InodeRec]
 <2>1. \A j \in Slots : inode'[j] \in InodeRec  BY <1>5, <1>6, <1>7, Facts
 <2> QED  BY <2>1, <1>8
<1>15. \A j \in Slots : Kept(j, inode'[j])  BY <1>4, <1>5, <1>6, <1>7, Facts DEF Kept, RootInv
<1>16. \A j \in Slots \ {Root} : Own(r, j) = Own(u[p], j) /\ Own(r, j) \in Nat  BY <1>10 DEF Own
<1>17. Own(r, Root) = Own(u[p], Root) - 1 /\ Own(r, Root) \in Nat /\ Own(u[p], Root) \in Nat
  BY <1>2, <1>10 DEF Own
<1>18. \A j \in Slots : Counted(j, inode'[j].count, p, r)
 <2> TAKE j \in Slots
 <2>1. CASE j = Root
  <3>1. inode'[Root].count = inode[Root].count - 1 /\ inode[Root].count \in Nat  BY <1>4, <1>6, <1>7
  <3> QED  BY <1>17, <2>1, <3>1 DEF Counted
 <2>2. CASE j # Root
  <3>1. inode'[j].count = inode[j].count /\ inode[j].count \in Nat  BY <1>5, <1>7, <2>2, Counts
  <3> QED  BY <1>16, <2>2, <3>1 DEF Counted
 <2> QED  BY <2>1, <2>2
<1>19. u' = [u EXCEPT ![p] = r]  BY <1>1
<1> QED  BY <1>9, <1>12, <1>13, <1>14, <1>15, <1>18, <1>19, Step
-----------------------------------------------------------------------------
(* IAlloc and MakNode.                                                     *)

LEMMA IAllocWaitStep ==
  ASSUME IndInv, NEW p \in Procs, IAllocWait(p)
  PROVE  IndInv'
<1>1. u' = [u EXCEPT ![p] = u[p]] /\ u[p] \in Local /\ LocalOK(u[p]) /\ UNCHANGED inode
  BY Facts DEF IAllocWait, SleepOn
<1>2. TypeRest'  BY Facts DEF IAllocWait, SleepOn, TypeRest
<1> QED  BY <1>1, <1>2, StepSame

LEMMA IAllocBeginStep ==
  ASSUME IndInv, NEW p \in Procs, IAllocBegin(p)
  PROVE  IndInv'
<1> DEFINE l == IF stk = <<>> THEN "isearch" ELSE "pop"
           r == Pc(p, l)
<1>1. u[p].pc = "ialloc" /\ UNCHANGED inode /\ u' = [u EXCEPT ![p] = r]
  BY DEF IAllocBegin, At, Go, GoSleepy
<1>2. l \in PCs /\ l \in {"isearch", "pop"}  BY DEF PCs
<1> HIDE DEF l
<1>3. /\ r \in Local /\ r.pc = l /\ r.fd = u[p].fd /\ r.ip = u[p].ip /\ r.op = u[p].op
      /\ r.at = u[p].at /\ r.ret = u[p].ret
  BY <1>2, PcRec
<1>4. \A j \in Slots : Own(r, j) = Own(u[p], j)  BY <1>2, PcRec
<1> HIDE DEF r
<1>5. LocalOK(r)  BY <1>1, <1>2, <1>3, Facts DEF LocalOK, Making, IPutPCs, SyncPCs
<1>6. TypeRest'  BY Facts DEF IAllocBegin, Go, GoSleepy, TypeRest
<1> QED  BY <1>1, <1>3, <1>4, <1>5, <1>6, StepSame

LEMMA IAllocSearchStep ==
  ASSUME IndInv, NEW p \in Procs, IAllocSearch(p)
  PROVE  IndInv'
<1> DEFINE S == {n \in Files : FreeOnDisk(n)}
<1>1. PICK found \in Lowest(S) :
         /\ stk' = found
         /\ IF NothingFound(found) THEN Return(p) ELSE Go(p, Pc(p, "pop"))
  BY DEF IAllocSearch
<1>2. stk' \in Seq({NoNum} \cup Files) /\ Len(stk') <= Cap
 <2>1. PICK k \in 0..Cap : found \in [1..k -> S]  BY DEF Lowest
 <2>2. found \in Seq(S) /\ Len(found) = k  BY <2>1, Consts
 <2>3. found \in Seq({NoNum} \cup Files)  BY <2>1, Consts
 <2> QED  BY <1>1, <2>1, <2>2, <2>3, Consts
<1>3. TypeRest'
 <2>1. chan' \in [Procs -> Slots \cup {Awake, LocalChan, ILockChan}]
   BY Facts, Wakes DEF IAllocSearch
 <2>2. cpu' \in {p, NoProc}  BY <1>1 DEF Return, Go, GoSleepy
 <2> QED  BY <1>2, <2>1, <2>2, Facts DEF IAllocSearch, TypeRest
<1>4. u[p].pc = "isearch" /\ UNCHANGED inode  BY DEF IAllocSearch, At
<1>5. u[p].ip = NoSlot  BY <1>4, Facts DEF LocalOK
<1>6. CASE NothingFound(found)
 <2> DEFINE r == [Idle EXCEPT !.fd = u[p].fd]
 <2>1. /\ r \in Local /\ LocalOK(r)
       /\ r.op = "none" /\ r.ip = NoSlot /\ r.at = NoEntry /\ r.fd = u[p].fd
  <3>1. u[p].fd \in Slots \cup {NoSlot}  BY Facts
  <3> QED  BY <3>1, IdleType, Zenon
 <2>2. u' = [u EXCEPT ![p] = r]  BY <1>1, <1>6 DEF Return, GoSleepy
 <2> HIDE DEF r
 <2>3. \A j \in Slots : \/ Own(r, j) = Own(u[p], j)
                        \/ j = Root /\ Own(r, j) < Own(u[p], j)
   BY <1>5, <2>1, Facts DEF Own
 <2> QED  BY <1>3, <1>4, <2>1, <2>2, <2>3, StepSame
<1>7. CASE ~NothingFound(found)
 <2> DEFINE r == Pc(p, "pop")
 <2>1. "pop" \in PCs /\ u' = [u EXCEPT ![p] = r]  BY <1>1, <1>7 DEF PCs, Go
 <2>2. /\ r \in Local /\ r.pc = "pop" /\ r.fd = u[p].fd /\ r.ip = u[p].ip
       /\ r.op = u[p].op /\ r.at = u[p].at /\ r.ret = u[p].ret
   BY <2>1, PcRec
 <2>3. \A j \in Slots : Own(r, j) = Own(u[p], j)  BY <2>1, PcRec
 <2> HIDE DEF r
 <2>4. LocalOK(r)  BY <1>4, <2>2, Facts DEF LocalOK, Making, IPutPCs, SyncPCs
 <2> QED  BY <1>3, <1>4, <2>1, <2>2, <2>3, <2>4, StepSame
<1> QED  BY <1>6, <1>7

LEMMA IAllocPopStep ==
  ASSUME IndInv, NEW p \in Procs, IAllocPop(p)
  PROVE  IndInv'
<1>1. u[p].pc = "pop" /\ UNCHANGED inode  BY DEF IAllocPop, At
<1>2. CASE stk = <<>>
 <2>1. u' = [u EXCEPT ![p] = u[p]] /\ u[p] \in Local /\ LocalOK(u[p])  BY <1>2, Facts DEF IAllocPop
 <2>2. TypeRest'  BY <1>2, Facts DEF IAllocPop, TypeRest
 <2> QED  BY <1>1, <2>1, <2>2, StepSame
<1>3. CASE stk # <<>>
 <2> DEFINE n == stk[Len(stk)]
            r == [u[p] EXCEPT !.pc = "iget", !.num = n, !.ret = "new", !.ip = NoSlot]
 <2>1. stk \in Seq({NoNum} \cup Files) /\ Len(stk) <= Cap  BY Facts DEF TypeRest
 <2>2. n \in {NoNum} \cup Files /\ n \notin {0, Root}
  <3>1. n \in {NoNum} \cup Files  BY <1>3, <2>1
  <3>2. NoNum # Root /\ NoNum # 0  BY DEF NoNum, Root
  <3> QED  BY <3>1, <3>2, Consts
 <2>3. u' = [u EXCEPT ![p] = r] /\ cpu' = p /\ stk' = SubSeq(stk, 1, Len(stk) - 1)
   BY <1>3 DEF IAllocPop, Go
 <2>4. stk' \in Seq({NoNum} \cup Files) /\ Len(stk') <= Cap
  <3>1. /\ Len(stk) \in Nat /\ Len(stk) >= 1  BY <1>3, <2>1
  <3> QED  BY <2>1, <2>3, <3>1, Consts
 <2> HIDE DEF n
 <2>5. r \in Local
  <3>1. "iget" \in PCs /\ "new" \in PCs  BY DEF PCs
  <3> QED  BY <3>1, <2>2, Facts DEF Local
 <2>6. /\ r.pc = "iget" /\ r.num = n /\ r.ret = "new" /\ r.ip = NoSlot
       /\ r.fd = u[p].fd /\ r.op = u[p].op /\ r.at = u[p].at
   BY Facts DEF Local
 <2>7. u[p].ip = NoSlot  BY <1>1, Facts DEF LocalOK
 <2> HIDE DEF r
 <2>8. LocalOK(r)  BY <1>1, <2>2, <2>6, Facts DEF LocalOK, Making, IPutPCs, SyncPCs
 <2>9. TypeRest'  BY <2>3, <2>4, Facts DEF IAllocPop, TypeRest
 <2>10. \A j \in Slots : Own(r, j) = Own(u[p], j)  BY <2>6, <2>7, SameOwn
 <2>11. u' = [u EXCEPT ![p] = r]  BY <2>3
 <2> QED  BY <1>1, <2>5, <2>8, <2>9, <2>10, <2>11, StepSame
<1> QED  BY <1>2, <1>3

LEMMA IAllocUsedStep ==
  ASSUME IndInv, NEW p \in Procs, IAllocUsed(p)
  PROVE  IndInv'
<1>1. /\ u[p].pc = "new" /\ Put(p, u[p].ip, "pop")
      /\ UNCHANGED <<inode, disk, dir, stk, ilock, chan, updlock, wild, calls, syncs>>
  BY DEF IAllocUsed, At
<1>2. u[p].ip \in Slots /\ u[p].op = "creat" /\ u[p].at # NoEntry
  BY <1>1, Facts DEF LocalOK, Making
<1> QED  BY <1>1, <1>2, PutSameStep

LEMMA MakNodeStep ==
  ASSUME IndInv, NEW p \in Procs, MakNode(p)
  PROVE  IndInv'
<1> DEFINE i == u[p].ip
           r == Pc(p, "writedir")
           s == [inode[i] EXCEPT !.mode = TRUE, !.nlink = 1, !.dirty = TRUE]
<1>1. /\ u[p].pc = "new" /\ u' = [u EXCEPT ![p] = r]
      /\ inode' = [inode EXCEPT ![i].mode = TRUE, ![i].nlink = 1, ![i].dirty = TRUE]
  BY DEF MakNode, At, GoSleepy
<1>2. i \in Slots /\ i # Root  BY <1>1, Facts DEF LocalOK
<1>3. "writedir" \in PCs  BY DEF PCs
<1>4. /\ r \in Local /\ r.pc = "writedir" /\ r.fd = u[p].fd /\ r.ip = u[p].ip
      /\ r.op = u[p].op /\ r.at = u[p].at /\ r.ret = u[p].ret
  BY <1>3, PcRec
<1>5. \A j \in Slots : Own(r, j) = Own(u[p], j)  BY <1>3, PcRec
<1>6. s \in InodeRec /\ s.num = inode[i].num /\ s.count = inode[i].count
 <2>1. inode[i] \in InodeRec /\ TRUE \in BOOLEAN /\ 1 \in Int  BY <1>2, Facts
 <2> QED  BY <2>1, SetRec, Zenon
<1>7. inode' = [inode EXCEPT ![i] = s]  BY <1>1, <1>2, Facts
<1>8. i = u[p].ip  OBVIOUS
<1> HIDE DEF r, s, i
<1>9. LocalOK(r)  BY <1>1, <1>2, <1>4, <1>8, Facts DEF LocalOK, Making, IPutPCs, SyncPCs
<1>10. TypeRest'  BY Facts DEF MakNode, GoSleepy, TypeRest
<1>11. i \in Slots /\ r \in Local /\ u' = [u EXCEPT ![p] = r]  BY <1>1, <1>2, <1>4
<1> QED  BY <1>5, <1>6, <1>7, <1>9, <1>10, <1>11, StepKeep

LEMMA WriteDirStep ==
  ASSUME IndInv, NEW p \in Procs, WriteDir(p)
  PROVE  IndInv'
<1> DEFINE r == [u[p] EXCEPT !.pc = "opened", !.at = NoEntry]
           d == [PutRec(inode[Root]) EXCEPT !.dirty = TRUE]
<1>1. /\ u[p].pc = "writedir" /\ u' = [u EXCEPT ![p] = r] /\ PreleWakes(Root)
      /\ inode' = [inode EXCEPT ![Root] = d] /\ cpu' = p
      /\ dir' = [dir EXCEPT ![u[p].at] = [name |-> u[p].name, ino |-> inode[u[p].ip].num]]
  BY DEF WriteDir, At, Go
<1>2. u[p].ip \in Slots \ {Root} /\ u[p].op = "creat" /\ u[p].at # NoEntry
  BY <1>1, Facts DEF LocalOK, Making
<1>3. inode[Root] \in InodeRec /\ inode[Root].count >= 2 /\ inode[Root].count \in Nat
  BY Facts, Counts
<1>4. d \in InodeRec /\ d.num = inode[Root].num /\ d.count = inode[Root].count - 1
 <2> DEFINE t == PutRec(inode[Root])
 <2>1. t \in InodeRec /\ t.num = inode[Root].num /\ t.count = inode[Root].count - 1  BY <1>3, Recs
 <2> HIDE DEF t
 <2>2. d = [t EXCEPT !.dirty = TRUE]  BY DEF t
 <2> HIDE DEF d
 <2> QED  BY <2>1, <2>2 DEF InodeRec
<1>5. r \in Local
 <2>1. "opened" \in PCs  BY DEF PCs
 <2> QED  BY <2>1, Facts DEF Local
<1>6. /\ r.pc = "opened" /\ r.op = u[p].op /\ r.ret = u[p].ret /\ r.fd = u[p].fd
      /\ r.ip = u[p].ip /\ r.at = NoEntry
  BY Facts DEF Local
<1> HIDE DEF r, d
<1>7. LocalOK(r)  BY <1>1, <1>2, <1>6, Facts DEF LocalOK, Making, IPutPCs, SyncPCs
<1>8. TypeRest'
 <2>1. chan' \in [Procs -> Slots \cup {Awake, LocalChan, ILockChan}]  BY <1>1, Facts, Wakes
 <2>2. dir' \in [Entries -> [name : Names \cup {NoName}, ino : {NoNum, 0} \cup Files]]
  <3>1. inode[u[p].ip].num \in {NoNum} \cup Files  BY <1>2, Facts DEF RootInv, InodeRec
  <3>2. u[p].name \in Names \cup {NoName}  BY Facts DEF Local
  <3> QED  BY <1>1, <3>1, <3>2, Facts DEF TypeRest
 <2> QED  BY <1>1, <2>1, <2>2, Facts DEF WriteDir, TypeRest
<1>9. Kept(Root, d)  BY <1>3, <1>4, Facts, Same
<1>10. Counted(Root, d.count, p, r)
 <2>1. Own(r, Root) = Own(u[p], Root) - 1 /\ Own(r, Root) \in Nat /\ Own(u[p], Root) \in Nat
   BY <1>2, <1>6 DEF Own
 <2> QED  BY <1>3, <1>4, <2>1 DEF Counted
<1>11. \A j \in Slots \ {Root} : Own(r, j) = Own(u[p], j)  BY <1>6 DEF Own
<1>12. Root \in Slots /\ inode' = [inode EXCEPT ![Root] = d] /\ u' = [u EXCEPT ![p] = r]
  BY <1>1, Facts
<1> QED  BY <1>4, <1>5, <1>7, <1>8, <1>9, <1>10, <1>11, <1>12, StepSlot
-----------------------------------------------------------------------------
(* Open files.                                                             *)

LEMMA CloseStep ==
  ASSUME IndInv, NEW p \in Procs, Close(p)
  PROVE  IndInv'
<1> DEFINE f == u[p].fd
           r == [u[p] EXCEPT !.pc = "iput", !.ip = f, !.ret = "idle", !.fd = NoSlot]
<1>1. /\ u[p].pc = "idle" /\ f # NoSlot /\ UNCHANGED inode /\ u' = [u EXCEPT ![p] = r]
  BY DEF Close, At, Go
<1>2. u[p].op = "none" /\ u[p].ip = NoSlot /\ u[p].at = NoEntry /\ f \in Slots
  BY <1>1, Facts DEF LocalOK
<1>3. r \in Local
 <2>1. "iput" \in PCs /\ "idle" \in PCs  BY DEF PCs
 <2> QED  BY <1>2, <2>1, Facts DEF Local
<1>4. /\ r.pc = "iput" /\ r.op = u[p].op /\ r.ret = "idle" /\ r.fd = NoSlot
      /\ r.ip = f /\ r.at = u[p].at
  BY Facts DEF Local
<1>5. f = u[p].fd  OBVIOUS
<1> HIDE DEF r, f
<1>6. LocalOK(r)  BY <1>2, <1>4, Facts DEF LocalOK, Making, IPutPCs, SyncPCs
<1>7. TypeRest'  BY Facts DEF Close, Go, TypeRest
<1>8. \A j \in Slots : Own(r, j) = Own(u[p], j)
 <2> TAKE j \in Slots
 <2>1. j # NoSlot  BY Facts
 <2>2. CASE j = f  BY <1>2, <1>4, <1>5, <2>1, <2>2 DEF Own
 <2>3. CASE j # f  BY <1>2, <1>4, <1>5, <2>1, <2>3 DEF Own
 <2> QED  BY <2>2, <2>3
<1> QED  BY <1>1, <1>3, <1>6, <1>7, <1>8, StepSame

LEMMA RdwrStep ==
  ASSUME IndInv, NEW p \in Procs, Rdwr(p)
  PROVE  IndInv'
<1> DEFINE r == Pc(p, "nflock")
<1>1. /\ u[p].pc = "idle" /\ u[p].fd # NoSlot /\ UNCHANGED inode
      /\ u' = [u EXCEPT ![p] = r]
  BY DEF Rdwr, At, Go
<1>2. "nflock" \in PCs  BY DEF PCs
<1>3. /\ r \in Local /\ r.pc = "nflock" /\ r.fd = u[p].fd /\ r.ip = u[p].ip
      /\ r.op = u[p].op /\ r.at = u[p].at /\ r.ret = u[p].ret
  BY <1>2, PcRec
<1>4. \A j \in Slots : Own(r, j) = Own(u[p], j)  BY <1>2, PcRec
<1> HIDE DEF r
<1>5. LocalOK(r)  BY <1>1, <1>3, Facts DEF LocalOK, Making, IPutPCs, SyncPCs
<1>6. TypeRest'  BY Facts DEF Rdwr, Go, TypeRest
<1> QED  BY <1>1, <1>3, <1>4, <1>5, <1>6, StepSame

LEMMA NFlockWaitStep ==
  ASSUME IndInv, NEW p \in Procs, NFlockWait(p)
  PROVE  IndInv'
<1> DEFINE i == u[p].fd
           s == [inode[i] EXCEPT !.want = TRUE]
<1>1. /\ u[p].pc = "nflock" /\ SleepOn(p, i)
      /\ inode' = [inode EXCEPT ![i].want = TRUE]
  BY DEF NFlockWait, At
<1>2. i \in Slots  BY <1>1, Facts DEF LocalOK
<1>3. s \in InodeRec /\ s.num = inode[i].num /\ s.count = inode[i].count
  BY <1>2, Facts DEF InodeRec
<1>4. inode' = [inode EXCEPT ![i] = s]  BY <1>1, <1>2, Facts
<1>5. u' = [u EXCEPT ![p] = u[p]] /\ u[p] \in Local /\ LocalOK(u[p])  BY <1>1, Facts DEF SleepOn
<1> HIDE DEF i, s
<1>6. TypeRest'  BY <1>1, <1>2, Facts DEF NFlockWait, SleepOn, TypeRest
<1> QED  BY <1>2, <1>3, <1>4, <1>5, <1>6, StepKeep

LEMMA NFlockStep ==
  ASSUME IndInv, NEW p \in Procs, NFlock(p)
  PROVE  IndInv'
<1> DEFINE i == u[p].fd
           r == Pc(p, "io")
           s == [inode[i] EXCEPT !.lock = TRUE, !.dirty = TRUE]
<1>1. /\ u[p].pc = "nflock" /\ u' = [u EXCEPT ![p] = r]
      /\ inode' = [inode EXCEPT ![i].lock = TRUE, ![i].dirty = TRUE]
  BY DEF NFlock, At, GoSleepy
<1>2. i \in Slots  BY <1>1, Facts DEF LocalOK
<1>3. "io" \in PCs  BY DEF PCs
<1>4. /\ r \in Local /\ r.pc = "io" /\ r.fd = u[p].fd /\ r.ip = u[p].ip
      /\ r.op = u[p].op /\ r.at = u[p].at /\ r.ret = u[p].ret
  BY <1>3, PcRec
<1>5. \A j \in Slots : Own(r, j) = Own(u[p], j)  BY <1>3, PcRec
<1>6. s \in InodeRec /\ s.num = inode[i].num /\ s.count = inode[i].count
  BY <1>2, Facts DEF InodeRec
<1>7. inode' = [inode EXCEPT ![i] = s]  BY <1>1, <1>2, Facts
<1> HIDE DEF r, s, i
<1>8. LocalOK(r)  BY <1>1, <1>4, Facts DEF LocalOK, Making, IPutPCs, SyncPCs
<1>9. TypeRest'  BY Facts DEF NFlock, GoSleepy, TypeRest
<1>10. i \in Slots /\ r \in Local /\ u' = [u EXCEPT ![p] = r]  BY <1>1, <1>2, <1>4
<1> QED  BY <1>5, <1>6, <1>7, <1>8, <1>9, <1>10, StepKeep

LEMMA NFreleStep ==
  ASSUME IndInv, NEW p \in Procs, NFrele(p)
  PROVE  IndInv'
<1> DEFINE i == u[p].fd
           r == [Idle EXCEPT !.fd = i]
           s == Unlocked(inode[i])
<1>1. /\ u[p].pc = "io" /\ inode' = [inode EXCEPT ![i] = s] /\ PreleWakes(i)
      /\ u' = [u EXCEPT ![p] = r] /\ cpu' = NoProc
  BY DEF NFrele, At, Return, GoSleepy
<1>2. i \in Slots /\ u[p].ip = NoSlot /\ u[p].at = NoEntry  BY <1>1, Facts DEF LocalOK
<1>3. s \in InodeRec /\ s.num = inode[i].num /\ s.count = inode[i].count  BY <1>2, Facts, Recs
<1>4. TypeRest'
 <2>1. chan' \in [Procs -> Slots \cup {Awake, LocalChan, ILockChan}]  BY <1>1, Facts, Wakes
 <2> QED  BY <1>1, <2>1, Facts DEF NFrele, TypeRest
<1>5. /\ r \in Local /\ LocalOK(r)
      /\ r.op = "none" /\ r.ip = NoSlot /\ r.at = NoEntry /\ r.fd = u[p].fd
 <2>1. i \in Slots \cup {NoSlot}  BY <1>2
 <2> QED  BY <2>1, IdleType, Zenon
<1> HIDE DEF i, r, s
<1>6. \A j \in Slots : Own(r, j) = Own(u[p], j)  BY <1>2, <1>5, Facts DEF Own
<1>7. i \in Slots /\ inode' = [inode EXCEPT ![i] = s] /\ u' = [u EXCEPT ![p] = r]  BY <1>1, <1>2
<1>8. r \in Local /\ LocalOK(r)  BY <1>5
<1> QED  BY <1>3, <1>4, <1>6, <1>7, <1>8, StepKeep
-----------------------------------------------------------------------------
(* UpdateInodeTable.                                                       *)

LEMMA NotOwnerStep ==
  ASSUME IndInv, NEW p \in Procs, NotOwner(p)
  PROVE  IndInv'
<1>1. /\ u[p].pc = "file" /\ Put(p, u[p].ip, "idle")
      /\ UNCHANGED <<inode, disk, dir, stk, ilock, chan, updlock, wild, calls, syncs>>
  BY DEF NotOwner, At
<1>2. u[p].ip \in Slots /\ u[p].op # "sync"  BY <1>1, Facts DEF LocalOK, SyncPCs
<1> QED  BY <1>1, <1>2, PutSameStep

LEMMA ChModStep ==
  ASSUME IndInv, NEW p \in Procs, ChMod(p)
  PROVE  IndInv'
<1> DEFINE i == u[p].ip
           r == [u[p] EXCEPT !.pc = "iput", !.ip = u[p].ip, !.ret = "idle"]
           s == [inode[i] EXCEPT !.dirty = TRUE]
<1>1. /\ u[p].pc = "file" /\ u[p].op = "chmod" /\ u' = [u EXCEPT ![p] = r]
      /\ inode' = [inode EXCEPT ![i].dirty = TRUE]
  BY DEF ChMod, At, Put, Go
<1>2. i \in Slots /\ u[p].op # "sync"  BY <1>1, Facts DEF LocalOK
<1>3. r \in Local /\ LocalOK(r) /\ \A j \in Slots : Own(r, j) = Own(u[p], j)
  BY <1>2, PutSame, Zenon
<1>4. s \in InodeRec /\ s.num = inode[i].num /\ s.count = inode[i].count
 <2>1. inode[i] \in InodeRec  BY <1>2, Facts
 <2> QED  BY <2>1 DEF InodeRec
<1>5. inode' = [inode EXCEPT ![i] = s]  BY <1>1, <1>2, Facts
<1>6. TypeRest'  BY Facts DEF ChMod, Put, Go, TypeRest
<1>7. i \in Slots /\ u' = [u EXCEPT ![p] = r]  BY <1>1, <1>2
<1> HIDE DEF r, s, i
<1> QED  BY <1>3, <1>4, <1>5, <1>6, <1>7, StepKeep

\* The rest of Stat1: the block is read, then IPut
LEMMA StatReadRec ==
  ASSUME IndInv, NEW p \in Procs, u[p].pc \in {"file", "stat"}, u[p].op # "sync"
  PROVE  LET r == [u[p] EXCEPT !.pc = "iput", !.ret = "idle"]
         IN  /\ r \in Local /\ LocalOK(r) /\ \A j \in Slots : Own(r, j) = Own(u[p], j)
<1> DEFINE r == [u[p] EXCEPT !.pc = "iput", !.ret = "idle"]
<1>1. u[p].ip \in Slots  BY Facts DEF LocalOK
<1>2. r \in Local
 <2>1. "iput" \in PCs /\ "idle" \in PCs  BY DEF PCs
 <2> QED  BY <2>1, Facts DEF Local
<1>3. /\ r.pc = "iput" /\ r.op = u[p].op /\ r.ret = "idle"
      /\ r.fd = u[p].fd /\ r.ip = u[p].ip /\ r.at = u[p].at
  BY Facts DEF Local
<1> HIDE DEF r
<1>4. LocalOK(r)  BY <1>1, <1>3, Facts DEF LocalOK, Making, IPutPCs, SyncPCs
<1>5. \A j \in Slots : Own(r, j) = Own(u[p], j)  BY <1>3, SameOwn
<1> QED  BY <1>2, <1>4, <1>5 DEF r

LEMMA StatStep ==
  ASSUME IndInv, NEW p \in Procs, Stat(p)
  PROVE  IndInv'
<1>1. u[p].pc = "file" /\ u[p].op = "stat" /\ UNCHANGED inode  BY DEF Stat, At
<1>2. TypeRest'  BY Facts DEF Stat, StatRead, GoSleepy, TypeRest
<1>3. CASE inode[u[p].ip].dirty
 <2> DEFINE r == Pc(p, "stat")
 <2>1. u' = [u EXCEPT ![p] = r]  BY <1>3 DEF Stat, GoSleepy
 <2>2. "stat" \in PCs  BY DEF PCs
 <2>3. /\ r \in Local /\ r.pc = "stat" /\ r.fd = u[p].fd /\ r.ip = u[p].ip
       /\ r.op = u[p].op /\ r.at = u[p].at /\ r.ret = u[p].ret
   BY <2>2, PcRec
 <2>4. \A j \in Slots : Own(r, j) = Own(u[p], j)  BY <2>2, PcRec
 <2> HIDE DEF r
 <2>5. LocalOK(r)  BY <1>1, <2>3, Facts DEF LocalOK, Making, IPutPCs, SyncPCs
 <2> QED  BY <1>1, <1>2, <2>1, <2>3, <2>4, <2>5, StepSame
<1>4. CASE ~inode[u[p].ip].dirty
 <2> DEFINE r == [u[p] EXCEPT !.pc = "iput", !.ret = "idle"]
 <2>1. u' = [u EXCEPT ![p] = r]  BY <1>4 DEF Stat, StatRead, GoSleepy
 <2>2. r \in Local /\ LocalOK(r) /\ \A j \in Slots : Own(r, j) = Own(u[p], j)
   BY <1>1, StatReadRec, Zenon
 <2> HIDE DEF r
 <2> QED  BY <1>1, <1>2, <2>1, <2>2, StepSame
<1> QED  BY <1>3, <1>4

LEMMA StatWriteStep ==
  ASSUME IndInv, NEW p \in Procs, StatWrite(p)
  PROVE  IndInv'
<1> DEFINE r == [u[p] EXCEPT !.pc = "iput", !.ret = "idle"]
<1>1. u[p].pc = "stat" /\ u' = [u EXCEPT ![p] = r] /\ UNCHANGED inode /\ Copied(u[p].ip)
  BY DEF StatWrite, StatRead, At, GoSleepy
<1>2. u[p].ip \in Slots /\ u[p].op # "sync"  BY <1>1, Facts DEF LocalOK, SyncPCs
<1>3. r \in Local /\ LocalOK(r) /\ \A j \in Slots : Own(r, j) = Own(u[p], j)
  BY <1>1, <1>2, StatReadRec, Zenon
<1>4. TypeRest'
 <2>1. /\ disk' \in [{Root} \cup Files -> [mode : BOOLEAN, nlink : Int]]
       /\ wild' \in BOOLEAN
   BY <1>1, <1>2, CopiedType
 <2> QED  BY <2>1, Facts DEF StatWrite, StatRead, GoSleepy, TypeRest
<1> HIDE DEF r
<1> QED  BY <1>1, <1>3, <1>4, StepSame

LEMMA FStatStep ==
  ASSUME IndInv, NEW p \in Procs, FStat(p)
  PROVE  IndInv'
<1> DEFINE r == Pc(p, "fstat")
<1>1. /\ u[p].pc = "idle" /\ u[p].fd # NoSlot /\ UNCHANGED inode
      /\ u' = [u EXCEPT ![p] = r]
  BY DEF FStat, At, GoSleepy
<1>2. "fstat" \in PCs  BY DEF PCs
<1>3. /\ r \in Local /\ r.pc = "fstat" /\ r.fd = u[p].fd /\ r.ip = u[p].ip
      /\ r.op = u[p].op /\ r.at = u[p].at /\ r.ret = u[p].ret
  BY <1>2, PcRec
<1>4. \A j \in Slots : Own(r, j) = Own(u[p], j)  BY <1>2, PcRec
<1> HIDE DEF r
<1>5. LocalOK(r)  BY <1>1, <1>3, Facts DEF LocalOK, Making, IPutPCs, SyncPCs
<1>6. TypeRest'  BY Facts DEF FStat, GoSleepy, TypeRest
<1> QED  BY <1>1, <1>3, <1>4, <1>5, <1>6, StepSame

LEMMA FStatWriteStep ==
  ASSUME IndInv, NEW p \in Procs, FStatWrite(p)
  PROVE  IndInv'
<1> DEFINE i == u[p].fd
           r == [Idle EXCEPT !.fd = i]
<1>1. /\ u[p].pc = "fstat" /\ UNCHANGED inode /\ Copied(i)
      /\ u' = [u EXCEPT ![p] = r] /\ cpu' = NoProc
  BY DEF FStatWrite, At, Return, GoSleepy
<1>2. i \in Slots /\ u[p].ip = NoSlot /\ u[p].at = NoEntry
 <2>1. i \in Slots \cup {NoSlot} /\ i # NoSlot  BY <1>1, Facts DEF LocalOK, Local
 <2> QED  BY <1>1, <2>1, Facts DEF LocalOK
<1>3. TypeRest'
 <2>1. /\ disk' \in [{Root} \cup Files -> [mode : BOOLEAN, nlink : Int]]
       /\ wild' \in BOOLEAN
   BY <1>1, <1>2, CopiedType
 <2> QED  BY <1>1, <2>1, Facts DEF FStatWrite, TypeRest
<1>4. /\ r \in Local /\ LocalOK(r)
      /\ r.op = "none" /\ r.ip = NoSlot /\ r.at = NoEntry /\ r.fd = u[p].fd
 <2>1. i \in Slots \cup {NoSlot}  BY <1>2
 <2> QED  BY <2>1, IdleType, Zenon
<1> HIDE DEF i, r
<1>5. \A j \in Slots : Own(r, j) = Own(u[p], j)  BY <1>2, <1>4, Facts DEF Own
<1> QED  BY <1>1, <1>3, <1>4, <1>5, StepSame

LEMMA SyncStep ==
  ASSUME IndInv, NEW p \in Procs, Sync(p)
  PROVE  IndInv'
<1> DEFINE r == [u[p] EXCEPT !.pc = "sync", !.op = "sync", !.ip = 1]
<1>1. u[p].pc = "idle" /\ UNCHANGED inode /\ u' = [u EXCEPT ![p] = r]  BY DEF Sync, At, Go
<1>2. u[p].op = "none" /\ u[p].ip = NoSlot /\ u[p].at = NoEntry  BY <1>1, Facts DEF LocalOK
<1>3. r \in Local
 <2>1. "sync" \in PCs /\ 1 \in 0..(NInode + 1)  BY Consts DEF PCs
 <2> QED  BY <2>1, Facts DEF Local
<1>4. r.pc = "sync" /\ r.op = "sync" /\ r.fd = u[p].fd /\ r.at = u[p].at  BY Facts DEF Local
<1> HIDE DEF r
<1>5. LocalOK(r)  BY <1>4 DEF LocalOK, Making, IPutPCs, SyncPCs
<1>6. TypeRest'
 <2>1. syncs' \in 0..MaxSyncs  BY Facts, Consts DEF Sync, TypeRest
 <2> QED  BY <2>1, Facts DEF Sync, Go, TypeRest
<1>7. \A j \in Slots : Own(r, j) = Own(u[p], j)  BY <1>2, <1>4, Facts DEF Own
<1> QED  BY <1>1, <1>3, <1>5, <1>6, <1>7, StepSame

\* p goes on to the next slot
LEMMA NextSlotRec ==
  ASSUME IndInv, NEW p \in Procs, u[p].pc \in SyncPCs, u[p].ip \in Slots
  PROVE  /\ NextSlot(p) \in Local /\ LocalOK(NextSlot(p))
         /\ \A j \in Slots : Own(NextSlot(p), j) = Own(u[p], j)
<1> DEFINE r == NextSlot(p)
           n == u[p].ip + 1
<1>1. n \in 0..(NInode + 1)  BY Consts DEF Slots
<1>2. r = [u[p] EXCEPT !.pc = "sync", !.ip = n]  BY Facts DEF NextSlot
<1>3. "sync" \in PCs  BY DEF PCs
<1> HIDE DEF n
<1>4. r \in Local  BY <1>1, <1>2, <1>3, Facts DEF Local
<1>5. r.pc = "sync" /\ r.op = u[p].op /\ r.fd = u[p].fd /\ r.at = u[p].at  BY <1>2, Facts DEF Local
<1>6. u[p].op = "sync"  BY Facts DEF LocalOK
<1> HIDE DEF r
<1>7. LocalOK(r)  BY <1>5, <1>6 DEF LocalOK, Making, IPutPCs, SyncPCs
<1>8. \A j \in Slots : Own(r, j) = Own(u[p], j)  BY <1>5, <1>6 DEF Own
<1> QED  BY <1>4, <1>7, <1>8 DEF r

LEMMA SyncSkipStep ==
  ASSUME IndInv, NEW p \in Procs, SyncSkip(p)
  PROVE  IndInv'
<1> DEFINE r == NextSlot(p)
<1>1. /\ u[p].pc = "sync" /\ u[p].ip \in Slots /\ UNCHANGED inode
      /\ u' = [u EXCEPT ![p] = r]
  BY DEF SyncSkip, At, Go
<1>2. r \in Local /\ LocalOK(r) /\ \A j \in Slots : Own(r, j) = Own(u[p], j)
  BY <1>1, NextSlotRec DEF SyncPCs
<1>3. TypeRest'  BY Facts DEF SyncSkip, Go, TypeRest
<1> HIDE DEF r
<1> QED  BY <1>1, <1>2, <1>3, StepSame

LEMMA SyncLockStep ==
  ASSUME IndInv, NEW p \in Procs, SyncLock(p)
  PROVE  IndInv'
<1> DEFINE i == u[p].ip
           r == Pc(p, "syncread")
           s == [inode[i] EXCEPT !.lock = TRUE]
<1>1. /\ u[p].pc = "sync" /\ i \in Slots /\ u' = [u EXCEPT ![p] = r]
      /\ inode' = [inode EXCEPT ![i].lock = TRUE]
  BY DEF SyncLock, At, GoSleepy
<1>2. "syncread" \in PCs  BY DEF PCs
<1>3. /\ r \in Local /\ r.pc = "syncread" /\ r.fd = u[p].fd /\ r.ip = u[p].ip
      /\ r.op = u[p].op /\ r.at = u[p].at /\ r.ret = u[p].ret
  BY <1>2, PcRec
<1>4. \A j \in Slots : Own(r, j) = Own(u[p], j)  BY <1>2, PcRec
<1>5. s \in InodeRec /\ s.num = inode[i].num /\ s.count = inode[i].count
  BY <1>1, Facts DEF InodeRec
<1>6. inode' = [inode EXCEPT ![i] = s]  BY <1>1, Facts
<1>7. i = u[p].ip  OBVIOUS
<1> HIDE DEF r, s, i
<1>8. LocalOK(r)  BY <1>1, <1>3, <1>7, Facts DEF LocalOK, Making, IPutPCs, SyncPCs
<1>9. TypeRest'  BY Facts DEF SyncLock, GoSleepy, TypeRest
<1>10. i \in Slots /\ r \in Local /\ u' = [u EXCEPT ![p] = r]  BY <1>1, <1>3
<1> QED  BY <1>4, <1>5, <1>6, <1>8, <1>9, <1>10, StepKeep

LEMMA SyncWriteStep ==
  ASSUME IndInv, NEW p \in Procs, SyncWrite(p)
  PROVE  IndInv'
<1> DEFINE r == Pc(p, "syncwrite")
<1>1. u[p].pc = "syncread" /\ u' = [u EXCEPT ![p] = r] /\ UNCHANGED inode /\ Copied(u[p].ip)
  BY DEF SyncWrite, At, GoSleepy
<1>2. "syncwrite" \in PCs  BY DEF PCs
<1>3. /\ r \in Local /\ r.pc = "syncwrite" /\ r.fd = u[p].fd /\ r.ip = u[p].ip
      /\ r.op = u[p].op /\ r.at = u[p].at /\ r.ret = u[p].ret
  BY <1>2, PcRec
<1>4. \A j \in Slots : Own(r, j) = Own(u[p], j)  BY <1>2, PcRec
<1> HIDE DEF r
<1>5. u[p].ip \in Slots  BY <1>1, Facts DEF LocalOK
<1>6. LocalOK(r)  BY <1>1, <1>3, <1>5, Facts DEF LocalOK, Making, IPutPCs, SyncPCs
<1>7. TypeRest'
 <2>1. /\ disk' \in [{Root} \cup Files -> [mode : BOOLEAN, nlink : Int]]
       /\ wild' \in BOOLEAN
   BY <1>1, <1>5, CopiedType
 <2> QED  BY <2>1, Facts DEF SyncWrite, GoSleepy, TypeRest
<1> QED  BY <1>1, <1>3, <1>4, <1>6, <1>7, StepSame

LEMMA SyncUnlockStep ==
  ASSUME IndInv, NEW p \in Procs, SyncUnlock(p)
  PROVE  IndInv'
<1> DEFINE i == u[p].ip
           r == NextSlot(p)
           s == Unlocked(inode[i])
<1>1. /\ u[p].pc = "syncwrite" /\ inode' = [inode EXCEPT ![i] = s] /\ PreleWakes(i)
      /\ u' = [u EXCEPT ![p] = r] /\ cpu' = p
  BY DEF SyncUnlock, At, Go
<1>2. i \in Slots  BY <1>1, Facts DEF LocalOK
<1>3. r \in Local /\ LocalOK(r) /\ \A j \in Slots : Own(r, j) = Own(u[p], j)
  BY <1>1, <1>2, NextSlotRec DEF SyncPCs
<1>4. s \in InodeRec /\ s.num = inode[i].num /\ s.count = inode[i].count  BY <1>2, Facts, Recs
<1>5. TypeRest'
 <2>1. chan' \in [Procs -> Slots \cup {Awake, LocalChan, ILockChan}]  BY <1>1, Facts, Wakes
 <2> QED  BY <1>1, <2>1, Facts DEF SyncUnlock, TypeRest
<1>6. i \in Slots /\ inode' = [inode EXCEPT ![i] = s] /\ u' = [u EXCEPT ![p] = r]  BY <1>1, <1>2
<1> HIDE DEF i, r, s
<1> QED  BY <1>3, <1>4, <1>5, <1>6, StepKeep

LEMMA SyncEndStep ==
  ASSUME IndInv, NEW p \in Procs, SyncEnd(p)
  PROVE  IndInv'
<1> DEFINE r == [Idle EXCEPT !.fd = u[p].fd]
<1>1. u[p].pc = "sync" /\ UNCHANGED inode /\ u' = [u EXCEPT ![p] = r]
  BY DEF SyncEnd, At, Return, GoSleepy
<1>2. u[p].op = "sync"  BY <1>1, Facts DEF LocalOK, SyncPCs
<1>3. /\ r \in Local /\ LocalOK(r)
      /\ r.op = "none" /\ r.ip = NoSlot /\ r.at = NoEntry /\ r.fd = u[p].fd
 <2>1. u[p].fd \in Slots \cup {NoSlot}  BY Facts
 <2> QED  BY <2>1, IdleType, Zenon
<1> HIDE DEF r
<1>4. TypeRest'  BY Facts DEF SyncEnd, Return, GoSleepy, TypeRest
<1>5. \A j \in Slots : \/ Own(r, j) = Own(u[p], j)
                       \/ j = Root /\ Own(r, j) < Own(u[p], j)
  BY <1>2, <1>3, Facts DEF Own
<1> QED  BY <1>1, <1>3, <1>4, <1>5, StepSame
-----------------------------------------------------------------------------
(* The invariant.                                                          *)

LEMMA InitInv == Init => IndInv
<1> SUFFICES ASSUME Init PROVE IndInv  OBVIOUS
<1>1. u = [p \in Procs |-> Idle]  BY DEF Init
<1>2. NoSlot \in Slots \cup {NoSlot} /\ [Idle EXCEPT !.fd = NoSlot] = Idle  BY DEF Idle
<1>3. Idle \in Local /\ LocalOK(Idle)  BY <1>2, IdleType
<1>4. inode \in [Slots -> InodeRec]
 <2> DEFINE c == Cardinality(Procs) + 1
            d == [FreeSlot EXCEPT !.num = Root, !.mode = TRUE, !.nlink = 1, !.count = c]
 <2>1. c \in Nat  BY Consts
 <2>2. FreeSlot \in InodeRec  BY DEF InodeRec, FreeSlot
 <2>3. d \in InodeRec
  <3>1. TRUE \in BOOLEAN /\ 1 \in Int  OBVIOUS
  <3> HIDE DEF c
  <3> QED  BY <2>1, <2>2, <3>1 DEF InodeRec
 <2>4. inode = [i \in Slots |-> IF i = Root THEN d ELSE FreeSlot]  BY DEF Init
 <2> HIDE DEF d
 <2> QED  BY <2>2, <2>3, <2>4
<1>5. PICK k \in 1..NFile, name \in [Entries -> Names] :
         /\ disk = [n \in {Root} \cup Files |-> [mode |-> n <= k + 1, nlink |-> 1]]
         /\ dir = [e \in Entries |-> IF e <= k THEN [name |-> name[e], ino |-> e + 1]
                                              ELSE FreeEntry]
         /\ stk \in {<<>>} \cup {<<n>> : n \in (k + 2)..Last}
  BY DEF Init
<1>6. k \in Nat /\ k >= 1 /\ k + 1 <= Last /\ k <= NFile  BY Consts
<1>7. TypeRest
 <2>1. disk \in [{Root} \cup Files -> [mode : BOOLEAN, nlink : Int]]  BY <1>5
 <2>2. dir \in [Entries -> [name : Names \cup {NoName}, ino : {NoNum, 0} \cup Files]]
  <3>1. \A e \in Entries : e <= k => e + 1 \in Files  BY <1>6, Consts DEF Entries, Files
  <3> QED  BY <1>5, <3>1 DEF FreeEntry
 <2>3. stk \in Seq({NoNum} \cup Files) /\ Len(stk) <= Cap
  <3>1. \A n \in (k + 2)..Last : n \in Files  BY <1>6, Consts DEF Files
  <3>2. stk = <<>> \/ \E n \in Files : stk = <<n>>  BY <1>5, <3>1
  <3>3. CASE stk = <<>>  BY <3>3, Consts
  <3>4. ASSUME NEW n \in Files, stk = <<n>> PROVE stk \in Seq({NoNum} \cup Files) /\ Len(stk) <= Cap
    BY <3>4, Consts
  <3> QED  BY <3>2, <3>3, <3>4
 <2>4. chan \in [Procs -> Slots \cup {Awake, LocalChan, ILockChan}]  BY DEF Init
 <2>5. calls \in 0..MaxCalls /\ syncs \in 0..MaxSyncs  BY Consts DEF Init
 <2> QED  BY <2>1, <2>2, <2>3, <2>4, <2>5 DEF Init, TypeRest
<1>8. TypeOK  BY <1>1, <1>3, <1>4, <1>7, TypeParts
<1>9. LocalInv  BY <1>1, <1>3 DEF LocalInv
<1>10. RootInv
 <2>1. \A i \in Slots : inode[i].num = IF i = Root THEN Root ELSE NoNum  BY DEF Init, FreeSlot
 <2>2. NoNum # Root  BY DEF NoNum, Root
 <2> QED  BY <2>1, <2>2, Consts DEF RootInv
<1>11. OneEntryPerInode  BY DEF Init, OneEntryPerInode, FreeSlot
<1>12. CountExact
 <2> SUFFICES ASSUME NEW i \in Slots PROVE inode[i].count = Refs(i)  BY DEF CountExact
 <2>1. /\ {p \in Procs : u[p].fd = i} = {}
       /\ {p \in Procs : u[p].ip = i /\ u[p].op # "sync"} = {}
       /\ {p \in Procs : u[p].at # NoEntry} = {}
   BY <1>1, Consts DEF Idle
 <2>2. Refs(i) = Cardinality({}) + Cardinality({})
                 + IF i = Root THEN Cardinality({}) + Cardinality(Procs) + 1 ELSE 0
   BY <2>1 DEF Refs
 <2>3. inode[i].count = IF i = Root THEN Cardinality(Procs) + 1 ELSE 0  BY DEF Init, FreeSlot
 <2> QED  BY <2>2, <2>3, FS_EmptySet, Consts
<1> QED  BY <1>8, <1>9, <1>10, <1>11, <1>12 DEF IndInv

\* Every step keeps the invariant.
LEMMA NextInv == IndInv /\ [Next]_vars => IndInv'
<1> SUFFICES ASSUME IndInv, [Next]_vars PROVE IndInv'  OBVIOUS
<1>1. ASSUME NEW p \in Procs, IGet(p) PROVE IndInv'
  BY <1>1, IGetWaitStep, IGetHitStep, IGetFullStep, IGetClaimStep, IGetLoadStep DEF IGet
<1>2. ASSUME NEW p \in Procs, IPut(p) PROVE IndInv'
  BY <1>2, IPutSharedStep, IPutLastStep, IPutFreeStep, IUpdateStep, IUpdateWriteStep,
     IPutEndStep DEF IPut
<1>3. ASSUME NEW p \in Procs, Name(p) PROVE IndInv'
  BY <1>3, CallNameStep, NameFoundStep, NameMissingStep, NameNewStep, OpenDeniedStep,
     OpenFileStep, CreatTruncStep, OpenedStep, UnLinkStep, UnLinkEndStep,
     NotOwnerStep, ChModStep, StatStep, StatWriteStep DEF Name
<1>4. ASSUME NEW p \in Procs, IAlloc(p) PROVE IndInv'
  BY <1>4, IAllocWaitStep, IAllocBeginStep, IAllocSearchStep, IAllocPopStep,
     IAllocUsedStep, MakNodeStep, WriteDirStep DEF IAlloc
<1>5. ASSUME NEW p \in Procs, ReadWrite(p) PROVE IndInv'
  BY <1>5, CloseStep, RdwrStep, NFlockWaitStep, NFlockStep, NFreleStep,
     FStatStep, FStatWriteStep DEF ReadWrite
<1>6. ASSUME NEW p \in Procs, UpdateInodeTable(p) PROVE IndInv'
  BY <1>6, SyncStep, SyncSkipStep, SyncLockStep, SyncWriteStep, SyncUnlockStep,
     SyncEndStep DEF UpdateInodeTable
<1>7. CASE UNCHANGED vars
 <2>1. PICK p \in Procs : TRUE  BY InodesAssumption DEF InodesAssumption
 <2>2. u' = [u EXCEPT ![p] = u[p]] /\ u[p] \in Local /\ LocalOK(u[p]) /\ UNCHANGED inode
   BY <1>7, Facts DEF vars
 <2>3. TypeRest'  BY <1>7, <2>1, Facts DEF vars, TypeRest
 <2> QED  BY <2>2, <2>3, StepSame
<1> QED  BY <1>1, <1>2, <1>3, <1>4, <1>5, <1>6, <1>7 DEF Next

\* The variables keep their types: no count becomes negative, and s_inode has no more
\* numbers than entries (IGet, IPut, NameI, IAlloc, IFree, Rdwr, UpdateInodeTable).
THEOREM TypeCorrect == Spec => []TypeOK
<1>1. IndInv => TypeOK  BY DEF IndInv
<1> QED  BY <1>1, InitInv, NextInv, PTL DEF Spec

\* No inode is in two slots, though IGet and IPut sleep with a slot half made or half
\* given back.
THEOREM OneEntry == Spec => []OneEntryPerInode
<1>1. IndInv => OneEntryPerInode  BY DEF IndInv
<1> QED  BY <1>1, InitInv, NextInv, PTL DEF Spec

\* Every reference to an inode is counted once, on every path through the calls; only
\* the directory's count may be too high.
THEOREM CountsExact == Spec => []CountExact
<1>1. IndInv => CountExact  BY DEF IndInv
<1> QED  BY <1>1, InitInv, NextInv, PTL DEF Spec

\* The slot of the directory never becomes free: IGet does not claim it, and no IPut
\* takes the last reference.
THEOREM DirectoryStays == Spec => [](inode[Root].num = Root /\ inode[Root].count >= 2)
<1>1. IndInv => inode[Root].num = Root /\ inode[Root].count >= 2
 <2> SUFFICES ASSUME IndInv PROVE inode[Root].num = Root /\ inode[Root].count >= 2  OBVIOUS
 <2>1. PICK p \in Procs : TRUE  BY InodesAssumption DEF InodesAssumption
 <2> QED  BY <2>1, Consts, Counts DEF IndInv, RootInv
<1> QED  BY <1>1, InitInv, NextInv, PTL DEF Spec
-----------------------------------------------------------------------------
(* Files, names and free numbers fit (FilesAllocated).  Where the inode of a *)
(* file is, in the table or on the disk, matters less than whether it is in  *)
(* use and has a link: UsedFiles and LinkedFiles say that of every number.   *)
(* Neither reading an inode nor giving it back changes them, and the few     *)
(* steps that do are those of a process that has the inode alone (creat,     *)
(* IPut of the last reference), or only take a link away.                    *)

\* The slots that are being read from the disk; before, they hold what an earlier inode left
LoadingSlots == {u[q].ip : q \in {o \in Procs : u[o].pc = "load"}}
InCore(i, n) == inode[i].num = n /\ inode[i].count # 0 /\ i \notin LoadingSlots
UsedFiles == {n \in Files : \/ \E i \in Slots : InCore(i, n) /\ inode[i].mode
                            \/ (\A i \in Slots : ~InCore(i, n)) /\ disk[n].mode}
LinkedFiles == {n \in Files : \/ \E i \in Slots : InCore(i, n) /\ inode[i].nlink > 0
                              \/ (\A i \in Slots : ~InCore(i, n)) /\ disk[n].nlink > 0}
FreeNums == {stk[k] : k \in 1..Len(stk)}
Synced(i) == /\ disk[inode[i].num].mode = inode[i].mode
             /\ disk[inode[i].num].nlink = inode[i].nlink

\* A slot in use has a number; that of a file not in use is locked, and one that is not
\* dirty is on the disk
SlotOK(i) ==
    inode[i].count # 0 =>
        /\ inode[i].num # NoNum
        /\ i # Root => /\ inode[i].lock \/ inode[i].mode
                       /\ inode[i].dirty \/ i \in LoadingSlots \/ Synced(i)
SlotsOK == \A i \in Slots : SlotOK(i)

\* A name leads to a file in use that has a link, and no other name does
DirOK ==
    /\ \A e \in Entries : dir[e].ino # 0 => dir[e].ino \in UsedFiles \cap LinkedFiles
    /\ \A e, f \in Entries : (dir[e].ino # 0 /\ dir[e].ino = dir[f].ino) => e = f

StkOK ==
    /\ FreeNums \subseteq Files \ UsedFiles
    /\ \A k, l \in 1..Len(stk) : k # l => stk[k] # stk[l]

\* Waiting in IGet on the address of a local variable: nobody wakes it
Stuck(q) == u[q].pc = "iget" /\ chan[q] = LocalChan

\* No other process comes between NameI or the pop and IGet, nor to an empty table
CtlOK(q) ==
    /\ u[q].op # "sync"
    /\ u[q].pc = "iget" /\ ~Stuck(q) => cpu = q
    /\ u[q].pc = "pop" => cpu = q /\ stk # <<>>
    /\ u[q].pc \in IPutPCs => u[q].ret = "idle"

\* The places where the process alone has the inode, those where u.num is its number, and
\* those where the file is in use
Only == {"load", "new", "writedir", "itrunc", "iupdate", "iwrite", "iputend"}
Has == {"file", "trunc", "opened", "writedir", "clear", "stat"}
Got == Has \cup {"load", "new"}
HoldOK(q) ==
    /\ u[q].pc \in Only => inode[u[q].ip].count = 1 /\ inode[u[q].ip].lock
    /\ u[q].pc \in Got => inode[u[q].ip].num = u[q].num /\ u[q].num \in Files
    /\ u[q].pc = "iputend" => Synced(u[q].ip)

Finding(r) == r.pc \in {"iget", "load"} /\ r.ret = "file"
Fresh(r) == r.pc = "new" \/ (r.pc \in {"iget", "load"} /\ r.ret = "new")
FileOK(q) ==
    /\ u[q].fd # NoSlot => inode[u[q].fd].num \in UsedFiles
    /\ u[q].pc \in {"iput", "itrunc"} /\ u[q].ip # Root => inode[u[q].ip].num \in UsedFiles
    /\ u[q].pc = "itrunc" => inode[u[q].ip].num \notin LinkedFiles
    /\ ~Stuck(q) /\ (Finding(u[q]) \/ u[q].pc \in Has) => u[q].num \in UsedFiles
    /\ ~Stuck(q) /\ Fresh(u[q]) => u[q].num \in Files \ (UsedFiles \cup FreeNums)
    /\ u[q].pc = "writedir" => /\ u[q].num \in LinkedFiles
                               /\ \A e \in Entries : dir[e].ino # u[q].num
    /\ ~Stuck(q) /\ u[q].op = "unlink" /\ (Finding(u[q]) \/ u[q].pc \in {"file", "clear"})
          => \A e \in Entries : dir[e].ino = u[q].num => e = u[q].at

ProcOK(q) == CtlOK(q) /\ HoldOK(q) /\ FileOK(q)

FilesInv == ~wild /\ SlotsOK /\ DirOK /\ StkOK /\ \A q \in Procs : ProcOK(q)
-----------------------------------------------------------------------------
(* What a process that has an inode alone keeps from the others.           *)

\* A slot with one reference, p's, is nobody else's.
LEMMA Alone ==
  ASSUME IndInv, NEW p \in Procs, NEW i \in Slots \ {Root},
         u[p].ip = i, u[p].op # "sync", inode[i].count = 1
  PROVE  /\ u[p].fd # i
         /\ \A q \in Procs \ {p} : u[q].fd # i /\ (u[q].ip = i => u[q].op = "sync")
<1> DEFINE F == {q \in Procs : u[q].fd = i}
           I == {q \in Procs : u[q].ip = i /\ u[q].op # "sync"}
<1>1. F \in SUBSET Procs /\ I \in SUBSET Procs /\ p \in I  OBVIOUS
<1>2. IsFiniteSet(F) /\ IsFiniteSet(I)  BY <1>1, Consts, FS_Subset
<1>3. PICK a, b : a = Cardinality(F) /\ b = Cardinality(I)  OBVIOUS
<1>4. a \in Nat /\ b \in Nat  BY <1>2, <1>3, FS_CardinalityType
<1>5. a + b = 1
 <2>1. inode[i].count = Refs(i)  BY DEF IndInv, CountExact
 <2>2. Refs(i) = Cardinality(F) + Cardinality(I) + 0  BY DEF Refs
 <2> HIDE DEF F, I
 <2> QED  BY <2>1, <2>2, <1>3, <1>4
<1>6. Cardinality(I \ {p}) = b - 1 /\ IsFiniteSet(I \ {p})
 <2> HIDE DEF F, I
 <2> QED  BY <1>1, <1>2, <1>3, FS_RemoveElement
<1>7. Cardinality(I \ {p}) \in Nat  BY <1>6, FS_CardinalityType
<1>8. a = 0 /\ b = 1
 <2> HIDE DEF F, I
 <2>1. b >= 1  BY <1>4, <1>6, <1>7
 <2> QED  BY <1>4, <1>5, <2>1
<1>9. F = {} /\ I \ {p} = {}
 <2> HIDE DEF F, I
 <2>1. Cardinality(F) = 0 /\ Cardinality(I \ {p}) = 0  BY <1>3, <1>6, <1>8
 <2> QED  BY <2>1, <1>2, <1>6, FS_EmptySet
<1> QED  BY <1>1, <1>9

\* What a process that has its inode alone knows of the others
LEMMA OnlyMine ==
  ASSUME IndInv, FilesInv, NEW p \in Procs, u[p].pc \in Only
  PROVE  /\ u[p].ip \in Slots \ {Root} /\ u[p].fd # u[p].ip
         /\ inode[u[p].ip].count = 1 /\ inode[u[p].ip].lock
         /\ \A q \in Procs \ {p} : u[q].fd # u[p].ip /\ u[q].ip # u[p].ip
<1>1. \A q \in Procs : u[q].op # "sync"  BY DEF FilesInv, ProcOK, CtlOK
<1>2. inode[u[p].ip].count = 1 /\ inode[u[p].ip].lock  BY DEF FilesInv, ProcOK, HoldOK
<1>3. u[p].ip \in Slots \ {Root}  BY Facts DEF LocalOK, Only, IPutPCs
<1> QED  BY <1>1, <1>2, <1>3, Alone

\* A slot that a process refers to is taken.
LEMMA RefTaken ==
  ASSUME IndInv, FilesInv, NEW p \in Procs, NEW i \in Slots, u[p].fd = i \/ u[p].ip = i
  PROVE  inode[i].count \in Nat /\ inode[i].count >= 1 /\ inode[i].count # 0
<1>1. u[p].op # "sync"  BY DEF FilesInv, ProcOK, CtlOK
<1>2. PICK a : a = Own(u[p], i)  OBVIOUS
<1>3. a \in Nat /\ a >= 1  BY <1>1, <1>2 DEF Own
<1>4. inode[i].count \in Nat /\ inode[i].count >= a  BY <1>2, Counts
<1> QED  BY <1>3, <1>4
-----------------------------------------------------------------------------
(* Steps that keep UsedFiles and LinkedFiles.                              *)

\* Neither set changes when every number is in the same slot as before with the same
\* mode and links, or in none and on the disk as before.
LEMMA SetsSame ==
  ASSUME \A n \in Files :
            /\ \A i \in Slots : InCore(i, n)' <=> InCore(i, n)
            /\ \A i \in Slots : InCore(i, n) => /\ inode'[i].mode = inode[i].mode
                                                /\ inode'[i].nlink = inode[i].nlink
            /\ (\A i \in Slots : ~InCore(i, n)) => disk'[n] = disk[n]
  PROVE  UsedFiles' = UsedFiles /\ LinkedFiles' = LinkedFiles
<1>1. ASSUME NEW n \in Files PROVE n \in UsedFiles' <=> n \in UsedFiles
 <2>1. n \in UsedFiles <=> \/ \E i \in Slots : InCore(i, n) /\ inode[i].mode
                           \/ (\A i \in Slots : ~InCore(i, n)) /\ disk[n].mode
   BY DEF UsedFiles
 <2>2. n \in UsedFiles' <=> \/ \E i \in Slots : InCore(i, n)' /\ inode'[i].mode
                            \/ (\A i \in Slots : ~InCore(i, n)') /\ disk'[n].mode
   BY DEF UsedFiles
 <2> QED  BY <2>1, <2>2
<1>2. ASSUME NEW n \in Files PROVE n \in LinkedFiles' <=> n \in LinkedFiles
 <2>1. n \in LinkedFiles <=> \/ \E i \in Slots : InCore(i, n) /\ inode[i].nlink > 0
                             \/ (\A i \in Slots : ~InCore(i, n)) /\ disk[n].nlink > 0
   BY DEF LinkedFiles
 <2>2. n \in LinkedFiles' <=> \/ \E i \in Slots : InCore(i, n)' /\ inode'[i].nlink > 0
                              \/ (\A i \in Slots : ~InCore(i, n)') /\ disk'[n].nlink > 0
   BY DEF LinkedFiles
 <2> QED  BY <2>1, <2>2
<1>3. UsedFiles \subseteq Files /\ LinkedFiles \subseteq Files
      /\ UsedFiles' \subseteq Files /\ LinkedFiles' \subseteq Files
  BY DEF UsedFiles, LinkedFiles
<1> QED  BY <1>1, <1>2, <1>3

\* Which slots are being read changes only with a process that begins or ends to.
LEMMA LoadingSame ==
  ASSUME NEW p \in Procs, NEW r, u' = [u EXCEPT ![p] = r], u \in [Procs -> Local],
         u[p].pc # "load", r.pc # "load"
  PROVE  LoadingSlots' = LoadingSlots
<1>1. u'[p] = r /\ \A q \in Procs \ {p} : u'[q] = u[q]  OBVIOUS
<1>2. \A q \in Procs : (u'[q].pc = "load" <=> u[q].pc = "load")
                       /\ (u[q].pc = "load" => u'[q] = u[q])
  BY <1>1
<1> QED  BY <1>2 DEF LoadingSlots

\* What a step of p may do to slot i when it neither takes it nor gives it back: a slot
\* that another process has alone only gets the mark of one that waits
Flags(p, i) ==
    /\ inode'[i].num = inode[i].num /\ inode'[i].mode = inode[i].mode
    /\ inode'[i].nlink = inode[i].nlink
    /\ inode'[i].count = 0 <=> inode[i].count = 0
    /\ inode[i].dirty => inode'[i].dirty
    /\ (i # Root /\ inode[i].count # 0) => inode'[i].lock \/ inode'[i].mode
    /\ \A q \in Procs \ {p} : (u[q].pc \in Only /\ u[q].ip = i) =>
          inode'[i].count = inode[i].count /\ inode'[i].lock = inode[i].lock

\* What it may do to the disk: it writes what is in a slot
Written(i) == /\ inode[i].num \in Files /\ inode[i].count # 0 /\ i \notin LoadingSlots
              /\ disk' = [disk EXCEPT ![inode[i].num] = [mode |-> inode[i].mode,
                                                         nlink |-> inode[i].nlink]]

LEMMA WrittenSame ==
  ASSUME IndInv, NEW i \in Slots, Written(i)
  PROVE  /\ \A j \in Slots : (Synced(j) /\ inode[j].count # 0 /\ inode[j].num # NoNum) =>
               /\ disk'[inode[j].num].mode = inode[j].mode
               /\ disk'[inode[j].num].nlink = inode[j].nlink
         /\ disk'[inode[i].num].mode = inode[i].mode
         /\ disk'[inode[i].num].nlink = inode[i].nlink
         /\ \A n \in Files : n # inode[i].num => disk'[n] = disk[n]
<1>1. PICK n, m, l : n = inode[i].num /\ m = inode[i].mode /\ l = inode[i].nlink  OBVIOUS
<1>2. PICK d : d = [mode |-> m, nlink |-> l]  OBVIOUS
<1>3. d.mode = m /\ d.nlink = l  BY <1>2
<1>4. disk' = [disk EXCEPT ![n] = d] /\ n \in Files  BY <1>1, <1>2 DEF Written
<1>5. disk \in [{Root} \cup Files -> [mode : BOOLEAN, nlink : Int]]
  BY TypeParts DEF IndInv, TypeRest
<1>6. disk'[n] = d /\ \A k \in {Root} \cup Files : k # n => disk'[k] = disk[k]  BY <1>4, <1>5
<1>7. ASSUME NEW j \in Slots, Synced(j), inode[j].count # 0, inode[j].num # NoNum
      PROVE  /\ disk'[inode[j].num].mode = inode[j].mode
             /\ disk'[inode[j].num].nlink = inode[j].nlink
 <2>1. CASE j = i  BY <2>1, <1>1, <1>3, <1>6
 <2>2. CASE j # i
  <3>1. inode[i].count # 0 /\ inode[i].num # NoNum  BY <1>1, <1>4, Consts DEF Written
  <3>2. inode[j].num # n  BY <2>2, <1>7, <3>1, <1>1 DEF IndInv, OneEntryPerInode
  <3>3. inode[j].num \in {Root} \cup Files  BY <1>7, TypeParts DEF IndInv, InodeRec
  <3>4. disk'[inode[j].num] = disk[inode[j].num]  BY <3>2, <3>3, <1>6
  <3> QED  BY <1>7, <3>4 DEF Synced
 <2> QED  BY <2>1, <2>2
<1> QED  BY <1>1, <1>3, <1>4, <1>6, <1>7
\* The others go on with what they have when their slots keep their numbers and no file of
\* theirs changes.  Those at IGet and at the table of free numbers are not there: they would
\* have the processor.
LEMMA OthersOK ==
  ASSUME IndInv, FilesInv, NEW p \in Procs, NEW r, u' = [u EXCEPT ![p] = r],
         cpu \in {NoProc, p}, \A q \in Procs : chan[q] = LocalChan => chan'[q] = LocalChan \/ q = p,
         NEW q \in Procs \ {p},
         \A i \in Slots \ {Root} : (u[q].fd = i \/ u[q].ip = i) =>
            /\ inode'[i].num = inode[i].num
            /\ inode[i].num \in UsedFiles' <=> inode[i].num \in UsedFiles
            /\ \A e \in Entries : dir'[e].ino = inode[i].num => dir[e].ino = inode[i].num,
         u[q].pc \in Only =>
            /\ inode'[u[q].ip].count = 1 /\ inode'[u[q].ip].lock
            /\ inode[u[q].ip].num \in LinkedFiles' <=> inode[u[q].ip].num \in LinkedFiles
            /\ inode[u[q].ip].num \in FreeNums' => inode[u[q].ip].num \in FreeNums,
         u[q].pc = "iputend" => Synced(u[q].ip)'
  PROVE  ProcOK(q)'
<1>1. u'[q] = u[q] /\ q # NoProc /\ cpu # q  BY Consts
<1>2. CtlOK(q) /\ HoldOK(q) /\ FileOK(q)  BY DEF FilesInv, ProcOK
<1>3. u[q].pc = "iget" => Stuck(q)  BY <1>1, <1>2 DEF CtlOK
<1>4. Stuck(q)' <=> Stuck(q)  BY <1>1, <1>3 DEF Stuck
<1>5. CtlOK(q)'
 <2>1. u[q].pc # "pop"  BY <1>1, <1>2 DEF CtlOK
 <2> QED  BY <1>1, <1>2, <1>3, <1>4, <2>1 DEF CtlOK, Stuck
<1>6. /\ u[q].pc \in Only => u[q].ip \in Slots \ {Root}
      /\ u[q].pc \in Got => u[q].ip \in Slots \ {Root}
      /\ u[q].pc \in {"iput", "itrunc"} => u[q].ip \in Slots
  BY Facts DEF LocalOK, Only, Got, Has, IPutPCs
<1>7. HoldOK(q)'
 <2>1. u[q].pc \in Got => inode'[u[q].ip].num = u[q].num /\ u[q].num \in Files
   BY <1>2, <1>6 DEF HoldOK
 <2> QED  BY <1>1, <2>1 DEF HoldOK
<1>8. FileOK(q)'
 <2>1. u[q].fd # NoSlot => inode'[u[q].fd].num \in UsedFiles'
  <3> SUFFICES ASSUME u[q].fd # NoSlot PROVE inode'[u[q].fd].num \in UsedFiles'  OBVIOUS
  <3>1. u[q].fd \in Slots /\ inode[u[q].fd].num \in UsedFiles  BY <1>2, Facts DEF FileOK
  <3>2. u[q].fd # Root  BY <3>1, Facts, Consts DEF UsedFiles, RootInv
  <3> QED  BY <3>1, <3>2
 <2>2. u[q].pc \in {"iput", "itrunc"} /\ u[q].ip # Root => inode'[u[q].ip].num \in UsedFiles'
   BY <1>2, <1>6 DEF FileOK
 <2>3. u[q].pc = "itrunc" => inode'[u[q].ip].num \notin LinkedFiles'
  <3>1. u[q].pc = "itrunc" => u[q].pc \in Only  BY DEF Only
  <3> QED  BY <1>2, <1>6, <3>1 DEF FileOK
 <2>4. /\ u[q].pc \in Got =>
           /\ u[q].num = inode[u[q].ip].num
           /\ u[q].num \in UsedFiles' <=> u[q].num \in UsedFiles
           /\ \A e \in Entries : dir'[e].ino = u[q].num => dir[e].ino = u[q].num
   BY <1>2, <1>6 DEF HoldOK
 <2>5. u[q].pc \in Only \cap Got =>
           /\ u[q].num \in LinkedFiles' <=> u[q].num \in LinkedFiles
           /\ u[q].num \in FreeNums' => u[q].num \in FreeNums
   BY <2>4
 <2>6. ~Stuck(q) /\ (Finding(u[q]) \/ u[q].pc \in Has) => u[q].pc \in Got  BY <1>3 DEF Finding, Got
 <2>7. ~Stuck(q) /\ Fresh(u[q]) => u[q].pc \in Only \cap Got  BY <1>3 DEF Fresh, Got, Only
 <2>8. u[q].pc = "writedir" => u[q].pc \in Only \cap Got  BY DEF Got, Has, Only
 <2>9. ~Stuck(q) /\ (Finding(u[q]) \/ u[q].pc \in {"file", "clear"}) => u[q].pc \in Got
   BY <1>3 DEF Finding, Got, Has
 <2>10. ~Stuck(q) /\ (Finding(u[q]) \/ u[q].pc \in Has) => u[q].num \in UsedFiles'
   BY <1>2, <2>4, <2>6 DEF FileOK
 <2>11. ~Stuck(q) /\ Fresh(u[q]) => u[q].num \in Files \ (UsedFiles' \cup FreeNums')
   BY <1>2, <2>4, <2>5, <2>7 DEF FileOK
 <2>12. u[q].pc = "writedir" => /\ u[q].num \in LinkedFiles'
                                /\ \A e \in Entries : dir'[e].ino # u[q].num
   BY <1>2, <2>4, <2>5, <2>8 DEF FileOK
 <2>13. ~Stuck(q) /\ u[q].op = "unlink" /\ (Finding(u[q]) \/ u[q].pc \in {"file", "clear"})
           => \A e \in Entries : dir'[e].ino = u[q].num => e = u[q].at
   BY <1>2, <2>4, <2>9 DEF FileOK
 <2> QED  BY <1>1, <1>4, <2>1, <2>2, <2>3, <2>10, <2>11, <2>12, <2>13 DEF FileOK
<1> QED  BY <1>5, <1>7, <1>8 DEF ProcOK

\* A step that neither takes nor gives back a slot, reads no inode and leaves the names and
\* the free numbers: what is left to show is that p itself is all right.
LEMMA Keep ==
  ASSUME IndInv, FilesInv, NEW p \in Procs, NEW r, u' = [u EXCEPT ![p] = r],
         u[p].pc # "load", r.pc # "load", cpu \in {NoProc, p},
         \A q \in Procs : chan[q] = LocalChan => chan'[q] = LocalChan \/ q = p,
         UNCHANGED <<dir, stk>>, wild' = FALSE,
         \A i \in Slots : Flags(p, i),
         UNCHANGED disk \/ \E i \in Slots : Written(i) /\ UNCHANGED inode
  PROVE  /\ UsedFiles' = UsedFiles /\ LinkedFiles' = LinkedFiles /\ FreeNums' = FreeNums
         /\ LoadingSlots' = LoadingSlots
         /\ ProcOK(p)' => FilesInv'
<1>1. u \in [Procs -> Local] /\ inode \in [Slots -> InodeRec]  BY Facts
<1>2. LoadingSlots' = LoadingSlots  BY <1>1, LoadingSame
<1>3. FreeNums' = FreeNums  BY DEF FreeNums
<1>4. \A n \in Files, i \in Slots : InCore(i, n)' <=> InCore(i, n)  BY <1>2 DEF InCore, Flags
<1>5. \A n \in Files : (\A i \in Slots : ~InCore(i, n)) => disk'[n] = disk[n]
 <2>1. CASE UNCHANGED disk  BY <2>1
 <2>2. CASE \E i \in Slots : Written(i)
  <3>1. PICK i \in Slots : Written(i)  BY <2>2
  <3>2. InCore(i, inode[i].num)  BY <3>1 DEF InCore, Written
  <3>3. \A n \in Files : n # inode[i].num => disk'[n] = disk[n]  BY <3>1, WrittenSame
  <3> QED  BY <3>1, <3>2, <3>3
 <2> QED  BY <2>1, <2>2
<1>6. UsedFiles' = UsedFiles /\ LinkedFiles' = LinkedFiles
 <2>1. \A n \in Files, i \in Slots : InCore(i, n) => /\ inode'[i].mode = inode[i].mode
                                                     /\ inode'[i].nlink = inode[i].nlink
   BY DEF Flags
 <2> QED  BY <1>4, <1>5, <2>1, SetsSame
<1>7. \A i \in Slots : (Synced(i) /\ inode[i].count # 0 /\ inode[i].num # NoNum) => Synced(i)'
 <2> SUFFICES ASSUME NEW i \in Slots, Synced(i), inode[i].count # 0, inode[i].num # NoNum
              PROVE  Synced(i)'
   OBVIOUS
 <2>1. /\ disk'[inode[i].num].mode = inode[i].mode
       /\ disk'[inode[i].num].nlink = inode[i].nlink
   BY WrittenSame DEF Synced
 <2> QED  BY <2>1 DEF Synced, Flags
<1>8. SlotsOK'
 <2> SUFFICES ASSUME NEW i \in Slots, inode'[i].count # 0 PROVE SlotOK(i)'  BY DEF SlotsOK, SlotOK
 <2>1. SlotOK(i) /\ Flags(p, i)  BY DEF FilesInv, SlotsOK
 <2>2. inode[i].count # 0  BY <2>1 DEF Flags
 <2>3. inode'[i].num # NoNum /\ inode[i].num # NoNum  BY <2>1, <2>2 DEF SlotOK, Flags
 <2>4. i # Root => inode'[i].lock \/ inode'[i].mode  BY <2>1, <2>2 DEF Flags
 <2>5. i # Root => inode'[i].dirty \/ i \in LoadingSlots' \/ Synced(i)'
  <3>1. i # Root => inode[i].dirty \/ i \in LoadingSlots \/ Synced(i)  BY <2>1, <2>2 DEF SlotOK
  <3>2. Synced(i) => Synced(i)'  BY <1>7, <2>2, <2>3
  <3>3. inode[i].dirty => inode'[i].dirty  BY <2>1 DEF Flags
  <3> QED  BY <3>1, <3>2, <3>3, <1>2
 <2> QED  BY <2>3, <2>4, <2>5 DEF SlotOK
<1>9. DirOK' /\ StkOK'
 <2>1. DirOK /\ StkOK  BY DEF FilesInv
 <2> QED  BY <2>1, <1>3, <1>6 DEF DirOK, StkOK
<1>10. \A q \in Procs \ {p} : ProcOK(q)'
 <2> SUFFICES ASSUME NEW q \in Procs \ {p} PROVE ProcOK(q)'  OBVIOUS
 <2>1. \A i \in Slots \ {Root} : (u[q].fd = i \/ u[q].ip = i) =>
         /\ inode'[i].num = inode[i].num
         /\ inode[i].num \in UsedFiles' <=> inode[i].num \in UsedFiles
         /\ \A e \in Entries : dir'[e].ino = inode[i].num => dir[e].ino = inode[i].num
   BY <1>6 DEF Flags
 <2>2. u[q].pc \in Only =>
         /\ inode'[u[q].ip].count = 1 /\ inode'[u[q].ip].lock
         /\ inode[u[q].ip].num \in LinkedFiles' <=> inode[u[q].ip].num \in LinkedFiles
         /\ inode[u[q].ip].num \in FreeNums' => inode[u[q].ip].num \in FreeNums
   BY <1>3, <1>6, OnlyMine DEF Flags
 <2>3. u[q].pc = "iputend" => Synced(u[q].ip)'
  <3> SUFFICES ASSUME u[q].pc = "iputend" PROVE Synced(u[q].ip)'  OBVIOUS
  <3>1. u[q].ip \in Slots /\ inode[u[q].ip].count # 0 /\ Synced(u[q].ip)
    BY OnlyMine DEF Only, FilesInv, ProcOK, HoldOK
  <3>2. inode[u[q].ip].num # NoNum  BY <3>1 DEF FilesInv, SlotsOK, SlotOK
  <3>3. PICK i : i = u[q].ip  OBVIOUS
  <3>4. Synced(i)'  BY <1>7, <3>1, <3>2, <3>3
  <3>5. u'[q] = u[q]  BY <1>1
  <3> QED  BY <3>3, <3>4, <3>5 DEF Synced
 <2> QED  BY <2>1, <2>2, <2>3, OthersOK
<1> QED  BY <1>2, <1>3, <1>6, <1>8, <1>9, <1>10 DEF FilesInv
-----------------------------------------------------------------------------
(* What a step does to the slots, and where it leaves p.                   *)

LEMMA FlagsSame ==
  ASSUME FilesInv, NEW p \in Procs, UNCHANGED inode
  PROVE  \A i \in Slots : Flags(p, i)
  BY DEF Flags, FilesInv, SlotsOK, SlotOK

\* A step on slot i that has p's reference, or a lock to take, or that leaves both its
\* count and its lock
LEMMA FlagsSlot ==
  ASSUME IndInv, FilesInv, NEW p \in Procs, NEW i \in Slots, NEW s,
         inode' = [inode EXCEPT ![i] = s],
         s.num = inode[i].num, s.mode = inode[i].mode, s.nlink = inode[i].nlink,
         s.count = 0 <=> inode[i].count = 0, inode[i].dirty => s.dirty,
         i = Root \/ s.lock \/ s.mode,
         \/ i = Root \/ u[p].ip = i \/ u[p].fd = i \/ ~inode[i].lock
         \/ s.count = inode[i].count /\ s.lock = inode[i].lock
  PROVE  \A j \in Slots : Flags(p, j)
<1> SUFFICES ASSUME NEW j \in Slots PROVE Flags(p, j)  OBVIOUS
<1>1. inode \in [Slots -> InodeRec]  BY Facts
<1>2. CASE j # i
 <2>1. inode'[j] = inode[j]  BY <1>1, <1>2
 <2> QED  BY <2>1 DEF Flags, FilesInv, SlotsOK, SlotOK
<1>3. CASE j = i
 <2>1. inode'[j] = s  BY <1>1, <1>3
 <2>2. ASSUME NEW q \in Procs \ {p}, u[q].pc \in Only, u[q].ip = j
       PROVE  s.count = inode[j].count /\ s.lock = inode[j].lock
  <3>1. j # Root /\ inode[j].lock /\ u[p].ip # j /\ u[p].fd # j  BY <2>2, OnlyMine
  <3> QED  BY <1>3, <3>1
 <2> QED  BY <1>3, <2>1, <2>2 DEF Flags
<1> QED  BY <1>2, <1>3

\* p has no inode that it found or made, or puts one back
LEMMA NextOK ==
  ASSUME u \in [Procs -> Local], NEW p \in Procs, NEW r, u' = [u EXCEPT ![p] = r],
         r.op # "sync", r.pc \notin Only \cup Got \cup {"iget", "pop"},
         r.pc = "iput" => r.ret = "idle",
         r.fd # NoSlot => inode'[r.fd].num \in UsedFiles',
         r.pc = "iput" /\ r.ip # Root => inode'[r.ip].num \in UsedFiles'
  PROVE  ProcOK(p)'
<1>1. u'[p] = r  OBVIOUS
<1>2. r.pc \notin {"iget", "load", "new", "pop", "itrunc", "iupdate", "iwrite", "iputend"} \cup Has
  BY DEF Only, Got
<1>3. CtlOK(p)'  BY <1>1, <1>2 DEF CtlOK, IPutPCs
<1>4. HoldOK(p)'  BY <1>1, <1>2 DEF HoldOK
<1>5. FileOK(p)'  BY <1>1, <1>2 DEF FileOK, Finding, Fresh, Has
<1> QED  BY <1>3, <1>4, <1>5 DEF ProcOK

\* p has a file in use, not alone
LEMMA HasOK ==
  ASSUME u \in [Procs -> Local], NEW p \in Procs, NEW r, u' = [u EXCEPT ![p] = r],
         r.op # "sync", r.pc \in Has \ {"writedir"},
         r.fd # NoSlot => inode'[r.fd].num \in UsedFiles',
         inode'[r.ip].num = r.num, r.num \in UsedFiles',
         r.op = "unlink" /\ r.pc \in {"file", "clear"} =>
            \A e \in Entries : dir'[e].ino = r.num => e = r.at
  PROVE  ProcOK(p)'
<1>1. u'[p] = r  OBVIOUS
<1>2. /\ r.pc \notin {"iget", "load", "new", "pop", "iput", "itrunc", "iupdate", "iwrite",
                      "iputend", "writedir"}
      /\ r.pc \notin Only /\ r.pc \notin IPutPCs
  BY DEF Has, Only, IPutPCs
<1>3. CtlOK(p)'  BY <1>1, <1>2 DEF CtlOK
<1>4. HoldOK(p)'
 <2>1. r.num \in Files  BY DEF UsedFiles
 <2> QED  BY <1>1, <1>2, <2>1 DEF HoldOK
<1>5. FileOK(p)'  BY <1>1, <1>2 DEF FileOK, Finding, Fresh
<1> QED  BY <1>3, <1>4, <1>5 DEF ProcOK

\* What p knows of its file, of the file it has open and of its call
LEMMA Mine ==
  ASSUME IndInv, FilesInv, NEW p \in Procs
  PROVE  /\ u[p].op # "sync"
         /\ u[p].fd # NoSlot => /\ inode[u[p].fd].num \in UsedFiles
                                /\ u[p].fd \in Slots \ {Root}
         /\ u[p].pc \in Got => /\ inode[u[p].ip].num = u[p].num
                               /\ u[p].ip \in Slots \ {Root}
         /\ u[p].pc \in Has => u[p].num \in UsedFiles
         /\ u[p].pc = "iput" /\ u[p].ip # Root => inode[u[p].ip].num \in UsedFiles
         /\ u[p].op = "unlink" /\ u[p].pc \in {"file", "clear"} =>
               \A e \in Entries : dir[e].ino = u[p].num => e = u[p].at
<1>1. CtlOK(p) /\ HoldOK(p) /\ FileOK(p)  BY DEF FilesInv, ProcOK
<1>2. u[p].fd # NoSlot => /\ inode[u[p].fd].num \in UsedFiles
                          /\ u[p].fd \in Slots \ {Root}
 <2> SUFFICES ASSUME u[p].fd # NoSlot
              PROVE  inode[u[p].fd].num \in UsedFiles /\ u[p].fd \in Slots \ {Root}
   OBVIOUS
 <2>1. u[p].fd \in Slots /\ inode[u[p].fd].num \in UsedFiles  BY <1>1, Facts DEF FileOK
 <2>2. u[p].fd # Root  BY <2>1, Facts, Consts DEF UsedFiles, RootInv
 <2> QED  BY <2>1, <2>2
<1>3. u[p].pc \in Got => u[p].ip \in Slots \ {Root}  BY Facts DEF LocalOK, Got, Has
<1>4. u[p].pc \in Has => ~Stuck(p)  BY DEF Has, Stuck
<1>5. u[p].pc \in {"file", "clear"} => ~Stuck(p)  BY DEF Stuck
<1>6. /\ u[p].pc \in Has => u[p].num \in UsedFiles
      /\ u[p].op = "unlink" /\ u[p].pc \in {"file", "clear"} =>
            \A e \in Entries : dir[e].ino = u[p].num => e = u[p].at
  BY <1>1, <1>4, <1>5 DEF FileOK
<1> QED  BY <1>1, <1>2, <1>3, <1>6 DEF CtlOK, HoldOK, FileOK

\* A slot that is not being read tells whether its file is in use and has a link.
LEMMA Told ==
  ASSUME IndInv, NEW i \in Slots, inode[i].num \in Files, inode[i].count # 0,
         i \notin LoadingSlots
  PROVE  /\ inode[i].num \in UsedFiles <=> inode[i].mode
         /\ inode[i].num \in LinkedFiles <=> inode[i].nlink > 0
<1> DEFINE n == inode[i].num
<1>1. InCore(i, n)  BY DEF InCore
<1>2. \A j \in Slots : InCore(j, n) => j = i  BY Consts DEF InCore, IndInv, OneEntryPerInode
<1> QED  BY <1>1, <1>2 DEF UsedFiles, LinkedFiles
\* A slot of p is being read only by p.
LEMMA NotLoading ==
  ASSUME IndInv, FilesInv, NEW p \in Procs, NEW i \in Slots,
         u[p].fd = i \/ (u[p].ip = i /\ u[p].pc # "load")
  PROVE  i \notin LoadingSlots
<1> SUFFICES ASSUME NEW q \in Procs, u[q].pc = "load", u[q].ip = i PROVE FALSE  BY DEF LoadingSlots
<1>1. \A o \in Procs \ {q} : u[o].fd # i /\ u[o].ip # i  BY OnlyMine DEF Only
<1>2. u[q].fd # i  BY OnlyMine DEF Only
<1> QED  BY <1>1, <1>2

\* The file that p has is in use as its slot says.
LEMMA HeldMode ==
  ASSUME IndInv, FilesInv, NEW p \in Procs, NEW i \in Slots,
         u[p].fd = i \/ (u[p].ip = i /\ u[p].pc # "load"), inode[i].num \in Files
  PROVE  /\ inode[i].num \in UsedFiles <=> inode[i].mode
         /\ inode[i].num \in LinkedFiles <=> inode[i].nlink > 0
  BY RefTaken, NotLoading, Told

LEMMA Sleepers ==
  ASSUME TypeRest, NEW i \in Slots \cup {ILockChan},
         PreleWakes(i) \/ WakeUpAll(i) \/ UNCHANGED chan
  PROVE  \A q \in Procs : chan[q] = LocalChan => chan'[q] = LocalChan
<1>1. i # LocalChan  BY Consts DEF LocalChan, ILockChan
<1>2. CASE UNCHANGED chan  BY <1>2
<1>3. CASE WakeUpAll(i)  BY <1>1, <1>3 DEF WakeUpAll
<1>4. CASE PreleWakes(i)
 <2>1. WakeUpAll(i) \/ UNCHANGED chan  BY <1>4, Zenon DEF PreleWakes
 <2> QED  BY <2>1, <1>2, <1>3
<1> QED  BY <1>2, <1>3, <1>4

\* A step that leaves all but the variables of p
LEMMA KeepAll ==
  ASSUME IndInv, FilesInv, NEW p \in Procs, NEW r, u' = [u EXCEPT ![p] = r],
         u[p].pc # "load", r.pc # "load", cpu \in {NoProc, p},
         UNCHANGED <<inode, disk, dir, stk, wild>>,
         \A q \in Procs : chan[q] = LocalChan => chan'[q] = LocalChan \/ q = p
  PROVE  /\ UsedFiles' = UsedFiles /\ LinkedFiles' = LinkedFiles
         /\ ProcOK(p)' => FilesInv'
<1>1. \A i \in Slots : Flags(p, i)  BY FlagsSame
<1>2. wild' = FALSE  BY Facts DEF FilesInv, TypeRest
<1> QED  BY <1>1, <1>2, Keep

\* ... and then p has no inode that it found or made, or puts one back
LEMMA GoOn ==
  ASSUME IndInv, FilesInv, NEW p \in Procs, NEW r, u' = [u EXCEPT ![p] = r],
         u[p].pc # "load", cpu \in {NoProc, p},
         UNCHANGED <<inode, disk, dir, stk, wild>>,
         \A q \in Procs : chan[q] = LocalChan => chan'[q] = LocalChan \/ q = p,
         r.op # "sync", r.pc \notin Only \cup Got \cup {"iget", "pop"},
         r.pc = "iput" => r.ret = "idle", r.fd \in {u[p].fd, NoSlot},
         r.pc = "iput" /\ r.ip # Root => inode[r.ip].num \in UsedFiles
  PROVE  FilesInv'
<1>1. r.pc # "load"  BY DEF Only
<1>2. /\ UsedFiles' = UsedFiles
      /\ ProcOK(p)' => FilesInv'
  BY <1>1, KeepAll
<1>3. r.fd # NoSlot => inode'[r.fd].num \in UsedFiles'  BY <1>2, Mine
<1>4. r.pc = "iput" /\ r.ip # Root => inode'[r.ip].num \in UsedFiles'  BY <1>2
<1>5. u \in [Procs -> Local]  BY Facts
<1>6. ProcOK(p)'  BY <1>3, <1>4, <1>5, NextOK
<1> QED  BY <1>2, <1>6
-----------------------------------------------------------------------------
(* The steps that change nothing but where p is.                           *)

LEMMA IdleRec ==
  ASSUME NEW f
  PROVE  LET r == [Idle EXCEPT !.fd = f]
         IN r.pc = "idle" /\ r.op = "none" /\ r.ip = NoSlot /\ r.fd = f /\ r.at = NoEntry
  BY DEF Idle

LEMMA Places ==
  /\ {"idle", "iput", "search", "ialloc", "isearch", "panic", "io", "nflock", "fstat"}
        \cap (Only \cup Got \cup {"iget", "pop"}) = {}
  /\ "load" \notin Has /\ "load" \in Only
  BY DEF Only, Got, Has

LEMMA IGetFullFiles ==
  ASSUME IndInv, FilesInv, NEW p \in Procs, IGetFull(p)
  PROVE  FilesInv'
<1> DEFINE r == IF u[p].op = "unlink" THEN Pc(p, "panic") ELSE [Idle EXCEPT !.fd = u[p].fd]
<1>1. /\ u' = [u EXCEPT ![p] = r] /\ u[p].pc = "iget" /\ cpu \in {NoProc, p}
      /\ UNCHANGED <<inode, disk, dir, stk, wild, chan>>
  BY DEF IGetFull, Go, Return, GoSleepy, At
<1>2. r.pc \in {"panic", "idle"} /\ r.fd = u[p].fd /\ r.op # "sync"
  BY Facts, IdleRec DEF Pc, Local, Idle
<1> HIDE DEF r
<1> QED  BY <1>1, <1>2, Places, GoOn

LEMMA CallNameFiles ==
  ASSUME IndInv, FilesInv, NEW p \in Procs, CallName(p)
  PROVE  FilesInv'
<1>1. PICK o \in Calls, n \in Names :
         Go(p, [u[p] EXCEPT !.pc = "iget", !.op = o, !.name = n, !.num = Root,
                            !.ret = "search"])
  BY DEF CallName
<1>2. PICK r : r = [u[p] EXCEPT !.pc = "iget", !.op = o, !.name = n, !.num = Root,
                                !.ret = "search"]
  OBVIOUS
<1>3. r.pc = "iget" /\ r.op = o /\ r.ret = "search" /\ r.fd = u[p].fd  BY <1>2, Facts DEF Local
<1>4. /\ u' = [u EXCEPT ![p] = r] /\ cpu' = p /\ u[p].pc = "idle" /\ cpu \in {NoProc, p}
      /\ UNCHANGED <<inode, disk, dir, stk, wild, chan>>
  BY <1>1, <1>2 DEF CallName, Go, At
<1>5. UsedFiles' = UsedFiles /\ (ProcOK(p)' => FilesInv')  BY <1>3, <1>4, KeepAll
<1>6. u'[p] = r /\ o # "sync"  BY <1>4, Facts DEF Calls
<1>7. CtlOK(p)' /\ HoldOK(p)'  BY <1>3, <1>4, <1>6 DEF CtlOK, HoldOK, IPutPCs, Only, Got, Has
<1>8. FileOK(p)'
 <2>1. u[p].fd # NoSlot => inode[u[p].fd].num \in UsedFiles  BY Mine
 <2> QED  BY <1>3, <1>4, <1>5, <1>6, <2>1 DEF FileOK, Finding, Fresh, Has
<1> QED  BY <1>5, <1>7, <1>8 DEF ProcOK

LEMMA PutRecOf ==
  ASSUME IndInv, NEW p \in Procs, NEW i, NEW t
  PROVE  LET r == [u[p] EXCEPT !.pc = "iput", !.ip = i, !.ret = t]
         IN r.pc = "iput" /\ r.ip = i /\ r.ret = t /\ r.fd = u[p].fd /\ r.op = u[p].op
  BY Facts DEF Local

LEMMA PcOf ==
  ASSUME IndInv, NEW p \in Procs, NEW l
  PROVE  /\ Pc(p, l).pc = l /\ Pc(p, l).ip = u[p].ip /\ Pc(p, l).ret = u[p].ret
         /\ Pc(p, l).fd = u[p].fd /\ Pc(p, l).op = u[p].op /\ Pc(p, l).num = u[p].num
         /\ Pc(p, l).at = u[p].at
  BY Facts DEF Local, Pc

\* The calls that put back the directory, or the file that was found
LEMMA PutFiles ==
  ASSUME IndInv, FilesInv, NEW p \in Procs, u[p].pc \in {"search", "file"},
         Put(p, u[p].ip, "idle"), cpu \in {NoProc, p},
         UNCHANGED <<inode, disk, dir, stk, wild, chan>>
  PROVE  FilesInv'
<1>1. PICK r : r = [u[p] EXCEPT !.pc = "iput", !.ip = u[p].ip, !.ret = "idle"]  OBVIOUS
<1>2. /\ r.pc = "iput" /\ r.ip = u[p].ip /\ r.ret = "idle" /\ r.fd = u[p].fd
      /\ r.op = u[p].op
  BY <1>1, PutRecOf
<1>3. u' = [u EXCEPT ![p] = r]  BY <1>1 DEF Put, Go
<1>4. r.ip # Root => inode[r.ip].num \in UsedFiles
 <2>1. CASE u[p].pc = "search"  BY <2>1, <1>2, Facts DEF LocalOK
 <2>2. CASE u[p].pc = "file"  BY <2>2, <1>2, Mine DEF Has, Got
 <2> QED  BY <2>1, <2>2
<1> QED  BY <1>2, <1>3, <1>4, Places, Mine, GoOn

LEMMA NameMissingFiles ==
  ASSUME IndInv, FilesInv, NEW p \in Procs, NameMissing(p) \/ OpenDenied(p) \/ NotOwner(p)
  PROVE  FilesInv'
  BY PutFiles DEF NameMissing, OpenDenied, NotOwner, At

LEMMA NameNewFiles ==
  ASSUME IndInv, FilesInv, NEW p \in Procs, NameNew(p)
  PROVE  FilesInv'
<1>1. PICK e \in FirstFree : Go(p, [u[p] EXCEPT !.pc = "ialloc", !.at = e, !.ip = NoSlot])
  BY DEF NameNew
<1>2. PICK r : r = [u[p] EXCEPT !.pc = "ialloc", !.at = e, !.ip = NoSlot]  OBVIOUS
<1>3. r.pc = "ialloc" /\ r.fd = u[p].fd /\ r.op = u[p].op  BY <1>2, Facts DEF Local
<1>4. /\ u' = [u EXCEPT ![p] = r] /\ u[p].pc = "search" /\ cpu \in {NoProc, p}
      /\ UNCHANGED <<inode, disk, dir, stk, wild, chan>>
  BY <1>1, <1>2 DEF NameNew, Go, At
<1> QED  BY <1>3, <1>4, Places, Mine, GoOn

\* p has the inode alone: the places of IPut of the last reference
LEMMA LastOK ==
  ASSUME u \in [Procs -> Local], NEW p \in Procs, NEW r, u' = [u EXCEPT ![p] = r],
         r.op # "sync", r.pc \in {"itrunc", "iupdate", "iwrite", "iputend"}, r.ret = "idle",
         r.fd # NoSlot => inode'[r.fd].num \in UsedFiles',
         inode'[r.ip].count = 1, inode'[r.ip].lock,
         r.pc = "iputend" => /\ disk'[inode'[r.ip].num].mode = inode'[r.ip].mode
                             /\ disk'[inode'[r.ip].num].nlink = inode'[r.ip].nlink,
         r.pc = "itrunc" => inode'[r.ip].num \in UsedFiles' \ LinkedFiles'
  PROVE  ProcOK(p)'
<1>1. u'[p] = r  OBVIOUS
<1>2. r.pc \notin {"iget", "load", "new", "pop", "iput", "writedir"} /\ r.pc \notin Has
      /\ r.pc \notin Got
  BY DEF Has, Got
<1>3. CtlOK(p)'  BY <1>1, <1>2 DEF CtlOK
<1>4. HoldOK(p)'  BY <1>1, <1>2 DEF HoldOK, Synced
<1>5. FileOK(p)'  BY <1>1, <1>2 DEF FileOK, Finding, Fresh, Has
<1> QED  BY <1>3, <1>4, <1>5 DEF ProcOK

LEMMA IUpdateFiles ==
  ASSUME IndInv, FilesInv, NEW p \in Procs, IUpdate(p)
  PROVE  FilesInv'
<1>1. PICK r : r = IF inode[u[p].ip].dirty THEN Pc(p, "iwrite") ELSE Pc(p, "iputend")  OBVIOUS
<1>2. /\ u' = [u EXCEPT ![p] = r] /\ u[p].pc = "iupdate" /\ cpu \in {NoProc, p}
      /\ UNCHANGED <<inode, disk, dir, stk, wild, chan>>
  BY <1>1 DEF IUpdate, Go, GoSleepy, At
<1>3. /\ r.pc = IF inode[u[p].ip].dirty THEN "iwrite" ELSE "iputend"
      /\ r.ip = u[p].ip /\ r.ret = u[p].ret /\ r.fd = u[p].fd /\ r.op = u[p].op
  BY <1>1, PcOf
<1>4. UsedFiles' = UsedFiles /\ (ProcOK(p)' => FilesInv')  BY <1>2, <1>3, KeepAll
<1>5. u[p].ip \in Slots \ {Root} /\ inode[u[p].ip].count = 1 /\ inode[u[p].ip].lock
  BY <1>2, OnlyMine DEF Only
<1>6. u[p].ret = "idle"  BY <1>2 DEF FilesInv, ProcOK, CtlOK, IPutPCs
<1>7. ~inode[u[p].ip].dirty => Synced(u[p].ip)
 <2>1. u[p].ip \notin LoadingSlots  BY <1>2, <1>5, NotLoading
 <2> QED  BY <1>5, <2>1 DEF FilesInv, SlotsOK, SlotOK
<1>8. /\ r.op # "sync" /\ r.pc \in {"itrunc", "iupdate", "iwrite", "iputend"}
      /\ r.pc # "itrunc" /\ r.ret = "idle"
      /\ r.fd # NoSlot => inode'[r.fd].num \in UsedFiles'
      /\ inode'[r.ip].count = 1 /\ inode'[r.ip].lock
  BY <1>2, <1>3, <1>4, <1>5, <1>6, Mine
<1>9. r.pc = "iputend" => /\ disk'[inode'[r.ip].num].mode = inode'[r.ip].mode
                          /\ disk'[inode'[r.ip].num].nlink = inode'[r.ip].nlink
  BY <1>2, <1>3, <1>7 DEF Synced
<1>10. ProcOK(p)'  BY <1>2, <1>8, <1>9, Facts, LastOK
<1> QED  BY <1>4, <1>10

\* p goes on with the file that it has.
LEMMA StayHas ==
  ASSUME IndInv, FilesInv, NEW p \in Procs, NEW r, u' = [u EXCEPT ![p] = r],
         u[p].pc \in Has, cpu \in {NoProc, p},
         UNCHANGED <<inode, disk, dir, stk, wild, chan>>,
         r.op = u[p].op, r.fd = u[p].fd, r.num = u[p].num, r.ip = u[p].ip, r.at = u[p].at,
         r.pc \in Has \ {"writedir"},
         r.op = "unlink" /\ r.pc \in {"file", "clear"} => u[p].pc \in {"file", "clear"}
  PROVE  FilesInv'
<1>1. UsedFiles' = UsedFiles /\ (ProcOK(p)' => FilesInv')  BY Places, KeepAll
<1>2. u[p].pc \in Got  BY DEF Got
<1>3. /\ r.op # "sync" /\ inode'[r.ip].num = r.num /\ r.num \in UsedFiles'
      /\ r.fd # NoSlot => inode'[r.fd].num \in UsedFiles'
  BY <1>1, <1>2, Mine
<1>4. r.op = "unlink" /\ r.pc \in {"file", "clear"} =>
        \A e \in Entries : dir'[e].ino = r.num => e = r.at
  BY Mine
<1>5. ProcOK(p)'  BY <1>3, <1>4, Facts, HasOK
<1> QED  BY <1>1, <1>5

LEMMA OpenFileFiles ==
  ASSUME IndInv, FilesInv, NEW p \in Procs, OpenFile(p)
  PROVE  FilesInv'
<1>1. PICK r : r = IF u[p].op = "open" THEN Pc(p, "opened") ELSE Pc(p, "trunc")  OBVIOUS
<1>2. /\ u' = [u EXCEPT ![p] = r] /\ u[p].pc = "file" /\ cpu \in {NoProc, p}
      /\ u[p].op \in {"open", "creat"}
      /\ UNCHANGED <<inode, disk, dir, stk, wild, chan>>
  BY <1>1 DEF OpenFile, Go, GoSleepy, At
<1>3. /\ r.pc \in {"opened", "trunc"} /\ r.num = u[p].num /\ r.at = u[p].at
      /\ r.ip = u[p].ip /\ r.fd = u[p].fd /\ r.op = u[p].op
  BY <1>1, PcOf
<1>4. u[p].pc \in Has /\ r.pc \in Has \ {"writedir"}  BY <1>2, <1>3 DEF Has
<1> QED  BY <1>2, <1>3, <1>4, StayHas

LEMMA UnLinkFiles ==
  ASSUME IndInv, FilesInv, NEW p \in Procs, UnLink(p)
  PROVE  FilesInv'
<1>1. PICK r : r = Pc(p, "clear")  OBVIOUS
<1>2. /\ u' = [u EXCEPT ![p] = r] /\ u[p].pc = "file" /\ cpu \in {NoProc, p}
      /\ UNCHANGED <<inode, disk, dir, stk, wild, chan>>
  BY <1>1 DEF UnLink, Go, GoSleepy, At
<1>3. /\ r.pc = "clear" /\ r.num = u[p].num /\ r.at = u[p].at
      /\ r.ip = u[p].ip /\ r.fd = u[p].fd /\ r.op = u[p].op
  BY <1>1, PcOf
<1>4. u[p].pc \in Has /\ r.pc \in Has \ {"writedir"}  BY <1>2, <1>3 DEF Has
<1> QED  BY <1>2, <1>3, <1>4, StayHas

LEMMA StatRec ==
  ASSUME IndInv, NEW p \in Procs
  PROVE  LET r == [u[p] EXCEPT !.pc = "iput", !.ret = "idle"]
         IN r.pc = "iput" /\ r.ip = u[p].ip /\ r.ret = "idle" /\ r.fd = u[p].fd /\ r.op = u[p].op
  BY Facts DEF Local

LEMMA StatFiles ==
  ASSUME IndInv, FilesInv, NEW p \in Procs, Stat(p)
  PROVE  FilesInv'
<1>1. /\ u[p].pc = "file" /\ cpu \in {NoProc, p} /\ u[p].op = "stat"
      /\ UNCHANGED <<inode, disk, dir, stk, wild, chan>>
      /\ GoSleepy(p, Pc(p, "stat")) \/ StatRead(p)
  BY DEF Stat, At
<1>2. u[p].pc \in Got /\ u[p].pc \in Has  BY <1>1 DEF Got, Has
<1>3. CASE GoSleepy(p, Pc(p, "stat"))
 <2>1. PICK r : r = Pc(p, "stat")  OBVIOUS
 <2>2. u' = [u EXCEPT ![p] = r]  BY <2>1, <1>3 DEF GoSleepy
 <2>3. /\ r.pc = "stat" /\ r.num = u[p].num /\ r.at = u[p].at
       /\ r.ip = u[p].ip /\ r.fd = u[p].fd /\ r.op = u[p].op
   BY <2>1, PcOf
 <2>4. r.pc \in Has \ {"writedir"}  BY <2>3 DEF Has
 <2> QED  BY <1>1, <1>2, <2>2, <2>3, <2>4, StayHas
<1>4. CASE StatRead(p)
 <2>1. PICK r : r = [u[p] EXCEPT !.pc = "iput", !.ret = "idle"]  OBVIOUS
 <2>2. u' = [u EXCEPT ![p] = r]  BY <2>1, <1>4 DEF StatRead, GoSleepy
 <2>3. /\ r.pc = "iput" /\ r.ip = u[p].ip /\ r.ret = "idle" /\ r.fd = u[p].fd
       /\ r.op = u[p].op
   BY <2>1, StatRec
 <2> QED  BY <1>1, <1>2, <2>2, <2>3, Places, Mine, GoOn
<1> QED  BY <1>1, <1>3, <1>4

LEMMA IAllocWaitFiles ==
  ASSUME IndInv, FilesInv, NEW p \in Procs, IAllocWait(p)
  PROVE  FilesInv'
<1>1. /\ u[p].pc = "ialloc" /\ cpu \in {NoProc, p}
      /\ UNCHANGED <<inode, disk, dir, stk, wild, u>>
      /\ chan' = [chan EXCEPT ![p] = ILockChan]
  BY DEF IAllocWait, SleepOn, At
<1>2. u' = [u EXCEPT ![p] = u[p]]  BY <1>1, Facts
<1>3. \A q \in Procs : chan[q] = LocalChan => chan'[q] = LocalChan \/ q = p
  BY <1>1, Facts DEF TypeRest
<1> QED  BY <1>1, <1>2, <1>3, Places, Mine, GoOn

LEMMA IAllocBeginFiles ==
  ASSUME IndInv, FilesInv, NEW p \in Procs, IAllocBegin(p)
  PROVE  FilesInv'
<1>1. PICK r : r = IF stk = <<>> THEN Pc(p, "isearch") ELSE Pc(p, "pop")  OBVIOUS
<1>2. /\ u' = [u EXCEPT ![p] = r] /\ u[p].pc = "ialloc" /\ cpu \in {NoProc, p}
      /\ UNCHANGED <<inode, disk, dir, stk, wild, chan>>
      /\ stk # <<>> => cpu' = p
  BY <1>1 DEF IAllocBegin, Go, GoSleepy, At
<1>3. /\ r.pc = IF stk = <<>> THEN "isearch" ELSE "pop"
      /\ r.ip = u[p].ip /\ r.ret = u[p].ret /\ r.fd = u[p].fd /\ r.op = u[p].op
  BY <1>1, PcOf
<1>4. CASE stk = <<>>  BY <1>2, <1>3, <1>4, Places, Mine, GoOn
<1>5. CASE stk # <<>>
 <2>1. UsedFiles' = UsedFiles /\ (ProcOK(p)' => FilesInv')  BY <1>2, <1>3, KeepAll
 <2>2. u'[p] = r /\ r.pc = "pop" /\ r.op # "sync"  BY <1>2, <1>3, <1>5, Facts, Mine
 <2>3. CtlOK(p)' /\ HoldOK(p)'  BY <1>2, <1>5, <2>2 DEF CtlOK, HoldOK, IPutPCs, Only, Got, Has
 <2>4. FileOK(p)'
  <3>1. u[p].fd # NoSlot => inode[u[p].fd].num \in UsedFiles  BY Mine
  <3> QED  BY <1>2, <1>3, <2>1, <2>2, <3>1 DEF FileOK, Finding, Fresh, Has
 <2> QED  BY <2>1, <2>3, <2>4 DEF ProcOK
<1> QED  BY <1>4, <1>5

LEMMA CloseFiles ==
  ASSUME IndInv, FilesInv, NEW p \in Procs, Close(p)
  PROVE  FilesInv'
<1>1. PICK r : r = [u[p] EXCEPT !.pc = "iput", !.ip = u[p].fd, !.ret = "idle", !.fd = NoSlot]
  OBVIOUS
<1>2. /\ u' = [u EXCEPT ![p] = r] /\ u[p].pc = "idle" /\ cpu \in {NoProc, p}
      /\ u[p].fd # NoSlot
      /\ UNCHANGED <<inode, disk, dir, stk, wild, chan>>
  BY <1>1 DEF Close, Go, At
<1>3. /\ r.pc = "iput" /\ r.ip = u[p].fd /\ r.ret = "idle" /\ r.fd = NoSlot
      /\ r.op = u[p].op
  BY <1>1, Facts DEF Local
<1> QED  BY <1>2, <1>3, Places, Mine, GoOn

LEMMA RdwrFiles ==
  ASSUME IndInv, FilesInv, NEW p \in Procs, Rdwr(p) \/ FStat(p)
  PROVE  FilesInv'
<1>1. PICK l \in {"nflock", "fstat"} :
         /\ u' = [u EXCEPT ![p] = Pc(p, l)] /\ u[p].pc = "idle" /\ cpu \in {NoProc, p}
         /\ UNCHANGED <<inode, disk, dir, stk, wild, chan>>
  BY DEF Rdwr, FStat, Go, GoSleepy, At
<1>2. PICK r : r = Pc(p, l)  OBVIOUS
<1>3. r.pc = l /\ r.fd = u[p].fd /\ r.op = u[p].op  BY <1>2, PcOf
<1> QED  BY <1>1, <1>2, <1>3, Places, Mine, GoOn
-----------------------------------------------------------------------------
(* The steps that write an inode to the disk, and those that only count,   *)
(* lock and unlock.                                                        *)

LEMMA HeldNum ==
  ASSUME IndInv, FilesInv, NEW i \in Slots \ {Root}, inode[i].count # 0
  PROVE  inode[i].num \in Files
<1>1. inode[i].num # NoNum  BY DEF FilesInv, SlotsOK, SlotOK
<1>2. inode[i].num \in {NoNum, Root} \cup Files  BY TypeParts DEF IndInv, InodeRec
<1>3. inode[i].num # Root  BY DEF IndInv, RootInv
<1> QED  BY <1>1, <1>2, <1>3

LEMMA KeepCopied ==
  ASSUME IndInv, FilesInv, NEW p \in Procs, NEW r, u' = [u EXCEPT ![p] = r],
         u[p].pc # "load", r.pc # "load", cpu \in {NoProc, p},
         NEW i \in Slots \ {Root}, u[p].fd = i \/ u[p].ip = i, Copied(i),
         UNCHANGED <<inode, dir, stk, chan>>
  PROVE  /\ UsedFiles' = UsedFiles
         /\ disk'[inode[i].num].mode = inode[i].mode
         /\ disk'[inode[i].num].nlink = inode[i].nlink
         /\ ProcOK(p)' => FilesInv'
<1>1. inode[i].count # 0 /\ inode[i].num \in Files /\ i \notin LoadingSlots
  BY RefTaken, HeldNum, NotLoading
<1>2. inode[i].num # NoNum  BY <1>1, Consts
<1>3. Written(i) /\ wild' = FALSE  BY <1>1, <1>2 DEF Copied, Written
<1>4. \A j \in Slots : Flags(p, j)  BY FlagsSame
<1>5. UsedFiles' = UsedFiles /\ (ProcOK(p)' => FilesInv')  BY <1>3, <1>4, Keep
<1> QED  BY <1>3, <1>5, WrittenSame

LEMMA IUpdateWriteFiles ==
  ASSUME IndInv, FilesInv, NEW p \in Procs, IUpdateWrite(p)
  PROVE  FilesInv'
<1>1. PICK r, i : r = Pc(p, "iputend") /\ i = u[p].ip  OBVIOUS
<1>2. /\ u' = [u EXCEPT ![p] = r] /\ u[p].pc = "iwrite" /\ cpu \in {NoProc, p}
      /\ UNCHANGED <<inode, dir, stk, chan>> /\ Copied(i)
  BY <1>1 DEF IUpdateWrite, GoSleepy, At
<1>3. /\ r.pc = "iputend" /\ r.ip = i /\ r.ret = u[p].ret /\ r.fd = u[p].fd
      /\ r.op = u[p].op
  BY <1>1, PcOf
<1>4. i \in Slots \ {Root} /\ inode[i].count = 1 /\ inode[i].lock  BY <1>1, <1>2, OnlyMine DEF Only
<1>5. u[p].ret = "idle"  BY <1>2 DEF FilesInv, ProcOK, CtlOK, IPutPCs
<1>6. /\ UsedFiles' = UsedFiles
      /\ disk'[inode[i].num].mode = inode[i].mode
      /\ disk'[inode[i].num].nlink = inode[i].nlink
      /\ ProcOK(p)' => FilesInv'
  BY <1>1, <1>2, <1>3, <1>4, KeepCopied
<1>7. /\ r.op # "sync" /\ r.pc \in {"itrunc", "iupdate", "iwrite", "iputend"}
      /\ r.pc # "itrunc" /\ r.ret = "idle"
      /\ r.fd # NoSlot => inode'[r.fd].num \in UsedFiles'
      /\ inode'[r.ip].count = 1 /\ inode'[r.ip].lock
      /\ disk'[inode'[r.ip].num].mode = inode'[r.ip].mode
      /\ disk'[inode'[r.ip].num].nlink = inode'[r.ip].nlink
  BY <1>2, <1>3, <1>4, <1>5, <1>6, Mine
<1>8. ProcOK(p)'  BY <1>2, <1>7, Facts, LastOK
<1> QED  BY <1>6, <1>8

LEMMA StatWriteFiles ==
  ASSUME IndInv, FilesInv, NEW p \in Procs, StatWrite(p)
  PROVE  FilesInv'
<1>1. PICK r, i : r = [u[p] EXCEPT !.pc = "iput", !.ret = "idle"] /\ i = u[p].ip  OBVIOUS
<1>2. /\ u' = [u EXCEPT ![p] = r] /\ u[p].pc = "stat" /\ cpu \in {NoProc, p}
      /\ UNCHANGED <<inode, dir, stk, chan>> /\ Copied(i)
  BY <1>1 DEF StatWrite, StatRead, GoSleepy, At
<1>3. r.pc = "iput" /\ r.ip = i /\ r.ret = "idle" /\ r.fd = u[p].fd /\ r.op = u[p].op
  BY <1>1, StatRec
<1>4. i \in Slots \ {Root} /\ inode[i].num \in UsedFiles  BY <1>1, <1>2, Mine DEF Got, Has
<1>5. UsedFiles' = UsedFiles /\ (ProcOK(p)' => FilesInv')  BY <1>1, <1>2, <1>3, <1>4, KeepCopied
<1>6. /\ r.op # "sync" /\ inode'[r.ip].num \in UsedFiles'
      /\ r.fd # NoSlot => inode'[r.fd].num \in UsedFiles'
  BY <1>2, <1>3, <1>4, <1>5, Mine
<1>7. ProcOK(p)'  BY <1>2, <1>3, <1>6, Facts, Places, NextOK
<1> QED  BY <1>5, <1>7

LEMMA FStatWriteFiles ==
  ASSUME IndInv, FilesInv, NEW p \in Procs, FStatWrite(p)
  PROVE  FilesInv'
<1>1. PICK r, i : r = [Idle EXCEPT !.fd = u[p].fd] /\ i = u[p].fd  OBVIOUS
<1>2. /\ u' = [u EXCEPT ![p] = r] /\ u[p].pc = "fstat" /\ cpu \in {NoProc, p}
      /\ UNCHANGED <<inode, dir, stk, chan>> /\ Copied(i)
  BY <1>1 DEF FStatWrite, Return, GoSleepy, At
<1>3. r.pc = "idle" /\ r.op = "none" /\ r.fd = i  BY <1>1, IdleRec
<1>4. i \in Slots \ {Root} /\ inode[i].num \in UsedFiles  BY <1>1, <1>2, Mine, Facts DEF LocalOK
<1>5. UsedFiles' = UsedFiles /\ (ProcOK(p)' => FilesInv')  BY <1>1, <1>2, <1>3, <1>4, KeepCopied
<1>6. ProcOK(p)'  BY <1>2, <1>3, <1>4, <1>5, Facts, Places, NextOK
<1> QED  BY <1>5, <1>6

\* What the records of slots are after the operators on them
LEMMA SlotRecs ==
  ASSUME NEW t \in InodeRec
  PROVE  /\ Unlocked(t).num = t.num /\ Unlocked(t).mode = t.mode /\ Unlocked(t).nlink = t.nlink
         /\ Unlocked(t).dirty = t.dirty /\ Unlocked(t).count = t.count /\ ~Unlocked(t).lock
         /\ PutRec(t).num = t.num /\ PutRec(t).mode = t.mode /\ PutRec(t).nlink = t.nlink
         /\ PutRec(t).dirty = t.dirty /\ PutRec(t).count = t.count - 1 /\ ~PutRec(t).lock
         /\ Hit(t).num = t.num /\ Hit(t).mode = t.mode /\ Hit(t).nlink = t.nlink
         /\ Hit(t).dirty = t.dirty /\ Hit(t).count = t.count + 1 /\ Hit(t).lock
<1>1. PICK c, d : c = t.count - 1 /\ d = t.count + 1  OBVIOUS
<1>2. PICK s : s = Unlocked(t)  OBVIOUS
<1>3. /\ s.num = t.num /\ s.mode = t.mode /\ s.nlink = t.nlink /\ s.dirty = t.dirty
      /\ s.count = t.count /\ ~s.lock
      /\ s \in InodeRec
  BY <1>2 DEF Unlocked, InodeRec
<1>4. PutRec(t) = [s EXCEPT !.count = c]  BY <1>1, <1>2, <1>3 DEF PutRec
<1>5. Hit(t) = [t EXCEPT !.lock = TRUE, !.count = d]  BY <1>1 DEF Hit
<1>6. /\ PutRec(t).num = t.num /\ PutRec(t).mode = t.mode /\ PutRec(t).nlink = t.nlink
      /\ PutRec(t).dirty = t.dirty /\ PutRec(t).count = t.count - 1 /\ ~PutRec(t).lock
  BY <1>1, <1>3, <1>4 DEF InodeRec
<1>7. /\ Hit(t).num = t.num /\ Hit(t).mode = t.mode /\ Hit(t).nlink = t.nlink
      /\ Hit(t).dirty = t.dirty /\ Hit(t).count = t.count + 1 /\ Hit(t).lock
  BY <1>1, <1>5 DEF InodeRec
<1> QED  BY <1>2, <1>3, <1>6, <1>7

\* The directory may be unlocked and put.
LEMMA RootFlags ==
  ASSUME IndInv, FilesInv, NEW p \in Procs, NEW s, inode' = [inode EXCEPT ![Root] = s],
         s = Unlocked(inode[Root]) \/ s = PutRec(inode[Root])
  PROVE  \A j \in Slots : Flags(p, j)
<1>1. PICK t : t = inode[Root]  OBVIOUS
<1>2. t \in InodeRec /\ t.count \in Nat /\ t.count >= 2 /\ Root \in Slots
  BY <1>1, Facts, Counts, Consts DEF InodeRec
<1>3. /\ s.num = t.num /\ s.mode = t.mode /\ s.nlink = t.nlink /\ s.dirty = t.dirty
      /\ s.count \in {t.count, t.count - 1}
  BY <1>1, <1>2, SlotRecs
<1>4. s.count # 0 /\ t.count # 0  BY <1>2, <1>3
<1> QED  BY <1>1, <1>2, <1>3, <1>4, FlagsSlot

LEMMA NameFoundFiles ==
  ASSUME IndInv, FilesInv, NEW p \in Procs, NameFound(p)
  PROVE  FilesInv'
<1>1. PICK e \in Named(u[p].name) :
        /\ inode' = [inode EXCEPT ![Root] = IF u[p].op = "unlink" THEN Unlocked(@) ELSE PutRec(@)]
        /\ Go(p, [u[p] EXCEPT !.pc = "iget", !.num = dir[e].ino, !.ret = "file",
                              !.ip = NoSlot,
                              !.at = IF u[p].op = "unlink" THEN e ELSE NoEntry])
  BY DEF NameFound
<1>2. PICK s : s = IF u[p].op = "unlink" THEN Unlocked(inode[Root]) ELSE PutRec(inode[Root])
  OBVIOUS
<1>3. PICK r, a, n : /\ r = [u[p] EXCEPT !.pc = "iget", !.num = n, !.ret = "file",
                                         !.ip = NoSlot, !.at = a]
                     /\ a = IF u[p].op = "unlink" THEN e ELSE NoEntry
                     /\ n = dir[e].ino
  OBVIOUS
<1>4. /\ r.pc = "iget" /\ r.num = n /\ r.ret = "file" /\ r.at = a /\ r.op = u[p].op
      /\ r.fd = u[p].fd
  BY <1>3, Facts DEF Local
<1>5. inode' = [inode EXCEPT ![Root] = s] /\ u' = [u EXCEPT ![p] = r] /\ cpu' = p
  BY <1>1, <1>2, <1>3, Zenon DEF Go
<1>6. /\ u[p].pc = "search" /\ cpu \in {NoProc, p} /\ PreleWakes(Root)
      /\ UNCHANGED <<disk, dir, stk, wild>>
  BY DEF NameFound, At
<1>7. \A j \in Slots : Flags(p, j)  BY <1>2, <1>5, RootFlags
<1>8. \A q \in Procs : chan[q] = LocalChan => chan'[q] = LocalChan  BY <1>6, Facts, Sleepers
<1>9. wild' = FALSE  BY <1>6, Facts DEF FilesInv, TypeRest
<1>10. UsedFiles' = UsedFiles /\ (ProcOK(p)' => FilesInv')
  BY <1>4, <1>5, <1>6, <1>7, <1>8, <1>9, Keep
<1>11. /\ e \in Entries /\ n # 0 /\ n \in UsedFiles
       /\ \A f \in Entries : dir[f].ino = n => f = e
  BY <1>3 DEF Named, FilesInv, DirOK
<1>12. u'[p] = r /\ u[p].op # "sync"  BY <1>5, Facts, Mine
<1>13. CtlOK(p)' /\ HoldOK(p)'  BY <1>4, <1>5, <1>12 DEF CtlOK, HoldOK, IPutPCs, Only, Got, Has
<1>14. FileOK(p)'
 <2>1. u[p].fd # NoSlot => inode'[u[p].fd].num \in UsedFiles
  <3>1. u[p].fd # NoSlot => u[p].fd \in Slots /\ inode[u[p].fd].num \in UsedFiles  BY Mine
  <3> QED  BY <3>1, <1>7 DEF Flags
 <2>2. u[p].op = "unlink" => \A f \in Entries : dir'[f].ino = n => f = a  BY <1>3, <1>6, <1>11
 <2> QED  BY <1>4, <1>10, <1>11, <1>12, <2>1, <2>2 DEF FileOK, Finding, Fresh, Has
<1> QED  BY <1>10, <1>13, <1>14 DEF ProcOK
\* A step of p that only counts, locks or marks slot i, where p has a reference, or takes
\* a lock that is free, or leaves both count and lock
SlotStep(p, i, s) ==
    /\ inode' = [inode EXCEPT ![i] = s]
    /\ s.num = inode[i].num /\ s.mode = inode[i].mode /\ s.nlink = inode[i].nlink
    /\ s.count = 0 <=> inode[i].count = 0
    /\ inode[i].dirty => s.dirty
    /\ i = Root \/ s.lock \/ s.mode
    /\ \/ i = Root \/ u[p].ip = i \/ u[p].fd = i \/ ~inode[i].lock
       \/ s.count = inode[i].count /\ s.lock = inode[i].lock

\* ... after which p has r
LocalStep(p, r) ==
    /\ u' = [u EXCEPT ![p] = r] /\ u[p].pc # "load" /\ r.pc # "load" /\ cpu \in {NoProc, p}
    /\ \A q \in Procs : chan[q] = LocalChan => chan'[q] = LocalChan \/ q = p
    /\ UNCHANGED <<disk, dir, stk, wild>>

LEMMA KeepSlot ==
  ASSUME IndInv, FilesInv, NEW p \in Procs, NEW r, LocalStep(p, r),
         NEW i \in Slots, NEW s, SlotStep(p, i, s)
  PROVE  /\ UsedFiles' = UsedFiles /\ LinkedFiles' = LinkedFiles /\ FreeNums' = FreeNums
         /\ \A j \in Slots : inode'[j].num = inode[j].num
         /\ inode'[i] = s
         /\ ProcOK(p)' => FilesInv'
<1>1. \A j \in Slots : Flags(p, j)  BY FlagsSlot DEF SlotStep
<1>2. wild' = FALSE  BY Facts DEF FilesInv, TypeRest, LocalStep
<1>3. /\ UsedFiles' = UsedFiles /\ LinkedFiles' = LinkedFiles /\ FreeNums' = FreeNums
      /\ ProcOK(p)' => FilesInv'
  BY <1>1, <1>2, Keep DEF LocalStep
<1>4. inode'[i] = s  BY Facts DEF SlotStep
<1> QED  BY <1>1, <1>3, <1>4 DEF Flags

LEMMA IGetWaitFiles ==
  ASSUME IndInv, FilesInv, NEW p \in Procs, IGetWait(p)
  PROVE  FilesInv'
<1>1. PICK i \in IsLoaded(u[p].num) :
        /\ inode[i].lock
        /\ inode' = [inode EXCEPT ![i].want = TRUE]
        /\ SleepOn(p, LocalChan)
  BY DEF IGetWait
<1>2. i \in Slots  BY DEF IsLoaded
<1>3. PICK s : s = [inode[i] EXCEPT !.want = TRUE]  OBVIOUS
<1>4. /\ s.num = inode[i].num /\ s.mode = inode[i].mode /\ s.nlink = inode[i].nlink
      /\ s.count = inode[i].count /\ s.dirty = inode[i].dirty /\ s.lock
      /\ s.lock = inode[i].lock
  BY <1>1, <1>2, <1>3, Facts DEF InodeRec
<1>5. inode' = [inode EXCEPT ![i] = s]  BY <1>1, <1>2, <1>3, Facts
<1>6. /\ u[p].pc = "iget" /\ cpu \in {NoProc, p} /\ UNCHANGED <<disk, dir, stk, wild, u>>
      /\ chan' = [chan EXCEPT ![p] = LocalChan]
  BY <1>1 DEF IGetWait, At, SleepOn
<1>7. u' = [u EXCEPT ![p] = u[p]]  BY <1>6, Facts
<1>8. /\ \A q \in Procs : chan[q] = LocalChan => chan'[q] = LocalChan \/ q = p
      /\ chan'[p] = LocalChan
  BY <1>6, Facts DEF TypeRest
<1>9a. LocalStep(p, u[p])  BY <1>2, <1>4, <1>5, <1>6, <1>7, <1>8 DEF LocalStep
<1>9b. SlotStep(p, i, s)  BY <1>2, <1>4, <1>5, <1>6, <1>7, <1>8 DEF SlotStep
<1>9. /\ UsedFiles' = UsedFiles /\ \A j \in Slots : inode'[j].num = inode[j].num
      /\ ProcOK(p)' => FilesInv'
  BY <1>9a, <1>9b, <1>2, KeepSlot
<1>10. u[p].op # "sync" /\ (u[p].fd # NoSlot => /\ inode[u[p].fd].num \in UsedFiles
                                                /\ u[p].fd \in Slots)
  BY Mine
<1>11. CtlOK(p)' /\ HoldOK(p)'
  BY <1>6, <1>8, <1>10 DEF CtlOK, HoldOK, Stuck, Only, Got, Has, IPutPCs
<1>12. FileOK(p)'  BY <1>6, <1>8, <1>9, <1>10 DEF FileOK, Stuck
<1> QED  BY <1>9, <1>11, <1>12 DEF ProcOK

LEMMA IGetHitFiles ==
  ASSUME IndInv, FilesInv, NEW p \in Procs, IGetHit(p)
  PROVE  FilesInv'
<1>1. PICK i \in IsLoaded(u[p].num) :
        /\ ~inode[i].lock
        /\ inode' = [inode EXCEPT ![i] = Hit(@)]
        /\ LET r == [u[p] EXCEPT !.pc = u[p].ret, !.ip = i]
           IN IF u[p].ret = "search" THEN GoSleepy(p, r) ELSE Go(p, r)
  BY DEF IGetHit
<1>2. i \in Slots /\ inode[i].num = u[p].num /\ inode[i].count # 0  BY DEF IsLoaded, Matches
<1>3. PICK s, r : s = Hit(inode[i]) /\ r = [u[p] EXCEPT !.pc = u[p].ret, !.ip = i]  OBVIOUS
<1>4. /\ s.num = inode[i].num /\ s.mode = inode[i].mode /\ s.nlink = inode[i].nlink
      /\ s.count # 0 /\ s.dirty = inode[i].dirty /\ s.lock
 <2>1. inode[i] \in InodeRec /\ inode[i].count \in Nat  BY <1>2, Facts DEF InodeRec
 <2>2. s.count = inode[i].count + 1  BY <1>3, <2>1, SlotRecs
 <2>3. s.count # 0  BY <2>1, <2>2
 <2> QED  BY <1>3, <2>1, <2>3, SlotRecs
<1>5. inode' = [inode EXCEPT ![i] = s] /\ u' = [u EXCEPT ![p] = r]
  BY <1>1, <1>3, Zenon DEF Go, GoSleepy
<1>6. /\ u[p].pc = "iget" /\ cpu \in {NoProc, p} /\ UNCHANGED <<disk, dir, stk, wild, chan>>
      /\ chan[p] = Awake
  BY DEF IGetHit, At
<1>7. /\ r.pc = u[p].ret /\ r.ip = i /\ r.num = u[p].num /\ r.at = u[p].at /\ r.op = u[p].op
      /\ r.fd = u[p].fd /\ u[p].ret \in {"search", "file", "new"}
      /\ u[p].ret = "new" => u[p].num # Root
  BY <1>3, <1>6, Facts DEF Local, LocalOK
<1>8a. LocalStep(p, r)  BY <1>1, <1>2, <1>4, <1>5, <1>6, <1>7 DEF LocalStep
<1>8b. SlotStep(p, i, s)  BY <1>1, <1>2, <1>4, <1>5, <1>6, <1>7 DEF SlotStep
<1>8. /\ UsedFiles' = UsedFiles /\ \A j \in Slots : inode'[j].num = inode[j].num
      /\ ProcOK(p)' => FilesInv'
  BY <1>8a, <1>8b, <1>2, KeepSlot
<1>9. ~Stuck(p)  BY <1>6 DEF Stuck, Awake, LocalChan
<1>10. /\ r.op # "sync"
       /\ r.fd # NoSlot => inode'[r.fd].num \in UsedFiles'
  BY <1>7, <1>8, Mine
<1>11. CASE u[p].ret = "search"
 <2>1. r.pc = "search"  BY <1>7, <1>11
 <2>2. ProcOK(p)'  BY <1>5, <1>10, <2>1, Places, Facts, NextOK
 <2> QED  BY <1>8, <2>2
<1>12. CASE u[p].ret = "file"
 <2>1. FileOK(p) /\ Finding(u[p])  BY <1>6, <1>12 DEF FilesInv, ProcOK, Finding
 <2>2. u[p].num \in UsedFiles  BY <1>9, <2>1 DEF FileOK
 <2>3. u[p].op = "unlink" => \A e \in Entries : dir[e].ino = u[p].num => e = u[p].at
   BY <1>9, <2>1 DEF FileOK
 <2>4. /\ r.pc \in Has \ {"writedir"} /\ inode'[r.ip].num = r.num /\ r.num \in UsedFiles'
       /\ r.op = "unlink" /\ r.pc \in {"file", "clear"} =>
             \A e \in Entries : dir'[e].ino = r.num => e = r.at
   BY <1>2, <1>6, <1>7, <1>8, <1>12, <2>2, <2>3 DEF Has
 <2>5. ProcOK(p)'  BY <1>5, <1>10, <2>4, Facts, HasOK
 <2> QED  BY <1>8, <2>5
<1>13. CASE u[p].ret = "new"
 <2>1. FileOK(p) /\ Fresh(u[p])  BY <1>6, <1>13 DEF FilesInv, ProcOK, Fresh
 <2>2. u[p].num \in Files /\ u[p].num \notin UsedFiles  BY <1>9, <2>1 DEF FileOK
 <2>3. i # Root  BY <1>2, <1>7, <1>13, Facts DEF RootInv
 <2>4. inode[i].mode  BY <1>1, <1>2, <2>3 DEF FilesInv, SlotsOK, SlotOK
 <2>5. i \notin LoadingSlots
  <3> SUFFICES ASSUME NEW q \in Procs, u[q].pc = "load", u[q].ip = i PROVE FALSE
    BY DEF LoadingSlots
  <3>1. inode[i].lock  BY OnlyMine DEF Only
  <3> QED  BY <1>1, <3>1
 <2> QED  BY <1>2, <2>2, <2>4, <2>5, Told
<1> QED  BY <1>7, <1>11, <1>12, <1>13

LEMMA OpenedFiles ==
  ASSUME IndInv, FilesInv, NEW p \in Procs, Opened(p)
  PROVE  FilesInv'
<1>1. PICK i, s : i = u[p].ip /\ s = Unlocked(inode[i])  OBVIOUS
<1>2. /\ u[p].pc = "opened" /\ cpu \in {NoProc, p} /\ UNCHANGED <<disk, dir, stk, wild>>
      /\ PreleWakes(i) /\ inode' = [inode EXCEPT ![i] = s]
  BY <1>1, Zenon DEF Opened, At
<1>3. PICK r : /\ u' = [u EXCEPT ![p] = r]
               /\ \/ r = [Idle EXCEPT !.fd = i]
                  \/ r = [u[p] EXCEPT !.pc = "iput", !.ip = i, !.ret = "idle"]
  BY <1>1 DEF Opened, Put, Go, GoSleepy
<1>4. i \in Slots \ {Root} /\ inode[i].num \in UsedFiles /\ inode[i].num \in Files
  BY <1>1, <1>2, Mine DEF Got, Has, UsedFiles
<1>5. inode[i].mode  BY <1>1, <1>2, <1>4, HeldMode
<1>6. /\ s.num = inode[i].num /\ s.mode = inode[i].mode /\ s.nlink = inode[i].nlink
      /\ s.count = inode[i].count /\ s.dirty = inode[i].dirty
  BY <1>1, <1>4, Facts, SlotRecs
<1>7. \/ r.pc = "idle" /\ r.op = "none" /\ r.fd = i
      \/ r.pc = "iput" /\ r.ip = i /\ r.ret = "idle" /\ r.fd = u[p].fd /\ r.op = u[p].op
 <2>1. CASE r = [Idle EXCEPT !.fd = i]  BY <2>1, IdleRec
 <2>2. CASE r = [u[p] EXCEPT !.pc = "iput", !.ip = i, !.ret = "idle"]  BY <2>2, PutRecOf
 <2> QED  BY <1>3, <2>1, <2>2
<1>8. \A q \in Procs : chan[q] = LocalChan => chan'[q] = LocalChan  BY <1>2, <1>4, Facts, Sleepers
<1>9. r.pc # "load"  BY <1>7
<1>10a. LocalStep(p, r)  BY <1>1, <1>2, <1>3, <1>4, <1>5, <1>6, <1>8, <1>9 DEF LocalStep
<1>10b. SlotStep(p, i, s)  BY <1>1, <1>2, <1>3, <1>4, <1>5, <1>6, <1>8, <1>9 DEF SlotStep
<1>10. /\ UsedFiles' = UsedFiles /\ \A j \in Slots : inode'[j].num = inode[j].num
       /\ ProcOK(p)' => FilesInv'
  BY <1>10a, <1>10b, <1>4, KeepSlot
<1>11. /\ r.op # "sync" /\ r.pc \in {"idle", "iput"}
       /\ r.fd # NoSlot => inode'[r.fd].num \in UsedFiles'
       /\ r.pc = "iput" => r.ret = "idle" /\ inode'[r.ip].num \in UsedFiles'
  BY <1>4, <1>7, <1>10, Mine
<1>12. ProcOK(p)'  BY <1>3, <1>11, Places, Facts, NextOK
<1> QED  BY <1>10, <1>12

LEMMA NFreleFiles ==
  ASSUME IndInv, FilesInv, NEW p \in Procs, NFrele(p)
  PROVE  FilesInv'
<1>1. PICK i, s, r : i = u[p].fd /\ s = Unlocked(inode[i]) /\ r = [Idle EXCEPT !.fd = i]  OBVIOUS
<1>2. /\ u[p].pc = "io" /\ cpu \in {NoProc, p} /\ UNCHANGED <<disk, dir, stk, wild>>
      /\ PreleWakes(i) /\ inode' = [inode EXCEPT ![i] = s] /\ u' = [u EXCEPT ![p] = r]
  BY <1>1, Zenon DEF NFrele, At, Return, GoSleepy
<1>3. i # NoSlot  BY <1>1, <1>2, Facts DEF LocalOK
<1>4. i \in Slots \ {Root} /\ inode[i].num \in UsedFiles /\ inode[i].num \in Files
  BY <1>1, <1>3, Mine DEF UsedFiles
<1>5. inode[i].mode  BY <1>1, <1>4, HeldMode
<1>6. /\ s.num = inode[i].num /\ s.mode = inode[i].mode /\ s.nlink = inode[i].nlink
      /\ s.count = inode[i].count /\ s.dirty = inode[i].dirty
  BY <1>1, <1>4, Facts, SlotRecs
<1>7. r.pc = "idle" /\ r.op = "none" /\ r.fd = i  BY <1>1, IdleRec
<1>8. \A q \in Procs : chan[q] = LocalChan => chan'[q] = LocalChan  BY <1>2, <1>4, Facts, Sleepers
<1>9a. LocalStep(p, r)  BY <1>1, <1>2, <1>4, <1>5, <1>6, <1>7, <1>8 DEF LocalStep
<1>9b. SlotStep(p, i, s)  BY <1>1, <1>2, <1>4, <1>5, <1>6, <1>7, <1>8 DEF SlotStep
<1>9. /\ UsedFiles' = UsedFiles /\ \A j \in Slots : inode'[j].num = inode[j].num
      /\ ProcOK(p)' => FilesInv'
  BY <1>9a, <1>9b, <1>4, KeepSlot
<1>10. ProcOK(p)'  BY <1>2, <1>4, <1>7, <1>9, Places, Facts, NextOK
<1> QED  BY <1>9, <1>10

LEMMA NFlockWaitFiles ==
  ASSUME IndInv, FilesInv, NEW p \in Procs, NFlockWait(p)
  PROVE  FilesInv'
<1>1. PICK i, s : i = u[p].fd /\ s = [inode[i] EXCEPT !.want = TRUE]  OBVIOUS
<1>2. /\ u[p].pc = "nflock" /\ cpu \in {NoProc, p} /\ UNCHANGED <<disk, dir, stk, wild, u>>
      /\ inode' = [inode EXCEPT ![i].want = TRUE] /\ chan' = [chan EXCEPT ![p] = i]
      /\ inode[i].lock
  BY <1>1 DEF NFlockWait, At, SleepOn
<1>3. i # NoSlot  BY <1>1, <1>2, Facts DEF LocalOK
<1>4. i \in Slots \ {Root} /\ inode[i].num \in UsedFiles  BY <1>1, <1>3, Mine
<1>5. /\ s.num = inode[i].num /\ s.mode = inode[i].mode /\ s.nlink = inode[i].nlink
      /\ s.count = inode[i].count /\ s.dirty = inode[i].dirty /\ s.lock
  BY <1>1, <1>2, <1>4, Facts DEF InodeRec
<1>6. inode' = [inode EXCEPT ![i] = s] /\ u' = [u EXCEPT ![p] = u[p]]  BY <1>1, <1>2, <1>4, Facts
<1>7. \A q \in Procs : chan[q] = LocalChan => chan'[q] = LocalChan \/ q = p
  BY <1>2, Facts DEF TypeRest
<1>8. u[p].pc # "load"  BY <1>2
<1>9a. LocalStep(p, u[p])  BY <1>1, <1>2, <1>4, <1>5, <1>6, <1>7, <1>8 DEF LocalStep
<1>9b. SlotStep(p, i, s)  BY <1>1, <1>2, <1>4, <1>5, <1>6, <1>7, <1>8 DEF SlotStep
<1>9. /\ UsedFiles' = UsedFiles /\ \A j \in Slots : inode'[j].num = inode[j].num
      /\ ProcOK(p)' => FilesInv'
  BY <1>9a, <1>9b, <1>4, KeepSlot
<1>10. /\ u[p].op # "sync" /\ u[p].pc = "nflock"
       /\ u[p].fd # NoSlot => inode'[u[p].fd].num \in UsedFiles'
  BY <1>1, <1>2, <1>4, <1>9, Mine
<1>11. ProcOK(p)'  BY <1>6, <1>10, Places, Facts, NextOK
<1> QED  BY <1>9, <1>11

LEMMA NFlockFiles ==
  ASSUME IndInv, FilesInv, NEW p \in Procs, NFlock(p)
  PROVE  FilesInv'
<1>1. PICK i, s, r : /\ i = u[p].fd /\ s = [inode[i] EXCEPT !.lock = TRUE, !.dirty = TRUE]
                     /\ r = Pc(p, "io")
  OBVIOUS
<1>2. /\ u[p].pc = "nflock" /\ cpu \in {NoProc, p} /\ UNCHANGED <<disk, dir, stk, wild, chan>>
      /\ inode' = [inode EXCEPT ![i].lock = TRUE, ![i].dirty = TRUE]
      /\ u' = [u EXCEPT ![p] = r]
  BY <1>1 DEF NFlock, At, GoSleepy
<1>3. i # NoSlot  BY <1>1, <1>2, Facts DEF LocalOK
<1>4. i \in Slots \ {Root} /\ inode[i].num \in UsedFiles  BY <1>1, <1>3, Mine
<1>5. /\ s.num = inode[i].num /\ s.mode = inode[i].mode /\ s.nlink = inode[i].nlink
      /\ s.count = inode[i].count /\ s.dirty /\ s.lock
  BY <1>1, <1>2, <1>4, Facts DEF InodeRec
<1>6. inode' = [inode EXCEPT ![i] = s]  BY <1>1, <1>2, <1>4, Facts
<1>7. r.pc = "io" /\ r.fd = u[p].fd /\ r.op = u[p].op  BY <1>1, PcOf
<1>8a. LocalStep(p, r)  BY <1>1, <1>2, <1>4, <1>5, <1>6, <1>7 DEF LocalStep
<1>8b. SlotStep(p, i, s)  BY <1>1, <1>2, <1>4, <1>5, <1>6, <1>7 DEF SlotStep
<1>8. /\ UsedFiles' = UsedFiles /\ \A j \in Slots : inode'[j].num = inode[j].num
      /\ ProcOK(p)' => FilesInv'
  BY <1>8a, <1>8b, <1>4, KeepSlot
<1>9. /\ r.op # "sync" /\ (r.fd # NoSlot => inode'[r.fd].num \in UsedFiles')
  BY <1>1, <1>4, <1>7, <1>8, Mine
<1>10. ProcOK(p)'  BY <1>2, <1>7, <1>9, Places, Facts, NextOK
<1> QED  BY <1>8, <1>10

LEMMA ChModFiles ==
  ASSUME IndInv, FilesInv, NEW p \in Procs, ChMod(p)
  PROVE  FilesInv'
<1>1. PICK i, s, r : /\ i = u[p].ip /\ s = [inode[i] EXCEPT !.dirty = TRUE]
                     /\ r = [u[p] EXCEPT !.pc = "iput", !.ip = i, !.ret = "idle"]
  OBVIOUS
<1>2. /\ u[p].pc = "file" /\ cpu \in {NoProc, p} /\ UNCHANGED <<disk, dir, stk, wild, chan>>
      /\ inode' = [inode EXCEPT ![i].dirty = TRUE]
      /\ u' = [u EXCEPT ![p] = r]
  BY <1>1 DEF ChMod, At, Put, Go
<1>3. i \in Slots \ {Root} /\ inode[i].num \in UsedFiles /\ inode[i].num \in Files
  BY <1>1, <1>2, Mine DEF Got, Has, UsedFiles
<1>4. inode[i].mode  BY <1>1, <1>2, <1>3, HeldMode
<1>5. /\ s.num = inode[i].num /\ s.mode = inode[i].mode /\ s.nlink = inode[i].nlink
      /\ s.count = inode[i].count /\ s.dirty /\ s.mode
  BY <1>1, <1>3, <1>4, Facts DEF InodeRec
<1>6. inode' = [inode EXCEPT ![i] = s]  BY <1>1, <1>2, <1>3, Facts
<1>7. r.pc = "iput" /\ r.ip = i /\ r.ret = "idle" /\ r.fd = u[p].fd /\ r.op = u[p].op
  BY <1>1, PutRecOf
<1>8a. LocalStep(p, r)  BY <1>1, <1>2, <1>3, <1>5, <1>6, <1>7 DEF LocalStep
<1>8b. SlotStep(p, i, s)  BY <1>1, <1>2, <1>3, <1>5, <1>6, <1>7 DEF SlotStep
<1>8. /\ UsedFiles' = UsedFiles /\ \A j \in Slots : inode'[j].num = inode[j].num
      /\ ProcOK(p)' => FilesInv'
  BY <1>8a, <1>8b, <1>3, KeepSlot
<1>9. /\ r.op # "sync" /\ (r.fd # NoSlot => inode'[r.fd].num \in UsedFiles')
      /\ inode'[r.ip].num \in UsedFiles'
  BY <1>3, <1>7, <1>8, Mine
<1>10. ProcOK(p)'  BY <1>2, <1>7, <1>9, Places, Facts, NextOK
<1> QED  BY <1>8, <1>10

LEMMA IPutSharedFiles ==
  ASSUME IndInv, FilesInv, NEW p \in Procs, IPutShared(p)
  PROVE  FilesInv'
<1>1. PICK i, s, r : /\ i = u[p].ip /\ s = PutRec(inode[i])
                     /\ r = [Idle EXCEPT !.fd = u[p].fd]
  OBVIOUS
<1>2. u[p].pc = "iput" /\ u[p].ret = "idle"  BY DEF IPutShared, At, FilesInv, ProcOK, CtlOK, IPutPCs
<1>3. /\ cpu \in {NoProc, p} /\ UNCHANGED <<disk, dir, stk, wild>>
      /\ PreleWakes(i) /\ inode' = [inode EXCEPT ![i] = s] /\ u' = [u EXCEPT ![p] = r]
      /\ inode[i].count # 1
  BY <1>1, <1>2, Zenon DEF IPutShared, At, AfterPut, Return, GoSleepy, LastRef
<1>4. i \in Slots /\ (i # Root => inode[i].num \in UsedFiles)
  BY <1>1, <1>2, Facts, Mine DEF LocalOK
<1>5. i = Root \/ inode[i].mode
 <2> SUFFICES ASSUME i # Root PROVE inode[i].mode  OBVIOUS
 <2>1. inode[i].num \in UsedFiles /\ inode[i].num \in Files  BY <1>4 DEF UsedFiles
 <2> QED  BY <1>1, <1>2, <1>4, <2>1, HeldMode
<1>6. /\ s.num = inode[i].num /\ s.mode = inode[i].mode /\ s.nlink = inode[i].nlink
      /\ s.count = inode[i].count - 1 /\ s.dirty = inode[i].dirty
  BY <1>1, <1>4, Facts, SlotRecs
<1>7. inode[i].count # 0 /\ s.count # 0
 <2>1. inode[i].count \in Nat /\ inode[i].count # 0  BY <1>1, <1>4, RefTaken
 <2> QED  BY <1>3, <1>6, <2>1
<1>8. r.pc = "idle" /\ r.op = "none" /\ r.fd = u[p].fd  BY <1>1, IdleRec
<1>9. \A q \in Procs : chan[q] = LocalChan => chan'[q] = LocalChan  BY <1>3, <1>4, Facts, Sleepers
<1>10a. LocalStep(p, r)  BY <1>1, <1>2, <1>3, <1>4, <1>5, <1>6, <1>7, <1>8, <1>9 DEF LocalStep
<1>10b. SlotStep(p, i, s)  BY <1>1, <1>2, <1>3, <1>4, <1>5, <1>6, <1>7, <1>8, <1>9 DEF SlotStep
<1>10. /\ UsedFiles' = UsedFiles /\ \A j \in Slots : inode'[j].num = inode[j].num
       /\ ProcOK(p)' => FilesInv'
  BY <1>10a, <1>10b, <1>4, KeepSlot
<1>11. r.op # "sync" /\ (r.fd # NoSlot => inode'[r.fd].num \in UsedFiles')  BY <1>8, <1>10, Mine
<1>12. ProcOK(p)'  BY <1>3, <1>8, <1>11, Places, Facts, NextOK
<1> QED  BY <1>10, <1>12

LEMMA IPutLastFiles ==
  ASSUME IndInv, FilesInv, NEW p \in Procs, IPutLast(p)
  PROVE  FilesInv'
<1>1. PICK i, s, l : /\ i = u[p].ip /\ s = [inode[i] EXCEPT !.lock = TRUE]
                     /\ l = IF inode[i].nlink <= 0 THEN "itrunc" ELSE "iupdate"
  OBVIOUS
<1>2. PICK r : r = Pc(p, l)  OBVIOUS
<1>3. u[p].pc = "iput" /\ u[p].ret = "idle"  BY DEF IPutLast, At, FilesInv, ProcOK, CtlOK, IPutPCs
<1>4. /\ cpu \in {NoProc, p} /\ UNCHANGED <<disk, dir, stk, wild, chan>>
      /\ inode' = [inode EXCEPT ![i].lock = TRUE] /\ u' = [u EXCEPT ![p] = r]
      /\ inode[i].count = 1
  BY <1>1, <1>2 DEF IPutLast, At, Go, GoSleepy, LastRef
<1>5. i \in Slots /\ i # Root  BY <1>1, <1>3, <1>4, Facts, Counts DEF LocalOK
<1>6. inode[i].num \in UsedFiles /\ inode[i].num \in Files  BY <1>1, <1>3, <1>5, Mine DEF UsedFiles
<1>7. /\ s.num = inode[i].num /\ s.mode = inode[i].mode /\ s.nlink = inode[i].nlink
      /\ s.count = inode[i].count /\ s.dirty = inode[i].dirty /\ s.lock
  BY <1>1, <1>5, Facts DEF InodeRec
<1>8. inode' = [inode EXCEPT ![i] = s]  BY <1>1, <1>4, <1>5, Facts
<1>9. r.pc = l /\ r.ip = i /\ r.ret = "idle" /\ r.fd = u[p].fd /\ r.op = u[p].op
  BY <1>1, <1>2, <1>3, PcOf
<1>10a. LocalStep(p, r)  BY <1>1, <1>3, <1>4, <1>5, <1>7, <1>8, <1>9 DEF LocalStep
<1>10b. SlotStep(p, i, s)  BY <1>1, <1>3, <1>4, <1>5, <1>7, <1>8, <1>9 DEF SlotStep
<1>10. /\ UsedFiles' = UsedFiles /\ LinkedFiles' = LinkedFiles
       /\ \A j \in Slots : inode'[j].num = inode[j].num
       /\ inode'[i] = s
       /\ ProcOK(p)' => FilesInv'
  BY <1>10a, <1>10b, <1>5, KeepSlot
<1>11. r.pc = "itrunc" => inode[i].num \notin LinkedFiles
 <2>1. inode[i].nlink \in Int  BY <1>5, Facts DEF InodeRec
 <2>2. inode[i].num \in LinkedFiles => inode[i].nlink > 0  BY <1>1, <1>3, <1>5, <1>6, HeldMode
 <2> QED  BY <1>1, <1>9, <2>1, <2>2
<1>12. /\ r.op # "sync" /\ r.pc \in {"itrunc", "iupdate"}
       /\ r.fd # NoSlot => inode'[r.fd].num \in UsedFiles'
       /\ inode'[r.ip].count = 1 /\ inode'[r.ip].lock
 <2>1. l \in {"itrunc", "iupdate"}  BY <1>1
 <2>2. inode'[i].count = 1 /\ inode'[i].lock  BY <1>4, <1>7, <1>10
 <2>3. u[p].op # "sync" /\ (u[p].fd # NoSlot => inode'[u[p].fd].num \in UsedFiles')  BY <1>10, Mine
 <2> QED  BY <1>9, <2>1, <2>2, <2>3
<1>13. r.pc = "itrunc" => inode'[r.ip].num \in UsedFiles' \ LinkedFiles'
  BY <1>5, <1>6, <1>9, <1>10, <1>11
<1>14. ProcOK(p)'  BY <1>4, <1>9, <1>12, <1>13, Facts, LastOK
<1> QED  BY <1>10, <1>14
-----------------------------------------------------------------------------
(* The steps that change what file a slot has, whether it is in use, or    *)
(* its links.                                                              *)

\* A number is in use as before, and has a link, when it is in the same slots as before with
\* the same mode and links, or in none and on the disk as before.
LEMMA FileSame ==
  ASSUME NEW n \in Files,
         \A i \in Slots : InCore(i, n)' <=> InCore(i, n),
         \A i \in Slots : InCore(i, n) => /\ inode'[i].mode = inode[i].mode
                                          /\ inode'[i].nlink = inode[i].nlink,
         disk'[n] = disk[n]
  PROVE  (n \in UsedFiles' <=> n \in UsedFiles) /\ (n \in LinkedFiles' <=> n \in LinkedFiles)
<1>1. n \in UsedFiles <=> \/ \E i \in Slots : InCore(i, n) /\ inode[i].mode
                          \/ (\A i \in Slots : ~InCore(i, n)) /\ disk[n].mode
  BY DEF UsedFiles
<1>2. n \in UsedFiles' <=> \/ \E i \in Slots : InCore(i, n)' /\ inode'[i].mode
                           \/ (\A i \in Slots : ~InCore(i, n)') /\ disk'[n].mode
  BY DEF UsedFiles
<1>3. n \in LinkedFiles <=> \/ \E i \in Slots : InCore(i, n) /\ inode[i].nlink > 0
                            \/ (\A i \in Slots : ~InCore(i, n)) /\ disk[n].nlink > 0
  BY DEF LinkedFiles
<1>4. n \in LinkedFiles' <=> \/ \E i \in Slots : InCore(i, n)' /\ inode'[i].nlink > 0
                             \/ (\A i \in Slots : ~InCore(i, n)') /\ disk'[n].nlink > 0
  BY DEF LinkedFiles
<1> QED  BY <1>1, <1>2, <1>3, <1>4

\* Told, after a step
LEMMA ToldAfter ==
  ASSUME IndInv', NEW i \in Slots, NEW n \in Files, inode'[i].num = n, inode'[i].count # 0,
         i \notin LoadingSlots'
  PROVE  /\ n \in UsedFiles' <=> inode'[i].mode
         /\ n \in LinkedFiles' <=> inode'[i].nlink > 0
<1>1. InCore(i, n)'  BY DEF InCore
<1>2. \A j \in Slots : InCore(j, n)' => j = i  BY Consts DEF InCore, IndInv, OneEntryPerInode
<1> QED  BY <1>1, <1>2 DEF UsedFiles, LinkedFiles

\* A number that no slot has, or only one that is being read, is as the disk says.
LEMMA OnDisk ==
  ASSUME NEW n \in Files, \A i \in Slots : ~InCore(i, n)
  PROVE  /\ n \in UsedFiles <=> disk[n].mode
         /\ n \in LinkedFiles <=> disk[n].nlink > 0
  BY DEF UsedFiles, LinkedFiles

LEMMA OnDiskAfter ==
  ASSUME NEW n \in Files, \A i \in Slots : ~InCore(i, n)'
  PROVE  /\ n \in UsedFiles' <=> disk'[n].mode
         /\ n \in LinkedFiles' <=> disk'[n].nlink > 0
  BY DEF UsedFiles, LinkedFiles

\* A step of p that changes slot i, which is in use, and perhaps the directory's
Touch(p, r, i) ==
    /\ u' = [u EXCEPT ![p] = r] /\ cpu \in {NoProc, p}
    /\ \A q \in Procs : chan[q] = LocalChan => chan'[q] = LocalChan
    /\ UNCHANGED disk
    /\ inode[i].count # 0
    /\ inode'[i].num \in {inode[i].num, NoNum}
    /\ \A j \in Slots \ {i, Root} : inode'[j] = inode[j]
    /\ LoadingSlots' \ {i} = LoadingSlots \ {i}

\* All other files are as before, and all other slots all right.
LEMMA Touched ==
  ASSUME IndInv, IndInv', FilesInv, NEW p \in Procs, NEW r, NEW i \in Slots \ {Root},
         Touch(p, r, i)
  PROVE  /\ inode[i].num \in Files
         /\ \A m \in Files \ {inode[i].num} : /\ m \in UsedFiles' <=> m \in UsedFiles
                                              /\ m \in LinkedFiles' <=> m \in LinkedFiles
         /\ SlotOK(i)' => SlotsOK'
         /\ \A j \in Slots \ {i} : inode[j].count # 0 => inode[j].num # inode[i].num
<1>1. inode[i].num \in Files  BY HeldNum DEF Touch
<1>2. inode[Root].num = Root /\ inode'[Root].num = Root  BY DEF IndInv, RootInv
<1>3. ASSUME NEW m \in Files \ {inode[i].num}
      PROVE  /\ m \in UsedFiles' <=> m \in UsedFiles
             /\ m \in LinkedFiles' <=> m \in LinkedFiles
 <2>1. m # NoNum /\ m # Root  BY Consts
 <2>2. ASSUME NEW j \in Slots
       PROVE  /\ InCore(j, m)' <=> InCore(j, m)
              /\ InCore(j, m) => inode'[j] = inode[j]
  <3>1. CASE j = i  BY <3>1, <2>1 DEF InCore, Touch
  <3>2. CASE j = Root  BY <3>2, <2>1, <1>2 DEF InCore
  <3>3. CASE j \notin {i, Root}
   <4>1. inode'[j] = inode[j] /\ (j \in LoadingSlots' <=> j \in LoadingSlots)  BY <3>3 DEF Touch
   <4> QED  BY <4>1 DEF InCore
  <3> QED  BY <3>1, <3>2, <3>3
 <2>3. disk'[m] = disk[m]  BY DEF Touch
 <2> QED  BY <2>2, <2>3, FileSame
<1>4. SlotOK(i)' => SlotsOK'
 <2> SUFFICES ASSUME SlotOK(i)', NEW j \in Slots \ {i} PROVE SlotOK(j)'  BY DEF SlotsOK, SlotOK
 <2>1. CASE j = Root  BY <2>1, <1>2 DEF SlotOK, Root, NoNum
 <2>2. CASE j # Root
  <3>1. inode'[j] = inode[j] /\ (j \in LoadingSlots => j \in LoadingSlots') /\ disk' = disk
    BY <2>2 DEF Touch
  <3>2. SlotOK(j)  BY DEF FilesInv, SlotsOK
  <3> QED  BY <3>1, <3>2 DEF SlotOK, Synced
 <2> QED  BY <2>1, <2>2
<1>5. \A j \in Slots \ {i} : inode[j].count # 0 => inode[j].num # inode[i].num
  BY <1>1, Consts DEF IndInv, OneEntryPerInode, Touch
<1> QED  BY <1>1, <1>3, <1>4, <1>5

\* The other processes are all right when no name and no free number is new but that of
\* slot i, and nobody else has the slot or it stays what it is.
LEMMA TouchedOthers ==
  ASSUME IndInv, IndInv', FilesInv, NEW p \in Procs, NEW r, NEW i \in Slots \ {Root},
         Touch(p, r, i), u[p].ip = i,
         \A m \in Files \ {inode[i].num} :
            /\ m \in FreeNums' => m \in FreeNums
            /\ \A e \in Entries : dir'[e].ino = m => dir[e].ino = m,
         \/ u[p].pc \in Only
         \/ /\ inode'[i].num = inode[i].num
            /\ inode[i].num \in UsedFiles' <=> inode[i].num \in UsedFiles
            /\ \A e \in Entries : dir'[e].ino = inode[i].num => dir[e].ino = inode[i].num
  PROVE  \A q \in Procs \ {p} : ProcOK(q)'
<1> TAKE q \in Procs \ {p}
<1>1. u[q].pc \in Only => u[q].ip \in Slots \ {i, Root} /\ inode[u[q].ip].count = 1
                          /\ inode[u[q].ip].lock
  BY OnlyMine
<1>2. ASSUME NEW j \in Slots \ {Root}, u[q].fd = j \/ u[q].ip = j
      PROVE  /\ inode'[j].num = inode[j].num
             /\ inode[j].num \in UsedFiles' <=> inode[j].num \in UsedFiles
             /\ \A e \in Entries : dir'[e].ino = inode[j].num => dir[e].ino = inode[j].num
 <2>1. CASE j = i
  <3>1. u[p].pc \notin Only  BY <1>2, <2>1, OnlyMine
  <3> QED  BY <2>1, <3>1
 <2>2. CASE j # i
  <3>1. inode[j].count # 0  BY <1>2, RefTaken
  <3>2. inode[j].num \in Files \ {inode[i].num}  BY <2>2, <3>1, HeldNum, Touched
  <3>3. inode'[j] = inode[j]  BY <2>2 DEF Touch
  <3> QED  BY <3>2, <3>3, Touched
 <2> QED  BY <2>1, <2>2
<1>3. ASSUME u[q].pc \in Only
      PROVE  /\ inode'[u[q].ip].count = 1 /\ inode'[u[q].ip].lock
             /\ inode[u[q].ip].num \in LinkedFiles' <=> inode[u[q].ip].num \in LinkedFiles
             /\ inode[u[q].ip].num \in FreeNums' => inode[u[q].ip].num \in FreeNums
 <2>1. PICK j : j = u[q].ip  OBVIOUS
 <2>2. j \in Slots \ {i, Root} /\ inode[j].count = 1 /\ inode[j].lock  BY <1>1, <1>3, <2>1
 <2>3. inode[j].num \in Files \ {inode[i].num}  BY <2>2, HeldNum, Touched
 <2>4. inode'[j] = inode[j]  BY <2>2 DEF Touch
 <2> QED  BY <2>1, <2>2, <2>3, <2>4, Touched
<1>4. ASSUME u[q].pc = "iputend" PROVE Synced(u[q].ip)'
 <2>1. Synced(u[q].ip) /\ u[q].ip \in Slots \ {i, Root}
   BY <1>1, <1>4 DEF FilesInv, ProcOK, HoldOK, Only
 <2>2. u'[q] = u[q] /\ inode'[u[q].ip] = inode[u[q].ip] /\ disk' = disk  BY <2>1, Facts DEF Touch
 <2> QED  BY <2>1, <2>2 DEF Synced
<1>5. /\ u' = [u EXCEPT ![p] = r] /\ cpu \in {NoProc, p}
      /\ \A o \in Procs : chan[o] = LocalChan => chan'[o] = LocalChan \/ o = p
  BY DEF Touch
<1> QED  BY <1>2, <1>3, <1>4, <1>5, OthersOK

\* ... and then FilesInv holds if it does of p, of the names and of the free numbers.
LEMMA TouchedAll ==
  ASSUME FilesInv, NEW p \in Procs, \A q \in Procs \ {p} : ProcOK(q)',
         wild' = FALSE, SlotsOK', DirOK', StkOK', ProcOK(p)'
  PROVE  FilesInv'
  BY DEF FilesInv
LEMMA CreatTruncFiles ==
  ASSUME IndInv, IndInv', FilesInv, NEW p \in Procs, CreatTrunc(p)
  PROVE  FilesInv'
<1>1. PICK i, s, r : /\ i = u[p].ip /\ s = [inode[i] EXCEPT !.nlink = 1, !.dirty = TRUE]
                     /\ r = Pc(p, "opened")
  OBVIOUS
<1>2. PICK n : n = u[p].num  OBVIOUS
<1>3. /\ u[p].pc = "trunc" /\ cpu \in {NoProc, p} /\ UNCHANGED <<disk, dir, stk, wild, chan>>
      /\ inode' = [inode EXCEPT ![i].nlink = 1, ![i].dirty = TRUE]
      /\ u' = [u EXCEPT ![p] = r]
  BY <1>1 DEF CreatTrunc, At, Go
<1>4. i \in Slots \ {Root} /\ inode[i].num = n /\ n \in UsedFiles /\ n \in Files
  BY <1>1, <1>2, <1>3, Mine DEF Got, Has, UsedFiles
<1>5. /\ s.num = n /\ s.mode = inode[i].mode /\ s.nlink = 1
      /\ s.count = inode[i].count /\ s.dirty
  BY <1>1, <1>4, Facts DEF InodeRec
<1>6. inode' = [inode EXCEPT ![i] = s]  BY <1>1, <1>3, <1>4, Facts
<1>7. inode'[i] = s /\ \A j \in Slots \ {i} : inode'[j] = inode[j]  BY <1>4, <1>6, Facts
<1>8. /\ r.pc = "opened" /\ r.ip = i /\ r.num = n /\ r.fd = u[p].fd /\ r.op = u[p].op
  BY <1>1, <1>2, PcOf
<1>9. LoadingSlots' = LoadingSlots /\ i \notin LoadingSlots
  BY <1>1, <1>3, <1>4, <1>8, Facts, LoadingSame, NotLoading
<1>10. inode[i].count # 0 /\ inode[i].mode  BY <1>1, <1>3, <1>4, RefTaken, HeldMode
<1>11. Touch(p, r, i)  BY <1>3, <1>4, <1>5, <1>7, <1>9, <1>10 DEF Touch
<1>12. n \in UsedFiles' /\ n \in LinkedFiles'
 <2>1. inode'[i].num = n /\ inode'[i].count # 0 /\ inode'[i].mode  BY <1>5, <1>7, <1>10
 <2>2. inode'[i].nlink = 1  BY <1>5, <1>7
 <2>3. inode'[i].nlink > 0  BY <2>2
 <2> QED  BY <1>4, <1>9, <2>1, <2>3, ToldAfter
<1>13. \A m \in Files \ {n} : /\ m \in UsedFiles' <=> m \in UsedFiles
                              /\ m \in LinkedFiles' <=> m \in LinkedFiles
  BY <1>4, <1>11, Touched
<1>14. UsedFiles' = UsedFiles /\ LinkedFiles \subseteq LinkedFiles'
 <2>1. UsedFiles' \subseteq Files /\ UsedFiles \subseteq Files /\ LinkedFiles \subseteq Files
   BY DEF UsedFiles, LinkedFiles
 <2> QED  BY <1>4, <1>12, <1>13, <2>1
<1>15. SlotsOK'
 <2>1. SlotOK(i)'  BY <1>4, <1>5, <1>7, <1>10, Consts DEF SlotOK
 <2> QED  BY <1>4, <1>11, <2>1, Touched
<1>16. FreeNums' = FreeNums  BY <1>3 DEF FreeNums
<1>17. DirOK' /\ StkOK'  BY <1>3, <1>14, <1>16 DEF FilesInv, DirOK, StkOK
<1>18. \A q \in Procs \ {p} : ProcOK(q)'
 <2>1. \A m \in Files : /\ m \in FreeNums' => m \in FreeNums
                        /\ \A e \in Entries : dir'[e].ino = m => dir[e].ino = m
   BY <1>3, <1>16
 <2>2. /\ inode'[i].num = inode[i].num
       /\ inode[i].num \in UsedFiles' <=> inode[i].num \in UsedFiles
       /\ \A e \in Entries : dir'[e].ino = inode[i].num => dir[e].ino = inode[i].num
   BY <1>3, <1>4, <1>5, <1>7, <1>14
 <2>3. u[p].ip = i  BY <1>1
 <2> QED  BY <1>4, <1>11, <2>1, <2>2, <2>3, TouchedOthers
<1>19. ProcOK(p)'
 <2>1. /\ r.pc \in Has \ {"writedir"} /\ r.pc \notin {"file", "clear"} /\ r.op # "sync"
       /\ inode'[r.ip].num = r.num /\ r.num \in UsedFiles'
   BY <1>5, <1>7, <1>8, <1>12, Mine DEF Has
 <2>2. r.fd # NoSlot => inode'[r.fd].num \in UsedFiles'
  <3> SUFFICES ASSUME r.fd # NoSlot PROVE inode'[r.fd].num \in UsedFiles'  OBVIOUS
  <3>1. inode[r.fd].num \in UsedFiles /\ r.fd \in Slots  BY <1>8, Mine
  <3>2. inode'[r.fd].num = inode[r.fd].num  BY <1>4, <1>5, <1>7, <3>1
  <3> QED  BY <1>14, <3>1, <3>2
 <2> QED  BY <1>3, <2>1, <2>2, Facts, HasOK
<1>20. wild' = FALSE  BY <1>3, Facts DEF FilesInv, TypeRest
<1> QED  BY <1>15, <1>17, <1>18, <1>19, <1>20, TouchedAll

\* Of the slots that are being read, p's is no more.
LEMMA LoadingOnly ==
  ASSUME IndInv, FilesInv, NEW p \in Procs, NEW r, u' = [u EXCEPT ![p] = r],
         u[p].pc = "load", r.pc # "load"
  PROVE  /\ u[p].ip \in LoadingSlots /\ u[p].ip \notin LoadingSlots'
         /\ LoadingSlots' \ {u[p].ip} = LoadingSlots \ {u[p].ip}
<1>1. u'[p] = r /\ \A q \in Procs \ {p} : u'[q] = u[q]  BY Facts
<1>2. \A q \in Procs \ {p} : u[q].ip # u[p].ip  BY OnlyMine DEF Only
<1>3. u[p].ip \notin LoadingSlots'
 <2> SUFFICES ASSUME NEW q \in Procs, u'[q].pc = "load", u'[q].ip = u[p].ip PROVE FALSE
   BY DEF LoadingSlots
 <2> QED  BY <1>1, <1>2
<1>4. ASSUME NEW j, j # u[p].ip PROVE j \in LoadingSlots' <=> j \in LoadingSlots
 <2>1. j \in LoadingSlots <=> \E q \in Procs : u[q].pc = "load" /\ u[q].ip = j  BY DEF LoadingSlots
 <2>2. j \in LoadingSlots' <=> \E q \in Procs : u'[q].pc = "load" /\ u'[q].ip = j
   BY DEF LoadingSlots
 <2> QED  BY <1>1, <1>4, <2>1, <2>2
<1> QED  BY <1>3, <1>4 DEF LoadingSlots

\* The variables of p when it goes on to l with slot i
LEMMA PcFd ==
  ASSUME IndInv, FilesInv, NEW p \in Procs, u[p].pc \in Only, u[p].fd # NoSlot
  PROVE  /\ u[p].fd \in Slots \ {u[p].ip, Root}
         /\ inode[u[p].fd].num \in UsedFiles \ {inode[u[p].ip].num}
<1>1. u[p].ip \in Slots \ {Root} /\ u[p].fd # u[p].ip /\ inode[u[p].ip].count = 1  BY OnlyMine
<1>2. u[p].fd \in Slots \ {Root} /\ inode[u[p].fd].num \in UsedFiles  BY Mine
<1>3. inode[u[p].fd].count # 0 /\ inode[u[p].fd].num # NoNum
  BY <1>2, RefTaken, Consts DEF UsedFiles
<1>4. inode[u[p].fd].num # inode[u[p].ip].num  BY <1>1, <1>2, <1>3 DEF IndInv, OneEntryPerInode
<1> QED  BY <1>1, <1>2, <1>4

LEMMA IGetLoadFiles ==
  ASSUME IndInv, IndInv', FilesInv, NEW p \in Procs, IGetLoad(p)
  PROVE  FilesInv'
<1>1. PICK i, n, r : i = u[p].ip /\ n = u[p].num /\ r = Pc(p, u[p].ret)  OBVIOUS
<1>2. u[p].pc = "load" /\ chan[p] = Awake  BY DEF IGetLoad, At
<1>3. u[p].pc \in Only /\ u[p].pc \in Got  BY <1>2 DEF Only, Got
<1>4. /\ i \in Slots \ {Root} /\ inode[i].num = n /\ n \in Files /\ n # NoNum
      /\ inode[i].count = 1 /\ inode[i].lock
  BY <1>1, <1>3, OnlyMine, Consts DEF FilesInv, ProcOK, HoldOK
<1>5. PICK d, s : /\ d = disk[n] /\ s = [inode[i] EXCEPT !.mode = d.mode, !.nlink = d.nlink]
  OBVIOUS
<1>6. /\ cpu \in {NoProc, p} /\ UNCHANGED <<disk, dir, stk, chan>> /\ wild' = FALSE
      /\ u' = [u EXCEPT ![p] = r]
  BY <1>1, <1>4 DEF IGetLoad, At, Go
<1>7. inode' = [inode EXCEPT ![i].mode = d.mode, ![i].nlink = d.nlink]
  BY <1>1, <1>4, <1>5 DEF IGetLoad
<1>8. inode' = [inode EXCEPT ![i] = s]  BY <1>4, <1>5, <1>7, Facts
<1>9. /\ s.num = n /\ s.mode = d.mode /\ s.nlink = d.nlink
      /\ s.count = 1 /\ s.lock
  BY <1>4, <1>5, Facts DEF InodeRec
<1>10. inode'[i] = s /\ \A j \in Slots \ {i} : inode'[j] = inode[j]  BY <1>4, <1>8, Facts
<1>11. /\ r.pc = u[p].ret /\ r.ip = i /\ r.num = n /\ r.fd = u[p].fd /\ r.op = u[p].op
       /\ r.at = u[p].at /\ u[p].ret \in {"file", "new"}
  BY <1>1, <1>2, PcOf, Facts DEF LocalOK
<1>12. /\ i \in LoadingSlots /\ i \notin LoadingSlots'
       /\ LoadingSlots' \ {i} = LoadingSlots \ {i}
  BY <1>1, <1>2, <1>6, <1>11, LoadingOnly
<1>13. Touch(p, r, i)  BY <1>4, <1>6, <1>9, <1>10, <1>12 DEF Touch
<1>14. (n \in UsedFiles' <=> n \in UsedFiles) /\ (n \in LinkedFiles' <=> n \in LinkedFiles)
 <2>1. \A j \in Slots : ~InCore(j, n)
  <3> TAKE j \in Slots
  <3>1. CASE j = i  BY <3>1, <1>12 DEF InCore
  <3>2. CASE j # i
   <4>1. inode[j].count # 0 => inode[j].num # n  BY <1>4, <1>13, <3>2, Touched
   <4> QED  BY <4>1 DEF InCore
  <3> QED  BY <3>1, <3>2
 <2>2. (n \in UsedFiles <=> d.mode) /\ (n \in LinkedFiles <=> d.nlink > 0)
   BY <1>4, <1>5, <2>1, OnDisk
 <2>3. inode'[i].num = n /\ inode'[i].count # 0 /\ inode'[i].mode = d.mode
       /\ inode'[i].nlink = d.nlink
   BY <1>9, <1>10
 <2> QED  BY <1>4, <1>12, <2>2, <2>3, ToldAfter
<1>15. UsedFiles' = UsedFiles /\ LinkedFiles' = LinkedFiles
 <2>1. /\ UsedFiles' \subseteq Files /\ UsedFiles \subseteq Files
       /\ LinkedFiles \subseteq Files /\ LinkedFiles' \subseteq Files
   BY DEF UsedFiles, LinkedFiles
 <2>2. \A m \in Files \ {n} : /\ m \in UsedFiles' <=> m \in UsedFiles
                              /\ m \in LinkedFiles' <=> m \in LinkedFiles
   BY <1>4, <1>13, Touched
 <2> QED  BY <1>4, <1>14, <2>1, <2>2
<1>16. SlotsOK'
 <2>1. Synced(i)'  BY <1>5, <1>6, <1>9, <1>10 DEF Synced
 <2>2. SlotOK(i)'  BY <1>4, <1>9, <1>10, <2>1 DEF SlotOK
 <2> QED  BY <1>4, <1>13, <2>2, Touched
<1>17. FreeNums' = FreeNums  BY <1>6 DEF FreeNums
<1>18. DirOK' /\ StkOK'  BY <1>6, <1>15, <1>17 DEF FilesInv, DirOK, StkOK
<1>19. \A q \in Procs \ {p} : ProcOK(q)'
 <2>1. \A m \in Files : /\ m \in FreeNums' => m \in FreeNums
                        /\ \A e \in Entries : dir'[e].ino = m => dir[e].ino = m
   BY <1>6, <1>17
 <2>2. u[p].ip = i  BY <1>1
 <2> QED  BY <1>3, <1>4, <1>13, <2>1, <2>2, TouchedOthers
<1>20. r.op # "sync" /\ (r.fd # NoSlot => inode'[r.fd].num \in UsedFiles')
 <2>1. r.fd # NoSlot => r.fd \in Slots \ {i, Root} /\ inode[r.fd].num \in UsedFiles
   BY <1>1, <1>3, <1>11, PcFd
 <2> QED  BY <1>10, <1>11, <1>15, <2>1, Mine
<1>21. ~Stuck(p) /\ FileOK(p)  BY <1>2 DEF Stuck, FilesInv, ProcOK
<1>22. CASE u[p].ret = "file"
 <2>1. Finding(u[p])  BY <1>2, <1>22 DEF Finding
 <2>2. n \in UsedFiles  BY <1>1, <1>21, <2>1 DEF FileOK
 <2>3. u[p].op = "unlink" => \A e \in Entries : dir[e].ino = n => e = u[p].at
   BY <1>1, <1>21, <2>1 DEF FileOK
 <2>4. /\ r.pc \in Has \ {"writedir"} /\ inode'[r.ip].num = r.num /\ r.num \in UsedFiles'
       /\ r.op = "unlink" => \A e \in Entries : dir'[e].ino = r.num => e = r.at
   BY <1>6, <1>9, <1>10, <1>11, <1>15, <1>22, <2>2, <2>3 DEF Has
 <2>5. ProcOK(p)'  BY <1>6, <1>20, <2>4, Facts, HasOK
 <2> QED  BY <1>6, <1>16, <1>18, <1>19, <2>5, TouchedAll
<1>23. CASE u[p].ret = "new"
 <2>1. Fresh(u[p])  BY <1>2, <1>23 DEF Fresh
 <2>2. n \in Files \ (UsedFiles' \cup FreeNums')  BY <1>1, <1>15, <1>17, <1>21, <2>1 DEF FileOK
 <2>3. u'[p] = r /\ r.pc = "new"  BY <1>6, <1>11, <1>23, Facts
 <2>4. inode'[r.ip].count = 1 /\ inode'[r.ip].lock /\ inode'[r.ip].num = r.num
   BY <1>9, <1>10, <1>11
 <2>5. CtlOK(p)' /\ HoldOK(p)'  BY <1>4, <1>11, <1>20, <2>3, <2>4 DEF CtlOK, HoldOK, IPutPCs
 <2>6. FileOK(p)'  BY <1>11, <1>20, <2>2, <2>3 DEF FileOK, Finding, Fresh, Has
 <2>7. ProcOK(p)'  BY <2>5, <2>6 DEF ProcOK
 <2> QED  BY <1>6, <1>16, <1>18, <1>19, <2>7, TouchedAll
<1> QED  BY <1>11, <1>22, <1>23
LEMMA IPutFreeFiles ==
  ASSUME IndInv, IndInv', FilesInv, NEW p \in Procs, IPutFree(p)
  PROVE  FilesInv'
<1>1. PICK i, n, r : i = u[p].ip /\ n = inode[i].num /\ r = Pc(p, "iupdate")  OBVIOUS
<1>2. /\ u[p].pc = "itrunc" /\ u[p].ret = "idle"
  BY DEF IPutFree, At, FilesInv, ProcOK, CtlOK, IPutPCs
<1>3. u[p].pc \in Only  BY <1>2 DEF Only
<1>4. /\ i \in Slots \ {Root} /\ inode[i].count = 1 /\ inode[i].lock  BY <1>1, <1>3, OnlyMine
<1>5. n \in UsedFiles /\ n \notin LinkedFiles /\ n \in Files
  BY <1>1, <1>2, <1>4 DEF FilesInv, ProcOK, FileOK, UsedFiles
<1>6. PICK s : s = [inode[i] EXCEPT !.mode = FALSE, !.nlink = 1, !.dirty = TRUE]  OBVIOUS
<1>7. /\ cpu \in {NoProc, p} /\ UNCHANGED <<disk, dir, wild, chan>>
      /\ u' = [u EXCEPT ![p] = r] /\ stk' \in {stk, Append(stk, n)}
  BY <1>1 DEF IPutFree, At, Go, IFree
<1>8. inode' = [inode EXCEPT ![i] = s]
 <2>1. inode' = [inode EXCEPT ![i].mode = FALSE, ![i].nlink = 1, ![i].dirty = TRUE]
   BY <1>1 DEF IPutFree
 <2> QED  BY <1>4, <1>6, <2>1, Facts
<1>9. s.num = n /\ ~s.mode /\ s.nlink = 1 /\ s.count = 1 /\ s.lock /\ s.dirty
  BY <1>1, <1>4, <1>6, Facts DEF InodeRec
<1>10. inode'[i] = s /\ \A j \in Slots \ {i} : inode'[j] = inode[j]  BY <1>4, <1>8, Facts
<1>11. r.pc = "iupdate" /\ r.ip = i /\ r.ret = "idle" /\ r.fd = u[p].fd /\ r.op = u[p].op
  BY <1>1, <1>2, PcOf
<1>12. LoadingSlots' = LoadingSlots /\ i \notin LoadingSlots
  BY <1>1, <1>2, <1>4, <1>7, <1>11, Facts, LoadingSame, NotLoading
<1>13. Touch(p, r, i)  BY <1>1, <1>4, <1>7, <1>9, <1>10, <1>12 DEF Touch
<1>14. n \notin UsedFiles' /\ n \in LinkedFiles'
 <2>1. inode'[i].num = n /\ inode'[i].count # 0 /\ ~inode'[i].mode  BY <1>9, <1>10
 <2>2. inode'[i].nlink = 1  BY <1>9, <1>10
 <2>3. inode'[i].nlink > 0  BY <2>2
 <2> QED  BY <1>4, <1>5, <1>12, <2>1, <2>3, ToldAfter
<1>15. \A m \in Files \ {n} : /\ m \in UsedFiles' <=> m \in UsedFiles
                              /\ m \in LinkedFiles' <=> m \in LinkedFiles
  BY <1>1, <1>4, <1>13, Touched
<1>16. UsedFiles' = UsedFiles \ {n} /\ LinkedFiles \subseteq LinkedFiles'
 <2>1. UsedFiles' \subseteq Files /\ UsedFiles \subseteq Files /\ LinkedFiles \subseteq Files
   BY DEF UsedFiles, LinkedFiles
 <2> QED  BY <1>5, <1>14, <1>15, <2>1
<1>17. SlotsOK'
 <2>1. SlotOK(i)'  BY <1>5, <1>9, <1>10, Consts DEF SlotOK
 <2> QED  BY <1>4, <1>13, <2>1, Touched
<1>18. DirOK'  BY <1>5, <1>7, <1>16 DEF FilesInv, DirOK
<1>19. FreeNums \subseteq Files \ UsedFiles /\ n \notin FreeNums  BY <1>5 DEF FilesInv, StkOK
<1>20. FreeNums' \subseteq FreeNums \cup {n}
       /\ \A k, l \in 1..Len(stk') : k # l => stk'[k] # stk'[l]
 <2>1. stk \in Seq({NoNum} \cup Files) /\ Len(stk) \in Nat  BY Facts DEF TypeRest
 <2>2. /\ \A k, l \in 1..Len(stk) : k # l => stk[k] # stk[l]
       /\ \A k \in 1..Len(stk) : stk[k] \in FreeNums
   BY DEF FilesInv, StkOK, FreeNums
 <2>3. CASE stk' = stk
  <3>1. FreeNums' = FreeNums  BY <2>3 DEF FreeNums
  <3> QED  BY <2>2, <2>3, <3>1
 <2>4. CASE stk' = Append(stk, n)
  <3>1. /\ Len(stk') = Len(stk) + 1 /\ stk'[Len(stk) + 1] = n
        /\ \A k \in 1..Len(stk) : stk'[k] = stk[k]
    BY <2>1, <2>4
  <3>2. \A k \in 1..Len(stk') : k \in 1..Len(stk) \/ k = Len(stk) + 1  BY <2>1, <3>1
  <3>3. \A k \in 1..Len(stk') : \/ stk'[k] \in FreeNums /\ k \in 1..Len(stk)
                                \/ stk'[k] = n /\ k = Len(stk) + 1
    BY <2>2, <3>1, <3>2
  <3>4. FreeNums' \subseteq FreeNums \cup {n}  BY <3>3 DEF FreeNums
  <3>5. \A k, l \in 1..Len(stk') : k # l => stk'[k] # stk'[l]  BY <1>19, <2>2, <3>1, <3>3
  <3> QED  BY <3>4, <3>5
 <2> QED  BY <1>7, <2>3, <2>4
<1>21. StkOK'  BY <1>5, <1>16, <1>19, <1>20 DEF StkOK
<1>22. \A q \in Procs \ {p} : ProcOK(q)'
 <2>1. \A m \in Files \ {n} : /\ m \in FreeNums' => m \in FreeNums
                              /\ \A e \in Entries : dir'[e].ino = m => dir[e].ino = m
   BY <1>7, <1>20
 <2>2. u[p].ip = i  BY <1>1
 <2> QED  BY <1>1, <1>3, <1>4, <1>13, <2>1, <2>2, TouchedOthers
<1>23. ProcOK(p)'
 <2>1. r.op # "sync" /\ inode'[r.ip].count = 1 /\ inode'[r.ip].lock  BY <1>9, <1>10, <1>11, Mine
 <2>2. r.fd # NoSlot => inode'[r.fd].num \in UsedFiles'
  <3>1. r.fd # NoSlot => r.fd \in Slots \ {i, Root} /\ inode[r.fd].num \in UsedFiles \ {n}
    BY <1>1, <1>3, <1>11, PcFd
  <3> QED  BY <1>10, <1>16, <3>1
 <2> QED  BY <1>7, <1>11, <2>1, <2>2, Facts, LastOK
<1>24. wild' = FALSE  BY <1>7, Facts DEF FilesInv, TypeRest
<1> QED  BY <1>17, <1>18, <1>21, <1>22, <1>23, <1>24, TouchedAll

LEMMA IPutEndFiles ==
  ASSUME IndInv, IndInv', FilesInv, NEW p \in Procs, IPutEnd(p)
  PROVE  FilesInv'
<1>1. PICK i, n, r : i = u[p].ip /\ n = inode[i].num /\ r = [Idle EXCEPT !.fd = u[p].fd]  OBVIOUS
<1>2. /\ u[p].pc = "iputend" /\ u[p].ret = "idle"
  BY DEF IPutEnd, At, FilesInv, ProcOK, CtlOK, IPutPCs
<1>3. u[p].pc \in Only  BY <1>2 DEF Only
<1>4. /\ i \in Slots \ {Root} /\ inode[i].count = 1 /\ inode[i].count # 0  BY <1>1, <1>3, OnlyMine
<1>5. n \in Files /\ n # NoNum  BY <1>1, <1>4, HeldNum, Consts
<1>6. disk[n].mode = inode[i].mode /\ disk[n].nlink = inode[i].nlink
  BY <1>1, <1>2 DEF FilesInv, ProcOK, HoldOK, Synced
<1>7. PICK t, s : t = PutRec(inode[i]) /\ s = [t EXCEPT !.num = NoNum, !.dirty = FALSE]  OBVIOUS
<1>8. /\ cpu \in {NoProc, p} /\ UNCHANGED <<disk, dir, stk, wild>> /\ PreleWakes(i)
      /\ inode' = [inode EXCEPT ![i] = s] /\ u' = [u EXCEPT ![p] = r]
  BY <1>1, <1>2, <1>7, Zenon DEF IPutEnd, At, AfterPut, Return, GoSleepy
<1>9. s.num = NoNum /\ s.count = 0
 <2>1. t.count = 0
  <3>1. t.count = inode[i].count - 1  BY <1>4, <1>7, Facts, SlotRecs
  <3> QED  BY <1>4, <3>1
 <2>2. t \in [num : {NoNum, Root} \cup Files, count : Int, lock : BOOLEAN,
              want : BOOLEAN, dirty : BOOLEAN, mode : BOOLEAN, nlink : Int]
   BY <1>4, <1>7, Facts, Recs
 <2> QED  BY <1>7, <2>1, <2>2
<1>10. inode'[i] = s /\ \A j \in Slots \ {i} : inode'[j] = inode[j]  BY <1>4, <1>8, Facts
<1>11. r.pc = "idle" /\ r.op = "none" /\ r.fd = u[p].fd  BY <1>1, IdleRec
<1>12. LoadingSlots' = LoadingSlots /\ i \notin LoadingSlots
  BY <1>1, <1>2, <1>4, <1>8, <1>11, Facts, LoadingSame, NotLoading
<1>13. Touch(p, r, i)
 <2>1. \A q \in Procs : chan[q] = LocalChan => chan'[q] = LocalChan  BY <1>4, <1>8, Facts, Sleepers
 <2> QED  BY <1>1, <1>4, <1>8, <1>9, <1>10, <1>12, <2>1 DEF Touch
<1>14. (n \in UsedFiles' <=> n \in UsedFiles) /\ (n \in LinkedFiles' <=> n \in LinkedFiles)
 <2>1. \A j \in Slots : ~InCore(j, n)'
  <3> TAKE j \in Slots
  <3>1. CASE j = i  BY <3>1, <1>9, <1>10 DEF InCore
  <3>2. CASE j # i
   <4>1. inode[j].count # 0 => inode[j].num # n  BY <1>1, <1>4, <1>13, <3>2, Touched
   <4> QED  BY <1>10, <3>2, <4>1 DEF InCore
  <3> QED  BY <3>1, <3>2
 <2>2. (n \in UsedFiles' <=> disk'[n].mode) /\ (n \in LinkedFiles' <=> disk'[n].nlink > 0)
   BY <1>5, <2>1, OnDiskAfter
 <2>3. /\ n \in UsedFiles <=> inode[i].mode
       /\ n \in LinkedFiles <=> inode[i].nlink > 0
   BY <1>1, <1>4, <1>5, <1>12, Told
 <2> QED  BY <1>6, <1>8, <2>2, <2>3
<1>15. UsedFiles' = UsedFiles /\ LinkedFiles' = LinkedFiles
 <2>1. /\ UsedFiles' \subseteq Files /\ UsedFiles \subseteq Files
       /\ LinkedFiles \subseteq Files /\ LinkedFiles' \subseteq Files
   BY DEF UsedFiles, LinkedFiles
 <2>2. \A m \in Files \ {n} : /\ m \in UsedFiles' <=> m \in UsedFiles
                              /\ m \in LinkedFiles' <=> m \in LinkedFiles
   BY <1>1, <1>4, <1>13, Touched
 <2> QED  BY <1>5, <1>14, <2>1, <2>2
<1>16. SlotsOK'
 <2>1. SlotOK(i)'  BY <1>9, <1>10 DEF SlotOK
 <2> QED  BY <1>4, <1>13, <2>1, Touched
<1>17. FreeNums' = FreeNums  BY <1>8 DEF FreeNums
<1>18. DirOK' /\ StkOK'  BY <1>8, <1>15, <1>17 DEF FilesInv, DirOK, StkOK
<1>19. \A q \in Procs \ {p} : ProcOK(q)'
 <2>1. \A m \in Files : /\ m \in FreeNums' => m \in FreeNums
                        /\ \A e \in Entries : dir'[e].ino = m => dir[e].ino = m
   BY <1>8, <1>17
 <2>2. u[p].ip = i  BY <1>1
 <2> QED  BY <1>3, <1>4, <1>13, <2>1, <2>2, TouchedOthers
<1>20. r.fd # NoSlot => inode'[r.fd].num \in UsedFiles'
 <2>1. r.fd # NoSlot => r.fd \in Slots \ {i, Root} /\ inode[r.fd].num \in UsedFiles
   BY <1>1, <1>3, <1>11, PcFd
 <2> QED  BY <1>10, <1>15, <2>1
<1>21. ProcOK(p)'  BY <1>8, <1>11, <1>20, Places, Facts, NextOK
<1>22. wild' = FALSE  BY <1>8, Facts DEF FilesInv, TypeRest
<1> QED  BY <1>16, <1>18, <1>19, <1>21, <1>22, TouchedAll

\* What p knows of the number of its new inode
LEMMA Newest ==
  ASSUME IndInv, FilesInv, NEW p \in Procs, u[p].pc \in {"new", "writedir"}
  PROVE  /\ u[p].ip \in Slots \ {Root} /\ inode[u[p].ip].num = u[p].num /\ u[p].num \in Files
         /\ inode[u[p].ip].count = 1 /\ inode[u[p].ip].lock
         /\ u[p].ip \notin LoadingSlots
         /\ u[p].pc = "new" => u[p].num \notin UsedFiles /\ u[p].num \notin FreeNums
         /\ u[p].pc = "writedir" => /\ u[p].num \in UsedFiles \cap LinkedFiles
                                    /\ \A e \in Entries : dir[e].ino # u[p].num
<1>1. u[p].pc \in Only /\ u[p].pc \in Got /\ ~Stuck(p)  BY DEF Only, Got, Has, Stuck
<1>2. HoldOK(p) /\ FileOK(p)  BY DEF FilesInv, ProcOK
<1>3. u[p].ip \notin LoadingSlots  BY <1>1, OnlyMine, NotLoading
<1>4. u[p].pc = "new" => u[p].num \notin UsedFiles /\ u[p].num \notin FreeNums
  BY <1>1, <1>2 DEF FileOK, Fresh
<1>5. u[p].pc = "writedir" => /\ u[p].num \in UsedFiles \cap LinkedFiles
                              /\ \A e \in Entries : dir[e].ino # u[p].num
  BY <1>1, <1>2 DEF FileOK, Has
<1> QED  BY <1>1, <1>2, <1>3, <1>4, <1>5, OnlyMine DEF HoldOK

\* IAlloc never finds the inode of a number from the table in use.
LEMMA IAllocUsedFiles ==
  ASSUME IndInv, FilesInv, NEW p \in Procs, IAllocUsed(p)
  PROVE  FilesInv'
<1>1. u[p].pc = "new" /\ inode[u[p].ip].mode  BY DEF IAllocUsed, At
<1>2. u[p].ip \in Slots /\ inode[u[p].ip].num \in Files \ UsedFiles  BY <1>1, Newest
<1> QED  BY <1>1, <1>2, HeldMode

LEMMA MakNodeFiles ==
  ASSUME IndInv, IndInv', FilesInv, NEW p \in Procs, MakNode(p)
  PROVE  FilesInv'
<1>1. PICK i, n, r : i = u[p].ip /\ n = u[p].num /\ r = Pc(p, "writedir")  OBVIOUS
<1>2. u[p].pc = "new"  BY DEF MakNode, At
<1>3. u[p].pc \in Only  BY <1>2 DEF Only
<1>4. /\ i \in Slots \ {Root} /\ inode[i].num = n /\ n \in Files /\ i \notin LoadingSlots
      /\ inode[i].count = 1 /\ inode[i].lock /\ n \notin UsedFiles /\ n \notin FreeNums
  BY <1>1, <1>2, Newest
<1>5. PICK s : s = [inode[i] EXCEPT !.mode = TRUE, !.nlink = 1, !.dirty = TRUE]  OBVIOUS
<1>6. /\ cpu \in {NoProc, p} /\ UNCHANGED <<disk, dir, stk, wild, chan>>
      /\ u' = [u EXCEPT ![p] = r]
  BY <1>1 DEF MakNode, At, GoSleepy
<1>7. inode' = [inode EXCEPT ![i] = s]
 <2>1. inode' = [inode EXCEPT ![i].mode = TRUE, ![i].nlink = 1, ![i].dirty = TRUE]
   BY <1>1 DEF MakNode
 <2> QED  BY <1>4, <1>5, <2>1, Facts
<1>8. s.num = n /\ s.mode /\ s.nlink = 1 /\ s.count = 1 /\ s.lock /\ s.dirty
  BY <1>4, <1>5, Facts DEF InodeRec
<1>9. inode'[i] = s /\ \A j \in Slots \ {i} : inode'[j] = inode[j]  BY <1>4, <1>7, Facts
<1>10. r.pc = "writedir" /\ r.ip = i /\ r.num = n /\ r.fd = u[p].fd /\ r.op = u[p].op  BY <1>1, PcOf
<1>11. LoadingSlots' = LoadingSlots  BY <1>2, <1>6, <1>10, Facts, LoadingSame
<1>12. Touch(p, r, i)  BY <1>4, <1>6, <1>8, <1>9, <1>11 DEF Touch
<1>13. n \in UsedFiles' /\ n \in LinkedFiles'
 <2>1. inode'[i].num = n /\ inode'[i].count # 0 /\ inode'[i].mode  BY <1>8, <1>9
 <2>2. inode'[i].nlink = 1  BY <1>8, <1>9
 <2>3. inode'[i].nlink > 0  BY <2>2
 <2> QED  BY <1>4, <1>11, <2>1, <2>3, ToldAfter
<1>14. \A m \in Files \ {n} : /\ m \in UsedFiles' <=> m \in UsedFiles
                              /\ m \in LinkedFiles' <=> m \in LinkedFiles
  BY <1>4, <1>12, Touched
<1>15. UsedFiles' = UsedFiles \cup {n} /\ LinkedFiles \subseteq LinkedFiles'
 <2>1. UsedFiles' \subseteq Files /\ UsedFiles \subseteq Files /\ LinkedFiles \subseteq Files
   BY DEF UsedFiles, LinkedFiles
 <2> QED  BY <1>4, <1>13, <1>14, <2>1
<1>16. SlotsOK'
 <2>1. SlotOK(i)'  BY <1>4, <1>8, <1>9, Consts DEF SlotOK
 <2> QED  BY <1>4, <1>12, <2>1, Touched
<1>17. FreeNums' = FreeNums  BY <1>6 DEF FreeNums
<1>18. DirOK' /\ StkOK'  BY <1>4, <1>6, <1>15, <1>17 DEF FilesInv, DirOK, StkOK
<1>19. \A q \in Procs \ {p} : ProcOK(q)'
 <2>1. \A m \in Files : /\ m \in FreeNums' => m \in FreeNums
                        /\ \A e \in Entries : dir'[e].ino = m => dir[e].ino = m
   BY <1>6, <1>17
 <2>2. u[p].ip = i  BY <1>1
 <2> QED  BY <1>3, <1>4, <1>12, <2>1, <2>2, TouchedOthers
<1>20. ProcOK(p)'
 <2>1. u'[p] = r /\ r.op # "sync"  BY <1>6, <1>10, Facts, Mine
 <2>2. inode'[r.ip].count = 1 /\ inode'[r.ip].lock /\ inode'[r.ip].num = r.num  BY <1>8, <1>9, <1>10
 <2>3. CtlOK(p)' /\ HoldOK(p)'  BY <1>4, <1>10, <2>1, <2>2 DEF CtlOK, HoldOK, IPutPCs
 <2>4. r.fd # NoSlot => inode'[r.fd].num \in UsedFiles'
  <3>1. r.fd # NoSlot => r.fd \in Slots \ {i, Root} /\ inode[r.fd].num \in UsedFiles
    BY <1>1, <1>3, <1>10, PcFd
  <3> QED  BY <1>9, <1>15, <3>1
 <2>5. \A e \in Entries : dir'[e].ino # n  BY <1>4, <1>6, Consts DEF FilesInv, DirOK
 <2>6. FileOK(p)'  BY <1>10, <1>13, <2>1, <2>4, <2>5 DEF FileOK, Finding, Fresh
 <2> QED  BY <2>3, <2>6 DEF ProcOK
<1>21. wild' = FALSE  BY <1>6, Facts DEF FilesInv, TypeRest
<1> QED  BY <1>16, <1>18, <1>19, <1>20, <1>21, TouchedAll
LEMMA WriteDirFiles ==
  ASSUME IndInv, IndInv', FilesInv, NEW p \in Procs, WriteDir(p)
  PROVE  FilesInv'
<1>1. PICK i, n, a, r : /\ i = u[p].ip /\ n = u[p].num /\ a = u[p].at
                        /\ r = [u[p] EXCEPT !.pc = "opened", !.at = NoEntry]
  OBVIOUS
<1>2. u[p].pc = "writedir"  BY DEF WriteDir, At
<1>3. u[p].pc \in Only  BY <1>2 DEF Only
<1>4. /\ i \in Slots \ {Root} /\ inode[i].num = n /\ n \in Files /\ i \notin LoadingSlots
      /\ inode[i].count = 1 /\ inode[i].count # 0 /\ n \in UsedFiles /\ n \in LinkedFiles
      /\ inode[i].lock /\ \A e \in Entries : dir[e].ino # n
  BY <1>1, <1>2, Newest
<1>5. a \in Entries  BY <1>1, <1>2, Facts DEF LocalOK, Making, Local
<1>6. PICK s, d : /\ s = [PutRec(inode[Root]) EXCEPT !.dirty = TRUE]
                  /\ d = [name |-> u[p].name, ino |-> n]
  OBVIOUS
<1>7. /\ cpu \in {NoProc, p} /\ UNCHANGED <<disk, stk, wild>> /\ PreleWakes(Root)
      /\ inode' = [inode EXCEPT ![Root] = s] /\ dir' = [dir EXCEPT ![a] = d]
      /\ u' = [u EXCEPT ![p] = r]
  BY <1>1, <1>4, <1>6, Zenon DEF WriteDir, At, Go
<1>8. \A j \in Slots \ {Root} : inode'[j] = inode[j]  BY <1>7, Facts
<1>9. /\ r.pc = "opened" /\ r.ip = i /\ r.num = n /\ r.fd = u[p].fd /\ r.op = u[p].op
  BY <1>1, Facts DEF Local
<1>10. LoadingSlots' = LoadingSlots  BY <1>2, <1>7, <1>9, Facts, LoadingSame
<1>11. Touch(p, r, i)
 <2>1. \A q \in Procs : chan[q] = LocalChan => chan'[q] = LocalChan  BY <1>7, Facts, Sleepers
 <2> QED  BY <1>4, <1>7, <1>8, <1>10, <2>1 DEF Touch
<1>12. n \in UsedFiles' /\ n \in LinkedFiles'
 <2>1. inode'[i] = inode[i]  BY <1>4, <1>8
 <2>2. inode[i].mode /\ inode[i].nlink > 0  BY <1>4, Told
 <2> QED  BY <1>4, <1>10, <2>1, <2>2, ToldAfter
<1>13. UsedFiles' = UsedFiles /\ LinkedFiles' = LinkedFiles
 <2>1. /\ UsedFiles' \subseteq Files /\ UsedFiles \subseteq Files
       /\ LinkedFiles \subseteq Files /\ LinkedFiles' \subseteq Files
   BY DEF UsedFiles, LinkedFiles
 <2>2. \A m \in Files \ {n} : /\ m \in UsedFiles' <=> m \in UsedFiles
                              /\ m \in LinkedFiles' <=> m \in LinkedFiles
   BY <1>4, <1>11, Touched
 <2> QED  BY <1>4, <1>12, <2>1, <2>2
<1>14. SlotsOK'
 <2>1. SlotOK(i)  BY <1>4 DEF FilesInv, SlotsOK
 <2>2. inode'[i] = inode[i] /\ disk' = disk  BY <1>4, <1>7, <1>8
 <2>3. SlotOK(i)'  BY <1>10, <2>1, <2>2 DEF SlotOK, Synced
 <2> QED  BY <1>4, <1>11, <2>3, Touched
<1>15. FreeNums' = FreeNums  BY <1>7 DEF FreeNums
<1>16. \A e \in Entries : dir'[e].ino = IF e = a THEN n ELSE dir[e].ino
  BY <1>5, <1>6, <1>7, Facts DEF TypeRest
<1>17. DirOK'
 <2>1. DirOK  BY DEF FilesInv
 <2>2. \A e \in Entries : dir'[e].ino # 0 => dir'[e].ino \in UsedFiles \cap LinkedFiles
   BY <1>4, <1>16, <2>1 DEF DirOK
 <2>3. \A e, f \in Entries : (dir'[e].ino # 0 /\ dir'[e].ino = dir'[f].ino) => e = f
   BY <1>4, <1>16, <2>1 DEF DirOK
 <2> QED  BY <1>13, <2>2, <2>3 DEF DirOK
<1>18. StkOK'  BY <1>7, <1>13, <1>15 DEF FilesInv, StkOK
<1>19. \A q \in Procs \ {p} : ProcOK(q)'
 <2>1. \A m \in Files \ {n} : /\ m \in FreeNums' => m \in FreeNums
                              /\ \A e \in Entries : dir'[e].ino = m => dir[e].ino = m
   BY <1>15, <1>16
 <2>2. u[p].ip = i  BY <1>1
 <2> QED  BY <1>3, <1>4, <1>11, <2>1, <2>2, TouchedOthers
<1>20. ProcOK(p)'
 <2>1. /\ r.pc \in Has \ {"writedir"} /\ r.pc \notin {"file", "clear"} /\ r.op # "sync"
       /\ inode'[r.ip].num = r.num /\ r.num \in UsedFiles'
   BY <1>4, <1>8, <1>9, <1>12, Mine DEF Has
 <2>2. r.fd # NoSlot => inode'[r.fd].num \in UsedFiles'  BY <1>8, <1>9, <1>13, Mine
 <2> QED  BY <1>7, <2>1, <2>2, Facts, HasOK
<1>21. wild' = FALSE  BY <1>7, Facts DEF FilesInv, TypeRest
<1> QED  BY <1>14, <1>17, <1>18, <1>19, <1>20, <1>21, TouchedAll

LEMMA UnLinkEndFiles ==
  ASSUME IndInv, IndInv', FilesInv, NEW p \in Procs, UnLinkEnd(p)
  PROVE  FilesInv'
<1>1. PICK i, n, a, r : /\ i = u[p].ip /\ n = u[p].num /\ a = u[p].at
                        /\ r = [u[p] EXCEPT !.pc = "iput", !.ret = "idle", !.at = NoEntry]
  OBVIOUS
<1>2. u[p].pc = "clear" /\ u[p].op = "unlink" /\ u[p].at # NoEntry
  BY Facts DEF UnLinkEnd, At, LocalOK
<1>3. /\ i \in Slots \ {Root} /\ inode[i].num = n /\ n \in UsedFiles /\ n \in Files
      /\ \A e \in Entries : dir[e].ino = n => e = a
  BY <1>1, <1>2, Mine DEF Got, Has, UsedFiles
<1>4. a \in Entries  BY <1>1, <1>2, Facts DEF Local
<1>5. inode[i].count # 0 /\ i \notin LoadingSlots /\ inode[i].mode
  BY <1>1, <1>2, <1>3, RefTaken, NotLoading, HeldMode
<1>6. PICK l : l = inode[i].nlink - 1  OBVIOUS
<1>7. PICK s, t : /\ s = [inode[i] EXCEPT !.nlink = l, !.dirty = TRUE]
                  /\ t = [PutRec(inode[Root]) EXCEPT !.dirty = TRUE]
  OBVIOUS
<1>8. /\ cpu \in {NoProc, p} /\ UNCHANGED <<disk, stk, wild>> /\ PreleWakes(Root)
      /\ dir' = [dir EXCEPT ![a] = FreeEntry] /\ u' = [u EXCEPT ![p] = r]
  BY <1>1, Zenon DEF UnLinkEnd, At, Go, Cleared
<1>9. inode'[i] = s /\ \A j \in Slots \ {i, Root} : inode'[j] = inode[j]
 <2>1. inode' = [inode EXCEPT ![i].nlink = @ - 1, ![i].dirty = TRUE,
                              ![Root] = [PutRec(@) EXCEPT !.dirty = TRUE]]
   BY <1>1 DEF UnLinkEnd
 <2> QED  BY <1>3, <1>6, <1>7, <2>1, Facts DEF InodeRec
<1>10. s.num = n /\ s.mode /\ s.dirty /\ s.count = inode[i].count
  BY <1>3, <1>5, <1>7, Facts DEF InodeRec
<1>11. r.pc = "iput" /\ r.ip = i /\ r.ret = "idle" /\ r.fd = u[p].fd /\ r.op = u[p].op
  BY <1>1, Facts DEF Local
<1>12. LoadingSlots' = LoadingSlots  BY <1>2, <1>8, <1>11, Facts, LoadingSame
<1>13. Touch(p, r, i)
 <2>1. \A q \in Procs : chan[q] = LocalChan => chan'[q] = LocalChan  BY <1>8, Facts, Sleepers
 <2> QED  BY <1>3, <1>5, <1>8, <1>9, <1>10, <1>12, <2>1 DEF Touch
<1>14. n \in UsedFiles'
 <2>1. inode'[i].num = n /\ inode'[i].count # 0 /\ inode'[i].mode  BY <1>5, <1>9, <1>10
 <2> QED  BY <1>3, <1>5, <1>12, <2>1, ToldAfter
<1>15. \A m \in Files \ {n} : /\ m \in UsedFiles' <=> m \in UsedFiles
                              /\ m \in LinkedFiles' <=> m \in LinkedFiles
  BY <1>3, <1>13, Touched
<1>16. UsedFiles' = UsedFiles /\ LinkedFiles \ {n} \subseteq LinkedFiles'
 <2>1. UsedFiles' \subseteq Files /\ UsedFiles \subseteq Files /\ LinkedFiles \subseteq Files
   BY DEF UsedFiles, LinkedFiles
 <2>2. \A m \in Files : m \in UsedFiles' <=> m \in UsedFiles  BY <1>3, <1>14, <1>15
 <2>3. LinkedFiles \ {n} \subseteq LinkedFiles'  BY <1>15, <2>1
 <2> QED  BY <2>1, <2>2, <2>3
<1>17. SlotsOK'
 <2>1. SlotOK(i)'  BY <1>3, <1>9, <1>10, Consts DEF SlotOK
 <2> QED  BY <1>3, <1>13, <2>1, Touched
<1>18. FreeNums' = FreeNums  BY <1>8 DEF FreeNums
<1>19. \A e \in Entries : dir'[e].ino = IF e = a THEN 0 ELSE dir[e].ino
  BY <1>4, <1>8, Facts DEF TypeRest, FreeEntry
<1>20. DirOK'
 <2>1. DirOK  BY DEF FilesInv
 <2>2. \A e \in Entries : dir'[e].ino # 0 => dir'[e].ino \in UsedFiles \cap LinkedFiles'
   BY <1>3, <1>16, <1>19, <2>1 DEF DirOK
 <2>3. \A e, f \in Entries : (dir'[e].ino # 0 /\ dir'[e].ino = dir'[f].ino) => e = f
   BY <1>19, <2>1 DEF DirOK
 <2> QED  BY <1>16, <2>2, <2>3 DEF DirOK
<1>21. StkOK'  BY <1>8, <1>16, <1>18 DEF FilesInv, StkOK
<1>22. \A q \in Procs \ {p} : ProcOK(q)'
 <2>1. \A m \in Files : /\ m \in FreeNums' => m \in FreeNums
                        /\ \A e \in Entries : dir'[e].ino = m => dir[e].ino = m
   BY <1>18, <1>19, Consts
 <2>2. /\ inode'[i].num = inode[i].num
       /\ inode[i].num \in UsedFiles' <=> inode[i].num \in UsedFiles
       /\ \A e \in Entries : dir'[e].ino = inode[i].num => dir[e].ino = inode[i].num
   BY <1>3, <1>9, <1>10, <1>16, <2>1
 <2>3. u[p].ip = i  BY <1>1
 <2> QED  BY <1>3, <1>13, <2>1, <2>2, <2>3, TouchedOthers
<1>23. ProcOK(p)'
 <2>1. r.op # "sync" /\ inode'[r.ip].num \in UsedFiles'  BY <1>9, <1>10, <1>11, <1>14, Mine
 <2>2. r.fd # NoSlot => inode'[r.fd].num \in UsedFiles'
  <3> SUFFICES ASSUME r.fd # NoSlot PROVE inode'[r.fd].num \in UsedFiles'  OBVIOUS
  <3>1. inode[r.fd].num \in UsedFiles /\ r.fd \in Slots \ {Root}  BY <1>11, Mine
  <3>2. inode'[r.fd].num = inode[r.fd].num  BY <1>3, <1>9, <1>10, <3>1
  <3> QED  BY <1>16, <3>1, <3>2
 <2> QED  BY <1>8, <1>11, <2>1, <2>2, Places, Facts, NextOK
<1>24. wild' = FALSE  BY <1>8, Facts DEF FilesInv, TypeRest
<1> QED  BY <1>17, <1>20, <1>21, <1>22, <1>23, <1>24, TouchedAll
\* Claiming a free slot changes no file: the slot was not in use, and is read before it is.
LEMMA IGetClaimFiles ==
  ASSUME IndInv, FilesInv, NEW p \in Procs, IGetClaim(p)
  PROVE  FilesInv'
<1>1. PICK n : n = u[p].num  OBVIOUS
<1>2. PICK i \in FreeInode :
         /\ inode' = [inode EXCEPT ![i].num = n, ![i].lock = TRUE,
                                   ![i].want = FALSE, ![i].dirty = FALSE,
                                   ![i].count = @ + 1]
         /\ GoSleepy(p, [u[p] EXCEPT !.pc = "load", !.ip = i])
  BY <1>1 DEF IGetClaim
<1>3. /\ u[p].pc = "iget" /\ cpu \in {NoProc, p} /\ chan[p] = Awake
      /\ UNCHANGED <<disk, dir, stk, wild, chan>> /\ IsLoaded(n) = {}
  BY <1>1 DEF IGetClaim, At
<1>4. i \in Slots /\ inode[i].count = 0  BY DEF FreeInode
<1>5. PICK r, s : /\ r = [u[p] EXCEPT !.pc = "load", !.ip = i]
                  /\ s = [num |-> n, count |-> 1, lock |-> TRUE, want |-> FALSE,
                          dirty |-> FALSE, mode |-> inode[i].mode, nlink |-> inode[i].nlink]
  OBVIOUS
<1>6. inode' = [inode EXCEPT ![i] = s]  BY <1>2, <1>4, <1>5, Facts DEF InodeRec
<1>7. u' = [u EXCEPT ![p] = r]  BY <1>2, <1>5 DEF GoSleepy
<1>8. /\ inode'[i].num = n /\ inode'[i].count = 1 /\ inode'[i].lock
      /\ \A j \in Slots \ {i} : inode'[j] = inode[j]
  BY <1>4, <1>5, <1>6, Facts
<1>9. /\ r.pc = "load" /\ r.ip = i /\ r.num = n /\ r.op = u[p].op /\ r.fd = u[p].fd
      /\ r.at = u[p].at /\ r.ret = u[p].ret
  BY <1>1, <1>5, Facts DEF Local
<1>10. u[p].ret \in {"file", "new"}
 <2>1. u[p].ret \in {"file", "new"} \/ n = Root  BY <1>1, <1>3, Facts DEF LocalOK
 <2>2. inode[Root].num = Root /\ inode[Root].count # 0 /\ Root \in Slots
   BY Facts, Counts DEF RootInv
 <2>3. ~Matches(Root, n)  BY <1>3, <2>2, NotLoaded, Zenon
 <2> QED  BY <2>1, <2>2, <2>3 DEF Matches
<1>11. ~Stuck(p) /\ FileOK(p)  BY <1>3 DEF Stuck, Awake, LocalChan, FilesInv, ProcOK
<1>12. /\ Finding(u[p]) => n \in UsedFiles
       /\ Fresh(u[p]) => n \in Files \ (UsedFiles \cup FreeNums)
       /\ u[p].op = "unlink" /\ Finding(u[p]) => \A e \in Entries : dir[e].ino = n => e = u[p].at
  BY <1>1, <1>11 DEF FileOK
<1>13. n \in Files /\ n # NoNum
 <2>1. Finding(u[p]) \/ Fresh(u[p])  BY <1>3, <1>10 DEF Finding, Fresh
 <2>2. n \in Files  BY <1>12, <2>1 DEF UsedFiles
 <2> QED  BY <2>2, Consts
<1>14. i # Root  BY <1>4, Counts
<1>15. LoadingSlots' = LoadingSlots \cup {i}
 <2>1. u'[p] = r /\ \A q \in Procs \ {p} : u'[q] = u[q]  BY <1>7, Facts
 <2>2. ASSUME NEW j PROVE j \in LoadingSlots' <=> j \in LoadingSlots \/ j = i
  <3>1. j \in LoadingSlots <=> \E q \in Procs : u[q].pc = "load" /\ u[q].ip = j  BY DEF LoadingSlots
  <3>2. j \in LoadingSlots' <=> \E q \in Procs : u'[q].pc = "load" /\ u'[q].ip = j
    BY DEF LoadingSlots
  <3> QED  BY <1>3, <1>9, <2>1, <3>1, <3>2
 <2> QED  BY <2>2
<1>16. UsedFiles' = UsedFiles /\ LinkedFiles' = LinkedFiles
 <2>1. ASSUME NEW m \in Files, NEW j \in Slots
       PROVE  /\ InCore(j, m)' <=> InCore(j, m)
              /\ InCore(j, m) => inode'[j] = inode[j]
  <3>1. CASE j = i  BY <3>1, <1>4, <1>15 DEF InCore
  <3>2. CASE j # i  BY <3>2, <1>8, <1>15 DEF InCore
  <3> QED  BY <3>1, <3>2
 <2> QED  BY <1>3, <2>1, SetsSame
<1>17. FreeNums' = FreeNums  BY <1>3 DEF FreeNums
<1>18. DirOK' /\ StkOK'  BY <1>3, <1>16, <1>17 DEF FilesInv, DirOK, StkOK
<1>19. SlotsOK'
 <2> SUFFICES ASSUME NEW j \in Slots PROVE SlotOK(j)'  BY DEF SlotsOK, SlotOK
 <2>1. CASE j = i  BY <2>1, <1>8, <1>13, <1>15 DEF SlotOK
 <2>2. CASE j # i
  <3>1. SlotOK(j)  BY DEF FilesInv, SlotsOK
  <3>2. inode'[j] = inode[j] /\ disk' = disk /\ (j \in LoadingSlots => j \in LoadingSlots')
    BY <2>2, <1>3, <1>8, <1>15
  <3> QED  BY <3>1, <3>2 DEF SlotOK, Synced
 <2> QED  BY <2>1, <2>2
<1>20. \A q \in Procs, j \in Slots : (u[q].fd = j \/ u[q].ip = j) => j # i  BY <1>4, RefTaken
<1>21. \A q \in Procs \ {p} : ProcOK(q)'
 <2> TAKE q \in Procs \ {p}
 <2>1. ASSUME NEW j \in Slots \ {Root}, u[q].fd = j \/ u[q].ip = j
       PROVE  /\ inode'[j].num = inode[j].num
              /\ inode[j].num \in UsedFiles' <=> inode[j].num \in UsedFiles
              /\ \A e \in Entries : dir'[e].ino = inode[j].num => dir[e].ino = inode[j].num
   BY <2>1, <1>3, <1>8, <1>16, <1>20
 <2>2. ASSUME u[q].pc \in Only
       PROVE  /\ inode'[u[q].ip].count = 1 /\ inode'[u[q].ip].lock
              /\ inode[u[q].ip].num \in LinkedFiles' <=> inode[u[q].ip].num \in LinkedFiles
              /\ inode[u[q].ip].num \in FreeNums' => inode[u[q].ip].num \in FreeNums
   BY <2>2, <1>8, <1>16, <1>17, <1>20, OnlyMine
 <2>3. ASSUME u[q].pc = "iputend" PROVE Synced(u[q].ip)'
  <3>1. Synced(u[q].ip) /\ u[q].ip \in Slots \ {i}
    BY <1>20, <2>3, OnlyMine DEF FilesInv, ProcOK, HoldOK, Only
  <3>2. u'[q] = u[q] /\ inode'[u[q].ip] = inode[u[q].ip] /\ disk' = disk
    BY <1>3, <1>7, <1>8, <3>1, Facts
  <3> QED  BY <3>1, <3>2 DEF Synced
 <2>4. \A o \in Procs : chan[o] = LocalChan => chan'[o] = LocalChan \/ o = p  BY <1>3
 <2> QED  BY <1>3, <1>7, <2>1, <2>2, <2>3, <2>4, OthersOK
<1>22. ProcOK(p)'
 <2>1. u'[p] = r /\ r.op # "sync"  BY <1>7, <1>9, Facts, Mine
 <2>2. CtlOK(p)' /\ HoldOK(p)'  BY <1>8, <1>9, <1>13, <2>1 DEF CtlOK, HoldOK, IPutPCs
 <2>3. r.fd # NoSlot => inode'[r.fd].num \in UsedFiles'
  <3>1. r.fd # NoSlot => r.fd \in Slots \ {i} /\ inode[r.fd].num \in UsedFiles  BY <1>9, <1>20, Mine
  <3> QED  BY <1>8, <1>16, <3>1
 <2>4. (Finding(r) <=> Finding(u[p])) /\ (Fresh(r) <=> Fresh(u[p]))
   BY <1>3, <1>9 DEF Finding, Fresh
 <2>5. FileOK(p)'  BY <1>3, <1>9, <1>12, <1>16, <1>17, <2>1, <2>3, <2>4 DEF FileOK, Has
 <2> QED  BY <2>2, <2>5 DEF ProcOK
<1>23. wild' = FALSE  BY <1>3, Facts DEF FilesInv, TypeRest
<1> QED  BY <1>18, <1>19, <1>21, <1>22, <1>23, TouchedAll

\* A step that changes the free numbers only, and leaves none that a slot has
LEMMA KeepTable ==
  ASSUME IndInv, FilesInv, NEW p \in Procs, NEW r, u' = [u EXCEPT ![p] = r],
         u[p].pc # "load", r.pc # "load", cpu \in {NoProc, p},
         \A q \in Procs : chan[q] = LocalChan => chan'[q] = LocalChan,
         UNCHANGED <<inode, disk, dir, wild>>,
         \A i \in Slots : inode[i].count # 0 /\ inode[i].num \in FreeNums' =>
                             inode[i].num \in FreeNums,
         StkOK', ProcOK(p)'
  PROVE  FilesInv'
<1>1. LoadingSlots' = LoadingSlots  BY Facts, LoadingSame
<1>2. \A n, i : InCore(i, n)' <=> InCore(i, n)  BY <1>1 DEF InCore
<1>3. UsedFiles' = UsedFiles /\ LinkedFiles' = LinkedFiles  BY <1>2, SetsSame
<1>4. SlotsOK' /\ DirOK'  BY <1>1, <1>3 DEF FilesInv, SlotsOK, SlotOK, Synced, DirOK
<1>5. \A q \in Procs \ {p} : ProcOK(q)'
 <2> TAKE q \in Procs \ {p}
 <2>1. ASSUME u[q].pc \in Only
       PROVE  /\ inode'[u[q].ip].count = 1 /\ inode'[u[q].ip].lock
              /\ inode[u[q].ip].num \in LinkedFiles' <=> inode[u[q].ip].num \in LinkedFiles
              /\ inode[u[q].ip].num \in FreeNums' => inode[u[q].ip].num \in FreeNums
   BY <2>1, <1>3, OnlyMine
 <2>2. ASSUME u[q].pc = "iputend" PROVE Synced(u[q].ip)'
  <3>1. Synced(u[q].ip) /\ u'[q] = u[q]  BY <2>2, Facts DEF FilesInv, ProcOK, HoldOK
  <3> QED  BY <3>1 DEF Synced
 <2>3. ASSUME NEW j \in Slots \ {Root}, u[q].fd = j \/ u[q].ip = j
       PROVE  /\ inode'[j].num = inode[j].num
              /\ inode[j].num \in UsedFiles' <=> inode[j].num \in UsedFiles
              /\ \A e \in Entries : dir'[e].ino = inode[j].num => dir[e].ino = inode[j].num
   BY <1>3
 <2>4. \A o \in Procs : chan[o] = LocalChan => chan'[o] = LocalChan \/ o = p  OBVIOUS
 <2> QED  BY <2>1, <2>2, <2>3, <2>4, OthersOK
<1>6. wild' = FALSE  BY Facts DEF FilesInv, TypeRest
<1> QED  BY <1>4, <1>5, <1>6, TouchedAll
LEMMA TableSame ==
  ASSUME IndInv, NEW p \in Procs, NEW r, u' = [u EXCEPT ![p] = r],
         u[p].pc # "load", r.pc # "load", UNCHANGED <<inode, disk>>
  PROVE  UsedFiles' = UsedFiles /\ LinkedFiles' = LinkedFiles
<1>1. LoadingSlots' = LoadingSlots  BY Facts, LoadingSame
<1>2. \A n, i : InCore(i, n)' <=> InCore(i, n)  BY <1>1 DEF InCore
<1> QED  BY <1>2, SetsSame

\* What IAlloc finds is not in use: no slot has it, and the disk says that it is free.
LEMMA FoundFree ==
  ASSUME NEW found \in Lowest({n \in Files : FreeOnDisk(n)})
  PROVE  /\ Len(found) \in Nat
         /\ \A k \in 1..Len(found) : /\ found[k] \in Files \ UsedFiles
                                     /\ \A i \in Slots : ~Matches(i, found[k])
         /\ \A k, l \in 1..Len(found) : k # l => found[k] # found[l]
         /\ found # <<>> => Len(found) # 0
<1> DEFINE S == {n \in Files : FreeOnDisk(n)}
<1>1. PICK c \in 0..Cap : found \in [1..c -> S]  BY DEF Lowest
<1>2. \A k, l \in DOMAIN found : k < l => found[k] < found[l]  BY DEF Lowest
<1>3. found \in Seq(S) /\ Len(found) = c /\ c \in Nat  BY <1>1, Consts
<1>4. ASSUME NEW n \in S PROVE n \in Files \ UsedFiles /\ \A i \in Slots : ~Matches(i, n)
 <2>1. n \in Files /\ ~disk[n].mode /\ IsLoaded(n) = {}  BY DEF FreeOnDisk
 <2>2. \A i \in Slots : ~Matches(i, n)  BY <2>1, NotLoaded, Zenon
 <2>3. \A i \in Slots : ~InCore(i, n)  BY <2>2 DEF InCore, Matches
 <2> QED  BY <2>1, <2>2, <2>3, OnDisk
<1>5. \A k, l \in 1..Len(found) : k # l => found[k] # found[l]
 <2> TAKE k, l \in 1..Len(found)
 <2> HAVE k # l
 <2>1. k \in Nat /\ l \in Nat /\ k \in DOMAIN found /\ l \in DOMAIN found  BY <1>1, <1>3
 <2>2. found[k] \in Nat /\ found[l] \in Nat  BY <1>1, <2>1, Consts
 <2>3. k < l \/ l < k  BY <2>1
 <2> QED  BY <1>2, <2>1, <2>2, <2>3
<1>6. \A k \in 1..Len(found) : found[k] \in S  BY <1>1, <1>3
<1> HIDE DEF S
<1>7. found # <<>> => Len(found) # 0  BY <1>3
<1> QED  BY <1>3, <1>4, <1>5, <1>6, <1>7

LEMMA IAllocSearchFiles ==
  ASSUME IndInv, FilesInv, NEW p \in Procs, IAllocSearch(p)
  PROVE  FilesInv'
<1>1. PICK found \in Lowest({n \in Files : FreeOnDisk(n)}) :
         /\ stk' = found
         /\ IF NothingFound(found) THEN Return(p) ELSE Go(p, Pc(p, "pop"))
  BY DEF IAllocSearch
<1>2. /\ u[p].pc = "isearch" /\ cpu \in {NoProc, p} /\ UNCHANGED <<inode, disk, dir, wild>>
      /\ WakeUpAll(ILockChan)
  BY DEF IAllocSearch, At
<1>3. PICK r : /\ u' = [u EXCEPT ![p] = r]
               /\ \/ found = <<>> /\ r = [Idle EXCEPT !.fd = u[p].fd]
                  \/ found # <<>> /\ r = Pc(p, "pop") /\ cpu' = p
  BY <1>1 DEF NothingFound, Return, Go, GoSleepy
<1>4. /\ r.fd = u[p].fd /\ r.op # "sync"
      /\ r.pc = "idle" \/ (r.pc = "pop" /\ found # <<>> /\ cpu' = p)
 <2>1. CASE found = <<>>  BY <1>3, <2>1, IdleRec
 <2>2. CASE found # <<>>  BY <1>3, <2>2, PcOf, Mine
 <2> QED  BY <2>1, <2>2
<1>5. r.pc # "load" /\ u[p].pc # "load"  BY <1>2, <1>4
<1>6. UsedFiles' = UsedFiles  BY <1>2, <1>3, <1>5, TableSame
<1>7. \A n \in FreeNums' : n \in Files \ UsedFiles /\ \A i \in Slots : ~Matches(i, n)
  BY <1>1, FoundFree DEF FreeNums
<1>8. StkOK'
 <2>1. \A k, l \in 1..Len(stk') : k # l => stk'[k] # stk'[l]  BY <1>1, FoundFree
 <2> QED  BY <1>6, <1>7, <2>1 DEF StkOK
<1>9. r.fd # NoSlot => inode'[r.fd].num \in UsedFiles'  BY <1>2, <1>4, <1>6, Mine
<1>10. ProcOK(p)'
 <2>1. CASE r.pc = "idle"  BY <1>3, <1>4, <1>9, <2>1, Places, Facts, NextOK
 <2>2. CASE r.pc = "pop"
  <3>1. u'[p] = r /\ cpu' = p /\ stk' # <<>>  BY <1>1, <1>3, <1>4, <2>2, Facts
  <3>2. CtlOK(p)' /\ HoldOK(p)'  BY <1>4, <2>2, <3>1 DEF CtlOK, HoldOK, IPutPCs, Only, Got, Has
  <3>3. FileOK(p)'  BY <1>9, <2>2, <3>1 DEF FileOK, Finding, Fresh, Has
  <3> QED  BY <3>2, <3>3 DEF ProcOK
 <2> QED  BY <1>4, <2>1, <2>2
<1>11. \A q \in Procs : chan[q] = LocalChan => chan'[q] = LocalChan  BY <1>2, Facts, Sleepers
<1>12. \A i \in Slots : inode[i].count # 0 /\ inode[i].num \in FreeNums' =>
                           inode[i].num \in FreeNums
  BY <1>7 DEF Matches
<1> QED  BY <1>2, <1>3, <1>5, <1>8, <1>10, <1>11, <1>12, KeepTable

LEMMA IAllocPopFiles ==
  ASSUME IndInv, FilesInv, NEW p \in Procs, IAllocPop(p)
  PROVE  FilesInv'
<1>1. u[p].pc = "pop" /\ cpu \in {NoProc, p} /\ UNCHANGED <<inode, disk, dir, chan>>
  BY DEF IAllocPop, At
<1>2. stk # <<>>  BY <1>1 DEF FilesInv, ProcOK, CtlOK
<1>3. PICK n : n = stk[Len(stk)]  OBVIOUS
<1>4. PICK r : r = [u[p] EXCEPT !.pc = "iget", !.num = n, !.ret = "new", !.ip = NoSlot]  OBVIOUS
<1>5. /\ u' = [u EXCEPT ![p] = r] /\ cpu' = p /\ stk' = SubSeq(stk, 1, Len(stk) - 1)
      /\ wild' = FALSE
  BY <1>2, <1>3, <1>4 DEF IAllocPop, Go
<1>6. wild' = wild  BY <1>5, Facts DEF FilesInv, TypeRest
<1>7. /\ r.pc = "iget" /\ r.num = n /\ r.ret = "new" /\ r.fd = u[p].fd /\ r.op = u[p].op
      /\ u[p].op = "creat"
  BY <1>1, <1>4, Facts DEF Local, LocalOK, Making
<1>8. UsedFiles' = UsedFiles  BY <1>1, <1>5, <1>7, TableSame
<1>9. /\ FreeNums' \subseteq FreeNums \ {n} /\ n \in FreeNums
      /\ \A k, l \in 1..Len(stk') : k # l => stk'[k] # stk'[l]
 <2>1. stk \in Seq({NoNum} \cup Files) /\ Len(stk) \in Nat /\ Len(stk) >= 1
   BY <1>2, Facts DEF TypeRest
 <2>2. \A k, l \in 1..Len(stk) : k # l => stk[k] # stk[l]  BY DEF FilesInv, StkOK
 <2>3. /\ Len(stk') = Len(stk) - 1
       /\ \A k \in 1..Len(stk') : k \in 1..Len(stk) /\ k # Len(stk) /\ stk'[k] = stk[k]
  <3>1. PICK m \in Nat : m = Len(stk) - 1  BY <2>1
  <3>2. stk' = SubSeq(stk, 1, m)  BY <1>5, <3>1
  <3>3. m <= Len(stk) /\ 1 \in 1..Len(stk) + 1  BY <2>1, <3>1
  <3>4. Len(stk') = m /\ \A k \in 1..m : stk'[k] = stk[k]  BY <2>1, <3>2, <3>3
  <3> QED  BY <2>1, <3>1, <3>4
 <2>4. Len(stk) \in 1..Len(stk)  BY <2>1
 <2>5. n \in FreeNums  BY <1>3, <2>4 DEF FreeNums
 <2>6. FreeNums' \subseteq FreeNums \ {n}  BY <1>3, <2>2, <2>3, <2>4 DEF FreeNums
 <2>7. \A k, l \in 1..Len(stk') : k # l => stk'[k] # stk'[l]  BY <2>2, <2>3
 <2> QED  BY <2>5, <2>6, <2>7
<1>10. StkOK'  BY <1>8, <1>9 DEF FilesInv, StkOK
<1>11. ProcOK(p)'
 <2>1. u'[p] = r /\ r.op # "sync" /\ r.op # "unlink"  BY <1>5, <1>7, Facts
 <2>2. CtlOK(p)' /\ HoldOK(p)'  BY <1>5, <1>7, <2>1 DEF CtlOK, HoldOK, IPutPCs, Only, Got, Has
 <2>3. r.fd # NoSlot => inode'[r.fd].num \in UsedFiles'  BY <1>1, <1>7, <1>8, Mine
 <2>4. n \in Files \ (UsedFiles' \cup FreeNums')  BY <1>8, <1>9 DEF FilesInv, StkOK
 <2>5. FileOK(p)'  BY <1>7, <2>1, <2>3, <2>4 DEF FileOK, Finding, Has
 <2> QED  BY <2>2, <2>5 DEF ProcOK
<1>12. \A i \in Slots : inode[i].count # 0 /\ inode[i].num \in FreeNums' =>
                           inode[i].num \in FreeNums
  BY <1>9
<1>13. /\ u[p].pc # "load" /\ r.pc # "load"
       /\ \A q \in Procs : chan[q] = LocalChan => chan'[q] = LocalChan
  BY <1>1, <1>7
<1> QED  BY <1>1, <1>5, <1>6, <1>10, <1>11, <1>12, <1>13, KeepTable
-----------------------------------------------------------------------------
(* The invariant without sync, and what it says.                           *)

LEMMA InitFiles == Init => FilesInv
<1> SUFFICES ASSUME Init PROVE FilesInv  OBVIOUS
<1>1. /\ u = [p \in Procs |-> Idle] /\ chan = [p \in Procs |-> Awake] /\ wild = FALSE
      /\ inode = [i \in Slots |->
                IF i = Root THEN [FreeSlot EXCEPT !.num = Root, !.mode = TRUE, !.nlink = 1,
                                                  !.count = Cardinality(Procs) + 1]
                            ELSE FreeSlot]
  BY DEF Init
<1>2. PICK k \in 1..NFile, name \in [Entries -> Names] :
        /\ disk = [n \in {Root} \cup Files |-> [mode |-> n <= k + 1, nlink |-> 1]]
        /\ dir = [e \in Entries |-> IF e <= k THEN [name |-> name[e], ino |-> e + 1]
                                             ELSE FreeEntry]
        /\ stk \in {<<>>} \cup {<<n>> : n \in (k + 2)..Last}
  BY DEF Init
<1>3. \A p \in Procs : u[p] = Idle  BY <1>1
<1>4. \A i \in Slots \ {Root} : inode[i].count = 0  BY <1>1 DEF FreeSlot
<1>5. inode[Root].num = Root  BY <1>1, Consts DEF FreeSlot
<1>6. SlotsOK  BY <1>4, <1>5 DEF SlotsOK, SlotOK, Root, NoNum
<1>7. \A n \in Files, i \in Slots : ~InCore(i, n)  BY <1>4, <1>5, Consts DEF InCore
<1>8. \A n \in Files : disk[n].mode = (n <= k + 1) /\ disk[n].nlink = 1  BY <1>2
<1>9. \A n \in Files : (n \in UsedFiles <=> n <= k + 1) /\ n \in LinkedFiles
 <2> TAKE n \in Files
 <2>1. /\ n \in UsedFiles <=> disk[n].mode
       /\ n \in LinkedFiles <=> disk[n].nlink > 0
   BY <1>7, OnDisk
 <2>2. disk[n].mode = (n <= k + 1) /\ disk[n].nlink = 1  BY <1>8, Zenon
 <2>3. disk[n].nlink > 0  BY <2>2
 <2>4. disk[n].mode <=> n <= k + 1  BY <2>2, Zenon
 <2> QED  BY <2>1, <2>3, <2>4, Zenon
<1>10. DirOK
 <2>1. \A e \in Entries : dir[e].ino = IF e <= k THEN e + 1 ELSE 0  BY <1>2 DEF FreeEntry
 <2>2. \A e \in Entries : e <= k => e + 1 \in Files
  <3>1. NFile \in Nat /\ Last \in Nat /\ NFile < Last  BY Consts
  <3> QED  BY <3>1 DEF Entries, Files
 <2>3. \A e \in Entries : e \in Nat  BY DEF Entries
 <2>4. k \in Nat  BY Consts
 <2>5. \A e \in Entries : dir[e].ino # 0 => dir[e].ino \in UsedFiles \cap LinkedFiles
   BY <1>9, <2>1, <2>2, <2>3, <2>4
 <2>6. \A e, f \in Entries : (dir[e].ino # 0 /\ dir[e].ino = dir[f].ino) => e = f
   BY <2>1, <2>3, <2>4
 <2> QED  BY <2>5, <2>6 DEF DirOK
<1>11. StkOK
 <2>1. k \in Nat  BY Consts
 <2>2. CASE stk = <<>>  BY <2>2 DEF StkOK, FreeNums
 <2>3. CASE stk # <<>>
  <3>1. PICK n \in (k + 2)..Last : stk = <<n>>  BY <1>2, <2>3
  <3>2. n \in Files /\ ~(n <= k + 1)  BY <2>1, <3>1, Consts DEF Files
  <3>3. Len(stk) = 1 /\ stk[1] = n  BY <3>1
  <3>4. FreeNums = {n}  BY <3>3 DEF FreeNums
  <3> QED  BY <1>9, <3>2, <3>3, <3>4 DEF StkOK
 <2> QED  BY <2>2, <2>3
<1>12. ASSUME NEW q \in Procs PROVE ProcOK(q)
 <2>1. u[q].pc = "idle" /\ u[q].op = "none" /\ u[q].fd = NoSlot  BY <1>3 DEF Idle
 <2> QED  BY <2>1 DEF ProcOK, CtlOK, HoldOK, FileOK, Finding, Fresh, IPutPCs, Only, Got, Has
<1> QED  BY <1>1, <1>6, <1>10, <1>11, <1>12 DEF FilesInv

\* Without sync, every step keeps the files.
FilesQuiet == Quiet => FilesInv

LEMMA NextFiles == IndInv /\ FilesQuiet /\ [Next]_vars => FilesQuiet'
<1> SUFFICES ASSUME IndInv, FilesQuiet, [Next]_vars, Quiet' PROVE FilesInv'  BY DEF FilesQuiet
<1>1. IndInv'  BY NextInv
<1>2. syncs \in Nat /\ syncs' = 0
 <2>1. PICK p \in Procs : TRUE  BY InodesAssumption DEF InodesAssumption
 <2> QED  BY <2>1, Facts, Consts DEF TypeRest, Quiet
<1>3. ASSUME syncs' = syncs PROVE FilesInv  BY <1>2, <1>3 DEF FilesQuiet, Quiet
<1>4. ASSUME NEW p \in Procs, IGet(p) PROVE FilesInv'
 <2>1. FilesInv  BY <1>3, <1>4 DEF IGet, IGetWait, IGetHit, IGetFull, IGetClaim, IGetLoad
 <2> QED
   BY <1>1, <1>4, <2>1, IGetWaitFiles, IGetHitFiles, IGetFullFiles, IGetClaimFiles,
      IGetLoadFiles DEF IGet
<1>5. ASSUME NEW p \in Procs, IPut(p) PROVE FilesInv'
 <2>1. FilesInv
   BY <1>3, <1>5 DEF IPut, IPutShared, IPutLast, IPutFree, IUpdate, IUpdateWrite, IPutEnd
 <2> QED
   BY <1>1, <1>5, <2>1, IPutSharedFiles, IPutLastFiles, IPutFreeFiles, IUpdateFiles,
      IUpdateWriteFiles, IPutEndFiles DEF IPut
<1>6. ASSUME NEW p \in Procs, Name(p) PROVE FilesInv'
 <2>1. FilesInv  BY <1>3, <1>6
   DEF Name, CallName, NameFound, NameMissing, NameNew, OpenDenied, OpenFile, CreatTrunc,
       Opened, UnLink, UnLinkEnd, NotOwner, ChMod, Stat, StatWrite
 <2> QED
   BY <1>1, <1>6, <2>1, CallNameFiles, NameFoundFiles, NameMissingFiles, NameNewFiles,
      OpenFileFiles, CreatTruncFiles, OpenedFiles, UnLinkFiles, UnLinkEndFiles, ChModFiles,
      StatFiles, StatWriteFiles DEF Name
<1>7. ASSUME NEW p \in Procs, IAlloc(p) PROVE FilesInv'
 <2>1. FilesInv
   BY <1>3, <1>7 DEF IAlloc, IAllocWait, IAllocBegin, IAllocSearch, IAllocPop, IAllocUsed,
                     MakNode, WriteDir
 <2> QED
   BY <1>1, <1>7, <2>1, IAllocWaitFiles, IAllocBeginFiles, IAllocSearchFiles,
      IAllocPopFiles, IAllocUsedFiles, MakNodeFiles, WriteDirFiles DEF IAlloc
<1>8. ASSUME NEW p \in Procs, ReadWrite(p) PROVE FilesInv'
 <2>1. FilesInv
   BY <1>3, <1>8 DEF ReadWrite, Close, Rdwr, NFlockWait, NFlock, NFrele, FStat, FStatWrite
 <2> QED
   BY <1>1, <1>8, <2>1, CloseFiles, RdwrFiles, NFlockWaitFiles, NFlockFiles, NFreleFiles,
      FStatWriteFiles DEF ReadWrite
<1>9. ASSUME NEW p \in Procs, UpdateInodeTable(p) PROVE FALSE
 <2>1. ~Sync(p)  BY <1>2 DEF Sync
 <2>2. SyncSkip(p) \/ SyncLock(p) \/ SyncWrite(p) \/ SyncUnlock(p) \/ SyncEnd(p)
   BY <1>9, <2>1 DEF UpdateInodeTable
 <2>3. u[p].pc \in SyncPCs /\ syncs' = syncs
   BY <2>2 DEF SyncSkip, SyncLock, SyncWrite, SyncUnlock, SyncEnd, At, SyncPCs
 <2>4. u[p].op = "sync"  BY <2>3, Facts DEF LocalOK
 <2> QED  BY <1>3, <2>3, <2>4 DEF FilesInv, ProcOK, CtlOK
<1>10. CASE UNCHANGED vars
 <2>1. FilesInv  BY <1>3, <1>10 DEF vars
 <2>2. LoadingSlots' = LoadingSlots /\ FreeNums' = FreeNums
   BY <1>10 DEF vars, LoadingSlots, FreeNums
 <2>3. \A n, i : InCore(i, n)' <=> InCore(i, n)  BY <1>10, <2>2 DEF vars, InCore
 <2>4. UsedFiles' = UsedFiles /\ LinkedFiles' = LinkedFiles  BY <1>10, <2>3, SetsSame DEF vars
 <2> QED  BY <1>10, <2>1, <2>2, <2>4
   DEF vars, FilesInv, SlotsOK, SlotOK, Synced, DirOK, StkOK, ProcOK, CtlOK, Stuck, HoldOK,
       FileOK
<1> QED  BY <1>4, <1>5, <1>6, <1>7, <1>8, <1>9, <1>10 DEF Next

\* A number that a slot is being read for, and only that slot has
LEMMA LoadingNum ==
  ASSUME IndInv, FilesInv, NEW i \in LoadingSlots
  PROVE  /\ i \in Slots \ {Root} /\ inode[i].num \in Files /\ inode[i].count # 0
         /\ \E q \in Procs : u[q].pc = "load" /\ u[q].ip = i /\ u[q].num = inode[i].num
         /\ \A j \in Slots : ~InCore(j, inode[i].num)
         /\ inode[i].num \notin FreeNums
<1>1. PICK q \in Procs : u[q].pc = "load" /\ u[q].ip = i  BY DEF LoadingSlots
<1>2. u[q].pc \in Only /\ u[q].pc \in Got  BY <1>1 DEF Only, Got
<1>3. /\ i \in Slots \ {Root} /\ inode[i].count # 0 /\ inode[i].num = u[q].num
      /\ inode[i].num \in Files
  BY <1>1, <1>2, OnlyMine DEF FilesInv, ProcOK, HoldOK
<1>4. \A j \in Slots : ~InCore(j, inode[i].num)
  BY <1>3, Consts DEF InCore, IndInv, OneEntryPerInode
<1>5. inode[i].num \notin FreeNums
 <2>1. ~Stuck(q) /\ FileOK(q) /\ u[q].ret \in {"file", "new"}
   BY <1>1, Facts DEF Stuck, FilesInv, ProcOK, LocalOK
 <2>2. Finding(u[q]) \/ Fresh(u[q])  BY <1>1, <2>1 DEF Finding, Fresh
 <2>3. u[q].num \in UsedFiles \/ u[q].num \notin FreeNums  BY <2>1, <2>2 DEF FileOK
 <2> QED  BY <1>3, <2>3 DEF FilesInv, StkOK
<1> QED  BY <1>1, <1>3, <1>4, <1>5

LEMMA FilesSay ==
  ASSUME IndInv, FilesInv
  PROVE  OpenKept /\ FreeNumbersFree /\ EntryAllocated /\ ~wild
<1>1. OpenKept
 <2> SUFFICES ASSUME NEW p \in Procs, u[p].fd # NoSlot
              PROVE  inode[u[p].fd].num \in Files /\ inode[u[p].fd].mode
   BY DEF OpenKept
 <2>1. u[p].fd \in Slots /\ inode[u[p].fd].num \in UsedFiles  BY Mine
 <2>2. inode[u[p].fd].num \in Files  BY <2>1 DEF UsedFiles
 <2> QED  BY <2>1, <2>2, HeldMode
<1>2. FreeNumbersFree
 <2>1. \A k, l \in 1..Len(stk) : k # l => stk[k] # stk[l]  BY DEF FilesInv, StkOK
 <2>2. ASSUME NEW k \in 1..Len(stk)
       PROVE  /\ \A e \in Entries : dir[e].ino # stk[k]
              /\ \A i \in IsLoaded(stk[k]) : ~inode[i].mode
  <3>1. stk[k] \in FreeNums /\ stk[k] \in Files /\ stk[k] \notin UsedFiles
    BY DEF FreeNums, FilesInv, StkOK
  <3>2. \A e \in Entries : dir[e].ino # stk[k]  BY <3>1, Consts DEF FilesInv, DirOK
  <3>3. ASSUME NEW i \in IsLoaded(stk[k]) PROVE ~inode[i].mode
   <4>1. i \in Slots /\ inode[i].num = stk[k] /\ inode[i].count # 0  BY DEF IsLoaded, Matches
   <4>2. i \notin LoadingSlots  BY <3>1, <4>1, LoadingNum
   <4> QED  BY <3>1, <4>1, <4>2, Told
  <3> QED  BY <3>2, <3>3
 <2> QED  BY <2>1, <2>2 DEF FreeNumbersFree
<1>3. EntryAllocated
 <2> SUFFICES ASSUME NEW e \in Entries, dir[e].ino # 0
              PROVE  LET n == dir[e].ino
                         loading == \E p \in Procs : u[p].pc = "load" /\ u[p].num = n
                     IN IF IsLoaded(n) = {} \/ loading THEN disk[n].mode
                        ELSE \A i \in IsLoaded(n) : inode[i].mode
   BY DEF EntryAllocated
 <2>1. PICK n : n = dir[e].ino  OBVIOUS
 <2>2. n \in UsedFiles /\ n \in Files  BY <2>1 DEF FilesInv, DirOK, UsedFiles
 <2>3. CASE IsLoaded(n) = {}
  <3>1. \A i \in Slots : ~Matches(i, n)  BY <2>3, NotLoaded, Zenon
  <3>2. \A i \in Slots : ~InCore(i, n)  BY <3>1 DEF InCore, Matches
  <3> QED  BY <2>1, <2>2, <2>3, <3>2, OnDisk
 <2>4. CASE \E p \in Procs : u[p].pc = "load" /\ u[p].num = n
  <3>1. PICK p \in Procs : u[p].pc = "load" /\ u[p].num = n  BY <2>4
  <3>2. u[p].ip \in LoadingSlots  BY <3>1 DEF LoadingSlots
  <3>3. inode[u[p].ip].num = n  BY <3>1 DEF FilesInv, ProcOK, HoldOK, Got
  <3>4. \A j \in Slots : ~InCore(j, n)  BY <3>2, <3>3, LoadingNum
  <3> QED  BY <2>1, <2>2, <2>4, <3>4, OnDisk
 <2>5. CASE ~(\E p \in Procs : u[p].pc = "load" /\ u[p].num = n) /\ IsLoaded(n) # {}
  <3>1. ASSUME NEW i \in IsLoaded(n) PROVE inode[i].mode
   <4>1. i \in Slots /\ inode[i].num = n /\ inode[i].count # 0  BY DEF IsLoaded, Matches
   <4>2. i \notin LoadingSlots  BY <2>5, <4>1, LoadingNum
   <4> QED  BY <2>2, <4>1, <4>2, Told
  <3> QED  BY <2>1, <2>5, <3>1
 <2> QED  BY <2>3, <2>4, <2>5
<1> QED  BY <1>1, <1>2, <1>3 DEF FilesInv

\* As long as nobody calls sync: an open file has its inode, a name leads to an inode in
\* use, no number in s_inode is that of a file, and IAlloc never reads beyond the table,
\* whatever others create, unlink and close meanwhile (IGet, IPut, IAlloc, IFree, MakNode).
THEOREM FilesFit == Spec => []FilesAllocated
<1>1. Init => IndInv /\ FilesQuiet  BY InitInv, InitFiles DEF FilesQuiet
<1>2. IndInv /\ FilesQuiet /\ [Next]_vars => IndInv' /\ FilesQuiet'  BY NextInv, NextFiles
<1>3. IndInv /\ FilesQuiet => FilesAllocated  BY FilesSay DEF FilesQuiet, FilesAllocated
<1> QED  BY <1>1, <1>2, <1>3, PTL DEF Spec
==============================================================================
