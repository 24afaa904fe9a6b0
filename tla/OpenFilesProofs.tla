--------------------------- MODULE OpenFilesProofs ---------------------------
(***************************************************************************)
(* Theorems about OpenFiles, for any processes, pipes, sizes and bounds.   *)
(*                                                                         *)
(* A step of a process p works on one inode i and wakes a set W.  What the *)
(* invariant says of another process, or of another inode, follows once    *)
(* for all steps (OtherProc, OtherInode); each action is left with what    *)
(* it does to p, to i and to the counts.  Of the bytes the second part     *)
(* says the same in FlowInv, on top of the invariant of the first.         *)
(***************************************************************************)
EXTENDS OpenFiles, FiniteSetTheorems, WellFoundedInduction, TLAPS

\* The points of a call that works on an open file: of a read of a pipe, of a
\* write to a pipe, of either on another file, and of the transfer of all three
ReadPCs  == {"rlock", "rlockw", "rwoken", "readp", "rsleep"}
WritePCs == {"wlock", "wlockw", "wwoken", "writep", "wsleep"}
FilePCs  == {"flock", "flockw"}
MovePCs  == {"io", "move"}
CallPCs  == ReadPCs \cup WritePCs \cup FilePCs \cup MovePCs
SleepPCs == {"rsleep", "wsleep", "rlockw", "wlockw", "flockw"}

\* Whoever is in a call has a descriptor for the File the call works on, so that
\* no other process closes it for good
CallOK(p) == u[p].pc \in CallPCs =>
    /\ u[p].f \in Files /\ file[u[p].f].ino = u[p].ino
    /\ \E d \in Fds : fds[p][d] = u[p].f
    /\ u[p].mode \in file[u[p].f].flag /\ ~u[p].dying
    /\ u[p].pc \in ReadPCs => u[p].mode = "r" /\ IsPipe(u[p].f)
    /\ u[p].pc \in WritePCs => u[p].mode = "w" /\ IsPipe(u[p].f)
    /\ u[p].pc \in FilePCs => ~IsPipe(u[p].f)

\* The transfer stays inside the file, and inside the pipe
MoveOK(p) ==
    /\ u[p].pc = "move" => u[p].off < Blocks /\ u[p].left > 0
    /\ u[p].pc \in FilePCs \cup MovePCs /\ ~IsPipe(u[p].f) => u[p].left <= u[p].count
    /\ u[p].pc \in MovePCs /\ u[p].mode = "w" /\ IsPipe(u[p].f) => u[p].off + u[p].left <= PipSiz

\* Who puts an inode has the last reference to it, and to the File
PutOK(p) == u[p].pc = "iput" =>
    /\ inode[u[p].ino].count = 1
    /\ u[p].f = 0 => u[p].ino \in Pipes /\ ~u[p].dying
    /\ u[p].f # 0 => file[u[p].f].count = 1 /\ file[u[p].f].ino = u[p].ino
    /\ u[p].dying => u[p].f # 0 /\ u[p].fd \in Fds /\ fds[p][u[p].fd] = u[p].f

\* Who is not there has no descriptors, and who runs its program is not dying
GoneOK(p) == /\ u[p].pc = "none" => \A d \in Fds : fds[p][d] = 0
             /\ u[p].pc = "user" => ~u[p].dying

ProcOK(p) == CallOK(p) /\ MoveOK(p) /\ PutOK(p) /\ GoneOK(p)
ProcInv == \A p \in Procs : ProcOK(p)

\* The Files of a pipe, one to read and one to write
FileInv ==
    /\ \A f \in Files : file[f].count > 0 =>
          /\ IsPipe(f) <=> file[f].ino \in Pipes
          /\ IsPipe(f) => file[f].flag \in {{"r", "pipe"}, {"w", "pipe"}}
    /\ \A f, g \in Files : file[f].count > 0 /\ file[g].count > 0 /\ file[f].ino = file[g].ino
                           /\ IsPipe(f) /\ "r" \in file[f].flag /\ "r" \in file[g].flag => f = g

\* A lock has a holder, and who waits for it is waited for
LockPCs == {"rlockw", "wlockw", "flockw"}
HoldPCs == {"readp", "writep", "io", "move", "iput"}
LockOK(i) ==
    /\ \A p \in Procs : u[p].pc \in LockPCs /\ u[p].ino = i => inode[i].lock /\ inode[i].want
    /\ inode[i].lock => \E p \in Procs : u[p].pc \in HoldPCs /\ u[p].ino = i
\* The lock of a pipe with both its ends has one holder: no close has broken it
AloneOK(i) == i \in Pipes /\ inode[i].count = 2 => \A p, q \in Procs :
    /\ u[p].pc \in HoldPCs /\ u[p].ino = i => inode[i].lock
    /\ {u[p].pc, u[q].pc} \subseteq HoldPCs /\ u[p].ino = i /\ u[q].ino = i => p = q
\* Who sleeps in a pipe for data, and who for room
ReadersOK(i) == \A p \in Procs : u[p].pc = "rsleep" /\ u[p].ino = i =>
    /\ inode[i].rd /\ inode[i].count = 2
    /\ \A q \in Procs : u[q].pc \in MovePCs /\ u[q].ino = i => u[q].mode = "w"
    /\ (\A q \in Procs : ~(u[q].pc \in MovePCs /\ u[q].ino = i))
         => file[u[p].f].off = inode[i].size
WritersOK(i) == \A p \in Procs : u[p].pc = "wsleep" /\ u[p].ino = i =>
    inode[i].wr /\ inode[i].count = 2 /\ inode[i].size = PipSiz
SizeOK(i) == i \in Pipes => inode[i].size <= PipSiz /\ inode[i].count <= 2
InoOK(i) == LockOK(i) /\ AloneOK(i) /\ ReadersOK(i) /\ WritersOK(i) /\ SizeOK(i)
InoInv == \A i \in Inos : InoOK(i)

Counts ==
    /\ \A f \in Files : file[f].count = Cardinality(Refs(f)) + Cardinality(Closers(f))
    /\ \A i \in Inos : inode[i].count = Cardinality(FilesOf(i)) + Cardinality(Losers(i))

IndInv == TypeOK /\ Counts /\ ProcInv /\ FileInv /\ InoInv
-----------------------------------------------------------------------------
(* Constants, and the cardinality of small sets.                           *)

LEMMA Consts ==
    /\ First \in Procs /\ NoProc \notin Procs /\ IsFiniteSet(Procs)
    /\ Input \in Inos /\ Output \in Inos /\ Input # Output /\ Input \notin Pipes /\ Output \notin Pipes
    /\ Pipes \subseteq Inos
    /\ NFile \in Nat /\ NFile >= 2 /\ NOfile \in Nat /\ NOfile >= 2
    /\ PipSiz \in Nat /\ PipSiz >= 1 /\ PipSiz <= Blocks /\ Blocks \in Nat /\ MaxFaults \in Nat
    /\ Sizes \subseteq Nat
    /\ Files \subseteq Nat /\ 0 \notin Files /\ Files \subseteq 0 .. NFile /\ IsFiniteSet(Files)
    /\ \A f \in 0 .. NFile : f # 0 => f \in Files
    /\ Fds \subseteq Nat /\ IsFiniteSet(Fds) /\ 0 \in Fds /\ 1 \in Fds
<1>1. IsFiniteSet(1 .. NFile) /\ IsFiniteSet(0 .. NOfile - 1)
  BY OpenFilesAssumption, FS_Interval DEF OpenFilesAssumption
<1> QED  BY <1>1, OpenFilesAssumption DEF OpenFilesAssumption, Inos, Given, Files, Fds

LEMMA Numbers ==
  ASSUME NEW S, IsFiniteSet(S)
  PROVE  /\ Cardinality(S) \in Nat
         /\ Cardinality(S) = 0 => S = {}
         /\ \A x \in S : Cardinality(S) >= 1
         /\ \A x \in S : Cardinality(S) = 1 => S = {x}
         /\ \A x \in S : IsFiniteSet(S \ {x}) /\ Cardinality(S \ {x}) = Cardinality(S) - 1
         /\ \A x : x \notin S => IsFiniteSet(S \cup {x}) /\ Cardinality(S \cup {x}) = Cardinality(S) + 1
<1>1. Cardinality(S) \in Nat /\ (Cardinality(S) = 0 => S = {})  BY FS_CardinalityType, FS_EmptySet
<1>2. ASSUME NEW x \in S
      PROVE  /\ Cardinality(S) >= 1 /\ (Cardinality(S) = 1 => S = {x})
             /\ IsFiniteSet(S \ {x}) /\ Cardinality(S \ {x}) = Cardinality(S) - 1
 <2>1. Cardinality(S) # 0  BY <1>2, <1>1
 <2>2. IsFiniteSet(S \ {x}) /\ Cardinality(S \ {x}) = Cardinality(S) - 1  BY <1>2, FS_RemoveElement
 <2>3. Cardinality(S) = 1 => S \ {x} = {}  BY <2>2, FS_EmptySet
 <2> QED  BY <1>1, <1>2, <2>1, <2>2, <2>3
<1>3. ASSUME NEW x, x \notin S
      PROVE  IsFiniteSet(S \cup {x}) /\ Cardinality(S \cup {x}) = Cardinality(S) + 1
  BY <1>3, FS_AddElement
<1> QED  BY <1>1, <1>2, <1>3

LEMMA Finite ==
    /\ \A f \in Files : IsFiniteSet(Refs(f)) /\ IsFiniteSet(Closers(f))
    /\ \A i \in Inos : IsFiniteSet(FilesOf(i)) /\ IsFiniteSet(Losers(i))
<1>1. IsFiniteSet(Procs \X Fds)  BY Consts, FS_Product
<1>2. ASSUME NEW f \in Files PROVE IsFiniteSet(Refs(f)) /\ IsFiniteSet(Closers(f))
 <2>1. Refs(f) \subseteq Procs \X Fds /\ Closers(f) \subseteq Procs  BY DEF Refs, Closers
 <2> QED  BY <1>1, <2>1, Consts, FS_Subset
<1>3. ASSUME NEW i \in Inos PROVE IsFiniteSet(FilesOf(i)) /\ IsFiniteSet(Losers(i))
 <2>1. FilesOf(i) \subseteq Files /\ Losers(i) \subseteq Procs  BY DEF FilesOf, Losers
 <2> QED  BY <2>1, Consts, FS_Subset
<1> QED  BY <1>2, <1>3
-----------------------------------------------------------------------------
(* What a count says of who refers to a File or to an inode.               *)

LEMMA SameWithout ==
  ASSUME NEW S, NEW T, NEW x, x \notin S, x \notin T, S \ {x} = T \ {x}
  PROVE  S = T
  OBVIOUS

LEMMA TwoOf ==
  ASSUME NEW x, NEW y, x # y
  PROVE  Cardinality({x, y}) = 2
<1>1. PICK S : S = {x}  OBVIOUS
<1>2. IsFiniteSet(S) /\ Cardinality(S) = 1  BY <1>1, FS_Singleton
<1>3. y \notin S  BY <1>1
<1>4. Cardinality(S \cup {y}) = 2  BY <1>2, <1>3, Numbers
<1>5. S \cup {y} = {x, y}  BY <1>1
<1> QED  BY <1>4, <1>5

LEMMA InRefs ==
  ASSUME NEW p \in Procs, NEW d \in Fds, NEW f, fds[p][d] = f
  PROVE  <<p, d>> \in Refs(f)
  BY DEF Refs

LEMMA Held ==
  ASSUME TypeOK, Counts, NEW f \in Files
  PROVE  /\ file[f].count \in Nat
         /\ \A p \in Procs, d \in Fds : fds[p][d] = f => file[f].count >= 1
         /\ \A p \in Procs, d \in Fds : fds[p][d] = f /\ file[f].count = 1
               => Refs(f) = {<<p, d>>} /\ Closers(f) = {}
         /\ \A p \in Closers(f) : file[f].count >= 1
         /\ \A p \in Closers(f) : file[f].count = 1 => Refs(f) = {} /\ Closers(f) = {p}
         /\ file[f].count = 0 => Refs(f) = {} /\ Closers(f) = {}
<1>1. file[f].count = Cardinality(Refs(f)) + Cardinality(Closers(f))  BY DEF Counts
<1>2. IsFiniteSet(Refs(f)) /\ IsFiniteSet(Closers(f))  BY Finite
<1>3. /\ Cardinality(Refs(f)) \in Nat /\ (Cardinality(Refs(f)) = 0 => Refs(f) = {})
      /\ \A x \in Refs(f) : Cardinality(Refs(f)) >= 1 /\ (Cardinality(Refs(f)) = 1 => Refs(f) = {x})
  BY <1>2, Numbers
<1>4. /\ Cardinality(Closers(f)) \in Nat /\ (Cardinality(Closers(f)) = 0 => Closers(f) = {})
      /\ \A x \in Closers(f) : /\ Cardinality(Closers(f)) >= 1
                               /\ Cardinality(Closers(f)) = 1 => Closers(f) = {x}
  BY <1>2, Numbers
<1>5. \A p \in Procs, d \in Fds : fds[p][d] = f => <<p, d>> \in Refs(f)  BY DEF Refs
<1>6. PICK a, b : a = Cardinality(Refs(f)) /\ b = Cardinality(Closers(f))  OBVIOUS
<1>7. ASSUME NEW p \in Procs, NEW d \in Fds, fds[p][d] = f
      PROVE  a >= 1 /\ (a = 1 => Refs(f) = {<<p, d>>})
  BY <1>3, <1>5, <1>6, <1>7
<1>8. ASSUME NEW p \in Closers(f) PROVE b >= 1 /\ (b = 1 => Closers(f) = {p})  BY <1>4, <1>6
<1>9. /\ a \in Nat /\ b \in Nat /\ file[f].count = a + b
      /\ a = 0 => Refs(f) = {}
      /\ b = 0 => Closers(f) = {}
  BY <1>1, <1>3, <1>4, <1>6
<1> QED  BY <1>7, <1>8, <1>9

LEMMA Linked ==
  ASSUME TypeOK, Counts, NEW i \in Inos
  PROVE  /\ inode[i].count \in Nat
         /\ \A f \in Files : file[f].count > 0 /\ file[f].ino = i => inode[i].count >= 1
         /\ \A f \in Files : file[f].count > 0 /\ file[f].ino = i /\ inode[i].count = 1
               => FilesOf(i) = {f} /\ Losers(i) = {}
         /\ \A p \in Losers(i) : inode[i].count >= 1
         /\ \A p \in Losers(i) : inode[i].count = 1 => FilesOf(i) = {} /\ Losers(i) = {p}
         /\ inode[i].count = 0 => FilesOf(i) = {} /\ Losers(i) = {}
<1>1. inode[i].count = Cardinality(FilesOf(i)) + Cardinality(Losers(i))  BY DEF Counts
<1>2. IsFiniteSet(FilesOf(i)) /\ IsFiniteSet(Losers(i))  BY Finite
<1>3. /\ Cardinality(FilesOf(i)) \in Nat /\ (Cardinality(FilesOf(i)) = 0 => FilesOf(i) = {})
      /\ \A x \in FilesOf(i) : /\ Cardinality(FilesOf(i)) >= 1
                               /\ Cardinality(FilesOf(i)) = 1 => FilesOf(i) = {x}
  BY <1>2, Numbers
<1>4. /\ Cardinality(Losers(i)) \in Nat /\ (Cardinality(Losers(i)) = 0 => Losers(i) = {})
      /\ \A x \in Losers(i) : /\ Cardinality(Losers(i)) >= 1
                               /\ Cardinality(Losers(i)) = 1 => Losers(i) = {x}
  BY <1>2, Numbers
<1>5. \A f \in Files : file[f].count > 0 /\ file[f].ino = i => f \in FilesOf(i)  BY DEF FilesOf
<1>6. PICK a, b : a = Cardinality(FilesOf(i)) /\ b = Cardinality(Losers(i))  OBVIOUS
<1>7. ASSUME NEW f \in Files, file[f].count > 0, file[f].ino = i
      PROVE  a >= 1 /\ (a = 1 => FilesOf(i) = {f})
  BY <1>3, <1>5, <1>6, <1>7
<1>8. ASSUME NEW p \in Losers(i) PROVE b >= 1 /\ (b = 1 => Losers(i) = {p})  BY <1>4, <1>6
<1>9. /\ a \in Nat /\ b \in Nat /\ inode[i].count = a + b
      /\ a = 0 => FilesOf(i) = {}
      /\ b = 0 => Losers(i) = {}
  BY <1>1, <1>3, <1>4, <1>6
<1> QED  BY <1>7, <1>8, <1>9

\* Whoever is in a call keeps its File and its inode from being given away
LEMMA CallKeeps ==
  ASSUME TypeOK, Counts, NEW p \in Procs, CallOK(p), u[p].pc \in CallPCs
  PROVE  /\ u[p].f \in Files /\ file[u[p].f].count >= 1
         /\ u[p].ino \in Inos /\ inode[u[p].ino].count >= 1
<1>1. /\ u[p].f \in Files /\ file[u[p].f].ino = u[p].ino
      /\ \E d \in Fds : fds[p][d] = u[p].f
  BY DEF CallOK
<1>2. u[p].ino \in Inos  BY DEF TypeOK
<1>3. file[u[p].f].count >= 1  BY <1>1, Held
<1>4. file[u[p].f].count \in Nat  BY <1>1, Held
<1> QED  BY <1>1, <1>2, <1>3, <1>4, Linked
-----------------------------------------------------------------------------
(* Records, and the processes that a step wakes.                           *)

FileRec == [count : Nat, flag : SUBSET {"r", "w", "pipe"}, ino : Inos, off : Nat]
InoRec == [count : Nat, lock : BOOLEAN, want : BOOLEAN, size : 0 .. Blocks,
           rd : BOOLEAN, wr : BOOLEAN, data : [0 .. Blocks - 1 -> Nat]]
URec == [pc : PCs, fd : Nat, f : 0 .. NFile, ino : Inos, mode : {"r", "w"},
         count : Nat, left : Nat, off : Nat, err : Errors, dying : BOOLEAN]
HistRec == [got : Seq(Nat), sent : Nat, sought : BOOLEAN, broken : BOOLEAN]

LEMMA Types ==
  TypeOK <=> /\ fds \in [Procs -> [Fds -> 0 .. NFile]]
             /\ file \in [Files -> FileRec] /\ inode \in [Inos -> InoRec] /\ u \in [Procs -> URec]
             /\ sig \subseteq Procs /\ cpu \in Procs \cup {NoProc} /\ faults \in 0 .. MaxFaults
             /\ hist \in [Inos -> HistRec]
  BY DEF TypeOK, FileRec, InoRec, URec, HistRec

LEMMA TypeStep ==
  ASSUME fds' \in [Procs -> [Fds -> 0 .. NFile]],
         file' \in [Files -> FileRec], inode' \in [Inos -> InoRec], u' \in [Procs -> URec],
         sig' \subseteq Procs, cpu' \in Procs \cup {NoProc}, faults' \in 0 .. MaxFaults,
         hist' \in [Inos -> HistRec]
  PROVE  TypeOK'
  BY DEF TypeOK, FileRec, InoRec, URec, HistRec

\* The same fields, but for the point in the code
SameCall(r, s) ==
    /\ r.fd = s.fd /\ r.f = s.f /\ r.ino = s.ino /\ r.mode = s.mode /\ r.count = s.count
    /\ r.left = s.left /\ r.off = s.off /\ r.err = s.err /\ r.dying = s.dying

\* A step of p that wakes W
After(p, W) ==
    \A q \in Procs \ {p} :
        /\ SameCall(u'[q], u[q])
        /\ u'[q].pc = IF q \in W THEN Resume(u[q].pc) ELSE u[q].pc

LEMMA ResumeType ==
  ASSUME NEW pc \in SleepPCs
  PROVE  /\ Resume(pc) \in PCs /\ Resume(pc) \in {"rwoken", "wwoken", "flock"}
         /\ pc \in ReadPCs => Resume(pc) = "rwoken"
         /\ pc \in WritePCs => Resume(pc) = "wwoken"
         /\ pc \in FilePCs => Resume(pc) = "flock"
  BY DEF SleepPCs, Resume, PCs, ReadPCs, WritePCs, FilePCs

LEMMA WithPc ==
  ASSUME NEW r \in URec, NEW pc \in PCs
  PROVE  /\ [r EXCEPT !.pc = pc] \in URec /\ [r EXCEPT !.pc = pc].pc = pc
         /\ SameCall([r EXCEPT !.pc = pc], r)
  BY DEF URec, SameCall

LEMMA WokenStep ==
  ASSUME u \in [Procs -> URec], NEW p \in Procs, NEW r \in URec, NEW W \in SUBSET Procs,
         \A q \in W : u[q].pc \in SleepPCs,
         u' = [Woken(W) EXCEPT ![p] = r]
  PROVE  u' \in [Procs -> URec] /\ u'[p] = r /\ After(p, W)
<1>1. ASSUME NEW q \in Procs
      PROVE  /\ Woken(W)[q] \in URec /\ SameCall(Woken(W)[q], u[q])
             /\ Woken(W)[q].pc = IF q \in W THEN Resume(u[q].pc) ELSE u[q].pc
 <2>1. CASE q \in W
  <3>1. Woken(W)[q] = [u[q] EXCEPT !.pc = Resume(u[q].pc)]  BY <2>1 DEF Woken
  <3>2. Resume(u[q].pc) \in PCs /\ u[q] \in URec  BY <2>1, ResumeType
  <3> QED  BY <2>1, <3>1, <3>2, WithPc
 <2>2. CASE q \notin W
  <3>1. Woken(W)[q] = u[q]  BY <2>2 DEF Woken
  <3> QED  BY <2>2, <3>1 DEF SameCall
 <2> QED  BY <2>1, <2>2
<1>2. DOMAIN Woken(W) = Procs /\ Woken(W) = [q \in Procs |-> Woken(W)[q]]  BY DEF Woken
<1>3. Woken(W) \in [Procs -> URec]  BY <1>1, <1>2
<1>4. /\ u' \in [Procs -> URec] /\ u'[p] = r
      /\ \A q \in Procs \ {p} : u'[q] = Woken(W)[q]
  BY <1>3
<1> QED  BY <1>1, <1>4 DEF After

\* A step that wakes nobody
LEMMA PlainStep ==
  ASSUME u \in [Procs -> URec], NEW p \in Procs, NEW r \in URec, u' = [u EXCEPT ![p] = r]
  PROVE  u' \in [Procs -> URec] /\ u'[p] = r /\ After(p, {})
  BY DEF After, SameCall

LEMMA IdleType == Idle \in URec /\ Idle.pc = "none" /\ ~Idle.dying
<1>1. /\ Idle.pc \in PCs /\ Idle.err \in Errors /\ Idle.mode \in {"r", "w"} /\ Idle.ino \in Inos
      /\ Idle.f \in 0 .. NFile /\ Idle.fd \in Nat /\ Idle.count \in Nat /\ Idle.left \in Nat
      /\ Idle.off \in Nat /\ Idle.dying = FALSE /\ Idle.pc = "none"
  BY Consts DEF Idle, PCs, Errors
<1> QED  BY <1>1 DEF Idle, URec

LEMMA BackType ==
  ASSUME NEW err \in Errors
  PROVE  Back(err) \in URec /\ Back(err).pc = "user" /\ ~Back(err).dying
  BY IdleType DEF Back, URec, PCs

LEMMA DyingType == Dying \in URec /\ Dying.pc = "exit" /\ Dying.dying
  BY IdleType DEF Dying, URec, PCs
-----------------------------------------------------------------------------
(* The other processes and the other inodes.                               *)

BusyPCs == CallPCs \cup {"iput"}

LEMMA Classes ==
  /\ HoldPCs \subseteq BusyPCs /\ LockPCs \subseteq CallPCs /\ SleepPCs \subseteq CallPCs
  /\ MovePCs \subseteq HoldPCs /\ MovePCs \subseteq CallPCs /\ CallPCs \subseteq BusyPCs
  /\ HoldPCs \cap SleepPCs = {} /\ LockPCs \subseteq SleepPCs
  /\ {"rsleep", "wsleep"} \subseteq SleepPCs
  /\ {"iput", "none", "user", "exit"} \cap CallPCs = {} /\ {"none", "user", "exit"} \cap BusyPCs = {}
  BY DEF HoldPCs, BusyPCs, LockPCs, CallPCs, SleepPCs, MovePCs, ReadPCs, WritePCs, FilePCs

\* What a step does to the point in the code of another process
LEMMA OtherPc ==
  ASSUME NEW p \in Procs, NEW W \in SUBSET Procs, \A q \in W : u[q].pc \in SleepPCs,
         After(p, W), NEW q \in Procs \ {p}
  PROVE  /\ SameCall(u'[q], u[q])
         /\ \A S \in {ReadPCs, WritePCs, CallPCs, BusyPCs} : u'[q].pc \in S <=> u[q].pc \in S
         /\ \A S \in {HoldPCs, MovePCs, {"iput"}, {"none"}, {"user"}, {"move"}} : u'[q].pc \in S <=> u[q].pc \in S
         /\ u'[q].pc \in FilePCs <=> u[q].pc \in FilePCs
         /\ u'[q].pc \in SleepPCs => u'[q].pc = u[q].pc /\ q \notin W
<1>1. CASE q \in W
 <2>1. /\ u[q].pc \in SleepPCs /\ u'[q].pc = Resume(u[q].pc) /\ SameCall(u'[q], u[q])
   BY <1>1 DEF After
 <2>2. \/ u[q].pc \in {"rsleep", "rlockw"} /\ u'[q].pc = "rwoken"
       \/ u[q].pc \in {"wsleep", "wlockw"} /\ u'[q].pc = "wwoken"
       \/ u[q].pc = "flockw" /\ u'[q].pc = "flock"
   BY <2>1 DEF SleepPCs, Resume
 <2> QED  BY <2>1, <2>2 DEF ReadPCs, WritePCs, FilePCs, MovePCs, CallPCs, BusyPCs, HoldPCs, SleepPCs
<1>2. CASE q \notin W  BY <1>2 DEF After
<1> QED  BY <1>1, <1>2

LEMMA OtherProc ==
  ASSUME TypeOK, Counts, ProcInv, NEW p \in Procs, NEW W \in SUBSET Procs,
         \A q \in W : u[q].pc \in SleepPCs, After(p, W), NEW q \in Procs \ {p},
         fds'[q] = fds[q],
         \A f \in Files : (\E d \in Fds : fds[q][d] = f)
            => file'[f].ino = file[f].ino /\ file'[f].flag = file[f].flag,
         u[q].pc = "iput" =>
            /\ inode'[u[q].ino].count = 1
            /\ u[q].f # 0 => file'[u[q].f].count = 1 /\ file'[u[q].f].ino = file[u[q].f].ino
  PROVE  ProcOK(q)'
<1>1. /\ SameCall(u'[q], u[q])
      /\ u'[q].pc \in ReadPCs <=> u[q].pc \in ReadPCs
      /\ u'[q].pc \in WritePCs <=> u[q].pc \in WritePCs
      /\ u'[q].pc \in FilePCs <=> u[q].pc \in FilePCs
      /\ u'[q].pc \in MovePCs <=> u[q].pc \in MovePCs
      /\ u'[q].pc \in CallPCs <=> u[q].pc \in CallPCs
      /\ u'[q].pc = "iput" <=> u[q].pc = "iput"
      /\ u'[q].pc = "none" <=> u[q].pc = "none"
      /\ u'[q].pc = "user" <=> u[q].pc = "user"
      /\ u'[q].pc = "move" <=> u[q].pc = "move"
  BY OtherPc
<1>2. ProcOK(q)  BY DEF ProcInv
<1>3. u[q].pc \in CallPCs => /\ u[q].f \in Files /\ file'[u[q].f].ino = file[u[q].f].ino
                             /\ file'[u[q].f].flag = file[u[q].f].flag
  BY <1>2 DEF ProcOK, CallOK
<1>4. CallOK(q)'  BY <1>1, <1>2, <1>3 DEF ProcOK, CallOK, SameCall, IsPipe
<1>5. MoveOK(q)'
 <2>1. FilePCs \cup MovePCs \subseteq CallPCs  BY DEF CallPCs
 <2> QED  BY <1>1, <1>2, <1>3, <2>1 DEF ProcOK, MoveOK, SameCall, IsPipe
<1>6. PutOK(q)'  BY <1>1, <1>2 DEF ProcOK, PutOK, SameCall
<1>7. GoneOK(q)'  BY <1>1, <1>2 DEF ProcOK, GoneOK, SameCall
<1> QED  BY <1>4, <1>5, <1>6, <1>7 DEF ProcOK

\* An inode that the step leaves alone, and of whose lock and transfer its process
\* is inside or outside before and after
LEMMA SameInode ==
  ASSUME TypeOK, Counts, ProcInv, InoInv, NEW p \in Procs, NEW W \in SUBSET Procs,
         \A q \in W : u[q].pc \in SleepPCs, After(p, W), NEW j \in Inos,
         inode'[j] = inode[j],
         u'[p].pc \in HoldPCs /\ u'[p].ino = j <=> u[p].pc \in HoldPCs /\ u[p].ino = j,
         u'[p].pc \in MovePCs /\ u'[p].ino = j <=> u[p].pc \in MovePCs /\ u[p].ino = j,
         u'[p].pc \in MovePCs /\ u'[p].ino = j => u'[p].mode = u[p].mode,
         ~(u'[p].pc \in SleepPCs /\ u'[p].ino = j),
         \A f \in Files : file[f].count > 0 /\ file[f].ino = j => file'[f].off = file[f].off
  PROVE  InoOK(j)'
<1>1. ASSUME NEW q \in Procs
      PROVE  /\ u'[q].pc \in HoldPCs /\ u'[q].ino = j <=> u[q].pc \in HoldPCs /\ u[q].ino = j
             /\ u'[q].pc \in MovePCs /\ u'[q].ino = j <=> u[q].pc \in MovePCs /\ u[q].ino = j
             /\ u'[q].pc \in MovePCs /\ u'[q].ino = j => u'[q].mode = u[q].mode
             /\ u'[q].pc \in SleepPCs /\ u'[q].ino = j
                  => u'[q].pc = u[q].pc /\ u[q].ino = j /\ u'[q].f = u[q].f
 <2>1. CASE q = p  BY <2>1, Classes
 <2>2. CASE q # p  BY <2>2, OtherPc DEF SameCall
 <2> QED  BY <2>1, <2>2
<1>2. InoOK(j)  BY DEF InoInv
<1>3. LockOK(j)'  BY <1>1, <1>2, Classes DEF InoOK, LockOK
<1>4. AloneOK(j)'  BY <1>1, <1>2 DEF InoOK, AloneOK
<1>5. ReadersOK(j)'
 <2> SUFFICES ASSUME NEW q \in Procs, u'[q].pc = "rsleep", u'[q].ino = j
              PROVE  /\ inode'[j].rd /\ inode'[j].count = 2
                     /\ \A r \in Procs : u'[r].pc \in MovePCs /\ u'[r].ino = j => u'[r].mode = "w"
                     /\ (\A r \in Procs : ~(u'[r].pc \in MovePCs /\ u'[r].ino = j))
                          => file'[u'[q].f].off = inode'[j].size
   BY DEF ReadersOK
 <2>1. u[q].pc = "rsleep" /\ u[q].ino = j /\ u'[q].f = u[q].f  BY <1>1, Classes
 <2>2. /\ inode[j].rd /\ inode[j].count = 2
       /\ \A r \in Procs : u[r].pc \in MovePCs /\ u[r].ino = j => u[r].mode = "w"
       /\ (\A r \in Procs : ~(u[r].pc \in MovePCs /\ u[r].ino = j))
            => file[u[q].f].off = inode[j].size
   BY <1>2, <2>1 DEF InoOK, ReadersOK
 <2>3. CallOK(q)  BY DEF ProcInv, ProcOK
 <2>4. u[q].f \in Files /\ file[u[q].f].count >= 1 /\ file[u[q].f].count \in Nat /\ file[u[q].f].ino = j
  <3>1. u[q].pc \in CallPCs  BY <2>1, Classes
  <3> QED  BY <2>1, <2>3, <3>1, CallKeeps, Held DEF CallOK
 <2>5. file'[u[q].f].off = file[u[q].f].off  BY <2>4
 <2> QED  BY <1>1, <2>1, <2>2, <2>5
<1>6. WritersOK(j)'  BY <1>1, <1>2, Classes DEF InoOK, WritersOK
<1>7. SizeOK(j)'  BY <1>2 DEF InoOK, SizeOK
<1> QED  BY <1>3, <1>4, <1>5, <1>6, <1>7 DEF InoOK

\* An inode that neither the step nor its process has to do with
LEMMA OtherInode ==
  ASSUME TypeOK, Counts, ProcInv, InoInv, NEW p \in Procs, NEW W \in SUBSET Procs,
         \A q \in W : u[q].pc \in SleepPCs, After(p, W), NEW j \in Inos,
         inode'[j] = inode[j],
         u[p].pc \in BusyPCs => u[p].ino # j, u'[p].pc \in BusyPCs => u'[p].ino # j,
         \A f \in Files : file[f].count > 0 /\ file[f].ino = j => file'[f].off = file[f].off
  PROVE  InoOK(j)'
  BY SameInode, Classes
-----------------------------------------------------------------------------
(* Steps that leave the descriptors and the counts alone.                  *)

Quiet(p, i, W) ==
    /\ i \in Inos /\ W \subseteq Procs /\ (\A q \in W : u[q].pc \in SleepPCs) /\ After(p, W)
    /\ fds' = fds
    /\ \A f \in Files :
          /\ file'[f].count = file[f].count /\ file'[f].ino = file[f].ino /\ file'[f].flag = file[f].flag
          /\ file[f].ino # i => file'[f].off = file[f].off
    /\ \A j \in Inos : inode'[j].count = inode[j].count /\ (j # i => inode'[j] = inode[j])
    /\ {u[p].pc, u'[p].pc} \cap {"iput", "none"} = {}
    /\ u'[p].pc = "user" => ~u'[p].dying
    /\ u[p].pc \in BusyPCs => u[p].ino = i
    /\ u'[p].pc \in BusyPCs => u'[p].ino = i

LEMMA QuietStep ==
  ASSUME IndInv, NEW p \in Procs, NEW i, NEW W, Quiet(p, i, W),
         TypeOK', CallOK(p)', MoveOK(p)', InoOK(i)'
  PROVE  IndInv'
<1>1. Counts'
 <2>1. ASSUME NEW q \in Procs
       PROVE  /\ u'[q].pc = "iput" <=> u[q].pc = "iput"
              /\ u'[q].pc = "iput" => SameCall(u'[q], u[q])
  <3>1. CASE q = p  BY <3>1 DEF Quiet
  <3>2. CASE q # p  BY <3>2, OtherPc DEF Quiet
  <3> QED  BY <3>1, <3>2
 <2>2. ASSUME NEW f \in Files PROVE Refs(f)' = Refs(f) /\ Closers(f)' = Closers(f)
   BY <2>1 DEF Refs, Closers, SameCall, Quiet
 <2>3. ASSUME NEW j \in Inos PROVE FilesOf(j)' = FilesOf(j) /\ Losers(j)' = Losers(j)
  <3>1. FilesOf(j)' = FilesOf(j)  BY DEF FilesOf, Quiet
  <3>2. Losers(j)' = Losers(j)  BY <2>1 DEF Losers, SameCall
  <3> QED  BY <3>1, <3>2
 <2>4. /\ \A f \in Files : file[f].count = Cardinality(Refs(f)) + Cardinality(Closers(f))
       /\ \A j \in Inos : inode[j].count = Cardinality(FilesOf(j)) + Cardinality(Losers(j))
   BY DEF IndInv, Counts
 <2>5. /\ \A f \in Files : file'[f].count = file[f].count
       /\ \A j \in Inos : inode'[j].count = inode[j].count
   BY DEF Quiet
 <2> QED  BY <2>2, <2>3, <2>4, <2>5 DEF Counts
<1>2. ProcInv'
 <2>1. ASSUME NEW q \in Procs \ {p} PROVE ProcOK(q)'
  <3>1. u[q].pc = "iput" =>
          /\ inode[u[q].ino].count = 1 /\ u[q].ino \in Inos
          /\ u[q].f # 0 => u[q].f \in Files /\ file[u[q].f].count = 1
    BY Consts DEF IndInv, ProcInv, ProcOK, PutOK, TypeOK
  <3> QED  BY <3>1, OtherProc DEF Quiet, IndInv
 <2>2. PutOK(p)' /\ GoneOK(p)'  BY DEF Quiet, PutOK, GoneOK
 <2> QED  BY <2>1, <2>2 DEF ProcInv, ProcOK
<1>3. FileInv'  BY DEF Quiet, IndInv, FileInv, IsPipe
<1>4. InoInv'
 <2>1. ASSUME NEW j \in Inos, j # i PROVE InoOK(j)'
  <3>1. /\ inode'[j] = inode[j]
        /\ u[p].pc \in BusyPCs => u[p].ino # j
        /\ u'[p].pc \in BusyPCs => u'[p].ino # j
        /\ \A f \in Files : file[f].count > 0 /\ file[f].ino = j => file'[f].off = file[f].off
    BY <2>1 DEF Quiet
  <3>2. \A q \in W : u[q].pc \in SleepPCs  BY DEF Quiet
  <3>3. W \in SUBSET Procs /\ After(p, W)  BY DEF Quiet
  <3> QED  BY <3>1, <3>2, <3>3, OtherInode DEF IndInv
 <2> QED  BY <2>1 DEF InoInv
<1> QED  BY <1>1, <1>2, <1>3, <1>4 DEF IndInv

\* A call that ends at once, or that only tells others: no inode is touched
LEMMA UserStep ==
  ASSUME IndInv, NEW p \in Procs, NEW W, W \subseteq Procs, \A q \in W : u[q].pc \in SleepPCs,
         After(p, W), TypeOK', fds' = fds, file' = file, inode' = inode,
         u[p].pc \notin BusyPCs, u'[p].pc \notin BusyPCs, u[p].pc # "none", u'[p].pc # "none",
         u'[p].pc = "user" => ~u'[p].dying
  PROVE  IndInv'
<1>1. InoOK(Input)'
 <2>1. \A f \in Files : file'[f].off = file[f].off  OBVIOUS
 <2> QED  BY <2>1, Consts, OtherInode DEF IndInv
<1>2. CallOK(p)' /\ MoveOK(p)'
 <2>1. u'[p].pc \notin CallPCs  BY DEF BusyPCs
 <2> QED  BY <2>1 DEF CallOK, MoveOK, CallPCs, MovePCs
<1>3. Quiet(p, Input, W)  BY Consts DEF Quiet, BusyPCs
<1> QED  BY <1>1, <1>2, <1>3, QuietStep
-----------------------------------------------------------------------------
(* Facts of a process in a call, and of its lock given back.               *)

LEMMA CallFile ==
  ASSUME IndInv, NEW p \in Procs, u[p].pc \in CallPCs
  PROVE  /\ u[p].f \in Files /\ file[u[p].f].count \in Nat /\ file[u[p].f].count >= 1
         /\ file[u[p].f].ino = u[p].ino /\ u[p].ino \in Inos
         /\ inode[u[p].ino].count \in Nat /\ inode[u[p].ino].count >= 1
         /\ u[p].mode \in {"r", "w"} /\ u[p].mode \in file[u[p].f].flag /\ ~u[p].dying
         /\ IsPipe(u[p].f) <=> u[p].ino \in Pipes
         /\ u[p].pc \in ReadPCs => u[p].mode = "r" /\ IsPipe(u[p].f)
         /\ u[p].pc \in WritePCs => u[p].mode = "w" /\ IsPipe(u[p].f)
         /\ u[p].pc \in FilePCs => ~IsPipe(u[p].f)
<1>1. CallOK(p) /\ TypeOK /\ Counts  BY DEF IndInv, ProcInv, ProcOK
<1>2. /\ u[p].f \in Files /\ file[u[p].f].count >= 1
      /\ u[p].ino \in Inos /\ inode[u[p].ino].count >= 1
  BY <1>1, CallKeeps
<1>3. file[u[p].f].count \in Nat /\ inode[u[p].ino].count \in Nat  BY <1>1, <1>2, Held, Linked
<1>4. u[p].mode \in {"r", "w"}  BY <1>1 DEF TypeOK
<1>5. /\ file[u[p].f].ino = u[p].ino /\ u[p].mode \in file[u[p].f].flag /\ ~u[p].dying
      /\ u[p].pc \in ReadPCs => u[p].mode = "r" /\ IsPipe(u[p].f)
      /\ u[p].pc \in WritePCs => u[p].mode = "w" /\ IsPipe(u[p].f)
      /\ u[p].pc \in FilePCs => ~IsPipe(u[p].f)
  BY <1>1 DEF CallOK
<1>6. IsPipe(u[p].f) <=> file[u[p].f].ino \in Pipes  BY <1>2, <1>3 DEF IndInv, FileInv
<1> QED  BY <1>2, <1>3, <1>4, <1>5, <1>6

\* A pipe has one File to read
LEMMA SameReader ==
  ASSUME IndInv, NEW p \in Procs, NEW q \in Procs, u[p].pc \in CallPCs, u[q].pc \in CallPCs,
         u[p].mode = "r", u[q].mode = "r", u[p].ino = u[q].ino, u[p].ino \in Pipes
  PROVE  u[p].f = u[q].f
  BY CallFile DEF IndInv, FileInv

\* Sleepers of pipes sleep in pipes
LEMMA PipeSleeper ==
  ASSUME IndInv, NEW p \in Procs, u[p].pc \in {"rsleep", "wsleep"}
  PROVE  u[p].ino \in Pipes /\ u[p].pc \in CallPCs
<1>1. u[p].pc \in ReadPCs \cup WritePCs /\ u[p].pc \in CallPCs  BY DEF ReadPCs, WritePCs, CallPCs
<1> QED  BY <1>1, CallFile

LEMMA Release ==
  ASSUME IndInv, NEW p \in Procs, NEW W \in SUBSET Procs, \A q \in W : u[q].pc \in SleepPCs,
         After(p, W), NEW i \in Inos, Waiters(i) \subseteq W,
         u[p].pc \in HoldPCs, u[p].ino = i, u'[p].pc \notin HoldPCs, u'[p].pc \notin LockPCs,
         inode'[i].lock = FALSE, inode'[i].count = inode[i].count
  PROVE  LockOK(i)' /\ AloneOK(i)'
<1>1. LockOK(i) /\ AloneOK(i)  BY DEF IndInv, InoInv, InoOK
<1>2. ASSUME NEW q \in Procs, u'[q].pc \in LockPCs, u'[q].ino = i PROVE FALSE
 <2>1. q # p  BY <1>2
 <2>2. u[q].pc = u'[q].pc /\ u[q].ino = i /\ q \notin W
   BY <1>2, <2>1, OtherPc, Classes DEF SameCall
 <2>3. inode[i].want /\ q \in Locking(i)  BY <1>1, <1>2, <2>2 DEF LockOK, LockPCs, Locking
 <2> QED  BY <2>2, <2>3 DEF Waiters
<1>3. ASSUME i \in Pipes, inode[i].count = 2, NEW q \in Procs, u'[q].pc \in HoldPCs, u'[q].ino = i
      PROVE  FALSE
 <2>1. q # p  BY <1>3
 <2>2. u[q].pc \in HoldPCs /\ u[q].ino = i  BY <1>3, <2>1, OtherPc DEF SameCall
 <2> QED  BY <1>1, <1>3, <2>1, <2>2 DEF AloneOK
<1> QED  BY <1>2, <1>3 DEF LockOK, AloneOK

\* Of two steps inside the lock the second has it, too
LEMMA Keep ==
  ASSUME IndInv, NEW p \in Procs, NEW W \in SUBSET Procs, \A q \in W : u[q].pc \in SleepPCs,
         After(p, W), NEW i \in Inos,
         u[p].pc \in HoldPCs /\ u[p].ino = i <=> u'[p].pc \in HoldPCs /\ u'[p].ino = i,
         inode'[i].lock = inode[i].lock, inode'[i].count = inode[i].count,
         inode[i].want => inode'[i].want,
         u'[p].pc \in LockPCs /\ u'[p].ino = i => inode[i].lock /\ inode'[i].want
  PROVE  LockOK(i)' /\ AloneOK(i)'
<1>1. LockOK(i) /\ AloneOK(i)  BY DEF IndInv, InoInv, InoOK
<1>2. ASSUME NEW q \in Procs
      PROVE  /\ u'[q].pc \in HoldPCs /\ u'[q].ino = i <=> u[q].pc \in HoldPCs /\ u[q].ino = i
             /\ u'[q].pc \in LockPCs /\ u'[q].ino = i => inode[i].lock /\ inode'[i].want
 <2>1. CASE q = p  BY <2>1
 <2>2. CASE q # p  BY <1>1, <2>2, OtherPc, Classes DEF SameCall, LockOK
 <2> QED  BY <2>1, <2>2
<1>3. LockOK(i)'  BY <1>1, <1>2 DEF LockOK
<1>4. AloneOK(i)'  BY <1>1, <1>2 DEF AloneOK
<1> QED  BY <1>3, <1>4
-----------------------------------------------------------------------------
(* Reads and writes.                                                       *)

LEMMA ThePcs ==
  /\ {"rlock", "rlockw", "rwoken", "readp", "rsleep"} \subseteq ReadPCs
  /\ {"wlock", "wlockw", "wwoken", "writep", "wsleep"} \subseteq WritePCs
  /\ {"flock", "flockw"} \subseteq FilePCs /\ {"io", "move"} \subseteq MovePCs
  /\ ReadPCs \cup WritePCs \cup FilePCs \cup MovePCs = CallPCs /\ CallPCs \subseteq PCs
  /\ {"user", "none", "exit", "iput"} \subseteq PCs
  BY DEF ReadPCs, WritePCs, FilePCs, MovePCs, CallPCs, PCs

\* A call that returns at once and has touched nothing
LEMMA Refused ==
  ASSUME IndInv, NEW p \in Procs, NEW err \in Errors, Done(p, err, u), CanCall(p),
         UNCHANGED <<fds, file, inode, sig, hist, faults>>
  PROVE  IndInv'
<1>1. u' = [u EXCEPT ![p] = Back(err)] /\ cpu' = NoProc  BY DEF Done
<1>2. u \in [Procs -> URec]  BY Types DEF IndInv
<1>3. u' \in [Procs -> URec] /\ u'[p] = Back(err) /\ After(p, {})
  BY <1>1, <1>2, BackType, PlainStep
<1>4. TypeOK'  BY <1>1, <1>3, Types, TypeStep DEF IndInv
<1>5. u'[p].pc = "user" /\ ~u'[p].dying  BY <1>3, BackType
<1> QED  BY <1>3, <1>4, <1>5, Classes, UserStep DEF CanCall

LEMMA GetFType ==
  ASSUME IndInv, NEW p \in Procs, NEW d \in Asked
  PROVE  /\ GetF(p, d) \in 0 .. NFile
         /\ GetF(p, d) # 0 => /\ GetF(p, d) \in Files /\ d \in Fds /\ fds[p][d] = GetF(p, d)
                              /\ file[GetF(p, d)].count >= 1 /\ file[GetF(p, d)].count \in Nat
                              /\ file[GetF(p, d)].ino \in Inos
                              /\ inode[file[GetF(p, d)].ino].count >= 1
                              /\ IsPipe(GetF(p, d)) <=> file[GetF(p, d)].ino \in Pipes
<1>1. PICK f : f = GetF(p, d)  OBVIOUS
<1>2. f = 0 \/ (d \in Fds /\ f = fds[p][d])  BY <1>1 DEF GetF
<1>3. f \in 0 .. NFile
 <2>1. fds \in [Procs -> [Fds -> 0 .. NFile]]  BY Types DEF IndInv
 <2> QED  BY <1>2, <2>1, OpenFilesAssumption DEF OpenFilesAssumption
<1>4. ASSUME f # 0
      PROVE  /\ f \in Files /\ file[f].count >= 1 /\ file[f].count \in Nat
             /\ file[f].ino \in Inos /\ inode[file[f].ino].count >= 1
             /\ IsPipe(f) <=> file[f].ino \in Pipes
 <2>1. f \in Files  BY <1>3, <1>4, Consts
 <2>2. file[f].count >= 1 /\ file[f].count \in Nat  BY <1>2, <1>4, <2>1, Held DEF IndInv
 <2>3. file[f].ino \in Inos  BY <2>1 DEF IndInv, TypeOK
 <2>4. inode[file[f].ino].count >= 1  BY <2>1, <2>2, <2>3, Linked DEF IndInv
 <2> QED  BY <2>1, <2>2, <2>3, <2>4 DEF IndInv, FileInv
<1> QED  BY <1>1, <1>2, <1>3, <1>4

LEMMA RdwrStep ==
  ASSUME IndInv, NEW p \in Procs, NEW mode \in {"r", "w"}, NEW d \in Asked, NEW k \in Sizes,
         Rdwr(p, mode, d, k), faults' = faults
  PROVE  IndInv'
<1>1. PICK f : f = GetF(p, d)  OBVIOUS
<1>2. /\ u \in [Procs -> URec] /\ u[p] \in URec /\ f \in 0 .. NFile
      /\ f # 0 => /\ f \in Files /\ d \in Fds /\ fds[p][d] = f
                  /\ file[f].ino \in Inos
  BY <1>1, GetFType, Types DEF IndInv
<1>3. CanCall(p) /\ u[p].pc = "user" /\ UNCHANGED <<fds, file, inode, sig, hist, faults>>
  BY DEF Rdwr, CanCall
<1>4. CASE f = 0 \/ mode \notin file[f].flag
 <2>1. PICK err \in {"EBADF", "EACCES"} : Done(p, err, u)  BY <1>1, <1>4 DEF Rdwr
 <2>2. err \in Errors  BY DEF Errors
 <2> QED  BY <1>3, <2>1, <2>2, Refused
<1>5. CASE f # 0 /\ mode \in file[f].flag
 <2>1. PICK pc : pc = IF ~IsPipe(f) THEN "flock" ELSE IF mode = "r" THEN "rlock" ELSE "wlock"
   OBVIOUS
 <2>2. PICK r : r = [u[p] EXCEPT !.pc = pc, !.f = f, !.ino = file[f].ino, !.mode = mode,
                                 !.count = k, !.left = k, !.err = "none"]
   OBVIOUS
 <2>3. u' = [u EXCEPT ![p] = r] /\ cpu' = p  BY <1>1, <1>2, <1>5, <2>1, <2>2 DEF Rdwr
 <2>4. /\ file[f].ino \in Inos /\ k \in Nat /\ "none" \in Errors
       /\ pc \in PCs
   BY <1>2, <1>5, <2>1, ThePcs, Consts DEF Errors
 <2>5. /\ r \in URec /\ r.f = f /\ r.ino = file[f].ino /\ r.mode = mode /\ r.count = k /\ r.left = k
       /\ r.pc = pc /\ r.dying = u[p].dying
   BY <1>2, <2>2, <2>4 DEF URec
 <2>6. u' \in [Procs -> URec] /\ u'[p] = r /\ After(p, {})  BY <1>2, <2>3, <2>5, PlainStep
 <2>7. TypeOK'  BY <1>3, <2>3, <2>6, Types, TypeStep DEF IndInv
 <2>8. ~r.dying  BY <1>3, <2>5 DEF IndInv, ProcInv, ProcOK, GoneOK
 <2>9. CallOK(p)'
  <3>1. CASE ~IsPipe(f)
    BY <1>2, <1>3, <1>5, <2>1, <2>5, <2>6, <2>8, <3>1 DEF CallOK, IsPipe, ReadPCs, WritePCs, FilePCs
  <3>2. CASE IsPipe(f)
    BY <1>2, <1>3, <1>5, <2>1, <2>5, <2>6, <2>8, <3>2 DEF CallOK, IsPipe, ReadPCs, WritePCs, FilePCs
  <3> QED  BY <3>1, <3>2
 <2>10. MoveOK(p)'  BY <2>1, <2>4, <2>5, <2>6 DEF MoveOK, MovePCs
 <2>11. PICK i \in Inos : i = file[f].ino  BY <2>4
 <2>12. InoOK(i)'
  <3>1. {u[p].pc, u'[p].pc} \cap (HoldPCs \cup MovePCs \cup SleepPCs) = {}
    BY <1>3, <2>1, <2>5, <2>6 DEF HoldPCs, MovePCs, SleepPCs
  <3> QED  BY <1>3, <2>6, <3>1, SameInode DEF IndInv
 <2>13. Quiet(p, i, {})
   BY <1>3, <2>1, <2>5, <2>6, <2>8, <2>11 DEF Quiet, BusyPCs, CallPCs, ReadPCs, WritePCs, FilePCs, MovePCs
 <2> QED  BY <2>7, <2>9, <2>10, <2>12, <2>13, QuietStep
<1> QED  BY <1>4, <1>5
\* Those who sleep for an inode, and the three ways on from a point in a call
LEMMA Sleepers ==
  ASSUME NEW i \in Inos
  PROVE  \A S \in {Waiters(i), Locking(i), Reading(i), Writing(i)} :
            S \subseteq Procs /\ \A q \in S : u[q].pc \in SleepPCs /\ u[q].ino = i
  BY DEF Waiters, Locking, Reading, Writing, SleepPCs

LEMMA WokenNone ==
  ASSUME u \in [Procs -> URec]
  PROVE  Woken({}) = u
  BY DEF Woken

LEMMA DoneStep ==
  ASSUME IndInv, NEW p \in Procs, NEW W \in SUBSET Procs, \A q \in W : u[q].pc \in SleepPCs,
         NEW err \in Errors, Done(p, err, Woken(W))
  PROVE  /\ u' \in [Procs -> URec] /\ After(p, W) /\ cpu' = NoProc
         /\ u'[p].pc = "user" /\ ~u'[p].dying
<1>1. u' = [Woken(W) EXCEPT ![p] = Back(err)] /\ cpu' = NoProc  BY DEF Done
<1>2. u \in [Procs -> URec]  BY Types DEF IndInv
<1>3. Back(err) \in URec /\ Back(err).pc = "user" /\ ~Back(err).dying  BY BackType
<1>4. u' \in [Procs -> URec] /\ u'[p] = Back(err) /\ After(p, W)  BY <1>1, <1>2, <1>3, WokenStep
<1> QED  BY <1>1, <1>3, <1>4

LEMMA GoesStep ==
  ASSUME IndInv, NEW p \in Procs, NEW W \in SUBSET Procs, \A q \in W : u[q].pc \in SleepPCs,
         NEW pc \in PCs, u' = [Woken(W) EXCEPT ![p] = [u[p] EXCEPT !.pc = pc]]
  PROVE  u' \in [Procs -> URec] /\ After(p, W) /\ u'[p].pc = pc /\ SameCall(u'[p], u[p])
<1>1. u \in [Procs -> URec] /\ u[p] \in URec  BY Types DEF IndInv
<1>2. PICK r : r = [u[p] EXCEPT !.pc = pc]  OBVIOUS
<1>3. r \in URec /\ r.pc = pc /\ SameCall(r, u[p])  BY <1>1, <1>2, WithPc
<1>4. u' \in [Procs -> URec] /\ u'[p] = r /\ After(p, W)  BY <1>1, <1>2, <1>3, WokenStep
<1> QED  BY <1>3, <1>4

LEMMA SleepStep ==
  ASSUME IndInv, NEW p \in Procs, NEW W \in SUBSET Procs, \A q \in W : u[q].pc \in SleepPCs,
         NEW pc \in PCs, Sleep(p, pc, Woken(W))
  PROVE  /\ u' \in [Procs -> URec] /\ After(p, W) /\ cpu' = NoProc
         /\ \/ u'[p].pc = "user" /\ ~u'[p].dying
            \/ u'[p].pc = pc /\ SameCall(u'[p], u[p])
<1>1. cpu' = NoProc  BY DEF Sleep
<1>2. CASE p \in sig
 <2>1. Done(p, "EINTR", Woken(W)) /\ "EINTR" \in Errors  BY <1>2 DEF Sleep, Done, Errors
 <2> QED  BY <1>1, <2>1, DoneStep
<1>3. CASE p \notin sig
 <2>1. u' = [Woken(W) EXCEPT ![p] = [u[p] EXCEPT !.pc = pc]]  BY <1>3 DEF Sleep
 <2> QED  BY <1>1, <2>1, GoesStep
<1> QED  BY <1>2, <1>3

\* A step from one point of a call to another, or out of it
LEMMA CallStep ==
  ASSUME IndInv, NEW p \in Procs, u[p].pc \in CallPCs, NEW i, i = u[p].ino,
         NEW W \in SUBSET Procs, \A q \in W : u[q].pc \in SleepPCs, After(p, W), TypeOK',
         fds' = fds,
         \A f \in Files :
            /\ file'[f].count = file[f].count /\ file'[f].ino = file[f].ino
            /\ file'[f].flag = file[f].flag /\ (file[f].ino # i => file'[f].off = file[f].off),
         \A j \in Inos : inode'[j].count = inode[j].count /\ (j # i => inode'[j] = inode[j]),
         \/ u'[p].pc = "user" /\ ~u'[p].dying
         \/ /\ u'[p].pc \in CallPCs /\ u'[p].f = u[p].f /\ u'[p].ino = i
            /\ u'[p].mode = u[p].mode /\ u'[p].dying = u[p].dying
            /\ u'[p].pc \in ReadPCs => u[p].mode = "r" /\ IsPipe(u[p].f)
            /\ u'[p].pc \in WritePCs => u[p].mode = "w" /\ IsPipe(u[p].f)
            /\ u'[p].pc \in FilePCs => ~IsPipe(u[p].f)
            /\ MoveOK(p)',
         InoOK(i)'
  PROVE  IndInv'
<1>1. i \in Inos  BY CallFile
<1>2. Quiet(p, i, W)
 <2>1. {u[p].pc, u'[p].pc} \cap {"iput", "none"} = {}  BY Classes
 <2>2. u'[p].pc = "user" => ~u'[p].dying  BY Classes
 <2>3. u'[p].pc \in BusyPCs => u'[p].ino = i  BY Classes
 <2> QED  BY <1>1, <2>1, <2>2, <2>3 DEF Quiet
<1>3. CASE u'[p].pc = "user"
 <2>1. CallOK(p)'  BY <1>3, Classes DEF CallOK
 <2>2. MoveOK(p)'  BY <1>3 DEF MoveOK, FilePCs, MovePCs
 <2> QED  BY <1>2, <2>1, <2>2, QuietStep
<1>4. CASE u'[p].pc # "user"
 <2>1. CallOK(p)  BY DEF IndInv, ProcInv, ProcOK
 <2>2. u[p].f \in Files  BY CallFile
 <2>3. CallOK(p)'  BY <1>4, <2>1, <2>2 DEF CallOK, IsPipe
 <2> QED  BY <1>2, <1>4, <2>3, QuietStep
<1> QED  BY <1>3, <1>4
\* A step that changes nothing for those who sleep in a pipe
LEMMA SleepersKept ==
  ASSUME IndInv, NEW p \in Procs, NEW W \in SUBSET Procs, \A q \in W : u[q].pc \in SleepPCs,
         After(p, W), NEW i \in Inos,
         inode'[i].count = inode[i].count, inode'[i].size = inode[i].size,
         inode'[i].rd = inode[i].rd, inode[i].wr => inode'[i].wr,
         u'[p].ino = i => u'[p].pc # "rsleep",
         u'[p].ino = i /\ u'[p].pc = "wsleep"
            => inode'[i].wr /\ inode[i].count = 2 /\ inode[i].size = PipSiz,
         u[p].pc \in MovePCs /\ u[p].ino = i => u'[p].pc \in MovePCs /\ u'[p].ino = i,
         u'[p].pc \in MovePCs /\ u'[p].ino = i => u'[p].mode = "w",
         \A f \in Files : file'[f].off = file[f].off
  PROVE  ReadersOK(i)' /\ WritersOK(i)' /\ SizeOK(i)'
<1>1. ReadersOK(i) /\ WritersOK(i) /\ SizeOK(i)  BY DEF IndInv, InoInv, InoOK
<1>2. ASSUME NEW q \in Procs \ {p}, u'[q].pc \in {"rsleep", "wsleep"}, u'[q].ino = i
      PROVE  /\ u[q].pc = u'[q].pc /\ u[q].ino = i /\ u'[q].f = u[q].f /\ u[q].f \in Files
 <2>1. u'[q].pc \in SleepPCs  BY <1>2, Classes
 <2>2. u[q].pc = u'[q].pc /\ u[q].ino = i /\ u'[q].f = u[q].f  BY <1>2, <2>1, OtherPc DEF SameCall
 <2> QED  BY <1>2, <2>2, PipeSleeper, CallFile
<1>3. ASSUME NEW q \in Procs
      PROVE  /\ u[q].pc \in MovePCs /\ u[q].ino = i => u'[q].pc \in MovePCs /\ u'[q].ino = i
             /\ u'[q].pc \in MovePCs /\ u'[q].ino = i /\ q # p
                  => u[q].pc \in MovePCs /\ u[q].ino = i /\ u'[q].mode = u[q].mode
 <2>1. CASE q = p  BY <2>1
 <2>2. CASE q # p  BY <2>2, OtherPc DEF SameCall
 <2> QED  BY <2>1, <2>2
<1>4. ReadersOK(i)'
 <2> SUFFICES ASSUME NEW q \in Procs, u'[q].pc = "rsleep", u'[q].ino = i
              PROVE  /\ inode'[i].rd /\ inode'[i].count = 2
                     /\ \A r \in Procs : u'[r].pc \in MovePCs /\ u'[r].ino = i => u'[r].mode = "w"
                     /\ (\A r \in Procs : ~(u'[r].pc \in MovePCs /\ u'[r].ino = i))
                          => file'[u'[q].f].off = inode'[i].size
   BY DEF ReadersOK
 <2>1. u[q].pc = "rsleep" /\ u[q].ino = i /\ u'[q].f = u[q].f /\ u[q].f \in Files  BY <1>2
 <2>2. /\ inode[i].rd /\ inode[i].count = 2
       /\ \A r \in Procs : u[r].pc \in MovePCs /\ u[r].ino = i => u[r].mode = "w"
       /\ (\A r \in Procs : ~(u[r].pc \in MovePCs /\ u[r].ino = i))
            => file[u[q].f].off = inode[i].size
   BY <1>1, <2>1 DEF ReadersOK
 <2> QED  BY <1>3, <2>1, <2>2
<1>5. WritersOK(i)'  BY <1>1, <1>2 DEF WritersOK
<1>6. SizeOK(i)'  BY <1>1 DEF SizeOK
<1> QED  BY <1>4, <1>5, <1>6

\* A lock that nobody has is taken
LEMMA Acquire ==
  ASSUME IndInv, NEW p \in Procs, NEW W \in SUBSET Procs, \A q \in W : u[q].pc \in SleepPCs,
         After(p, W), NEW i \in Inos, ~inode[i].lock,
         u'[p].pc \in HoldPCs, u'[p].ino = i,
         inode'[i].lock, inode'[i].count = inode[i].count
  PROVE  LockOK(i)' /\ AloneOK(i)'
<1>1. LockOK(i) /\ AloneOK(i)  BY DEF IndInv, InoInv, InoOK
<1>2. ASSUME NEW q \in Procs, u'[q].pc \in LockPCs, u'[q].ino = i PROVE FALSE
 <2>1. q # p  BY <1>2 DEF HoldPCs, LockPCs
 <2>2. u[q].pc \in LockPCs /\ u[q].ino = i  BY <1>2, <2>1, OtherPc, Classes DEF SameCall
 <2> QED  BY <1>1, <2>2 DEF LockOK
<1>3. ASSUME i \in Pipes, inode[i].count = 2, NEW q \in Procs \ {p}
      PROVE  ~(u'[q].pc \in HoldPCs /\ u'[q].ino = i)
  BY <1>1, <1>3, OtherPc DEF AloneOK, SameCall
<1>4. LockOK(i)'  BY <1>2 DEF LockOK
<1>5. AloneOK(i)'  BY <1>3 DEF AloneOK
<1> QED  BY <1>4, <1>5

LEMMA PlockStep ==
  ASSUME IndInv, NEW p \in Procs, Plock(p)
  PROVE  IndInv'
<1>1. PICK i : i = u[p].ino  OBVIOUS
<1>2. /\ u[p].pc \in {"rlock", "rwoken", "wlock", "wwoken"} /\ u[p].pc \in CallPCs
      /\ UNCHANGED <<fds, file, sig, faults, hist>>
  BY ThePcs DEF Plock
<1>3. /\ u \in [Procs -> URec] /\ inode \in [Inos -> InoRec] /\ i \in Inos /\ InoOK(i)
      /\ i \in Pipes /\ inode[i].count \in Nat
  BY <1>1, <1>2, Types, CallFile, ThePcs DEF IndInv, InoInv
<1>4. /\ u[p].mode = "r" \/ u[p].mode = "w"
      /\ u[p].pc \in {"rlock", "rwoken"} <=> u[p].mode = "r"
      /\ IsPipe(u[p].f)
  BY <1>2, CallFile, ThePcs DEF ReadPCs, WritePCs
<1>5. CASE u[p].pc \in {"rwoken", "wwoken"} /\ p \in sig
 <2>1. Done(p, "EINTR", u) /\ inode' = inode /\ "EINTR" \in Errors  BY <1>5 DEF Plock, Errors
 <2>2. u' \in [Procs -> URec] /\ After(p, {}) /\ cpu' = NoProc /\ u'[p].pc = "user" /\ ~u'[p].dying
   BY <1>3, <2>1, WokenNone, DoneStep
 <2>3. TypeOK'  BY <1>2, <2>1, <2>2, Types, TypeStep DEF IndInv
 <2>4. InoOK(i)'
  <3>1. {u[p].pc, u'[p].pc} \cap (HoldPCs \cup MovePCs \cup SleepPCs) = {}
    BY <1>5, <2>2 DEF HoldPCs, MovePCs, SleepPCs
  <3> QED  BY <1>2, <1>3, <2>1, <2>2, <3>1, SameInode DEF IndInv
 <2> QED  BY <1>1, <1>2, <2>1, <2>2, <2>3, <2>4, CallStep
<1>6. CASE ~(u[p].pc \in {"rwoken", "wwoken"} /\ p \in sig) /\ inode[i].lock
 <2>1. PICK pc : pc = IF u[p].mode = "r" THEN "rlockw" ELSE "wlockw"  OBVIOUS
 <2>2. inode' = [inode EXCEPT ![i].want = TRUE] /\ Sleep(p, pc, u) /\ pc \in PCs
   BY <1>1, <1>6, <2>1, ThePcs DEF Plock, Locked
 <2>3. /\ u' \in [Procs -> URec] /\ After(p, {}) /\ cpu' = NoProc
       /\ \/ u'[p].pc = "user" /\ ~u'[p].dying
          \/ u'[p].pc = pc /\ SameCall(u'[p], u[p])
   BY <1>3, <2>2, WokenNone, SleepStep
 <2>4. /\ inode' \in [Inos -> InoRec] /\ inode'[i].want
       /\ inode'[i].lock = inode[i].lock /\ inode'[i].count = inode[i].count
       /\ inode'[i].size = inode[i].size /\ inode'[i].rd = inode[i].rd /\ inode'[i].wr = inode[i].wr
       /\ \A j \in Inos : inode'[j].count = inode[j].count /\ (j # i => inode'[j] = inode[j])
  <3>1. inode[i] \in InoRec  BY <1>3
  <3>2. PICK r : r = [inode[i] EXCEPT !.want = TRUE]  OBVIOUS
  <3>3. /\ r \in InoRec /\ r.want /\ r.lock = inode[i].lock /\ r.count = inode[i].count
        /\ r.size = inode[i].size /\ r.rd = inode[i].rd /\ r.wr = inode[i].wr
    BY <3>1, <3>2 DEF InoRec
  <3>4. inode' = [inode EXCEPT ![i] = r]  BY <2>2, <3>2
  <3> QED  BY <1>3, <3>3, <3>4
 <2>5. TypeOK'  BY <1>2, <2>3, <2>4, Types, TypeStep DEF IndInv
 <2>6. /\ u'[p].pc \notin HoldPCs /\ u[p].pc \notin HoldPCs
       /\ u'[p].pc \notin MovePCs /\ u[p].pc \notin MovePCs
       /\ u'[p].pc \notin {"rsleep", "wsleep"}
   BY <1>2, <2>1, <2>3 DEF HoldPCs, MovePCs
 <2>7. LockOK(i)' /\ AloneOK(i)'  BY <1>3, <1>6, <2>3, <2>4, <2>6, Keep
 <2>8. InoOK(i)'
  <3>1. ReadersOK(i)' /\ WritersOK(i)' /\ SizeOK(i)'  BY <1>2, <1>3, <2>3, <2>4, <2>6, SleepersKept
  <3> QED  BY <2>7, <3>1 DEF InoOK
 <2>9. MoveOK(p)'  BY <2>1, <2>3 DEF MoveOK, FilePCs, MovePCs
 <2>10. \/ u'[p].pc = "user" /\ ~u'[p].dying
        \/ /\ u'[p].pc \in CallPCs /\ u'[p].f = u[p].f /\ u'[p].ino = i
           /\ u'[p].mode = u[p].mode /\ u'[p].dying = u[p].dying
           /\ u'[p].pc \in ReadPCs => u[p].mode = "r" /\ IsPipe(u[p].f)
           /\ u'[p].pc \in WritePCs => u[p].mode = "w" /\ IsPipe(u[p].f)
           /\ u'[p].pc \in FilePCs => ~IsPipe(u[p].f)
           /\ MoveOK(p)'
   BY <1>1, <1>4, <2>1, <2>3, <2>9 DEF SameCall, CallPCs, ReadPCs, WritePCs, FilePCs
 <2> QED  BY <1>1, <1>2, <2>3, <2>4, <2>5, <2>8, <2>10, CallStep
<1>7. CASE ~(u[p].pc \in {"rwoken", "wwoken"} /\ p \in sig) /\ ~inode[i].lock
 <2>1. PICK pc : pc = IF u[p].mode = "r" THEN "readp" ELSE "writep"  OBVIOUS
 <2>2. /\ inode' = [inode EXCEPT ![i].lock = TRUE] /\ pc \in PCs /\ cpu' = p
       /\ u' = [u EXCEPT ![p] = [u[p] EXCEPT !.pc = pc]]
   BY <1>1, <1>3, <1>7, <2>1, ThePcs DEF Plock, Locked
 <2>3. u' \in [Procs -> URec] /\ After(p, {}) /\ u'[p].pc = pc /\ SameCall(u'[p], u[p])
   BY <1>3, <2>2, WokenNone, GoesStep
 <2>4. /\ inode' \in [Inos -> InoRec] /\ inode'[i].lock /\ inode'[i].want = inode[i].want
       /\ inode'[i].count = inode[i].count
       /\ inode'[i].size = inode[i].size /\ inode'[i].rd = inode[i].rd /\ inode'[i].wr = inode[i].wr
       /\ \A j \in Inos : inode'[j].count = inode[j].count /\ (j # i => inode'[j] = inode[j])
  <3>1. inode[i] \in InoRec  BY <1>3
  <3>2. PICK r : r = [inode[i] EXCEPT !.lock = TRUE]  OBVIOUS
  <3>3. /\ r \in InoRec /\ r.lock /\ r.want = inode[i].want /\ r.count = inode[i].count
        /\ r.size = inode[i].size /\ r.rd = inode[i].rd /\ r.wr = inode[i].wr
    BY <3>1, <3>2 DEF InoRec
  <3>4. inode' = [inode EXCEPT ![i] = r]  BY <2>2, <3>2
  <3> QED  BY <1>3, <3>3, <3>4
 <2>5. TypeOK'  BY <1>2, <2>2, <2>3, <2>4, Types, TypeStep DEF IndInv
 <2>6. /\ u'[p].pc \in HoldPCs /\ u'[p].ino = i
       /\ u'[p].pc \notin MovePCs /\ u[p].pc \notin MovePCs
       /\ u'[p].pc \notin {"rsleep", "wsleep"}
   BY <1>1, <1>2, <2>1, <2>3 DEF HoldPCs, MovePCs, SameCall
 <2>7. LockOK(i)' /\ AloneOK(i)'  BY <1>3, <1>7, <2>3, <2>4, <2>6, Acquire
 <2>8. InoOK(i)'
  <3>1. ReadersOK(i)' /\ WritersOK(i)' /\ SizeOK(i)'  BY <1>2, <1>3, <2>3, <2>4, <2>6, SleepersKept
  <3> QED  BY <2>7, <3>1 DEF InoOK
 <2>9. MoveOK(p)'  BY <2>1, <2>3, ThePcs DEF MoveOK, FilePCs, MovePCs
 <2>10. \/ u'[p].pc = "user" /\ ~u'[p].dying
        \/ /\ u'[p].pc \in CallPCs /\ u'[p].f = u[p].f /\ u'[p].ino = i
           /\ u'[p].mode = u[p].mode /\ u'[p].dying = u[p].dying
           /\ u'[p].pc \in ReadPCs => u[p].mode = "r" /\ IsPipe(u[p].f)
           /\ u'[p].pc \in WritePCs => u[p].mode = "w" /\ IsPipe(u[p].f)
           /\ u'[p].pc \in FilePCs => ~IsPipe(u[p].f)
           /\ MoveOK(p)'
   BY <1>1, <1>4, <2>1, <2>3, <2>9 DEF SameCall, CallPCs, ReadPCs, WritePCs, FilePCs
 <2> QED  BY <1>1, <1>2, <2>3, <2>4, <2>5, <2>8, <2>10, CallStep
<1> QED  BY <1>5, <1>6, <1>7
LEMMA Moving ==
  ASSUME NEW p \in Procs, u'[p].pc \in {"readp", "writep", "rlock", "wlock", "rlockw", "wlockw",
                                        "rsleep", "wsleep"}
  PROVE  MoveOK(p)'
  BY DEF MoveOK, FilePCs, MovePCs

\* Nobody is inside a pipe with the one who has its lock, and who sleeps there
\* for data has seen it empty
LEMMA AloneInside ==
  ASSUME IndInv, NEW p \in Procs, u[p].pc \in HoldPCs, u[p].ino \in Pipes,
         inode[u[p].ino].count = 2
  PROVE  /\ inode[u[p].ino].lock
         /\ \A q \in Procs : u[q].pc \in HoldPCs /\ u[q].ino = u[p].ino => q = p
         /\ \A q \in Procs : u[q].pc \in MovePCs /\ u[q].ino = u[p].ino => q = p
  BY Consts, Classes DEF IndInv, InoInv, InoOK, AloneOK

LEMMA NoReaders ==
  ASSUME IndInv, NEW p \in Procs, NEW q \in Procs, u[p].pc = "readp", u[q].pc = "rsleep",
         u[q].ino = u[p].ino
  PROVE  file[u[p].f].off = inode[u[p].ino].size /\ u[q].f = u[p].f
<1>1. PICK i : i = u[p].ino  OBVIOUS
<1>2. u[p].pc \in CallPCs /\ u[p].pc \in ReadPCs /\ u[q].pc \in CallPCs /\ u[q].pc \in ReadPCs
  BY ThePcs
<1>3. i \in Inos /\ i \in Pipes /\ u[p].mode = "r" /\ u[q].mode = "r"  BY <1>1, <1>2, CallFile
<1>4. /\ inode[i].count = 2
      /\ (\A r \in Procs : ~(u[r].pc \in MovePCs /\ u[r].ino = i)) => file[u[q].f].off = inode[i].size
  BY <1>1, <1>3 DEF IndInv, InoInv, InoOK, ReadersOK
<1>5. u[p].pc \in HoldPCs /\ u[p].pc \notin MovePCs  BY DEF HoldPCs, MovePCs
<1>6. \A r \in Procs : ~(u[r].pc \in MovePCs /\ u[r].ino = i)
  BY <1>1, <1>3, <1>4, <1>5, AloneInside
<1>7. u[q].f = u[p].f  BY <1>1, <1>2, <1>3, SameReader
<1> QED  BY <1>1, <1>4, <1>6, <1>7

LEMMA ReadPStep ==
  ASSUME IndInv, NEW p \in Procs, ReadP(p)
  PROVE  IndInv'
<1>1. PICK i, f : i = u[p].ino /\ f = u[p].f  OBVIOUS
<1>2. /\ u[p].pc = "readp" /\ u[p].pc \in CallPCs /\ u[p].pc \in HoldPCs /\ u[p].pc \notin MovePCs
      /\ UNCHANGED <<fds, sig, faults, hist>>
  BY ThePcs DEF ReadP, HoldPCs, MovePCs
<1>3. /\ u \in [Procs -> URec] /\ u[p] \in URec /\ inode \in [Inos -> InoRec] /\ file \in [Files -> FileRec]
      /\ i \in Inos /\ f \in Files
      /\ i \in Pipes /\ inode[i].count \in Nat /\ inode[i] \in InoRec /\ file[f] \in FileRec
      /\ file[f].ino = i /\ u[p].mode = "r" /\ IsPipe(f)
  BY <1>1, <1>2, Types, CallFile, ThePcs DEF IndInv
<1>4. InoOK(i)  BY <1>3 DEF IndInv, InoInv
<1>5. PICK empty \in BOOLEAN : empty = (file[f].off = inode[i].size)  OBVIOUS
<1>6. CASE ~empty
 <2>1. /\ u' = [u EXCEPT ![p] = [u[p] EXCEPT !.pc = "io", !.off = file[f].off]] /\ cpu' = p
       /\ file' = file /\ inode' = inode
   BY <1>1, <1>3, <1>5, <1>6 DEF ReadP
 <2>2. PICK r : r = [u[p] EXCEPT !.pc = "io", !.off = file[f].off]  OBVIOUS
 <2>3. /\ r \in URec /\ r.pc = "io" /\ r.f = f /\ r.ino = i /\ r.mode = "r" /\ r.dying = u[p].dying
  <3>1. file[f].off \in Nat /\ "io" \in PCs  BY <1>3 DEF FileRec, PCs
  <3> QED  BY <1>1, <1>3, <2>2, <3>1 DEF URec
 <2>4. u' \in [Procs -> URec] /\ u'[p] = r /\ After(p, {})  BY <1>3, <2>1, <2>2, <2>3, PlainStep
 <2>5. TypeOK'  BY <1>2, <2>1, <2>4, Types, TypeStep DEF IndInv
 <2>6. u'[p].pc = "io" /\ u'[p].pc \in HoldPCs /\ u'[p].pc \notin LockPCs
   BY <2>3, <2>4 DEF HoldPCs, LockPCs
 <2>7. LockOK(i)' /\ AloneOK(i)'  BY <1>1, <1>2, <1>3, <2>1, <2>3, <2>4, <2>6, Keep
 <2>8. ReadersOK(i)'
  <3>1. ASSUME NEW q \in Procs, u'[q].pc = "rsleep", u'[q].ino = i PROVE FALSE
   <4>1. q # p  BY <2>6, <3>1
   <4>2. u[q].pc = "rsleep" /\ u[q].ino = i  BY <2>4, <3>1, <4>1, OtherPc, Classes DEF SameCall
   <4> QED  BY <1>1, <1>2, <1>5, <1>6, <4>2, NoReaders
  <3> QED  BY <3>1 DEF ReadersOK
 <2>9. WritersOK(i)'
  <3>1. ASSUME NEW q \in Procs, u'[q].pc = "wsleep", u'[q].ino = i
        PROVE  u[q].pc = "wsleep" /\ u[q].ino = i
   <4>1. q # p  BY <2>6, <3>1
   <4> QED  BY <2>4, <3>1, <4>1, OtherPc, Classes DEF SameCall
  <3> QED  BY <1>4, <2>1, <3>1 DEF InoOK, WritersOK
 <2>10. InoOK(i)'
  <3>1. SizeOK(i)'  BY <1>4, <2>1 DEF InoOK, SizeOK
  <3> QED  BY <2>7, <2>8, <2>9, <3>1 DEF InoOK
 <2>11. MoveOK(p)'  BY <1>3, <2>1, <2>3, <2>4 DEF MoveOK, IsPipe
 <2>12. u'[p].pc \in CallPCs /\ u'[p].pc \notin ReadPCs \cup WritePCs \cup FilePCs
   BY <2>6 DEF CallPCs, MovePCs, ReadPCs, WritePCs, FilePCs
 <2> QED  BY <1>1, <1>2, <2>1, <2>3, <2>4, <2>5, <2>10, <2>11, <2>12, CallStep
<1>7. CASE empty
 <2>1. PICK drained \in BOOLEAN : drained = (file[f].off = inode[i].size /\ file[f].off # 0)
   OBVIOUS
 <2>2. PICK W : W = Waiters(i) \cup (IF drained /\ inode[i].wr THEN Writing(i) ELSE {})  OBVIOUS
 <2>3. PICK sleeps \in BOOLEAN : sleeps <=> inode[i].count >= 2
  <3>1. CASE inode[i].count >= 2  BY <3>1
  <3>2. CASE ~(inode[i].count >= 2)  BY <3>2
  <3> QED  BY <3>1, <3>2
 <2>4. PICK reset : reset = IF drained THEN [Freed(inode[i]) EXCEPT !.size = 0, !.wr = FALSE]
                            ELSE Freed(inode[i])
   OBVIOUS
 <2>5. PICK r : r = IF sleeps THEN [reset EXCEPT !.rd = TRUE] ELSE reset  OBVIOUS
 <2>6. /\ file' = (IF drained THEN [file EXCEPT ![f].off = 0] ELSE file)
       /\ inode' = [inode EXCEPT ![i] = r]
       /\ IF sleeps THEN Sleep(p, "rsleep", Woken(W)) ELSE Done(p, "none", Woken(W))
   BY <1>1, <1>5, <1>7, <2>1, <2>2, <2>3, <2>4, <2>5 DEF ReadP
 <2>7. W \in SUBSET Procs /\ \A q \in W : u[q].pc \in SleepPCs  BY <1>3, <2>2, Sleepers
 <2>8. /\ u' \in [Procs -> URec] /\ After(p, W) /\ cpu' = NoProc
       /\ \/ u'[p].pc = "user" /\ ~u'[p].dying
          \/ u'[p].pc = "rsleep" /\ SameCall(u'[p], u[p]) /\ sleeps
  <3>1. "rsleep" \in PCs /\ "none" \in Errors  BY DEF PCs, Errors
  <3>2. CASE sleeps  BY <2>6, <2>7, <3>1, <3>2, SleepStep
  <3>3. CASE ~sleeps  BY <2>6, <2>7, <3>1, <3>3, DoneStep
  <3> QED  BY <3>2, <3>3
 <2>9. /\ file' \in [Files -> FileRec]
       /\ \A g \in Files :
             /\ file'[g].count = file[g].count /\ file'[g].ino = file[g].ino
             /\ file'[g].flag = file[g].flag /\ (file[g].ino # i => file'[g].off = file[g].off)
       /\ file'[f].off = IF drained THEN 0 ELSE file[f].off
  <3>1. CASE drained
   <4>1. file' = [file EXCEPT ![f] = [file[f] EXCEPT !.off = 0]]  BY <2>6, <3>1
   <4>2. PICK s : s = [file[f] EXCEPT !.off = 0]  OBVIOUS
   <4>3. s \in FileRec /\ s.count = file[f].count /\ s.ino = i /\ s.flag = file[f].flag /\ s.off = 0
     BY <1>3, <4>2 DEF FileRec
   <4> QED  BY <1>3, <3>1, <4>1, <4>2, <4>3
  <3>2. CASE ~drained  BY <1>3, <2>6, <3>2
  <3> QED  BY <3>1, <3>2
 <2>10. /\ r \in InoRec /\ r.count = inode[i].count /\ r.lock = FALSE /\ r.want = FALSE
        /\ r.size = (IF drained THEN 0 ELSE inode[i].size)
        /\ r.wr = (IF drained THEN FALSE ELSE inode[i].wr)
        /\ r.rd = (IF sleeps THEN TRUE ELSE inode[i].rd)
  <3>1. PICK s : s = Freed(inode[i])  OBVIOUS
  <3>2. /\ s \in InoRec /\ s.count = inode[i].count /\ s.lock = FALSE /\ s.want = FALSE
        /\ s.size = inode[i].size /\ s.wr = inode[i].wr /\ s.rd = inode[i].rd
    BY <1>3, <3>1 DEF Freed, InoRec
  <3>3. /\ reset \in InoRec /\ reset.count = inode[i].count /\ reset.lock = FALSE /\ reset.want = FALSE
        /\ reset.size = (IF drained THEN 0 ELSE inode[i].size)
        /\ reset.wr = (IF drained THEN FALSE ELSE inode[i].wr)
        /\ reset.rd = inode[i].rd
   <4>1. reset = IF drained THEN [s EXCEPT !.size = 0, !.wr = FALSE] ELSE s  BY <2>4, <3>1
   <4>2. 0 \in 0 .. Blocks  BY Consts
   <4> QED  BY <3>2, <4>1, <4>2 DEF InoRec
  <3> QED  BY <2>5, <3>3 DEF InoRec
 <2>11. /\ inode' \in [Inos -> InoRec] /\ inode'[i] = r
        /\ \A j \in Inos : inode'[j].count = inode[j].count /\ (j # i => inode'[j] = inode[j])
   BY <1>3, <2>6, <2>10
 <2>12. TypeOK'  BY <1>2, <2>8, <2>9, <2>11, Types, TypeStep DEF IndInv
 <2>13. u'[p].pc \notin HoldPCs \cup LockPCs \cup MovePCs \cup {"wsleep"}
   BY <2>8 DEF HoldPCs, LockPCs, MovePCs
 <2>14. LockOK(i)' /\ AloneOK(i)'
   BY <1>1, <1>2, <1>3, <2>2, <2>7, <2>8, <2>10, <2>11, <2>13, Release
 <2>15. ReadersOK(i)'
  <3> SUFFICES ASSUME NEW q \in Procs, u'[q].pc = "rsleep", u'[q].ino = i
               PROVE  /\ inode'[i].rd /\ inode'[i].count = 2
                      /\ \A s \in Procs : ~(u'[s].pc \in MovePCs /\ u'[s].ino = i)
                      /\ file'[u'[q].f].off = inode'[i].size
    BY DEF ReadersOK
  <3>1. ASSUME q # p PROVE u[q].pc = "rsleep" /\ u[q].ino = i /\ u'[q].f = u[q].f
    BY <2>7, <2>8, <3>1, OtherPc, Classes DEF SameCall
  <3>2. inode[i].count = 2
   <4>1. CASE q = p  BY <1>3, <1>4, <2>3, <2>8, <4>1 DEF InoOK, SizeOK
   <4>2. CASE q # p  BY <1>4, <3>1, <4>2 DEF InoOK, ReadersOK
   <4> QED  BY <4>1, <4>2
  <3>3. u'[q].f = f
   <4>1. CASE q = p  BY <1>1, <2>8, <4>1 DEF SameCall
   <4>2. CASE q # p  BY <1>1, <1>2, <3>1, <4>2, NoReaders
   <4> QED  BY <4>1, <4>2
  <3>4. ASSUME NEW s \in Procs, u'[s].pc \in MovePCs, u'[s].ino = i PROVE FALSE
   <4>1. s # p  BY <2>13, <3>4
   <4>2. u[s].pc \in MovePCs /\ u[s].ino = i  BY <2>7, <2>8, <3>4, <4>1, OtherPc DEF SameCall
   <4> QED  BY <1>1, <1>2, <1>3, <3>2, <4>1, <4>2, AloneInside
  <3>5. sleeps  BY <2>3, <3>2
  <3>6. file'[f].off = inode'[i].size  BY <1>5, <1>7, <2>1, <2>9, <2>10, <2>11
  <3> QED  BY <2>10, <2>11, <3>2, <3>3, <3>4, <3>5, <3>6
 <2>16. WritersOK(i)'
  <3> SUFFICES ASSUME NEW q \in Procs, u'[q].pc = "wsleep", u'[q].ino = i
               PROVE  inode'[i].wr /\ inode'[i].count = 2 /\ inode'[i].size = PipSiz
    BY DEF WritersOK
  <3>1. q # p  BY <2>13
  <3>2. u[q].pc = "wsleep" /\ u[q].ino = i /\ q \notin W
    BY <2>7, <2>8, <3>1, OtherPc, Classes DEF SameCall
  <3>3. inode[i].wr /\ inode[i].count = 2 /\ inode[i].size = PipSiz
    BY <1>4, <3>2 DEF InoOK, WritersOK
  <3>4. ~drained  BY <2>2, <3>2, <3>3 DEF Writing
  <3> QED  BY <2>10, <2>11, <3>3, <3>4
 <2>17. InoOK(i)'
  <3>1. SizeOK(i)'  BY <1>4, <2>10, <2>11, Consts DEF InoOK, SizeOK
  <3> QED  BY <2>14, <2>15, <2>16, <3>1 DEF InoOK
 <2>18. \/ u'[p].pc = "user" /\ ~u'[p].dying
        \/ /\ u'[p].pc \in CallPCs /\ u'[p].f = u[p].f /\ u'[p].ino = i
           /\ u'[p].mode = u[p].mode /\ u'[p].dying = u[p].dying
           /\ u'[p].pc \in ReadPCs => u[p].mode = "r" /\ IsPipe(u[p].f)
           /\ u'[p].pc \in WritePCs => u[p].mode = "w" /\ IsPipe(u[p].f)
           /\ u'[p].pc \in FilePCs => ~IsPipe(u[p].f)
           /\ MoveOK(p)'
   BY <1>1, <1>3, <2>8, ThePcs, Moving DEF SameCall, WritePCs, FilePCs
 <2> QED  BY <1>1, <1>2, <2>7, <2>8, <2>9, <2>11, <2>12, <2>17, <2>18, CallStep
<1> QED  BY <1>6, <1>7
LEMMA FreedType ==
  ASSUME NEW r \in InoRec
  PROVE  /\ Freed(r) \in InoRec /\ Freed(r).lock = FALSE /\ Freed(r).want = FALSE
         /\ Freed(r).count = r.count /\ Freed(r).size = r.size /\ Freed(r).rd = r.rd /\ Freed(r).wr = r.wr
  BY DEF Freed, InoRec

LEMMA WritePStep ==
  ASSUME IndInv, NEW p \in Procs, WriteP(p)
  PROVE  IndInv'
<1>1. PICK i : i = u[p].ino  OBVIOUS
<1>2. /\ u[p].pc = "writep" /\ u[p].pc \in CallPCs /\ u[p].pc \in HoldPCs /\ u[p].pc \notin MovePCs
      /\ UNCHANGED <<fds, file, faults, hist>>
  BY ThePcs DEF WriteP, HoldPCs, MovePCs
<1>3. /\ u \in [Procs -> URec] /\ u[p] \in URec /\ inode \in [Inos -> InoRec]
      /\ i \in Inos /\ i \in Pipes /\ inode[i].count \in Nat /\ inode[i] \in InoRec
      /\ u[p].mode = "w" /\ IsPipe(u[p].f)
  BY <1>1, <1>2, Types, CallFile, ThePcs DEF IndInv
<1>4. InoOK(i)  BY <1>3 DEF IndInv, InoInv
<1>5. Waiters(i) \in SUBSET Procs /\ \A q \in Waiters(i) : u[q].pc \in SleepPCs  BY <1>3, Sleepers
<1>6. ASSUME NEW r \in InoRec, inode' = [inode EXCEPT ![i] = r], r.lock = FALSE,
             r.count = inode[i].count, r.size = inode[i].size, r.rd = inode[i].rd,
             inode[i].wr => r.wr,
             u' \in [Procs -> URec], After(p, Waiters(i)), cpu' = NoProc, sig' \subseteq Procs,
             \/ u'[p].pc = "user" /\ ~u'[p].dying
             \/ /\ u'[p].pc = "wsleep" /\ SameCall(u'[p], u[p])
                /\ r.wr /\ inode[i].count = 2 /\ inode[i].size = PipSiz
      PROVE  IndInv'
 <2>1. /\ inode' \in [Inos -> InoRec] /\ inode'[i] = r
       /\ \A j \in Inos : inode'[j].count = inode[j].count /\ (j # i => inode'[j] = inode[j])
   BY <1>3, <1>6
 <2>2. TypeOK'  BY <1>2, <1>6, <2>1, Types, TypeStep DEF IndInv
 <2>3. u'[p].pc \notin HoldPCs \cup LockPCs \cup MovePCs \cup {"rsleep"}
   BY <1>6 DEF HoldPCs, LockPCs, MovePCs
 <2>4. LockOK(i)' /\ AloneOK(i)'  BY <1>1, <1>2, <1>3, <1>5, <1>6, <2>1, <2>3, Release
 <2>5. ReadersOK(i)' /\ WritersOK(i)' /\ SizeOK(i)'
   BY <1>1, <1>2, <1>3, <1>5, <1>6, <2>1, <2>3, SleepersKept
 <2>6. InoOK(i)'  BY <2>4, <2>5 DEF InoOK
 <2>7. \/ u'[p].pc = "user" /\ ~u'[p].dying
       \/ /\ u'[p].pc \in CallPCs /\ u'[p].f = u[p].f /\ u'[p].ino = i
          /\ u'[p].mode = u[p].mode /\ u'[p].dying = u[p].dying
          /\ u'[p].pc \in ReadPCs => u[p].mode = "r" /\ IsPipe(u[p].f)
          /\ u'[p].pc \in WritePCs => u[p].mode = "w" /\ IsPipe(u[p].f)
          /\ u'[p].pc \in FilePCs => ~IsPipe(u[p].f)
          /\ MoveOK(p)'
   BY <1>1, <1>3, <1>6, ThePcs, Moving DEF SameCall, ReadPCs, FilePCs
 <2> QED  BY <1>1, <1>2, <1>5, <1>6, <2>1, <2>2, <2>6, <2>7, CallStep
<1>7. PICK r : r = Freed(inode[i])  OBVIOUS
<1>8. /\ r \in InoRec /\ r.lock = FALSE /\ r.want = FALSE /\ r.count = inode[i].count
      /\ r.size = inode[i].size /\ r.rd = inode[i].rd /\ r.wr = inode[i].wr
  BY <1>3, <1>7, FreedType
<1>9. PICK room : room = PipSiz - inode[i].size  OBVIOUS
<1>10. CASE u[p].count = 0
 <2>1. inode' = [inode EXCEPT ![i] = r] /\ Done(p, u[p].err, Woken(Waiters(i))) /\ sig' = sig
   BY <1>1, <1>7, <1>10 DEF WriteP
 <2>2. u[p].err \in Errors /\ sig \subseteq Procs  BY <1>3, Types DEF URec, IndInv
 <2>3. u' \in [Procs -> URec] /\ After(p, Waiters(i)) /\ cpu' = NoProc /\ u'[p].pc = "user" /\ ~u'[p].dying
   BY <1>5, <2>1, <2>2, DoneStep
 <2> QED  BY <1>6, <1>8, <2>1, <2>2, <2>3
<1>11. CASE u[p].count # 0 /\ inode[i].count < 2
 <2>1. /\ inode' = [inode EXCEPT ![i] = r] /\ Done(p, "EPIPE", Woken(Waiters(i)))
       /\ sig' = sig \cup {p}
   BY <1>1, <1>7, <1>11 DEF WriteP
 <2>2. "EPIPE" \in Errors /\ sig \subseteq Procs  BY Types DEF Errors, IndInv
 <2>3. u' \in [Procs -> URec] /\ After(p, Waiters(i)) /\ cpu' = NoProc /\ u'[p].pc = "user" /\ ~u'[p].dying
   BY <1>5, <2>1, <2>2, DoneStep
 <2> QED  BY <1>6, <1>8, <2>1, <2>2, <2>3
<1>12. CASE u[p].count # 0 /\ ~(inode[i].count < 2) /\ room = 0
 <2>1. PICK s : s = [r EXCEPT !.wr = TRUE]  OBVIOUS
 <2>2. /\ s \in InoRec /\ s.lock = FALSE /\ s.count = inode[i].count
       /\ s.size = inode[i].size /\ s.rd = inode[i].rd /\ s.wr
   BY <1>8, <2>1 DEF InoRec
 <2>3. /\ inode' = [inode EXCEPT ![i] = s] /\ Sleep(p, "wsleep", Woken(Waiters(i))) /\ sig' = sig
  <3>1. /\ inode' = [[inode EXCEPT ![i] = Freed(@)] EXCEPT ![i].wr = TRUE]
        /\ Sleep(p, "wsleep", Woken(Waiters(i))) /\ sig' = sig
    BY <1>1, <1>9, <1>12 DEF WriteP
  <3>2. [inode EXCEPT ![i] = Freed(@)] = [inode EXCEPT ![i] = r]  BY <1>7
  <3>3. [[inode EXCEPT ![i] = r] EXCEPT ![i].wr = TRUE] = [inode EXCEPT ![i] = s]  BY <1>3, <2>1
  <3> QED  BY <3>1, <3>2, <3>3
 <2>4. /\ u' \in [Procs -> URec] /\ After(p, Waiters(i)) /\ cpu' = NoProc
       /\ \/ u'[p].pc = "user" /\ ~u'[p].dying
          \/ u'[p].pc = "wsleep" /\ SameCall(u'[p], u[p])
   BY <1>5, <2>3, ThePcs, SleepStep
 <2>5. inode[i].count = 2 /\ inode[i].size = PipSiz /\ sig \subseteq Procs
  <3>1. inode[i].size \in Nat  BY <1>3, Consts DEF InoRec
  <3>2. inode[i].count <= 2  BY <1>3, <1>4 DEF InoOK, SizeOK
  <3>3. sig \subseteq Procs  BY Types DEF IndInv
  <3> QED  BY <1>3, <1>9, <1>12, <3>1, <3>2, <3>3, Consts
 <2> QED  BY <1>6, <2>2, <2>3, <2>4, <2>5
<1>13. CASE u[p].count # 0 /\ ~(inode[i].count < 2) /\ room # 0
 <2>1. PICK piece : piece = IF u[p].count <= room THEN u[p].count ELSE room  OBVIOUS
 <2>2. PICK r2 : r2 = [u[p] EXCEPT !.pc = "io", !.off = inode[i].size, !.left = piece,
                                   !.count = u[p].count - piece]
   OBVIOUS
 <2>3. u' = [u EXCEPT ![p] = r2] /\ cpu' = p /\ inode' = inode /\ sig' = sig
   BY <1>1, <1>3, <1>9, <1>13, <2>1, <2>2 DEF WriteP
 <2>4. /\ inode[i].size \in Nat /\ room \in Nat /\ u[p].count \in Nat /\ piece \in Nat
       /\ u[p].count - piece \in Nat /\ inode[i].size + piece <= PipSiz
  <3>1. inode[i].size \in Nat /\ inode[i].size <= PipSiz /\ u[p].count \in Nat
    BY <1>3, <1>4, Consts DEF InoOK, SizeOK, InoRec, URec
  <3>2. room \in Nat /\ PipSiz \in Nat  BY <1>9, <3>1, Consts
  <3> QED  BY <1>9, <2>1, <3>1, <3>2
 <2>5. /\ r2 \in URec /\ r2.pc = "io" /\ r2.f = u[p].f /\ r2.ino = i /\ r2.mode = "w"
       /\ r2.dying = u[p].dying /\ r2.off = inode[i].size /\ r2.left = piece
   BY <1>1, <1>3, <2>2, <2>4 DEF URec, PCs
 <2>6. u' \in [Procs -> URec] /\ u'[p] = r2 /\ After(p, {})  BY <1>3, <2>3, <2>5, PlainStep
 <2>7. TypeOK'  BY <1>2, <2>3, <2>6, Types, TypeStep DEF IndInv
 <2>8. u'[p].pc = "io" /\ u'[p].pc \in HoldPCs /\ u'[p].pc \notin LockPCs
   BY <2>5, <2>6 DEF HoldPCs, LockPCs
 <2>9. LockOK(i)' /\ AloneOK(i)'  BY <1>1, <1>2, <1>3, <2>3, <2>5, <2>6, <2>8, Keep
 <2>10. ReadersOK(i)' /\ WritersOK(i)' /\ SizeOK(i)'
   BY <1>1, <1>2, <1>3, <2>3, <2>5, <2>6, <2>8, SleepersKept
 <2>11. InoOK(i)'  BY <2>9, <2>10 DEF InoOK
 <2>12. MoveOK(p)'  BY <1>2, <1>3, <2>4, <2>5, <2>6 DEF MoveOK, IsPipe
 <2>13. u'[p].pc \in CallPCs /\ u'[p].pc \notin ReadPCs \cup WritePCs \cup FilePCs
   BY <2>8 DEF CallPCs, MovePCs, ReadPCs, WritePCs, FilePCs
 <2> QED  BY <1>1, <1>2, <1>3, <2>3, <2>5, <2>6, <2>7, <2>11, <2>12, <2>13, CallStep
<1> QED  BY <1>10, <1>11, <1>12, <1>13
\* For an inode that is no pipe there is its lock only
LEMMA NoPipe ==
  ASSUME IndInv, NEW i \in Inos \ Pipes, NEW p \in Procs, NEW W \in SUBSET Procs,
         \A q \in W : u[q].pc \in SleepPCs, After(p, W),
         u'[p].ino = i => u'[p].pc \notin {"rsleep", "wsleep"}, LockOK(i)'
  PROVE  InoOK(i)'
<1>1. ASSUME NEW q \in Procs, u'[q].pc \in {"rsleep", "wsleep"}, u'[q].ino = i PROVE FALSE
 <2>1. q # p /\ u'[q].pc \in SleepPCs  BY <1>1, Classes
 <2>2. u[q].pc = u'[q].pc /\ u[q].ino = i  BY <1>1, <2>1, OtherPc DEF SameCall
 <2> QED  BY <1>1, <2>2, PipeSleeper
<1>2. AloneOK(i)' /\ SizeOK(i)'  BY DEF AloneOK, SizeOK
<1>3. ReadersOK(i)' /\ WritersOK(i)'  BY <1>1 DEF ReadersOK, WritersOK
<1> QED  BY <1>2, <1>3 DEF InoOK

LEMMA NFlockStep ==
  ASSUME IndInv, NEW p \in Procs, NFlock(p)
  PROVE  IndInv'
<1>1. PICK i : i = u[p].ino  OBVIOUS
<1>2. /\ u[p].pc = "flock" /\ u[p].pc \in CallPCs /\ u[p].pc \notin HoldPCs
      /\ UNCHANGED <<fds, file, sig, faults, hist>>
  BY ThePcs DEF NFlock, HoldPCs
<1>3. /\ u \in [Procs -> URec] /\ u[p] \in URec /\ inode \in [Inos -> InoRec]
      /\ file \in [Files -> FileRec]
      /\ i \in Inos \ Pipes /\ inode[i] \in InoRec /\ ~IsPipe(u[p].f)
      /\ u[p].f \in Files /\ file[u[p].f] \in FileRec
  BY <1>1, <1>2, Types, CallFile, ThePcs DEF IndInv
<1>4. ASSUME NEW r \in InoRec, inode' = [inode EXCEPT ![i] = r],
             r.count = inode[i].count, inode[i].want => r.want,
             u' \in [Procs -> URec], After(p, {}), cpu' \in Procs \cup {NoProc},
             u'[p].pc \in {"flockw", "io"}, u'[p].f = u[p].f, u'[p].ino = i, u'[p].mode = u[p].mode,
             u'[p].dying = u[p].dying, u'[p].left = u[p].left, u'[p].count = u[p].count,
             LockOK(i)'
      PROVE  IndInv'
 <2>1. /\ inode' \in [Inos -> InoRec] /\ inode'[i] = r
       /\ \A j \in Inos : inode'[j].count = inode[j].count /\ (j # i => inode'[j] = inode[j])
   BY <1>3, <1>4
 <2>2. TypeOK'  BY <1>2, <1>4, <2>1, Types, TypeStep DEF IndInv
 <2>3. InoOK(i)'  BY <1>3, <1>4, NoPipe
 <2>4. MoveOK(p)'
  <3>1. u[p].left <= u[p].count  BY <1>2, <1>3, ThePcs DEF IndInv, ProcInv, ProcOK, MoveOK
  <3> QED  BY <1>2, <1>3, <1>4, <3>1 DEF MoveOK, IsPipe
 <2>5. u'[p].pc \in CallPCs /\ u'[p].pc \notin ReadPCs \cup WritePCs
   BY <1>4 DEF CallPCs, FilePCs, MovePCs, ReadPCs, WritePCs
 <2> QED  BY <1>1, <1>2, <1>3, <1>4, <2>1, <2>2, <2>3, <2>4, <2>5, CallStep
<1>5. CASE inode[i].lock
 <2>1. PICK r : r = [inode[i] EXCEPT !.want = TRUE]  OBVIOUS
 <2>2. r \in InoRec /\ r.count = inode[i].count /\ r.want /\ r.lock = inode[i].lock
   BY <1>3, <2>1 DEF InoRec
 <2>3. /\ inode' = [inode EXCEPT ![i] = r] /\ cpu' = NoProc
       /\ u' = [u EXCEPT ![p] = [u[p] EXCEPT !.pc = "flockw"]]
   BY <1>1, <1>3, <1>5, <2>1 DEF NFlock, Locked
 <2>4. u' \in [Procs -> URec] /\ After(p, {}) /\ u'[p].pc = "flockw" /\ SameCall(u'[p], u[p])
  <3>1. "flockw" \in PCs  BY DEF PCs
  <3> QED  BY <1>3, <2>3, <3>1, WokenNone, GoesStep
 <2>5. LockOK(i)'
  <3>1. u'[p].pc \notin HoldPCs  BY <2>4 DEF HoldPCs
  <3>2. inode'[i] = r  BY <1>3, <2>3
  <3> QED  BY <1>2, <1>3, <1>5, <2>2, <2>4, <3>1, <3>2, Keep
 <2> QED  BY <1>1, <1>4, <2>2, <2>3, <2>4, <2>5 DEF SameCall
<1>6. CASE ~inode[i].lock
 <2>1. PICK r : r = [inode[i] EXCEPT !.lock = TRUE]  OBVIOUS
 <2>2. r \in InoRec /\ r.count = inode[i].count /\ r.want = inode[i].want /\ r.lock
   BY <1>3, <2>1 DEF InoRec
 <2>3. PICK s : s = [u[p] EXCEPT !.pc = "io", !.off = file[u[p].f].off]  OBVIOUS
 <2>4. /\ inode' = [inode EXCEPT ![i] = r] /\ cpu' = p
       /\ u' = [u EXCEPT ![p] = s]
   BY <1>1, <1>3, <1>6, <2>1, <2>3 DEF NFlock, Locked
 <2>5. /\ s \in URec /\ s.pc = "io" /\ s.f = u[p].f /\ s.ino = i /\ s.mode = u[p].mode
       /\ s.dying = u[p].dying /\ s.left = u[p].left /\ s.count = u[p].count
  <3>1. file[u[p].f].off \in Nat /\ "io" \in PCs  BY <1>3 DEF FileRec, PCs
  <3> QED  BY <1>1, <1>3, <2>3, <3>1 DEF URec
 <2>6. u' \in [Procs -> URec] /\ u'[p] = s /\ After(p, {})  BY <1>3, <2>4, <2>5, PlainStep
 <2>7. LockOK(i)'
  <3>1. u'[p].pc \in HoldPCs  BY <2>5, <2>6 DEF HoldPCs
  <3>2. inode'[i] = r  BY <1>3, <2>4
  <3> QED  BY <1>3, <1>6, <2>2, <2>5, <2>6, <3>1, <3>2, Acquire
 <2> QED  BY <1>4, <2>2, <2>4, <2>5, <2>6, <2>7
<1> QED  BY <1>5, <1>6
\* Inside the transfer
LEMMA Transfer ==
  ASSUME IndInv, NEW p \in Procs, u[p].pc \in MovePCs
  PROVE  /\ u[p].pc \in CallPCs /\ u[p].pc \in HoldPCs /\ u[p].pc \notin SleepPCs
         /\ u[p].pc \notin ReadPCs \cup WritePCs \cup FilePCs
         /\ u[p] \in URec /\ u[p].ino \in Inos /\ inode[u[p].ino] \in InoRec /\ hist[u[p].ino] \in HistRec
         /\ u[p].f \in Files /\ file[u[p].f] \in FileRec
         /\ u[p].off \in Nat /\ u[p].left \in Nat /\ u[p].count \in Nat
         /\ inode[u[p].ino].size \in 0 .. Blocks
         /\ ~IsPipe(u[p].f) => u[p].left <= u[p].count
         /\ u[p].mode = "w" /\ IsPipe(u[p].f) => u[p].off + u[p].left <= PipSiz
         /\ u[p].pc = "move" => u[p].off < Blocks /\ u[p].left > 0
         /\ InoOK(u[p].ino)
<1>1. /\ u[p].pc \in CallPCs /\ u[p].pc \in HoldPCs /\ u[p].pc \notin SleepPCs
      /\ u[p].pc \notin ReadPCs \cup WritePCs \cup FilePCs
  BY DEF CallPCs, HoldPCs, SleepPCs, MovePCs, ReadPCs, WritePCs, FilePCs
<1>2. u[p].ino \in Inos /\ u[p].f \in Files  BY <1>1, CallFile
<1>3. /\ u[p] \in URec /\ inode[u[p].ino] \in InoRec /\ hist[u[p].ino] \in HistRec
      /\ file[u[p].f] \in FileRec
  BY <1>2, Types DEF IndInv
<1>4. /\ u[p].off \in Nat /\ u[p].left \in Nat /\ u[p].count \in Nat
      /\ inode[u[p].ino].size \in 0 .. Blocks
  BY <1>3 DEF URec, InoRec
<1>5. MoveOK(p) /\ InoOK(u[p].ino)  BY <1>2 DEF IndInv, ProcInv, ProcOK, InoInv
<1> QED  BY <1>1, <1>2, <1>3, <1>4, <1>5 DEF MoveOK

\* A step of the transfer that leaves the inode alone
LEMMA TransferStep ==
  ASSUME IndInv, NEW p \in Procs, u[p].pc \in MovePCs, u' \in [Procs -> URec], After(p, {}),
         u'[p].pc \in MovePCs, u'[p].f = u[p].f, u'[p].ino = u[p].ino, u'[p].mode = u[p].mode,
         u'[p].dying = u[p].dying, MoveOK(p)', cpu' \in Procs \cup {NoProc},
         UNCHANGED <<fds, file, inode, sig>>, faults' \in 0 .. MaxFaults, hist' \in [Inos -> HistRec]
  PROVE  IndInv'
<1>1. PICK i : i = u[p].ino  OBVIOUS
<1>2. TypeOK'  BY Types, TypeStep DEF IndInv
<1>3. u'[p].pc \in CallPCs /\ u'[p].pc \in HoldPCs /\ u'[p].pc \notin SleepPCs
      /\ u'[p].pc \notin ReadPCs \cup WritePCs \cup FilePCs
  BY DEF CallPCs, HoldPCs, SleepPCs, MovePCs, ReadPCs, WritePCs, FilePCs
<1>4. u[p].pc \in CallPCs /\ u[p].pc \in HoldPCs /\ i \in Inos  BY <1>1, Transfer
<1>5. InoOK(i)'  BY <1>1, <1>3, <1>4, SameInode DEF IndInv
<1> QED  BY <1>1, <1>2, <1>3, <1>4, <1>5, CallStep

LEMMA IoStartStep ==
  ASSUME IndInv, NEW p \in Procs, IoStart(p)
  PROVE  IndInv'
<1>1. /\ u[p].pc = "io" /\ u[p].pc \in MovePCs /\ cpu' \in Procs \cup {NoProc}
      /\ UNCHANGED <<fds, file, inode, sig, faults, hist>>
      /\ u[p].left > 0
      /\ IF u[p].mode = "r" THEN ~AtEnd(p) ELSE u[p].off < Blocks
  BY ThePcs DEF IoStart, More
<1>2. u \in [Procs -> URec] /\ faults \in 0 .. MaxFaults /\ hist \in [Inos -> HistRec]
  BY Types DEF IndInv
<1>3. /\ u' \in [Procs -> URec] /\ After(p, {}) /\ u'[p].pc = "move" /\ SameCall(u'[p], u[p])
 <2>1. u' = [u EXCEPT ![p] = [u[p] EXCEPT !.pc = "move"]] /\ "move" \in PCs  BY DEF IoStart, PCs
 <2> QED  BY <1>2, <2>1, WokenNone, GoesStep
<1>4. u[p].off < Blocks
 <2>1. inode[u[p].ino].size \in 0 .. Blocks /\ u[p].off \in Nat  BY <1>1, Transfer
 <2>2. u[p].mode = "r" => u[p].off < inode[u[p].ino].size
  <3>1. AtEnd(p) <=> (u[p].off >= inode[u[p].ino].size \/ Block(p) = 0)  BY DEF AtEnd
  <3> QED  BY <1>1, <2>1, <3>1
 <2> QED  BY <1>1, <2>1, <2>2, Consts
<1>5. MoveOK(p)'  BY <1>1, <1>3, <1>4, Transfer DEF MoveOK, SameCall, IsPipe, FilePCs
<1> QED  BY <1>1, <1>2, <1>3, <1>5, ThePcs, TransferStep DEF SameCall

LEMMA IoFullStep ==
  ASSUME IndInv, NEW p \in Procs, IoFull(p)
  PROVE  IndInv'
<1>1. /\ u[p].pc = "io" /\ u[p].pc \in MovePCs /\ cpu' \in Procs \cup {NoProc}
      /\ UNCHANGED <<fds, file, inode, sig, hist>>
      /\ u' = [u EXCEPT ![p].err = "ENOSPC"]
  BY ThePcs DEF IoFull
<1>2. u \in [Procs -> URec] /\ u[p] \in URec /\ hist \in [Inos -> HistRec]  BY Types DEF IndInv
<1>3. faults' \in 0 .. MaxFaults
 <2>1. faults \in 0 .. MaxFaults /\ MaxFaults \in Nat  BY Types, Consts DEF IndInv
 <2>2. /\ u[p].off < Blocks => faults < MaxFaults
       /\ faults' = faults + (IF u[p].off < Blocks THEN 1 ELSE 0)
   BY DEF IoFull
 <2>3. CASE u[p].off < Blocks  BY <2>1, <2>2, <2>3
 <2>4. CASE ~(u[p].off < Blocks)  BY <2>1, <2>2, <2>4
 <2> QED  BY <2>3, <2>4
<1>4. PICK r : r = [u[p] EXCEPT !.err = "ENOSPC"]  OBVIOUS
<1>5. /\ r \in URec /\ r.pc = "io" /\ r.f = u[p].f /\ r.ino = u[p].ino /\ r.mode = u[p].mode
      /\ r.dying = u[p].dying /\ r.left = u[p].left /\ r.count = u[p].count /\ r.off = u[p].off
  BY <1>1, <1>2, <1>4 DEF URec, Errors
<1>6. u' \in [Procs -> URec] /\ u'[p] = r /\ After(p, {})
 <2>1. u' = [u EXCEPT ![p] = r]  BY <1>1, <1>4
 <2> QED  BY <1>2, <1>5, <2>1, PlainStep
<1>7. MoveOK(p)'  BY <1>1, <1>5, <1>6, Transfer DEF MoveOK, IsPipe, FilePCs
<1> QED  BY <1>1, <1>2, <1>3, <1>5, <1>6, <1>7, TransferStep
LEMMA IoMoveStep ==
  ASSUME IndInv, NEW p \in Procs, IoMove(p)
  PROVE  IndInv'
<1>1. PICK i, k : i = u[p].ino /\ k = u[p].off  OBVIOUS
<1>2. /\ u[p].pc = "move" /\ u[p].pc \in MovePCs /\ cpu' \in Procs \cup {NoProc}
      /\ UNCHANGED <<fds, file, sig, faults>>
      /\ u' = [u EXCEPT ![p] = [u[p] EXCEPT !.pc = "io", !.off = k + 1, !.left = u[p].left - 1]]
  BY <1>1, ThePcs DEF IoMove
<1>3. /\ u \in [Procs -> URec] /\ inode \in [Inos -> InoRec] /\ hist \in [Inos -> HistRec]
      /\ faults \in 0 .. MaxFaults
  BY Types DEF IndInv
<1>4. /\ i \in Inos /\ inode[i] \in InoRec /\ hist[i] \in HistRec /\ u[p] \in URec /\ InoOK(i)
      /\ k \in Nat /\ k < Blocks /\ u[p].left \in Nat /\ u[p].left > 0 /\ u[p].count \in Nat
      /\ inode[i].size \in 0 .. Blocks /\ Blocks \in Nat
      /\ ~IsPipe(u[p].f) => u[p].left <= u[p].count
      /\ u[p].mode = "w" /\ IsPipe(u[p].f) => k + u[p].left <= PipSiz
  BY <1>1, <1>2, Transfer, Consts
<1>5. PICK r : r = [u[p] EXCEPT !.pc = "io", !.off = k + 1, !.left = u[p].left - 1]  OBVIOUS
<1>6. /\ r \in URec /\ r.pc = "io" /\ r.f = u[p].f /\ r.ino = i /\ r.mode = u[p].mode
      /\ r.dying = u[p].dying /\ r.left = u[p].left - 1 /\ r.count = u[p].count /\ r.off = k + 1
 <2>1. k + 1 \in Nat /\ u[p].left - 1 \in Nat /\ "io" \in PCs  BY <1>4 DEF PCs
 <2> QED  BY <1>1, <1>4, <1>5, <2>1 DEF URec
<1>7. u' \in [Procs -> URec] /\ u'[p] = r /\ After(p, {})  BY <1>2, <1>3, <1>5, <1>6, PlainStep
<1>8. MoveOK(p)'
 <2>1. IsPipe(u[p].f)' <=> IsPipe(u[p].f)  BY <1>2 DEF IsPipe
 <2> QED  BY <1>2, <1>4, <1>6, <1>7, <2>1 DEF MoveOK, IsPipe, FilePCs
<1>9. u'[p].pc \in MovePCs /\ u'[p].pc \in HoldPCs /\ u'[p].pc \notin SleepPCs
  BY <1>6, <1>7 DEF MovePCs, HoldPCs, SleepPCs
<1>10. CASE u[p].mode = "r"
 <2>1. /\ hist' = [hist EXCEPT ![i].got = Append(@, inode[i].data[k])]
       /\ inode' = inode
   BY <1>1, <1>10 DEF IoMove
 <2>2. inode[i].data[k] \in Nat  BY <1>4 DEF InoRec
 <2>3. hist' \in [Inos -> HistRec]
  <3>1. hist[i].got \in Seq(Nat)  BY <1>4 DEF HistRec
  <3>2. Append(hist[i].got, inode[i].data[k]) \in Seq(Nat)  BY <2>2, <3>1
  <3>3. PICK h : h = [hist[i] EXCEPT !.got = Append(hist[i].got, inode[i].data[k])]  OBVIOUS
  <3>4. h \in HistRec  BY <1>4, <3>2, <3>3 DEF HistRec
  <3>5. hist' = [hist EXCEPT ![i] = h]  BY <2>1, <3>3
  <3> QED  BY <1>3, <3>4, <3>5
 <2> QED  BY <1>1, <1>2, <1>3, <1>6, <1>7, <1>8, <1>9, <2>1, <2>3, TransferStep
<1>11. CASE u[p].mode # "r"
 <2>1. u[p].mode = "w"  BY <1>4, <1>11 DEF URec
 <2>2. PICK size : size = IF inode[i].size < k + 1 THEN k + 1 ELSE inode[i].size  OBVIOUS
 <2>3. PICK s : s = [inode[i] EXCEPT !.data[k] = hist[i].sent + 1, !.size = size]  OBVIOUS
 <2>4. /\ inode' = [inode EXCEPT ![i] = s]
       /\ hist' = [hist EXCEPT ![i].sent = @ + 1]
   BY <1>1, <1>3, <1>4, <1>11, <2>2, <2>3 DEF IoMove
 <2>5. size \in 0 .. Blocks /\ (i \in Pipes /\ inode[i].size = PipSiz => size = PipSiz)
       /\ (i \in Pipes /\ inode[i].size <= PipSiz => size <= PipSiz)
  <3>1. i \in Pipes => IsPipe(u[p].f)  BY <1>1, <1>2, ThePcs, CallFile
  <3> QED  BY <1>4, <2>1, <2>2, <3>1, Consts
 <2>6. /\ s \in InoRec /\ s.count = inode[i].count /\ s.lock = inode[i].lock /\ s.want = inode[i].want
       /\ s.size = size /\ s.rd = inode[i].rd /\ s.wr = inode[i].wr
  <3>1. hist[i].sent + 1 \in Nat  BY <1>4 DEF HistRec
  <3>2. PICK d : d = [inode[i].data EXCEPT ![k] = hist[i].sent + 1]  OBVIOUS
  <3>3. d \in [0 .. Blocks - 1 -> Nat]  BY <1>4, <3>1, <3>2 DEF InoRec
  <3>4. s = [inode[i] EXCEPT !.data = d, !.size = size]  BY <2>3, <3>2
  <3> QED  BY <1>4, <2>5, <3>3, <3>4 DEF InoRec
 <2>7. /\ inode' \in [Inos -> InoRec] /\ inode'[i] = s
       /\ \A j \in Inos : inode'[j].count = inode[j].count /\ (j # i => inode'[j] = inode[j])
   BY <1>3, <1>4, <2>4, <2>6
 <2>8. hist' \in [Inos -> HistRec]
  <3>1. PICK h : h = [hist[i] EXCEPT !.sent = hist[i].sent + 1]  OBVIOUS
  <3>2. h \in HistRec
   <4>1. PICK n : n = hist[i].sent + 1  OBVIOUS
   <4>2. n \in Nat  BY <1>4, <4>1 DEF HistRec
   <4>3. h = [hist[i] EXCEPT !.sent = n]  BY <3>1, <4>1
   <4> QED  BY <1>4, <4>2, <4>3 DEF HistRec
  <3>3. hist' = [hist EXCEPT ![i] = h]  BY <2>4, <3>1
  <3> QED  BY <1>3, <3>2, <3>3
 <2>9. TypeOK'  BY <1>2, <1>7, <2>7, <2>8, Types, TypeStep DEF IndInv
 <2>10. LockOK(i)' /\ AloneOK(i)'
  <3>1. u[p].pc \in HoldPCs /\ u'[p].pc \notin LockPCs  BY <1>2, <1>9, Classes, Transfer
  <3> QED  BY <1>1, <1>4, <1>6, <1>7, <1>9, <2>6, <2>7, <3>1, Keep
 <2>11. ReadersOK(i)'
  <3> SUFFICES ASSUME NEW q \in Procs, u'[q].pc = "rsleep", u'[q].ino = i
               PROVE  /\ inode'[i].rd /\ inode'[i].count = 2
                      /\ \A t \in Procs : u'[t].pc \in MovePCs /\ u'[t].ino = i => u'[t].mode = "w"
    BY <1>1, <1>6, <1>7, <1>9 DEF ReadersOK
  <3>1. q # p  BY <1>6, <1>7
  <3>2. u[q].pc = "rsleep" /\ u[q].ino = i  BY <1>7, <3>1, OtherPc, Classes DEF SameCall
  <3>3. inode[i].rd /\ inode[i].count = 2
        /\ \A t \in Procs : u[t].pc \in MovePCs /\ u[t].ino = i => u[t].mode = "w"
    BY <1>4, <3>2 DEF InoOK, ReadersOK
  <3>4. ASSUME NEW t \in Procs, u'[t].pc \in MovePCs, u'[t].ino = i PROVE u'[t].mode = "w"
   <4>1. CASE t = p  BY <1>6, <1>7, <2>1, <4>1
   <4>2. CASE t # p  BY <1>7, <3>3, <3>4, <4>2, OtherPc DEF SameCall
   <4> QED  BY <4>1, <4>2
  <3> QED  BY <2>6, <2>7, <3>3, <3>4
 <2>12. WritersOK(i)'
  <3> SUFFICES ASSUME NEW q \in Procs, u'[q].pc = "wsleep", u'[q].ino = i
               PROVE  inode'[i].wr /\ inode'[i].count = 2 /\ inode'[i].size = PipSiz
    BY DEF WritersOK
  <3>1. q # p  BY <1>6, <1>7
  <3>2. u[q].pc = "wsleep" /\ u[q].ino = i  BY <1>7, <3>1, OtherPc, Classes DEF SameCall
  <3>3. i \in Pipes /\ inode[i].wr /\ inode[i].count = 2 /\ inode[i].size = PipSiz
    BY <1>4, <3>2, PipeSleeper DEF InoOK, WritersOK
  <3> QED  BY <2>5, <2>6, <2>7, <3>3
 <2>13. SizeOK(i)'  BY <1>4, <2>5, <2>6, <2>7 DEF InoOK, SizeOK
 <2>14. InoOK(i)'  BY <2>10, <2>11, <2>12, <2>13 DEF InoOK
 <2>15. u'[p].pc \in CallPCs /\ u'[p].pc \notin ReadPCs \cup WritePCs \cup FilePCs /\ u[p].pc \in CallPCs
   BY <1>2, <1>6, <1>7 DEF CallPCs, MovePCs, ReadPCs, WritePCs, FilePCs
 <2> QED  BY <1>1, <1>2, <1>6, <1>7, <1>8, <2>7, <2>9, <2>14, <2>15, CallStep
<1> QED  BY <1>10, <1>11

LEMMA IoEndStep ==
  ASSUME IndInv, NEW p \in Procs, IoEnd(p)
  PROVE  IndInv'
<1>1. PICK i, f : i = u[p].ino /\ f = u[p].f  OBVIOUS
<1>2. /\ u[p].pc = "io" /\ u[p].pc \in MovePCs /\ UNCHANGED <<fds, sig, faults, hist>>
  BY ThePcs DEF IoEnd
<1>3. /\ u \in [Procs -> URec] /\ inode \in [Inos -> InoRec] /\ file \in [Files -> FileRec]
      /\ sig \subseteq Procs
  BY Types DEF IndInv
<1>4. /\ i \in Inos /\ inode[i] \in InoRec /\ u[p] \in URec /\ InoOK(i)
      /\ f \in Files /\ file[f] \in FileRec /\ u[p].left \in Nat /\ u[p].count \in Nat /\ u[p].off \in Nat
      /\ ~IsPipe(f) => u[p].left <= u[p].count
      /\ u[p].pc \in CallPCs /\ u[p].pc \in HoldPCs /\ u[p].mode \in {"r", "w"}
      /\ file[f].ino = i /\ (IsPipe(f) <=> i \in Pipes)
  BY <1>1, <1>2, Transfer, CallFile
<1>5. PICK h \in BOOLEAN : h <=> Heard(p)
 <2>1. CASE Heard(p)  BY <2>1
 <2>2. CASE ~Heard(p)  BY <2>2
 <2> QED  BY <2>1, <2>2
<1>6. h <=> u[p].mode = "w" /\ IsPipe(f) /\ inode[i].rd  BY <1>1, <1>5 DEF Heard
<1>7. PICK W : W = Waiters(i) \cup (IF h THEN Reading(i) ELSE {})  OBVIOUS
<1>8. W \in SUBSET Procs /\ \A q \in W : u[q].pc \in SleepPCs  BY <1>4, <1>7, Sleepers
<1>9. PICK s : s = Freed(inode[i])  OBVIOUS
<1>10. PICK r : r = IF h THEN [s EXCEPT !.rd = FALSE] ELSE s  OBVIOUS
<1>11. /\ r \in InoRec /\ r.lock = FALSE /\ r.count = inode[i].count /\ r.size = inode[i].size
       /\ r.wr = inode[i].wr /\ (~h => r.rd = inode[i].rd)
 <2>1. /\ s \in InoRec /\ s.lock = FALSE /\ s.want = FALSE /\ s.count = inode[i].count
       /\ s.size = inode[i].size /\ s.rd = inode[i].rd /\ s.wr = inode[i].wr
   BY <1>4, <1>9, FreedType
 <2> QED  BY <1>10, <2>1 DEF InoRec
<1>12. inode' = [inode EXCEPT ![i] = r]  BY <1>1, <1>5, <1>9, <1>10 DEF IoEnd
<1>13. /\ inode' \in [Inos -> InoRec] /\ inode'[i] = r
       /\ \A j \in Inos : inode'[j].count = inode[j].count /\ (j # i => inode'[j] = inode[j])
  BY <1>3, <1>4, <1>11, <1>12
<1>14. /\ u' \in [Procs -> URec] /\ After(p, W) /\ cpu' \in Procs \cup {NoProc}
       /\ \/ u'[p].pc = "user" /\ ~u'[p].dying
          \/ u'[p].pc = "wlock" /\ SameCall(u'[p], u[p]) /\ u[p].mode = "w" /\ IsPipe(f)
       /\ file' \in [Files -> FileRec]
       /\ \A g \in Files :
             /\ file'[g].count = file[g].count /\ file'[g].ino = file[g].ino
             /\ file'[g].flag = file[g].flag /\ (file[g].ino # i => file'[g].off = file[g].off)
 <2>1. CASE u[p].mode = "w" /\ IsPipe(f)
  <3>1. /\ u' = [Woken(W) EXCEPT ![p] = [u[p] EXCEPT !.pc = "wlock"]] /\ cpu' = p /\ file' = file
    BY <1>1, <1>5, <1>7, <2>1 DEF IoEnd
  <3>2. "wlock" \in PCs  BY DEF PCs
  <3> QED  BY <1>3, <1>8, <2>1, <3>1, <3>2, GoesStep
 <2>2. CASE ~(u[p].mode = "w" /\ IsPipe(f))
  <3>1. PICK to : to = IF IsPipe(f) THEN u[p].off ELSE file[f].off + u[p].count - u[p].left  OBVIOUS
  <3>2. /\ file' = [file EXCEPT ![f].off = to] /\ Done(p, u[p].err, Woken(W))
    BY <1>1, <1>5, <1>7, <2>2, <3>1 DEF IoEnd
  <3>3. /\ u' \in [Procs -> URec] /\ After(p, W) /\ cpu' = NoProc /\ u'[p].pc = "user" /\ ~u'[p].dying
   <4>1. u[p].err \in Errors  BY <1>4 DEF URec
   <4> QED  BY <1>8, <3>2, <4>1, DoneStep
  <3>4. to \in Nat
   <4>1. file[f].off \in Nat  BY <1>4 DEF FileRec
   <4> QED  BY <1>4, <3>1, <4>1
  <3>5. PICK g : g = [file[f] EXCEPT !.off = to]  OBVIOUS
  <3>6. g \in FileRec /\ g.count = file[f].count /\ g.ino = i /\ g.flag = file[f].flag
    BY <1>4, <3>4, <3>5 DEF FileRec
  <3>7. file' = [file EXCEPT ![f] = g]  BY <3>2, <3>5
  <3> QED  BY <1>3, <1>4, <3>3, <3>6, <3>7
 <2> QED  BY <2>1, <2>2
<1>15. TypeOK'  BY <1>2, <1>13, <1>14, Types, TypeStep DEF IndInv
<1>16. u'[p].pc \notin HoldPCs \cup LockPCs \cup MovePCs \cup {"rsleep", "wsleep"}
  BY <1>14 DEF HoldPCs, LockPCs, MovePCs
<1>17. LockOK(i)' /\ AloneOK(i)'  BY <1>1, <1>4, <1>7, <1>8, <1>11, <1>13, <1>14, <1>16, Release
<1>18. ReadersOK(i)'
 <2>1. ASSUME NEW q \in Procs, u'[q].pc = "rsleep", u'[q].ino = i PROVE FALSE
  <3>1. q # p  BY <1>16, <2>1
  <3>2. u[q].pc = "rsleep" /\ u[q].ino = i /\ q \notin W
    BY <1>8, <1>14, <2>1, <3>1, OtherPc, Classes DEF SameCall
  <3>3. inode[i].rd /\ u[p].mode = "w" /\ i \in Pipes
    BY <1>1, <1>2, <1>4, <3>2, PipeSleeper DEF InoOK, ReadersOK
  <3> QED  BY <1>4, <1>6, <1>7, <3>2, <3>3 DEF Reading
 <2> QED  BY <2>1 DEF ReadersOK
<1>19. WritersOK(i)'
 <2>1. ASSUME NEW q \in Procs, u'[q].pc = "wsleep", u'[q].ino = i
       PROVE  u[q].pc = "wsleep" /\ u[q].ino = i
  <3>1. q # p  BY <1>16, <2>1
  <3> QED  BY <1>8, <1>14, <2>1, <3>1, OtherPc, Classes DEF SameCall
 <2> QED  BY <1>4, <1>11, <1>13, <2>1 DEF InoOK, WritersOK
<1>20. InoOK(i)'
 <2>1. SizeOK(i)'  BY <1>4, <1>11, <1>13 DEF InoOK, SizeOK
 <2> QED  BY <1>17, <1>18, <1>19, <2>1 DEF InoOK
<1>21. \/ u'[p].pc = "user" /\ ~u'[p].dying
       \/ /\ u'[p].pc \in CallPCs /\ u'[p].f = u[p].f /\ u'[p].ino = i
          /\ u'[p].mode = u[p].mode /\ u'[p].dying = u[p].dying
          /\ u'[p].pc \in ReadPCs => u[p].mode = "r" /\ IsPipe(u[p].f)
          /\ u'[p].pc \in WritePCs => u[p].mode = "w" /\ IsPipe(u[p].f)
          /\ u'[p].pc \in FilePCs => ~IsPipe(u[p].f)
          /\ MoveOK(p)'
  BY <1>1, <1>14, ThePcs, Moving DEF SameCall, ReadPCs, FilePCs
<1> QED  BY <1>1, <1>2, <1>4, <1>8, <1>13, <1>14, <1>15, <1>20, <1>21, CallStep
-----------------------------------------------------------------------------
(* Calls that leave descriptors and counts alone.                          *)

LEMMA KillStep ==
  ASSUME IndInv, NEW p \in Procs, NEW q \in Procs, Sys_Kill(p, q), faults' = faults
  PROVE  IndInv'
<1>1. PICK W : W = IF u[q].pc \in Breakable THEN {q} ELSE {}  OBVIOUS
<1>2. /\ u[p].pc = "user" /\ cpu = NoProc /\ sig' = sig \cup {q}
      /\ u' = [Woken(W) EXCEPT ![p] = Back("none")]
      /\ UNCHANGED <<fds, file, inode, cpu, hist>>
  BY <1>1 DEF Sys_Kill, CanCall
<1>3. W \in SUBSET Procs /\ \A r \in W : u[r].pc \in SleepPCs  BY <1>1 DEF Breakable, SleepPCs
<1>4. u \in [Procs -> URec] /\ "none" \in Errors  BY Types DEF IndInv, Errors
<1>5. /\ u' \in [Procs -> URec] /\ After(p, W) /\ u'[p].pc = "user" /\ ~u'[p].dying
  BY <1>2, <1>3, <1>4, BackType, WokenStep
<1>6. TypeOK'  BY <1>2, <1>5, Types, TypeStep DEF IndInv
<1> QED  BY <1>2, <1>3, <1>5, <1>6, Classes, UserStep

LEMMA SignalStep ==
  ASSUME IndInv, NEW p \in Procs, Signal(p)
  PROVE  IndInv'
<1>1. /\ u[p].pc = "user" /\ cpu = NoProc /\ sig' = sig \ {p}
      /\ UNCHANGED <<fds, file, inode, faults, hist>>
      /\ \/ u' = [u EXCEPT ![p] = Dying] /\ cpu' = p
         \/ u' = u /\ cpu' = cpu
  BY DEF Signal
<1>2. u \in [Procs -> URec] /\ ~u[p].dying  BY <1>1, Types DEF IndInv, ProcInv, ProcOK, GoneOK
<1>3. /\ u' \in [Procs -> URec] /\ After(p, {})
      /\ \/ u'[p].pc = "user" /\ ~u'[p].dying
         \/ u'[p].pc = "exit"
 <2>1. CASE u' = [u EXCEPT ![p] = Dying]  BY <1>2, <2>1, DyingType, PlainStep
 <2>2. CASE u' = u  BY <1>1, <1>2, <2>2 DEF After, SameCall
 <2> QED  BY <1>1, <2>1, <2>2
<1>4. TypeOK'  BY <1>1, <1>3, Types, TypeStep DEF IndInv
<1> QED  BY <1>1, <1>3, <1>4, Classes, UserStep

LEMMA RexitStep ==
  ASSUME IndInv, NEW p \in Procs, Sys_Rexit(p), faults' = faults
  PROVE  IndInv'
<1>1. /\ u[p].pc = "user" /\ u' = [u EXCEPT ![p] = Dying] /\ cpu' = p
      /\ UNCHANGED <<fds, file, inode, sig, hist, faults>>
  BY DEF Sys_Rexit, CanCall
<1>2. u \in [Procs -> URec]  BY Types DEF IndInv
<1>3. u' \in [Procs -> URec] /\ After(p, {}) /\ u'[p].pc = "exit"
  BY <1>1, <1>2, DyingType, PlainStep
<1>4. TypeOK'  BY <1>1, <1>3, Types, TypeStep DEF IndInv
<1> QED  BY <1>1, <1>3, <1>4, Classes, UserStep

LEMMA SeekStep ==
  ASSUME IndInv, NEW p \in Procs, NEW d \in Asked, NEW k \in 0 .. Blocks, NEW whence \in 0 .. 2,
         Sys_Seek(p, d, k, whence), faults' = faults
  PROVE  IndInv'
<1>1. PICK f : f = GetF(p, d)  OBVIOUS
<1>2. /\ CanCall(p) /\ u[p].pc = "user" /\ UNCHANGED <<fds, inode, sig, faults>>
  BY DEF Sys_Seek, CanCall
<1>3. CASE f = 0 \/ IsPipe(f)
 <2>1. PICK err \in {"EBADF", "ESPIPE"} : Done(p, err, u) /\ file' = file /\ hist' = hist
   BY <1>1, <1>3 DEF Sys_Seek
 <2>2. err \in Errors  BY DEF Errors
 <2> QED  BY <1>2, <2>1, <2>2, Refused
<1>4. CASE f # 0 /\ ~IsPipe(f)
 <2>1. PICK i, to : /\ i = file[f].ino
                    /\ to = k + (IF whence = 1 THEN file[f].off ELSE IF whence = 2 THEN inode[i].size ELSE 0)
   OBVIOUS
 <2>2. /\ file' = [file EXCEPT ![f].off = to]
       /\ hist' = [hist EXCEPT ![i].sought = TRUE]
       /\ Done(p, "none", u)
   BY <1>1, <1>4, <2>1 DEF Sys_Seek
 <2>3. /\ f \in Files /\ i \in Inos \ Pipes
       /\ u \in [Procs -> URec] /\ file \in [Files -> FileRec] /\ hist \in [Inos -> HistRec]
       /\ inode \in [Inos -> InoRec]
   BY <1>1, <1>4, <2>1, GetFType, Types DEF IndInv
 <2>4. to \in Nat
  <3>1. /\ file[f] \in FileRec /\ inode[i] \in InoRec /\ k \in Nat  BY <2>3, Consts
  <3>2. file[f].off \in Nat /\ inode[i].size \in Nat  BY <3>1, Consts DEF FileRec, InoRec
  <3> QED  BY <2>1, <3>1, <3>2
 <2>5. /\ file' \in [Files -> FileRec]
       /\ \A g \in Files :
             /\ file'[g].count = file[g].count /\ file'[g].ino = file[g].ino
             /\ file'[g].flag = file[g].flag /\ (file[g].ino # i => file'[g].off = file[g].off)
  <3>1. PICK g : g = [file[f] EXCEPT !.off = to]  OBVIOUS
  <3>2. g \in FileRec /\ g.count = file[f].count /\ g.ino = i /\ g.flag = file[f].flag
    BY <2>1, <2>3, <2>4, <3>1 DEF FileRec
  <3>3. file' = [file EXCEPT ![f] = g]  BY <2>2, <3>1
  <3> QED  BY <2>1, <2>3, <3>2, <3>3
 <2>6. hist' \in [Inos -> HistRec]
  <3>1. PICK h : h = [hist[i] EXCEPT !.sought = TRUE]  OBVIOUS
  <3>2. h \in HistRec  BY <2>3, <3>1 DEF HistRec
  <3>3. hist' = [hist EXCEPT ![i] = h]  BY <2>2, <3>1
  <3> QED  BY <2>3, <3>2, <3>3
 <2>7. /\ u' \in [Procs -> URec] /\ After(p, {}) /\ cpu' = NoProc
       /\ u'[p].pc = "user" /\ ~u'[p].dying
   BY <2>2, <2>3, WokenNone, DoneStep DEF Errors
 <2>8. TypeOK'  BY <1>2, <2>5, <2>6, <2>7, Types, TypeStep DEF IndInv
 <2>9. InoOK(i)'
  <3>1. LockOK(i)'  BY <1>2, <2>3, <2>7, Classes, Keep
  <3> QED  BY <2>3, <2>7, <3>1, NoPipe
 <2>10. CallOK(p)' /\ MoveOK(p)'
   BY <2>7 DEF CallOK, MoveOK, CallPCs, ReadPCs, WritePCs, FilePCs, MovePCs
 <2>11. Quiet(p, i, {})  BY <1>2, <2>3, <2>5, <2>7, Classes DEF Quiet
 <2> QED  BY <2>8, <2>9, <2>10, <2>11, QuietStep
<1> QED  BY <1>3, <1>4
-----------------------------------------------------------------------------
(* Descriptors taken and given back.                                       *)

Less == OpToRel(<, Nat)

LEMMA LeastIn ==
  ASSUME NEW S, S \subseteq Nat, S # {}
  PROVE  Least(S) \in S
<1>1. IsWellFoundedOn(Less, Nat)  BY NatLessThanWellFounded, Zenon DEF OpToRel, Less
<1>2. PICK m \in S : \A k \in S : <<k, m>> \notin Less  BY <1>1, WFMin, Zenon
<1>3. m \in Nat /\ \A k \in S : k \in Nat /\ ~(k < m)  BY <1>2 DEF Less, OpToRel
<1>4. \E x \in S : \A y \in S : x <= y  BY <1>2, <1>3
<1> QED  BY <1>4 DEF Least

LEMMA FreeTypes ==
  ASSUME NEW p \in Procs
  PROVE  FreeFds(p) \subseteq Fds /\ FreeFds(p) \subseteq Nat /\ FreeFiles \subseteq Files /\ FreeFiles \subseteq Nat
  BY Consts DEF FreeFds, FreeFiles

\* Who puts an inode is the only one that refers to it, and to the File
LEMMA PutAlone ==
  ASSUME IndInv, NEW q \in Procs, u[q].pc = "iput"
  PROVE  /\ u[q].ino \in Inos /\ inode[u[q].ino].count = 1 /\ u[q].f \in 0 .. NFile
         /\ u[q].f # 0 =>
               /\ u[q].f \in Files /\ file[u[q].f].count = 1 /\ file[u[q].f].ino = u[q].ino
               /\ \A p \in Procs, d \in Fds : fds[p][d] = u[q].f => p = q /\ u[q].dying /\ d = u[q].fd
               /\ \A p \in Procs : u[p].pc = "iput" /\ u[p].f = u[q].f => p = q
               /\ FilesOf(u[q].ino) = {u[q].f} /\ Losers(u[q].ino) = {}
         /\ u[q].f = 0 => /\ u[q].ino \in Pipes /\ ~u[q].dying
                          /\ FilesOf(u[q].ino) = {} /\ Losers(u[q].ino) = {q}
<1>1. PutOK(q) /\ TypeOK /\ Counts  BY DEF IndInv, ProcInv, ProcOK
<1>2. u[q].ino \in Inos /\ u[q].f \in 0 .. NFile  BY <1>1 DEF TypeOK
<1>3. inode[u[q].ino].count = 1  BY <1>1 DEF PutOK
<1>4. ASSUME u[q].f # 0
      PROVE  /\ u[q].f \in Files /\ file[u[q].f].count = 1 /\ file[u[q].f].ino = u[q].ino
             /\ \A p \in Procs, d \in Fds : fds[p][d] = u[q].f => p = q /\ u[q].dying /\ d = u[q].fd
             /\ \A p \in Procs : u[p].pc = "iput" /\ u[p].f = u[q].f => p = q
             /\ FilesOf(u[q].ino) = {u[q].f} /\ Losers(u[q].ino) = {}
 <2>1. PICK f : f = u[q].f  OBVIOUS
 <2>2. f \in Files /\ file[f].count = 1 /\ file[f].ino = u[q].ino
   BY <1>1, <1>2, <1>4, <2>1, Consts DEF PutOK
 <2>3. CASE u[q].dying
  <3>1. u[q].fd \in Fds /\ fds[q][u[q].fd] = f  BY <1>1, <2>1, <2>3 DEF PutOK
  <3>2. Refs(f) = {<<q, u[q].fd>>} /\ Closers(f) = {}  BY <1>1, <2>2, <3>1, Held
  <3>3. ASSUME NEW p \in Procs, NEW d \in Fds, fds[p][d] = f PROVE p = q /\ d = u[q].fd
   <4>1. <<p, d>> \in Refs(f)  BY <3>3, InRefs
   <4>2. <<p, d>> = <<q, u[q].fd>>  BY <3>2, <4>1
   <4> QED  BY <4>2
  <3>4. ASSUME NEW p \in Procs, u[p].pc = "iput", u[p].f = f PROVE p = q
   <4>1. u[p].dying  BY <3>2, <3>4 DEF Closers
   <4>2. u[p].fd \in Fds /\ fds[p][u[p].fd] = f  BY <3>4, <4>1 DEF IndInv, ProcInv, ProcOK, PutOK
   <4> QED  BY <3>3, <4>2
  <3> QED  BY <1>1, <1>2, <1>3, <2>1, <2>2, <2>3, <3>3, <3>4, Linked
 <2>4. CASE ~u[q].dying
  <3>1. q \in Closers(f)  BY <2>1, <2>4 DEF Closers
  <3>2. Refs(f) = {} /\ Closers(f) = {q}  BY <1>1, <2>2, <3>1, Held
  <3>3. \A p \in Procs, d \in Fds : fds[p][d] # f  BY <3>2, InRefs
  <3>4. ASSUME NEW p \in Procs, u[p].pc = "iput", u[p].f = f PROVE p = q
   <4>1. CASE u[p].dying
    <5>1. f # 0  BY <1>4, <2>1
    <5>2. u[p].fd \in Fds /\ fds[p][u[p].fd] = f
      BY <3>4, <4>1, <5>1 DEF IndInv, ProcInv, ProcOK, PutOK
    <5> QED  BY <3>3, <5>2
   <4>2. CASE ~u[p].dying  BY <3>2, <3>4, <4>2 DEF Closers
   <4> QED  BY <4>1, <4>2
  <3> QED  BY <1>1, <1>2, <1>3, <2>1, <2>2, <3>3, <3>4, Linked
 <2> QED  BY <2>3, <2>4
<1>5. ASSUME u[q].f = 0
      PROVE  /\ u[q].ino \in Pipes /\ ~u[q].dying
             /\ FilesOf(u[q].ino) = {} /\ Losers(u[q].ino) = {q}
 <2>1. q \in Losers(u[q].ino)  BY <1>5 DEF Losers
 <2> QED  BY <1>1, <1>2, <1>3, <1>5, <2>1, Linked DEF PutOK
<1> QED  BY <1>2, <1>3, <1>4, <1>5

\* Where nobody but p is at work
LEMMA NobodyElse ==
  ASSUME IndInv, NEW p \in Procs, NEW W \in SUBSET Procs, \A q \in W : u[q].pc \in SleepPCs,
         After(p, W), NEW i \in Inos,
         \A q \in Procs \ {p} : ~(u[q].pc \in BusyPCs /\ u[q].ino = i),
         u'[p].pc \in CallPCs => u'[p].ino # i,
         inode'[i].lock => u'[p].pc = "iput" /\ u'[p].ino = i /\ inode'[i].count # 2,
         u'[p].pc = "iput" /\ u'[p].ino = i => inode'[i].count # 2,
         SizeOK(i)'
  PROVE  InoOK(i)'
<1>1. ASSUME NEW q \in Procs, u'[q].pc \in BusyPCs, u'[q].ino = i PROVE q = p /\ u'[q].pc = "iput"
 <2>1. CASE q = p  BY <1>1, <2>1 DEF BusyPCs
 <2>2. CASE q # p  BY <1>1, <2>2, OtherPc DEF SameCall
 <2> QED  BY <2>1, <2>2
<1>2. \A q \in Procs : u'[q].ino = i => u'[q].pc \notin LockPCs \cup {"rsleep", "wsleep"}
  BY <1>1, Classes DEF LockPCs
<1>3. LockOK(i)' /\ ReadersOK(i)' /\ WritersOK(i)'
  BY <1>2 DEF LockOK, ReadersOK, WritersOK, HoldPCs
<1>4. AloneOK(i)'  BY <1>1, Classes DEF AloneOK
<1> QED  BY <1>3, <1>4 DEF InoOK

\* An inode that is not in use, or of which only p has the last reference
LEMMA NobodyAt ==
  ASSUME IndInv, NEW i \in Inos, inode[i].count = 0
  PROVE  \A q \in Procs : ~(u[q].pc \in BusyPCs /\ u[q].ino = i)
<1>1. ASSUME NEW q \in Procs, u[q].pc \in BusyPCs, u[q].ino = i PROVE FALSE
 <2>1. CASE u[q].pc \in CallPCs  BY <1>1, <2>1, CallFile
 <2>2. CASE u[q].pc = "iput"  BY <1>1, <2>2, PutAlone
 <2> QED  BY <1>1, <2>1, <2>2 DEF BusyPCs
<1> QED  BY <1>1

LEMMA OnlyPutter ==
  ASSUME IndInv, NEW p \in Procs, u[p].pc = "iput"
  PROVE  \A q \in Procs \ {p} : ~(u[q].pc \in BusyPCs /\ u[q].ino = u[p].ino)
<1>1. ASSUME NEW q \in Procs \ {p}, u[q].pc \in BusyPCs, u[q].ino = u[p].ino PROVE FALSE
 <2>1. CASE u[q].pc \in CallPCs
  <3>1. u[q].f \in FilesOf(u[p].ino) /\ u[q].f \in Files  BY <1>1, <2>1, CallFile DEF FilesOf
  <3>2. \E d \in Fds : fds[q][d] = u[q].f  BY <2>1 DEF IndInv, ProcInv, ProcOK, CallOK
  <3> QED  BY <3>1, <3>2, PutAlone
 <2>2. CASE u[q].pc = "iput"
  <3>1. CASE u[q].f = 0  BY <1>1, <2>2, <3>1, PutAlone
  <3>2. CASE u[q].f # 0
   <4>1. FilesOf(u[p].ino) = {u[q].f} /\ Losers(u[p].ino) = {}  BY <1>1, <2>2, <3>2, PutAlone
   <4>2. u[p].f # 0 /\ FilesOf(u[p].ino) = {u[p].f}  BY <4>1, PutAlone
   <4>3. u[p].f = u[q].f  BY <4>1, <4>2
   <4> QED  BY <1>1, <2>2, <3>2, <4>3, PutAlone
  <3> QED  BY <3>1, <3>2
 <2> QED  BY <1>1, <2>1, <2>2 DEF BusyPCs
<1> QED  BY <1>1

\* The other processes that are between a descriptor and its inode
LEMMA Putters ==
  ASSUME NEW p \in Procs, NEW W \in SUBSET Procs, \A q \in W : u[q].pc \in SleepPCs,
         After(p, W)
  PROVE  /\ \A f : Closers(f)' \ {p} = Closers(f) \ {p}
         /\ \A i : Losers(i)' \ {p} = Losers(i) \ {p}
<1>1. ASSUME NEW q \in Procs \ {p}
      PROVE  /\ u'[q].pc = "iput" <=> u[q].pc = "iput"
             /\ u'[q].f = u[q].f /\ u'[q].ino = u[q].ino /\ u'[q].dying = u[q].dying
  BY OtherPc DEF SameCall
<1> QED  BY <1>1 DEF Closers, Losers
\* A step of p that works on i and may change what p itself refers to
LEMMA Assemble ==
  ASSUME IndInv, NEW p \in Procs, NEW W \in SUBSET Procs, \A q \in W : u[q].pc \in SleepPCs,
         After(p, W), NEW i \in Inos, TypeOK', Counts', FileInv', ProcOK(p)', InoOK(i)',
         \A q \in Procs \ {p} : fds'[q] = fds[q],
         \A q \in Procs \ {p}, d \in Fds : fds[q][d] # 0 =>
            /\ file'[fds[q][d]].ino = file[fds[q][d]].ino
            /\ file'[fds[q][d]].flag = file[fds[q][d]].flag,
         \A q \in Procs \ {p} : u[q].pc = "iput" =>
            /\ inode'[u[q].ino].count = 1
            /\ u[q].f # 0 => file'[u[q].f].count = 1 /\ file'[u[q].f].ino = file[u[q].f].ino,
         \A j \in Inos \ {i} : inode'[j] = inode[j],
         \A f \in Files : file[f].count > 0 /\ file[f].ino # i => file'[f].off = file[f].off,
         u[p].pc \in BusyPCs => u[p].ino = i, u'[p].pc \in BusyPCs => u'[p].ino = i
  PROVE  IndInv'
<1>1. ASSUME NEW q \in Procs \ {p} PROVE ProcOK(q)'
 <2>1. \A f \in Files : (\E d \in Fds : fds[q][d] = f)
         => file'[f].ino = file[f].ino /\ file'[f].flag = file[f].flag
   BY Consts
 <2> QED  BY <2>1, OtherProc DEF IndInv
<1>2. ASSUME NEW j \in Inos \ {i} PROVE InoOK(j)'
 <2>1. \A f \in Files : file[f].count > 0 /\ file[f].ino = j => file'[f].off = file[f].off  OBVIOUS
 <2> QED  BY <2>1, OtherInode DEF IndInv
<1>3. ProcInv' /\ InoInv'  BY <1>1, <1>2 DEF ProcInv, InoInv
<1> QED  BY <1>3 DEF IndInv

LEMMA WithCount ==
  ASSUME NEW r \in FileRec, NEW n \in Nat
  PROVE  /\ [r EXCEPT !.count = n] \in FileRec /\ [r EXCEPT !.count = n].count = n
         /\ [r EXCEPT !.count = n].ino = r.ino /\ [r EXCEPT !.count = n].flag = r.flag
         /\ [r EXCEPT !.count = n].off = r.off
  BY DEF FileRec

\* No File gets another inode
LEMMA FileKept ==
  ASSUME IndInv,
         \A g \in Files : file'[g].count > 0 =>
            file[g].count > 0 /\ file'[g].ino = file[g].ino /\ file'[g].flag = file[g].flag
  PROVE  FileInv'
  BY DEF IndInv, FileInv, IsPipe

LEMMA UserOK ==
  ASSUME NEW p \in Procs, u'[p].pc \in {"user", "exit"}, u'[p].pc = "user" => ~u'[p].dying
  PROVE  ProcOK(p)'
  BY DEF ProcOK, CallOK, MoveOK, PutOK, GoneOK, CallPCs, ReadPCs, WritePCs, FilePCs, MovePCs

LEMMA DupStep ==
  ASSUME IndInv, NEW p \in Procs, NEW d \in Asked, Sys_Dup(p, d), faults' = faults
  PROVE  IndInv'
<1>1. PICK f, e : f = GetF(p, d) /\ e = Least(FreeFds(p))  OBVIOUS
<1>2. /\ CanCall(p) /\ u[p].pc = "user" /\ UNCHANGED <<inode, sig, hist, faults>>
  BY DEF Sys_Dup, CanCall
<1>3. CASE f = 0 \/ FreeFds(p) = {}
 <2>1. PICK err \in {"EBADF", "EMFILE"} : Done(p, err, u) /\ fds' = fds /\ file' = file
   BY <1>1, <1>3 DEF Sys_Dup
 <2>2. err \in Errors  BY DEF Errors
 <2> QED  BY <1>2, <2>1, <2>2, Refused
<1>4. CASE f # 0 /\ FreeFds(p) # {}
 <2>1. /\ fds' = [fds EXCEPT ![p][e] = f]
       /\ file' = [file EXCEPT ![f].count = @ + 1]
       /\ Done(p, "none", u)
   BY <1>1, <1>4 DEF Sys_Dup
 <2>2. /\ f \in Files /\ d \in Fds /\ fds[p][d] = f /\ file[f].count \in Nat /\ file[f].count >= 1
       /\ u \in [Procs -> URec] /\ file \in [Files -> FileRec] /\ fds \in [Procs -> [Fds -> 0 .. NFile]]
   BY <1>1, <1>4, GetFType, Types DEF IndInv
 <2>3. e \in Fds /\ fds[p][e] = 0
  <3>1. e \in FreeFds(p)  BY <1>1, <1>4, FreeTypes, LeastIn
  <3> QED  BY <3>1 DEF FreeFds
 <2>4. /\ u' \in [Procs -> URec] /\ After(p, {}) /\ cpu' = NoProc
       /\ u'[p].pc = "user" /\ ~u'[p].dying
   BY <2>1, <2>2, WokenNone, DoneStep DEF Errors
 <2>5. /\ file' \in [Files -> FileRec] /\ file'[f].count = file[f].count + 1
       /\ \A g \in Files :
             /\ g # f => file'[g] = file[g]
             /\ file'[g].ino = file[g].ino /\ file'[g].flag = file[g].flag /\ file'[g].off = file[g].off
  <3>1. PICK g : g = [file[f] EXCEPT !.count = file[f].count + 1]  OBVIOUS
  <3>2. /\ g \in FileRec /\ g.count = file[f].count + 1 /\ g.ino = file[f].ino
        /\ g.flag = file[f].flag /\ g.off = file[f].off
   <4>1. file[f] \in FileRec /\ file[f].count + 1 \in Nat  BY <2>2
   <4> QED  BY <3>1, <4>1, WithCount
  <3>3. file' = [file EXCEPT ![f] = g]  BY <2>1, <3>1
  <3> QED  BY <2>2, <3>2, <3>3
 <2>6. /\ fds' \in [Procs -> [Fds -> 0 .. NFile]]
       /\ \A q \in Procs, c \in Fds : fds'[q][c] = IF q = p /\ c = e THEN f ELSE fds[q][c]
       /\ \A q \in Procs \ {p} : fds'[q] = fds[q]
   BY <2>1, <2>2, <2>3, Consts
 <2>7. TypeOK'  BY <1>2, <2>4, <2>5, <2>6, Types, TypeStep DEF IndInv
 <2>8. Counts'
  <3>1. ASSUME NEW g \in Files
        PROVE  Closers(g)' = Closers(g) /\ Refs(g)' = (IF g = f THEN Refs(g) \cup {<<p, e>>} ELSE Refs(g))
   <4>1. p \notin Closers(g)' /\ p \notin Closers(g)  BY <1>2, <2>4 DEF Closers
   <4>2. Closers(g)' \ {p} = Closers(g) \ {p}  BY <2>4, Putters
   <4>3. g # 0  BY Consts
   <4>4. ASSUME g = f PROVE Refs(g)' = Refs(g) \cup {<<p, e>>}  BY <2>3, <2>6, <4>4 DEF Refs
   <4>5. ASSUME g # f PROVE Refs(g)' = Refs(g)  BY <2>3, <2>6, <4>3, <4>5 DEF Refs
   <4>6. Closers(g)' = Closers(g)  BY <4>1, <4>2
   <4> QED  BY <4>4, <4>5, <4>6
  <3>2. <<p, e>> \notin Refs(f)  BY <2>2, <2>3, Consts DEF Refs
  <3>3. /\ Cardinality(Refs(f) \cup {<<p, e>>}) = Cardinality(Refs(f)) + 1
        /\ Cardinality(Refs(f)) \in Nat /\ Cardinality(Closers(f)) \in Nat
    BY <2>2, <3>2, Finite, Numbers
  <3>4. \A g \in Files : file[g].count = Cardinality(Refs(g)) + Cardinality(Closers(g))
    BY DEF IndInv, Counts
  <3>5. ASSUME NEW g \in Files
        PROVE  file'[g].count = Cardinality(Refs(g)') + Cardinality(Closers(g)')
   <4>1. CASE g = f
    <5>1. PICK a, b : a = Cardinality(Refs(f)) /\ b = Cardinality(Closers(f))  OBVIOUS
    <5>2. Cardinality(Refs(f)') = a + 1 /\ Cardinality(Closers(f)') = b  BY <2>2, <3>1, <3>3, <5>1
    <5>3. file'[f].count = a + b + 1 /\ a \in Nat /\ b \in Nat  BY <2>2, <2>5, <3>3, <3>4, <5>1
    <5> QED  BY <4>1, <5>2, <5>3
   <4>2. CASE g # f  BY <2>5, <3>1, <3>4, <4>2
   <4> QED  BY <4>1, <4>2
  <3>6. ASSUME NEW j \in Inos PROVE FilesOf(j)' = FilesOf(j) /\ Losers(j)' = Losers(j)
   <4>1. FilesOf(j)' = FilesOf(j)  BY <2>2, <2>5 DEF FilesOf
   <4>2. p \notin Losers(j)' /\ p \notin Losers(j) /\ Losers(j)' \ {p} = Losers(j) \ {p}
    <5>1. Losers(j)' \ {p} = Losers(j) \ {p}  BY <2>4, Putters
    <5> QED  BY <1>2, <2>4, <5>1 DEF Losers
   <4> QED  BY <4>1, <4>2
  <3>7. \A j \in Inos : inode'[j].count = Cardinality(FilesOf(j)') + Cardinality(Losers(j)')
    BY <1>2, <3>6 DEF IndInv, Counts
  <3> QED  BY <3>5, <3>7 DEF Counts
 <2>9. FileInv'
  <3>1. \A g \in Files : file'[g].count > 0 => file[g].count > 0  BY <2>2, <2>5
  <3> QED  BY <2>5, <3>1, FileKept
 <2>10. ProcOK(p)'  BY <2>4, UserOK
 <2>11. InoOK(Input)'
  <3>1. \A g \in Files : file'[g].off = file[g].off  BY <2>5
  <3>2. u[p].pc \notin BusyPCs /\ u'[p].pc \notin BusyPCs /\ Input \in Inos /\ inode' = inode
    BY <1>2, <2>4, Consts, Classes
  <3> QED  BY <2>4, <3>1, <3>2, OtherInode DEF IndInv
 <2>12. ASSUME NEW q \in Procs \ {p}, u[q].pc = "iput"
        PROVE  /\ inode'[u[q].ino].count = 1
               /\ u[q].f # 0 => file'[u[q].f].count = 1 /\ file'[u[q].f].ino = file[u[q].f].ino
  <3>1. inode[u[q].ino].count = 1  BY <2>12, PutAlone
  <3>2. u[q].f # 0 => u[q].f # f /\ u[q].f \in Files /\ file[u[q].f].count = 1
    BY <2>2, <2>12, PutAlone
  <3> QED  BY <1>2, <2>5, <3>1, <3>2
 <2>13. ASSUME NEW q \in Procs \ {p}, NEW c \in Fds, fds[q][c] # 0
        PROVE  /\ file'[fds[q][c]].ino = file[fds[q][c]].ino
               /\ file'[fds[q][c]].flag = file[fds[q][c]].flag
  <3>1. fds[q][c] \in Files  BY <2>2, <2>13, Consts
  <3> QED  BY <2>5, <3>1
 <2> QED
   BY <1>2, <2>4, <2>5, <2>6, <2>7, <2>8, <2>9, <2>10, <2>11, <2>12, <2>13, Consts, Classes, Assemble
<1> QED  BY <1>3, <1>4
LEMMA ExitEndStep ==
  ASSUME IndInv, NEW p \in Procs, ExitEnd(p)
  PROVE  IndInv'
<1>1. /\ u[p].pc = "exit" /\ FreeFds(p) = Fds /\ u' = [u EXCEPT ![p] = Idle] /\ cpu' = NoProc
      /\ UNCHANGED <<fds, file, inode, sig, faults, hist>>
  BY DEF ExitEnd
<1>2. u \in [Procs -> URec]  BY Types DEF IndInv
<1>3. u' \in [Procs -> URec] /\ After(p, {}) /\ u'[p].pc = "none"
  BY <1>1, <1>2, IdleType, PlainStep
<1>4. TypeOK'  BY <1>1, <1>3, Types, TypeStep DEF IndInv
<1>5. Counts'
 <2>1. ASSUME NEW f \in Files PROVE Refs(f)' = Refs(f) /\ Closers(f)' = Closers(f)
  <3>1. p \notin Closers(f)' /\ p \notin Closers(f)  BY <1>1, <1>3 DEF Closers
  <3>2. Closers(f)' \ {p} = Closers(f) \ {p}  BY <1>3, Putters
  <3> QED  BY <1>1, <3>1, <3>2 DEF Refs
 <2>2. ASSUME NEW j \in Inos PROVE FilesOf(j)' = FilesOf(j) /\ Losers(j)' = Losers(j)
  <3>1. p \notin Losers(j)' /\ p \notin Losers(j)  BY <1>1, <1>3 DEF Losers
  <3>2. Losers(j)' \ {p} = Losers(j) \ {p}  BY <1>3, Putters
  <3> QED  BY <1>1, <3>1, <3>2 DEF FilesOf
 <2> QED  BY <1>1, <2>1, <2>2 DEF IndInv, Counts
<1>6. FileInv'  BY <1>1, FileKept
<1>7. ProcOK(p)'
 <2>1. \A d \in Fds : fds'[p][d] = 0  BY <1>1 DEF FreeFds
 <2> QED
   BY <1>3, <2>1 DEF ProcOK, CallOK, MoveOK, PutOK, GoneOK, CallPCs, ReadPCs, WritePCs, FilePCs, MovePCs
<1>8. u[p].pc \notin BusyPCs /\ u'[p].pc \notin BusyPCs  BY <1>1, <1>3, Classes
<1>9. InoOK(Input)'
 <2>1. \A g \in Files : file'[g].off = file[g].off  BY <1>1
 <2> QED  BY <1>1, <1>3, <1>8, <2>1, Consts, OtherInode DEF IndInv
<1>10. ASSUME NEW q \in Procs \ {p}, u[q].pc = "iput"
       PROVE  /\ inode'[u[q].ino].count = 1
              /\ u[q].f # 0 => file'[u[q].f].count = 1 /\ file'[u[q].f].ino = file[u[q].f].ino
  BY <1>1, <1>10, PutAlone
<1> QED  BY <1>1, <1>3, <1>4, <1>5, <1>6, <1>7, <1>8, <1>9, <1>10, Consts, Assemble

\* Nobody at work on a file is touched, and not the inode
LEMMA StillInode ==
  ASSUME IndInv, NEW j \in Inos, inode'[j] = inode[j],
         \A r \in Procs : u[r].pc \in BusyPCs \/ u'[r].pc \in BusyPCs => u'[r] = u[r],
         \A f \in Files : file'[f].off = file[f].off
  PROVE  InoOK(j)'
<1>1. \A r \in Procs, pc \in BusyPCs : u'[r].pc = pc <=> u[r].pc = pc  OBVIOUS
<1>2. \A r \in Procs : u'[r].pc \in BusyPCs => u'[r] = u[r]  OBVIOUS
<1>3. LockPCs \cup HoldPCs \cup MovePCs \cup {"rsleep", "wsleep"} \subseteq BusyPCs  BY Classes
<1>4. InoOK(j)  BY DEF IndInv, InoInv
<1>5. ASSUME NEW S, S \subseteq BusyPCs, NEW r \in Procs
      PROVE  /\ u'[r].pc \in S /\ u'[r].ino = j <=> u[r].pc \in S /\ u[r].ino = j
             /\ u'[r].pc \in S => u'[r] = u[r]
  BY <1>1, <1>2, <1>5
<1>6. LockOK(j)' /\ AloneOK(j)'
 <2>1. \A r \in Procs : /\ u'[r].pc \in LockPCs /\ u'[r].ino = j <=> u[r].pc \in LockPCs /\ u[r].ino = j
                        /\ u'[r].pc \in HoldPCs /\ u'[r].ino = j <=> u[r].pc \in HoldPCs /\ u[r].ino = j
   BY <1>3, <1>5
 <2> QED  BY <1>4, <2>1 DEF InoOK, LockOK, AloneOK
<1>7. ReadersOK(j)'
 <2>1. \A r \in Procs : /\ u'[r].pc \in MovePCs /\ u'[r].ino = j <=> u[r].pc \in MovePCs /\ u[r].ino = j
                        /\ u'[r].pc \in MovePCs => u'[r] = u[r]
   BY <1>3, <1>5
 <2>2. \A r \in Procs : u'[r].pc = "rsleep" => u'[r] = u[r]  BY <1>2, <1>3
 <2>3. \A r \in Procs : u'[r].pc = "rsleep" => u[r].f \in Files  BY <2>2, PipeSleeper, CallFile
 <2> QED  BY <1>4, <2>1, <2>2, <2>3 DEF InoOK, ReadersOK
<1>8. WritersOK(j)' /\ SizeOK(j)'
 <2>1. \A r \in Procs : u'[r].pc = "wsleep" => u'[r] = u[r]  BY <1>2, <1>3
 <2> QED  BY <1>4, <2>1 DEF InoOK, WritersOK, SizeOK
<1> QED  BY <1>6, <1>7, <1>8 DEF InoOK

LEMMA ForkStep ==
  ASSUME IndInv, NEW p \in Procs, NEW q \in Procs, Sys_Fork(p, q), faults' = faults
  PROVE  IndInv'
<1>1. /\ CanCall(p) /\ u[p].pc = "user" /\ UNCHANGED <<inode, sig, hist, faults>>
  BY DEF Sys_Fork, CanCall
<1>2. CASE \A r \in Procs : u[r].pc # "none"
 <2>1. Done(p, "EAGAIN", u) /\ fds' = fds /\ file' = file /\ "EAGAIN" \in Errors
   BY <1>2 DEF Sys_Fork, Errors
 <2> QED  BY <1>1, <2>1, Refused
<1>3. CASE \E r \in Procs : u[r].pc = "none"
 <2>1. /\ u[q].pc = "none" /\ fds' = [fds EXCEPT ![q] = fds[p]]
       /\ file' = [f \in Files |->
                     [file[f] EXCEPT !.count = @ + Cardinality({d \in Fds : fds[p][d] = f})]]
       /\ u' = [[u EXCEPT ![q] = Back("none")] EXCEPT ![p] = Back("none")] /\ cpu' = NoProc
   BY <1>3 DEF Sys_Fork, Done
 <2>2. /\ u \in [Procs -> URec] /\ file \in [Files -> FileRec] /\ fds \in [Procs -> [Fds -> 0 .. NFile]]
       /\ q # p /\ \A d \in Fds : fds[q][d] = 0
   BY <1>1, <2>1, Types DEF IndInv, ProcInv, ProcOK, GoneOK
 <2>3. /\ u' \in [Procs -> URec]
       /\ \A r \in Procs : u'[r] = IF r \in {p, q} THEN Back("none") ELSE u[r]
       /\ \A r \in {p, q} : u'[r].pc = "user" /\ ~u'[r].dying
  <3>1. Back("none") \in URec /\ Back("none").pc = "user" /\ ~Back("none").dying
    BY BackType DEF Errors
  <3> QED  BY <2>1, <2>2, <3>1
 <2>4. /\ fds' \in [Procs -> [Fds -> 0 .. NFile]]
       /\ \A r \in Procs \ {q} : fds'[r] = fds[r]
       /\ fds'[q] = fds[p]
   BY <2>1, <2>2
 <2>5. PICK n : n = [f \in Files |-> Cardinality({d \in Fds : fds[p][d] = f})]  OBVIOUS
 <2>6. ASSUME NEW f \in Files PROVE n[f] \in Nat /\ (n[f] > 0 => \E d \in Fds : fds[p][d] = f)
  <3>1. IsFiniteSet({d \in Fds : fds[p][d] = f})  BY Consts, FS_Subset
  <3>2. n[f] = Cardinality({d \in Fds : fds[p][d] = f})  BY <2>5
  <3>3. n[f] \in Nat /\ ({d \in Fds : fds[p][d] = f} = {} => n[f] = 0)
    BY <3>1, <3>2, FS_CardinalityType, FS_EmptySet
  <3> QED  BY <3>2, <3>3
 <2>7. ASSUME NEW f \in Files
       PROVE  /\ file'[f] \in FileRec /\ file'[f].count = file[f].count + n[f]
              /\ file'[f].ino = file[f].ino /\ file'[f].flag = file[f].flag /\ file'[f].off = file[f].off
              /\ file[f].count \in Nat
              /\ file'[f].count > 0 => file[f].count > 0
  <3>1. file[f] \in FileRec /\ file[f].count \in Nat  BY <2>2 DEF FileRec
  <3>2. PICK m : m = file[f].count + n[f]  OBVIOUS
  <3>3. file'[f] = [file[f] EXCEPT !.count = m]
   <4>1. n[f] = Cardinality({d \in Fds : fds[p][d] = f})  BY <2>5
   <4> QED  BY <2>1, <3>2, <4>1
  <3>4. m \in Nat  BY <2>6, <3>1, <3>2
  <3>5. file[f].count = 0 => n[f] = 0
   <4>1. \A d \in Fds : fds[p][d] = f => file[f].count >= 1  BY Held DEF IndInv
   <4> QED  BY <2>6, <3>1, <4>1
  <3> QED  BY <2>6, <3>1, <3>2, <3>3, <3>4, <3>5, WithCount
 <2>8. file' \in [Files -> FileRec]  BY <2>1, <2>7
 <2>9. TypeOK'  BY <1>1, <2>1, <2>3, <2>4, <2>8, Types, TypeStep DEF IndInv
 <2>10. ASSUME NEW f \in Files
        PROVE  /\ Cardinality(Refs(f)') = Cardinality(Refs(f)) + n[f]
               /\ Closers(f)' = Closers(f)
  <3>1. PICK D : D = {d \in Fds : fds[p][d] = f}  OBVIOUS
  <3>2. Refs(f)' = Refs(f) \cup ({q} \X D)
   <4>1. f # 0  BY Consts
   <4> QED  BY <2>2, <2>4, <3>1, <4>1 DEF Refs
  <3>3. Refs(f) \cap ({q} \X D) = {}  BY <2>2, <3>1, Consts DEF Refs
  <3>4. IsFiniteSet(D)  BY <3>1, Consts, FS_Subset
  <3>5. IsFiniteSet({q} \X D) /\ Cardinality({q} \X D) = 1 * Cardinality(D)
   <4>1. PICK Q : Q = {q}  OBVIOUS
   <4>2. IsFiniteSet(Q) /\ Cardinality(Q) = 1  BY <4>1, FS_Singleton
   <4>3. IsFiniteSet(Q \X D) /\ Cardinality(Q \X D) = Cardinality(Q) * Cardinality(D)
     BY <3>4, <4>2, FS_Product
   <4> QED  BY <4>1, <4>2, <4>3
  <3>6. Cardinality(D) = n[f] /\ n[f] \in Nat  BY <2>5, <2>6, <3>1
  <3>7. Cardinality(Refs(f)) \in Nat /\ IsFiniteSet(Refs(f))  BY Finite, FS_CardinalityType
  <3>8. Cardinality(Refs(f)') = Cardinality(Refs(f)) + Cardinality({q} \X D) - Cardinality({})
    BY <3>2, <3>3, <3>5, <3>7, FS_Union
  <3>9. Cardinality({}) = 0  BY FS_EmptySet
  <3>10. Closers(f)' = Closers(f)  BY <1>1, <2>1, <2>2, <2>3 DEF Closers
  <3> QED  BY <3>5, <3>6, <3>7, <3>8, <3>9, <3>10
 <2>11. Counts'
  <3>1. ASSUME NEW f \in Files
        PROVE  file'[f].count = Cardinality(Refs(f)') + Cardinality(Closers(f)')
   <4>1. PICK a, b : a = Cardinality(Refs(f)) /\ b = Cardinality(Closers(f))  OBVIOUS
   <4>2. a \in Nat /\ b \in Nat  BY <4>1, Finite, FS_CardinalityType
   <4>3. file[f].count = a + b  BY <4>1 DEF IndInv, Counts
   <4>4. Cardinality(Refs(f)') = a + n[f] /\ Cardinality(Closers(f)') = b  BY <2>10, <4>1
   <4> QED  BY <2>6, <2>7, <4>2, <4>3, <4>4
  <3>2. ASSUME NEW j \in Inos PROVE FilesOf(j)' = FilesOf(j) /\ Losers(j)' = Losers(j)
   <4>1. FilesOf(j)' = FilesOf(j)  BY <2>6, <2>7 DEF FilesOf
   <4>2. Losers(j)' = Losers(j)  BY <1>1, <2>1, <2>2, <2>3 DEF Losers
   <4> QED  BY <4>1, <4>2
  <3> QED  BY <1>1, <3>1, <3>2 DEF IndInv, Counts
 <2>12. FileInv'  BY <2>7, FileKept
 <2>13. InoInv'
  <3>1. \A r \in Procs : u[r].pc \in BusyPCs \/ u'[r].pc \in BusyPCs => u'[r] = u[r]
    BY <1>1, <2>1, <2>2, <2>3, Classes
  <3> QED  BY <1>1, <2>7, <3>1, StillInode DEF InoInv
 <2>14. ProcInv'
  <3>1. ASSUME NEW r \in Procs \ {p, q} PROVE ProcOK(r)'
   <4>1. u'[r] = u[r] /\ fds'[r] = fds[r]  BY <2>3, <2>4
   <4>2. ProcOK(r)  BY DEF IndInv, ProcInv
   <4>3. CallOK(r)'  BY <2>7, <4>1, <4>2 DEF ProcOK, CallOK, IsPipe
   <4>4. MoveOK(r)'
    <5>1. u[r].pc \in FilePCs \cup MovePCs => u[r].f \in Files  BY <4>2 DEF ProcOK, CallOK, CallPCs
    <5> QED  BY <2>7, <4>1, <4>2, <5>1 DEF ProcOK, MoveOK, IsPipe
   <4>5. PutOK(r)'
    <5>1. ASSUME u[r].pc = "iput", u[r].f # 0
          PROVE  u[r].f \in Files /\ file'[u[r].f].count = 1 /\ file'[u[r].f].ino = u[r].ino
     <6>1. /\ u[r].f \in Files /\ file[u[r].f].count = 1 /\ file[u[r].f].ino = u[r].ino
           /\ \A d \in Fds : fds[p][d] # u[r].f
       BY <5>1, PutAlone
     <6>2. n[u[r].f] = 0  BY <2>6, <6>1
     <6> QED  BY <2>7, <6>1, <6>2
    <5> QED  BY <1>1, <4>1, <4>2, <5>1 DEF ProcOK, PutOK
   <4>6. GoneOK(r)'  BY <4>1, <4>2 DEF ProcOK, GoneOK
   <4> QED  BY <4>3, <4>4, <4>5, <4>6 DEF ProcOK
  <3>2. ProcOK(p)' /\ ProcOK(q)'  BY <2>3, UserOK
  <3> QED  BY <3>1, <3>2 DEF ProcInv
 <2> QED  BY <2>9, <2>11, <2>12, <2>13, <2>14 DEF IndInv
<1> QED  BY <1>2, <1>3
\* An inode that is not in use has no Files, and a File not in use no descriptors
LEMMA Unused ==
  ASSUME IndInv, NEW i \in Inos, inode[i].count = 0
  PROVE  /\ FilesOf(i) = {} /\ Losers(i) = {}
         /\ \A f \in Files : file[f].count > 0 => file[f].ino # i
  BY Linked DEF IndInv, FilesOf

LEMMA EmptyType ==
  /\ Empty \in InoRec /\ Empty.count = 0 /\ ~Empty.lock /\ ~Empty.want /\ Empty.size = 0
  /\ \A n \in Nat, b \in BOOLEAN :
        LET r == [Empty EXCEPT !.count = n, !.lock = b] IN
        r \in InoRec /\ r.count = n /\ r.lock = b /\ r.size = 0
  /\ \A n \in Nat :
        LET r == [Empty EXCEPT !.count = n] IN
        r \in InoRec /\ r.count = n /\ r.lock = FALSE /\ r.size = 0
<1>1. 0 \in 0 .. Blocks /\ [k \in 0 .. Blocks - 1 |-> 0] \in [0 .. Blocks - 1 -> Nat]  BY Consts
<1>2. PICK d : d = [k \in 0 .. Blocks - 1 |-> 0]  OBVIOUS
<1>3. Empty = [count |-> 0, lock |-> FALSE, want |-> FALSE, size |-> 0, rd |-> FALSE, wr |-> FALSE,
               data |-> d]
  BY <1>2 DEF Empty
<1>4. Empty \in InoRec  BY <1>1, <1>2, <1>3 DEF InoRec
<1> QED  BY <1>1, <1>2, <1>3, <1>4 DEF InoRec

\* Pipe gets its two ends
LEMMA PipeMade ==
  ASSUME IndInv, NEW p \in Procs, NEW i \in Pipes, NEW d \in Fds, NEW e \in Fds,
         NEW r \in Files, NEW w \in Files,
         u[p].pc = "user", inode[i].count = 0, fds[p][d] = 0, fds[p][e] = 0, d # e,
         file[r].count = 0, file[w].count = 0, r # w,
         fds' = [fds EXCEPT ![p] = [@ EXCEPT ![d] = r, ![e] = w]],
         file' = [file EXCEPT ![r] = [count |-> 1, flag |-> {"r", "pipe"}, ino |-> i, off |-> 0],
                              ![w] = [count |-> 1, flag |-> {"w", "pipe"}, ino |-> i, off |-> 0]],
         inode' = [inode EXCEPT ![i] = [Empty EXCEPT !.count = 2]],
         hist' = [hist EXCEPT ![i] = Clean], Done(p, "none", u), sig' = sig, faults' = faults
  PROVE  IndInv'
<1>1. /\ u \in [Procs -> URec] /\ file \in [Files -> FileRec] /\ fds \in [Procs -> [Fds -> 0 .. NFile]]
      /\ inode \in [Inos -> InoRec] /\ hist \in [Inos -> HistRec] /\ i \in Inos
  BY Types, Consts DEF IndInv
<1>2. /\ u' \in [Procs -> URec] /\ After(p, {}) /\ cpu' = NoProc
      /\ u'[p].pc = "user" /\ ~u'[p].dying
  BY <1>1, WokenNone, DoneStep DEF Errors
<1>3. /\ file' \in [Files -> FileRec]
      /\ file'[r].count = 1 /\ file'[r].ino = i /\ file'[r].flag = {"r", "pipe"}
      /\ file'[w].count = 1 /\ file'[w].ino = i /\ file'[w].flag = {"w", "pipe"}
      /\ \A g \in Files \ {r, w} : file'[g] = file[g]
 <2>1. PICK x : x = [count |-> 1, flag |-> {"r", "pipe"}, ino |-> i, off |-> 0]  OBVIOUS
 <2>2. PICK y : y = [count |-> 1, flag |-> {"w", "pipe"}, ino |-> i, off |-> 0]  OBVIOUS
 <2>3. x \in FileRec /\ x.count = 1 /\ x.ino = i /\ x.flag = {"r", "pipe"}
   BY <1>1, <2>1 DEF FileRec
 <2>4. y \in FileRec /\ y.count = 1 /\ y.ino = i /\ y.flag = {"w", "pipe"}
   BY <1>1, <2>2 DEF FileRec
 <2>5. PICK h : h = [file EXCEPT ![r] = x]  OBVIOUS
 <2>6. h \in [Files -> FileRec] /\ h[r] = x /\ \A g \in Files \ {r} : h[g] = file[g]
   BY <1>1, <2>3, <2>5
 <2>7. PICK k : k = [h EXCEPT ![w] = y]  OBVIOUS
 <2>8. file' = k  BY <2>1, <2>2, <2>5, <2>7
 <2>9. k \in [Files -> FileRec] /\ k[w] = y /\ \A g \in Files \ {w} : k[g] = h[g]
   BY <2>4, <2>6, <2>7
 <2>10. r \in Files \ {w} /\ \A g \in Files \ {r, w} : g \in Files \ {w} /\ g \in Files \ {r}
   OBVIOUS
 <2>11. k[r] = x /\ \A g \in Files \ {r, w} : k[g] = file[g]  BY <2>6, <2>9, <2>10
 <2> QED  BY <2>3, <2>4, <2>8, <2>9, <2>11
<1>4. /\ fds' \in [Procs -> [Fds -> 0 .. NFile]]
      /\ \A q \in Procs, c \in Fds :
            fds'[q][c] = IF q = p /\ c = d THEN r ELSE IF q = p /\ c = e THEN w ELSE fds[q][c]
      /\ \A q \in Procs \ {p} : fds'[q] = fds[q]
 <2>1. PICK x : x = [[fds[p] EXCEPT ![d] = r] EXCEPT ![e] = w]  OBVIOUS
 <2>2. fds' = [fds EXCEPT ![p] = x]  BY <2>1
 <2>3. r \in 0 .. NFile /\ w \in 0 .. NFile  BY Consts
 <2>4. x \in [Fds -> 0 .. NFile] /\ \A c \in Fds : x[c] = IF c = d THEN r ELSE IF c = e THEN w ELSE fds[p][c]
   BY <1>1, <2>1, <2>3
 <2> QED  BY <1>1, <2>2, <2>4
<1>5. /\ inode' \in [Inos -> InoRec] /\ inode'[i].count = 2 /\ ~inode'[i].lock /\ inode'[i].size = 0
      /\ \A j \in Inos \ {i} : inode'[j] = inode[j]
  BY <1>1, EmptyType
<1>6. hist' \in [Inos -> HistRec]  BY <1>1 DEF Clean, HistRec
<1>7. TypeOK'  BY <1>2, <1>3, <1>4, <1>5, <1>6, Types, TypeStep DEF IndInv
<1>8. FilesOf(i) = {} /\ Losers(i) = {} /\ \A f \in Files : file[f].count > 0 => file[f].ino # i
  BY <1>1, Unused
<1>9. /\ Refs(r) = {} /\ Closers(r) = {} /\ Refs(w) = {} /\ Closers(w) = {}  BY Held DEF IndInv
<1>10. ASSUME NEW f \in Files PROVE Closers(f)' = Closers(f)
 <2>1. p \notin Closers(f)' /\ p \notin Closers(f)  BY <1>2 DEF Closers
 <2>2. Closers(f)' \ {p} = Closers(f) \ {p}  BY <1>2, Putters
 <2> QED  BY <2>1, <2>2, SameWithout
<1>11. ASSUME NEW j \in Inos PROVE Losers(j)' = Losers(j)
 <2>1. p \notin Losers(j)' /\ p \notin Losers(j)  BY <1>2 DEF Losers
 <2>2. Losers(j)' \ {p} = Losers(j) \ {p}  BY <1>2, Putters
 <2> QED  BY <2>1, <2>2, SameWithout
<1>12. Counts'
 <2>1. Refs(r)' = {<<p, d>>}
  <3>1. ASSUME NEW x \in Refs(r)' PROVE x = <<p, d>>
   <4>1. x \in Procs \X Fds /\ fds'[x[1]][x[2]] = r  BY DEF Refs
   <4>2. x \notin Refs(r)  BY <1>9
   <4>3. fds[x[1]][x[2]] # r  BY <4>1, <4>2 DEF Refs
   <4>4. x[1] \in Procs /\ x[2] \in Fds /\ x = <<x[1], x[2]>>  BY <4>1
   <4> QED  BY <1>4, <4>1, <4>3, <4>4
  <3>2. <<p, d>> \in Refs(r)'  BY <1>4 DEF Refs
  <3> QED  BY <3>1, <3>2
 <2>2. Refs(w)' = {<<p, e>>}
  <3>1. ASSUME NEW x \in Refs(w)' PROVE x = <<p, e>>
   <4>1. x \in Procs \X Fds /\ fds'[x[1]][x[2]] = w  BY DEF Refs
   <4>2. x \notin Refs(w)  BY <1>9
   <4>3. fds[x[1]][x[2]] # w  BY <4>1, <4>2 DEF Refs
   <4>4. x[1] \in Procs /\ x[2] \in Fds /\ x = <<x[1], x[2]>>  BY <4>1
   <4> QED  BY <1>4, <4>1, <4>3, <4>4
  <3>2. <<p, e>> \in Refs(w)'  BY <1>4 DEF Refs
  <3> QED  BY <3>1, <3>2
 <2>3. ASSUME NEW f \in Files \ {r, w} PROVE Refs(f)' = Refs(f)
  <3>1. f # 0  BY Consts
  <3> QED  BY <1>4, <3>1 DEF Refs
 <2>4. FilesOf(i)' = {r, w}  BY <1>3, <1>8 DEF FilesOf
 <2>5. ASSUME NEW j \in Inos \ {i} PROVE FilesOf(j)' = FilesOf(j)  BY <1>3 DEF FilesOf
 <2>6. /\ Cardinality({<<p, d>>}) = 1 /\ Cardinality({<<p, e>>}) = 1 /\ Cardinality({}) = 0
       /\ Cardinality({r, w}) = 2
   BY TwoOf, FS_Singleton, FS_EmptySet
 <2>7. ASSUME NEW f \in Files
       PROVE  file'[f].count = Cardinality(Refs(f)') + Cardinality(Closers(f)')
  <3>1. CASE f = r
   <4>1. Closers(r)' = {}  BY <1>9, <1>10
   <4>2. Cardinality(Refs(r)') = 1 /\ Cardinality(Closers(r)') = 0  BY <2>1, <2>6, <4>1
   <4>3. file'[r].count = Cardinality(Refs(r)') + Cardinality(Closers(r)')  BY <1>3, <4>2
   <4> QED  BY <3>1, <4>3
  <3>2. CASE f = w
   <4>1. Closers(w)' = {}  BY <1>9, <1>10
   <4>2. Cardinality(Refs(w)') = 1 /\ Cardinality(Closers(w)') = 0  BY <2>2, <2>6, <4>1
   <4>3. file'[w].count = Cardinality(Refs(w)') + Cardinality(Closers(w)')  BY <1>3, <4>2
   <4> QED  BY <3>2, <4>3
  <3>3. CASE f \notin {r, w}  BY <1>3, <1>10, <2>3, <3>3 DEF IndInv, Counts
  <3> QED  BY <3>1, <3>2, <3>3
 <2>8. ASSUME NEW j \in Inos
       PROVE  inode'[j].count = Cardinality(FilesOf(j)') + Cardinality(Losers(j)')
  <3>1. CASE j = i
   <4>1. Losers(i)' = {}  BY <1>1, <1>8, <1>11
   <4>2. Cardinality(FilesOf(i)') = 2 /\ Cardinality(Losers(i)') = 0  BY <2>4, <2>6, <4>1
   <4>3. inode'[i].count = Cardinality(FilesOf(i)') + Cardinality(Losers(i)')  BY <1>5, <4>2
   <4> QED  BY <3>1, <4>3
  <3>2. CASE j # i  BY <1>5, <1>11, <2>5, <3>2 DEF IndInv, Counts
  <3> QED  BY <3>1, <3>2
 <2> QED  BY <2>7, <2>8 DEF Counts
<1>13. FileInv'
 <2>1. ASSUME NEW f \in Files, file'[f].count > 0
       PROVE  /\ "pipe" \in file'[f].flag <=> file'[f].ino \in Pipes
              /\ "pipe" \in file'[f].flag => file'[f].flag \in {{"r", "pipe"}, {"w", "pipe"}}
  <3>1. CASE f \in {r, w}  BY <1>3, <3>1
  <3>2. CASE f \notin {r, w}  BY <1>3, <2>1, <3>2 DEF IndInv, FileInv, IsPipe
  <3> QED  BY <3>1, <3>2
 <2>2. ASSUME NEW f \in Files, NEW g \in Files, file'[f].count > 0, file'[g].count > 0,
              file'[f].ino = file'[g].ino, "pipe" \in file'[f].flag, "r" \in file'[f].flag,
              "r" \in file'[g].flag
       PROVE  f = g
  <3>1. CASE file'[f].ino = i
   <4>1. f \in {r, w} /\ g \in {r, w}  BY <1>3, <1>8, <2>2, <3>1
   <4> QED  BY <1>3, <2>2, <4>1
  <3>2. CASE file'[f].ino # i
   <4>1. f \notin {r, w} /\ g \notin {r, w}  BY <1>3, <2>2, <3>2
   <4> QED  BY <1>3, <2>2, <4>1 DEF IndInv, FileInv, IsPipe
  <3> QED  BY <3>1, <3>2
 <2> QED  BY <2>1, <2>2 DEF FileInv, IsPipe
<1>14. ProcOK(p)'  BY <1>2, UserOK
<1>15. u[p].pc \notin BusyPCs /\ u'[p].pc \notin BusyPCs  BY <1>2, Classes
<1>16. InoOK(i)'
 <2>1. \A q \in Procs \ {p} : ~(u[q].pc \in BusyPCs /\ u[q].ino = i)  BY <1>1, NobodyAt
 <2>2. SizeOK(i)'  BY <1>5, Consts DEF SizeOK
 <2> QED  BY <1>1, <1>2, <1>5, <1>15, <2>1, <2>2, Classes, NobodyElse
<1>17. ASSUME NEW q \in Procs \ {p}, u[q].pc = "iput"
       PROVE  /\ inode'[u[q].ino].count = 1
              /\ u[q].f # 0 => file'[u[q].f].count = 1 /\ file'[u[q].f].ino = file[u[q].f].ino
 <2>1. u[q].ino \in Inos /\ inode[u[q].ino].count = 1 /\ u[q].ino # i  BY <1>17, PutAlone
 <2>2. ASSUME u[q].f # 0 PROVE u[q].f \in Files \ {r, w} /\ file[u[q].f].count = 1
   BY <1>17, <2>2, PutAlone
 <2> QED  BY <1>3, <1>5, <2>1, <2>2
<1>18. ASSUME NEW q \in Procs \ {p}, NEW c \in Fds, fds[q][c] # 0
       PROVE  /\ file'[fds[q][c]].ino = file[fds[q][c]].ino
              /\ file'[fds[q][c]].flag = file[fds[q][c]].flag
 <2>1. fds[q][c] \in Files  BY <1>1, <1>18, Consts
 <2>2. <<q, c>> \in Refs(fds[q][c])  BY InRefs
 <2>3. fds[q][c] \notin {r, w}  BY <1>9, <2>2
 <2> QED  BY <1>3, <2>1, <2>3
<1>19. \A f \in Files : file[f].count > 0 /\ file[f].ino # i => file'[f].off = file[f].off  BY <1>3
<1> QED
  BY <1>1, <1>2, <1>4, <1>5, <1>7, <1>12, <1>13, <1>14, <1>15, <1>16, <1>17, <1>18, <1>19, Assemble
\* Pipe gives its inode back
LEMMA PipeFailed ==
  ASSUME IndInv, NEW p \in Procs, NEW i \in Pipes, NEW err \in Errors,
         u[p].pc = "user", inode[i].count = 0,
         inode' = [inode EXCEPT ![i] = [Empty EXCEPT !.count = 1, !.lock = TRUE]],
         u' = [u EXCEPT ![p] = [@ EXCEPT !.pc = "iput", !.f = 0, !.ino = i, !.err = err]],
         cpu' \in {p, NoProc}, UNCHANGED <<fds, file, hist, sig, faults>>
  PROVE  IndInv'
<1>1. u \in [Procs -> URec] /\ inode \in [Inos -> InoRec] /\ i \in Inos  BY Types, Consts DEF IndInv
<1>2. ~u[p].dying  BY DEF IndInv, ProcInv, ProcOK, GoneOK
<1>3. PICK s : s = [u[p] EXCEPT !.pc = "iput", !.f = 0, !.ino = i, !.err = err]  OBVIOUS
<1>4. s \in URec /\ s.pc = "iput" /\ s.f = 0 /\ s.ino = i /\ ~s.dying
 <2>1. u[p] \in URec /\ "iput" \in PCs /\ 0 \in 0 .. NFile  BY <1>1, Consts DEF PCs
 <2> QED  BY <1>1, <1>2, <1>3, <2>1 DEF URec
<1>5. u' \in [Procs -> URec] /\ u'[p] = s /\ After(p, {})
 <2>1. u' = [u EXCEPT ![p] = s]  BY <1>3
 <2> QED  BY <1>1, <1>4, <2>1, PlainStep
<1>6. /\ inode' \in [Inos -> InoRec] /\ inode'[i].count = 1 /\ inode'[i].size = 0
      /\ \A j \in Inos \ {i} : inode'[j] = inode[j]
  BY <1>1, EmptyType
<1>7. TypeOK'  BY <1>5, <1>6, Types, TypeStep DEF IndInv
<1>8. FilesOf(i) = {} /\ Losers(i) = {} /\ \A f \in Files : file[f].count > 0 => file[f].ino # i
  BY <1>1, Unused
<1>9. Counts'
 <2>1. ASSUME NEW f \in Files PROVE Refs(f)' = Refs(f) /\ Closers(f)' = Closers(f)
  <3>1. f # 0  BY Consts
  <3>2. p \notin Closers(f)' /\ p \notin Closers(f)  BY <1>4, <1>5, <3>1 DEF Closers
  <3>3. Closers(f)' \ {p} = Closers(f) \ {p}  BY <1>5, Putters
  <3>4. Closers(f)' = Closers(f)  BY <3>2, <3>3, SameWithout
  <3> QED  BY <3>4 DEF Refs
 <2>2. ASSUME NEW j \in Inos \ {i} PROVE Losers(j)' = Losers(j)
  <3>1. p \notin Losers(j)' /\ p \notin Losers(j)  BY <1>4, <1>5 DEF Losers
  <3>2. Losers(j)' \ {p} = Losers(j) \ {p}  BY <1>5, Putters
  <3> QED  BY <3>1, <3>2, SameWithout
 <2>3. \A j \in Inos : FilesOf(j)' = FilesOf(j)  BY DEF FilesOf
 <2>4. Losers(i)' = {p}
  <3>1. p \in Losers(i)'  BY <1>4, <1>5 DEF Losers
  <3>2. Losers(i)' \ {p} = {}  BY <1>5, <1>8, Putters
  <3> QED  BY <3>1, <3>2
 <2>5. inode'[i].count = Cardinality(FilesOf(i)') + Cardinality(Losers(i)')
  <3>1. Cardinality(FilesOf(i)') = 0 /\ Cardinality(Losers(i)') = 1
    BY <1>1, <1>8, <2>3, <2>4, FS_EmptySet, FS_Singleton
  <3> QED  BY <1>6, <3>1
 <2>6. ASSUME NEW j \in Inos
       PROVE  inode'[j].count = Cardinality(FilesOf(j)') + Cardinality(Losers(j)')
  <3>1. CASE j = i  BY <2>5, <3>1
  <3>2. CASE j # i  BY <1>6, <2>2, <2>3, <3>2 DEF IndInv, Counts
  <3> QED  BY <3>1, <3>2
 <2>7. ASSUME NEW f \in Files
       PROVE  file'[f].count = Cardinality(Refs(f)') + Cardinality(Closers(f)')
   BY <2>1 DEF IndInv, Counts
 <2> QED  BY <2>6, <2>7 DEF Counts
<1>10. FileInv'  BY FileKept
<1>11. ProcOK(p)'
 <2>1. PutOK(p)'  BY <1>4, <1>5, <1>6 DEF PutOK
 <2> QED
   BY <1>4, <1>5, <2>1 DEF ProcOK, CallOK, MoveOK, GoneOK, CallPCs, ReadPCs, WritePCs, FilePCs, MovePCs
<1>12. u[p].pc \notin BusyPCs  BY Classes
<1>13. InoOK(i)'
 <2>1. \A q \in Procs \ {p} : ~(u[q].pc \in BusyPCs /\ u[q].ino = i)  BY <1>1, NobodyAt
 <2>2. SizeOK(i)'  BY <1>6, Consts DEF SizeOK
 <2>3. u'[p].pc \notin CallPCs  BY <1>4, <1>5, Classes
 <2> QED  BY <1>1, <1>4, <1>5, <1>6, <2>1, <2>2, <2>3, NobodyElse
<1>14. ASSUME NEW q \in Procs \ {p}, u[q].pc = "iput"
       PROVE  /\ inode'[u[q].ino].count = 1
              /\ u[q].f # 0 => file'[u[q].f].count = 1 /\ file'[u[q].f].ino = file[u[q].f].ino
 <2>1. u[q].ino \in Inos /\ inode[u[q].ino].count = 1 /\ u[q].ino # i  BY <1>14, PutAlone
 <2>2. u[q].f # 0 => file[u[q].f].count = 1  BY <1>14, PutAlone
 <2> QED  BY <1>6, <2>1, <2>2
<1> QED  BY <1>1, <1>4, <1>5, <1>6, <1>7, <1>9, <1>10, <1>11, <1>12, <1>13, <1>14, Assemble

LEMMA PipeStep ==
  ASSUME IndInv, NEW p \in Procs, Sys_Pipe(p), faults' = faults
  PROVE  IndInv'
<1>1. CanCall(p) /\ u[p].pc = "user" /\ sig' = sig  BY DEF Sys_Pipe, CanCall
<1>2. CASE UNCHANGED <<fds, file, inode, hist>> /\ Done(p, "ENFILE", u)
 <2>1. "ENFILE" \in Errors  BY DEF Errors
 <2> QED  BY <1>1, <1>2, <2>1, Refused
<1>3. CASE ~(UNCHANGED <<fds, file, inode, hist>> /\ Done(p, "ENFILE", u))
 <2>1. PICK d, e : d = Least(FreeFds(p)) /\ e = Least(FreeFds(p) \ {d})  OBVIOUS
 <2>2. PICK r, w : r = Least(FreeFiles) /\ w = Least(FreeFiles \ {r})  OBVIOUS
 <2>3. PICK err : err = IF FreeFds(p) = {} \/ (FreeFds(p) # {} /\ FreeFiles # {} /\ FreeFds(p) = {d})
                        THEN "EMFILE" ELSE "ENFILE"
   OBVIOUS
 <2>4. err \in Errors  BY <2>3 DEF Errors
 <2>5. PICK i \in Pipes :
         /\ inode[i].count = 0
         /\ IF FreeFds(p) # {} /\ FreeFiles # {} /\ FreeFds(p) # {d} /\ FreeFiles # {r}
            THEN /\ fds' = [fds EXCEPT ![p] = [@ EXCEPT ![d] = r, ![e] = w]]
                 /\ file' = [file EXCEPT
                       ![r] = [count |-> 1, flag |-> {"r", "pipe"}, ino |-> i, off |-> 0],
                       ![w] = [count |-> 1, flag |-> {"w", "pipe"}, ino |-> i, off |-> 0]]
                 /\ inode' = [inode EXCEPT ![i] = [Empty EXCEPT !.count = 2]]
                 /\ hist' = [hist EXCEPT ![i] = Clean]
                 /\ Done(p, "none", u)
            ELSE /\ inode' = [inode EXCEPT ![i] = [Empty EXCEPT !.count = 1, !.lock = TRUE]]
                 /\ u' = [u EXCEPT ![p] = [@ EXCEPT !.pc = "iput", !.f = 0, !.ino = i, !.err = err]]
                 /\ cpu' \in {p, NoProc}
                 /\ UNCHANGED <<fds, file, hist>>
   BY <1>3, <2>1, <2>2, <2>3 DEF Sys_Pipe
 <2>6. CASE FreeFds(p) # {} /\ FreeFiles # {} /\ FreeFds(p) # {d} /\ FreeFiles # {r}
  <3>1. d \in FreeFds(p) /\ r \in FreeFiles  BY <2>1, <2>2, <2>6, FreeTypes, LeastIn
  <3>2. e \in FreeFds(p) \ {d}
   <4>1. FreeFds(p) \ {d} # {} /\ FreeFds(p) \ {d} \subseteq Nat  BY <2>6, <3>1, FreeTypes
   <4> QED  BY <2>1, <4>1, LeastIn
  <3>3. w \in FreeFiles \ {r}
   <4>1. FreeFiles \ {r} # {} /\ FreeFiles \ {r} \subseteq Nat  BY <2>6, <3>1, FreeTypes
   <4> QED  BY <2>2, <4>1, LeastIn
  <3>4. /\ d \in Fds /\ e \in Fds /\ d # e /\ fds[p][d] = 0 /\ fds[p][e] = 0
        /\ r \in Files /\ w \in Files /\ r # w /\ file[r].count = 0 /\ file[w].count = 0
    BY <3>1, <3>2, <3>3 DEF FreeFds, FreeFiles
  <3> QED  BY <1>1, <2>5, <2>6, <3>4, PipeMade
 <2>7. CASE ~(FreeFds(p) # {} /\ FreeFiles # {} /\ FreeFds(p) # {d} /\ FreeFiles # {r})
   BY <1>1, <2>4, <2>5, <2>7, PipeFailed
 <2> QED  BY <2>6, <2>7
<1> QED  BY <1>2, <1>3
-----------------------------------------------------------------------------
(* A descriptor is closed, by close or by exit: d of process p, which       *)
(* leads to File f of inode i.                                              *)

Told(f) == IF IsPipe(f) THEN [inode[file[f].ino] EXCEPT !.rd = FALSE, !.wr = FALSE] ELSE inode[file[f].ino]
Ends(f) == IF IsPipe(f) THEN Reading(file[f].ino) \cup Writing(file[f].ino) ELSE {}

\* What a close starts from
Closing(p, d, f) ==
    /\ p \in Procs /\ d \in Fds /\ f \in Files /\ fds[p][d] = f
    /\ u[p].pc \in {"user", "exit"}

LEMMA ClosingFacts ==
  ASSUME IndInv, NEW p, NEW d, NEW f, Closing(p, d, f), NEW i, i = file[f].ino
  PROVE  /\ p \in Procs /\ d \in Fds /\ f \in Files /\ f # 0 /\ i \in Inos
         /\ file[f].count \in Nat /\ file[f].count >= 1 /\ f \in FilesOf(i)
         /\ inode[i].count \in Nat /\ inode[i].count >= 1
         /\ IsPipe(f) <=> i \in Pipes
         /\ u[p].pc \notin BusyPCs
         /\ file \in [Files -> FileRec] /\ inode \in [Inos -> InoRec] /\ u \in [Procs -> URec]
         /\ fds \in [Procs -> [Fds -> 0 .. NFile]] /\ hist \in [Inos -> HistRec]
<1>1. /\ file \in [Files -> FileRec] /\ inode \in [Inos -> InoRec] /\ u \in [Procs -> URec]
      /\ fds \in [Procs -> [Fds -> 0 .. NFile]] /\ hist \in [Inos -> HistRec]
  BY Types DEF IndInv
<1>2. p \in Procs /\ d \in Fds /\ f \in Files /\ fds[p][d] = f /\ u[p].pc \in {"user", "exit"}
  BY DEF Closing
<1>3. f # 0 /\ file[f].count \in Nat /\ file[f].count >= 1 /\ i \in Inos
 <2>1. file[f] \in FileRec  BY <1>1, <1>2
 <2> QED  BY <1>2, <2>1, Consts, Held DEF IndInv, FileRec
<1>4. f \in FilesOf(i) /\ inode[i].count \in Nat /\ inode[i].count >= 1
  BY <1>2, <1>3, Linked DEF IndInv, FilesOf
<1>5. IsPipe(f) <=> i \in Pipes  BY <1>2, <1>3 DEF IndInv, FileInv
<1> QED  BY <1>1, <1>2, <1>3, <1>4, <1>5, Classes

LEMMA ToldType ==
  ASSUME IndInv, NEW p, NEW d, NEW f, Closing(p, d, f), NEW i, i = file[f].ino
  PROVE  /\ Told(f) \in InoRec /\ Told(f).count = inode[i].count /\ Told(f).lock = inode[i].lock
         /\ Told(f).want = inode[i].want /\ Told(f).size = inode[i].size
<1>1. inode[i] \in InoRec  BY ClosingFacts
<1>2. PICK s : s = [inode[i] EXCEPT !.rd = FALSE, !.wr = FALSE]  OBVIOUS
<1>3. s \in InoRec /\ s.count = inode[i].count /\ s.lock = inode[i].lock /\ s.want = inode[i].want
      /\ s.size = inode[i].size
  BY <1>1, <1>2 DEF InoRec
<1>4. Told(f) = s \/ Told(f) = inode[i]  BY <1>2 DEF Told
<1> QED  BY <1>1, <1>3, <1>4

LEMMA EndsIn ==
  ASSUME IndInv, NEW p, NEW d, NEW f, Closing(p, d, f), NEW i, i = file[f].ino
  PROVE  /\ Ends(f) \in SUBSET Procs /\ \A q \in Ends(f) : u[q].pc \in SleepPCs
         /\ \A q \in Procs : u[q].pc \in {"rsleep", "wsleep"} /\ u[q].ino = i => q \in Ends(f)
         /\ inode[i].count # 2 => Ends(f) = {}
<1>1. i \in Inos /\ (IsPipe(f) <=> i \in Pipes)  BY ClosingFacts
<1>2. Ends(f) \in SUBSET Procs /\ \A q \in Ends(f) : u[q].pc \in SleepPCs
  BY <1>1, Sleepers DEF Ends
<1>3. \A q \in Procs : u[q].pc \in {"rsleep", "wsleep"} /\ u[q].ino = i => q \in Ends(f)
  BY <1>1, PipeSleeper DEF Ends, Reading, Writing
<1>4. inode[i].count # 2 => Reading(i) = {} /\ Writing(i) = {}
  BY <1>1 DEF IndInv, InoInv, InoOK, ReadersOK, WritersOK, Reading, Writing
<1> QED  BY <1>2, <1>3, <1>4 DEF Ends

\* The descriptor is taken out
LEMMA OneRefLess ==
  ASSUME fds \in [Procs -> [Fds -> 0 .. NFile]], NEW p \in Procs, NEW d \in Fds, NEW f \in Files,
         fds[p][d] = f, fds' = [fds EXCEPT ![p][d] = 0]
  PROVE  /\ fds' \in [Procs -> [Fds -> 0 .. NFile]]
         /\ \A q \in Procs \ {p} : fds'[q] = fds[q]
         /\ <<p, d>> \in Refs(f) /\ Refs(f)' = Refs(f) \ {<<p, d>>}
         /\ \A g \in Files \ {f} : Refs(g)' = Refs(g)
<1>1. 0 \in 0 .. NFile /\ \A g \in Files : g # 0  BY Consts
<1>2. /\ fds' \in [Procs -> [Fds -> 0 .. NFile]]
      /\ \A q \in Procs \ {p} : fds'[q] = fds[q]
      /\ \A q \in Procs, c \in Fds : fds'[q][c] = IF q = p /\ c = d THEN 0 ELSE fds[q][c]
  BY <1>1
<1>3. <<p, d>> \in Refs(f)  BY InRefs
<1>4. ASSUME NEW x \in Procs \X Fds, NEW g \in Files
      PROVE  fds'[x[1]][x[2]] = g <=> fds[x[1]][x[2]] = g /\ x # <<p, d>>
 <2>1. x[1] \in Procs /\ x[2] \in Fds /\ x = <<x[1], x[2]>>  OBVIOUS
 <2>2. CASE x = <<p, d>>
  <3>1. fds'[x[1]][x[2]] = 0  BY <1>2, <2>2
  <3> QED  BY <1>1, <2>2, <3>1
 <2>3. CASE x # <<p, d>>
  <3>1. ~(x[1] = p /\ x[2] = d)  BY <2>1, <2>3
  <3>2. fds'[x[1]][x[2]] = fds[x[1]][x[2]]  BY <1>2, <2>1, <3>1
  <3> QED  BY <2>3, <3>2
 <2> QED  BY <2>2, <2>3
<1>5. Refs(f)' = Refs(f) \ {<<p, d>>}  BY <1>4 DEF Refs
<1>6. ASSUME NEW g \in Files \ {f} PROVE Refs(g)' = Refs(g)
 <2>1. <<p, d>> \notin Refs(g)  BY DEF Refs
 <2>2. Refs(g)' = Refs(g) \ {<<p, d>>}  BY <1>4 DEF Refs
 <2> QED  BY <2>1, <2>2
<1> QED  BY <1>2, <1>3, <1>5, <1>6
\* One of several descriptors of a File is closed
OneFewer(s, f) == /\ s \in FileRec /\ s.count = file[f].count - 1 /\ s.count # 0
                  /\ s.ino = file[f].ino /\ s.flag = file[f].flag /\ s.off = file[f].off

LEMMA CloseShared ==
  ASSUME IndInv, NEW p, NEW d, NEW f, Closing(p, d, f), NEW i, i = file[f].ino,
         NEW r \in URec, r.pc \in {"user", "exit"}, r.pc = "user" => ~r.dying,
         fds' = [fds EXCEPT ![p][d] = 0], NEW s, OneFewer(s, f), file' = [file EXCEPT ![f] = s],
         inode' = [inode EXCEPT ![i] = Told(f)],
         u' = [Woken(Ends(f)) EXCEPT ![p] = r],
         cpu' \in Procs \cup {NoProc}, hist' \in [Inos -> HistRec], UNCHANGED <<sig, faults>>
  PROVE  IndInv'
<1>1. /\ p \in Procs /\ d \in Fds /\ f \in Files /\ f # 0 /\ i \in Inos /\ fds[p][d] = f
      /\ file[f].count \in Nat /\ file \in [Files -> FileRec] /\ inode \in [Inos -> InoRec]
      /\ u \in [Procs -> URec] /\ fds \in [Procs -> [Fds -> 0 .. NFile]] /\ u[p].pc \notin BusyPCs
  BY ClosingFacts DEF Closing
<1>2. Ends(f) \in SUBSET Procs /\ \A q \in Ends(f) : u[q].pc \in SleepPCs  BY EndsIn
<1>3. u' \in [Procs -> URec] /\ u'[p] = r /\ After(p, Ends(f))  BY <1>1, <1>2, WokenStep
<1>4. u'[p].pc \in {"user", "exit"} /\ u'[p].pc \notin BusyPCs  BY <1>3, Classes
<1>5. PICK n : n = file[f].count - 1  OBVIOUS
<1>6. n \in Nat /\ n >= 1 /\ file[f].count > 0
 <2>1. file[f].count >= 1  BY ClosingFacts
 <2> QED  BY <1>1, <1>5, <2>1 DEF OneFewer
<1>8. s \in FileRec /\ s.count = n /\ s.ino = file[f].ino /\ s.flag = file[f].flag /\ s.off = file[f].off
  BY <1>5 DEF OneFewer
<1>9. file' \in [Files -> FileRec] /\ file'[f] = s /\ \A g \in Files \ {f} : file'[g] = file[g]
  BY <1>1, <1>8
<1>10. /\ inode' \in [Inos -> InoRec] /\ \A j \in Inos \ {i} : inode'[j] = inode[j]
       /\ inode'[i].count = inode[i].count /\ inode'[i].lock = inode[i].lock
       /\ inode'[i].want = inode[i].want /\ inode'[i].size = inode[i].size
  BY <1>1, ToldType
<1>11. /\ fds' \in [Procs -> [Fds -> 0 .. NFile]]
       /\ \A q \in Procs \ {p} : fds'[q] = fds[q]
       /\ <<p, d>> \in Refs(f) /\ Refs(f)' = Refs(f) \ {<<p, d>>}
       /\ \A g \in Files \ {f} : Refs(g)' = Refs(g)
  BY <1>1, OneRefLess
<1>12. TypeOK'  BY <1>3, <1>9, <1>10, <1>11, Types, TypeStep DEF IndInv
<1>13. \A g \in Files : Closers(g)' = Closers(g)
 <2>1. ASSUME NEW g \in Files PROVE Closers(g)' = Closers(g)
  <3>1. p \notin Closers(g)' /\ p \notin Closers(g)  BY <1>1, <1>4, Classes DEF Closers, BusyPCs
  <3>2. Closers(g)' \ {p} = Closers(g) \ {p}  BY <1>1, <1>2, <1>3, Putters
  <3> QED  BY <3>1, <3>2, SameWithout
 <2> QED  BY <2>1
<1>14. \A j \in Inos : Losers(j)' = Losers(j)
 <2>1. ASSUME NEW j \in Inos PROVE Losers(j)' = Losers(j)
  <3>1. p \notin Losers(j)' /\ p \notin Losers(j)  BY <1>1, <1>4, Classes DEF Losers, BusyPCs
  <3>2. Losers(j)' \ {p} = Losers(j) \ {p}  BY <1>1, <1>2, <1>3, Putters
  <3> QED  BY <3>1, <3>2, SameWithout
 <2> QED  BY <2>1
<1>15. \A j \in Inos : FilesOf(j)' = FilesOf(j)
 <2>1. \A g \in Files : (file'[g].count > 0 <=> file[g].count > 0) /\ file'[g].ino = file[g].ino
   BY <1>1, <1>6, <1>8, <1>9
 <2> QED  BY <2>1 DEF FilesOf
<1>16. Counts'
 <2>1. file'[f].count = Cardinality(Refs(f)') + Cardinality(Closers(f)')
  <3>1. PICK a, b : a = Cardinality(Refs(f)) /\ b = Cardinality(Closers(f))  OBVIOUS
  <3>2. IsFiniteSet(Refs(f)) /\ IsFiniteSet(Closers(f))  BY <1>1, Finite
  <3>3. a \in Nat /\ b \in Nat /\ Cardinality(Refs(f) \ {<<p, d>>}) = a - 1
    BY <1>11, <3>1, <3>2, Numbers
  <3>4. file[f].count = a + b  BY <1>1, <3>1 DEF IndInv, Counts
  <3>5. Cardinality(Refs(f)') = a - 1 /\ Cardinality(Closers(f)') = b
    BY <1>1, <1>11, <1>13, <3>1, <3>3
  <3> QED  BY <1>5, <1>8, <1>9, <3>3, <3>4, <3>5
 <2>2. ASSUME NEW g \in Files
       PROVE  file'[g].count = Cardinality(Refs(g)') + Cardinality(Closers(g)')
  <3>1. CASE g = f  BY <2>1, <3>1
  <3>2. CASE g # f  BY <1>9, <1>11, <1>13, <3>2 DEF IndInv, Counts
  <3> QED  BY <3>1, <3>2
 <2>3. ASSUME NEW j \in Inos
       PROVE  inode'[j].count = Cardinality(FilesOf(j)') + Cardinality(Losers(j)')
  <3>1. inode'[j].count = inode[j].count  BY <1>10
  <3> QED  BY <1>14, <1>15, <3>1 DEF IndInv, Counts
 <2> QED  BY <2>2, <2>3 DEF Counts
<1>17. FileInv'
 <2>1. \A g \in Files : file'[g].count > 0 =>
          file[g].count > 0 /\ file'[g].ino = file[g].ino /\ file'[g].flag = file[g].flag
   BY <1>1, <1>5, <1>6, <1>8, <1>9
 <2> QED  BY <2>1, FileKept
<1>18. ProcOK(p)'  BY <1>1, <1>3, <1>4, UserOK
<1>19. InoOK(i)'
 <2>1. LockOK(i)' /\ AloneOK(i)'  BY <1>1, <1>2, <1>3, <1>4, <1>10, Keep, Classes
 <2>2. ASSUME NEW q \in Procs, u'[q].pc \in {"rsleep", "wsleep"}, u'[q].ino = i PROVE FALSE
  <3>1. q # p  BY <1>4, <2>2
  <3>2. u'[q].pc = u[q].pc /\ q \notin Ends(f) /\ u'[q].ino = u[q].ino
    BY <1>1, <1>2, <1>3, <2>2, <3>1, Classes, OtherPc DEF SameCall
  <3> QED  BY <2>2, <3>2, EndsIn
 <2>3. ReadersOK(i)' /\ WritersOK(i)'  BY <2>2 DEF ReadersOK, WritersOK
 <2>4. SizeOK(i)'  BY <1>1, <1>10 DEF IndInv, InoInv, InoOK, SizeOK
 <2> QED  BY <2>1, <2>3, <2>4 DEF InoOK
<1>20. ASSUME NEW q \in Procs \ {p}, u[q].pc = "iput"
       PROVE  /\ inode'[u[q].ino].count = 1
              /\ u[q].f # 0 => file'[u[q].f].count = 1 /\ file'[u[q].f].ino = file[u[q].f].ino
 <2>1. u[q].ino \in Inos /\ inode[u[q].ino].count = 1  BY <1>20, PutAlone
 <2>2. ASSUME u[q].f # 0 PROVE u[q].f \in Files /\ u[q].f # f /\ file[u[q].f].count = 1
   BY <1>1, <1>20, <2>2, PutAlone
 <2>3. inode'[u[q].ino].count = 1  BY <1>10, <2>1
 <2> QED  BY <1>9, <2>2, <2>3
<1>21. ASSUME NEW q \in Procs \ {p}, NEW c \in Fds, fds[q][c] # 0
       PROVE  /\ file'[fds[q][c]].ino = file[fds[q][c]].ino
              /\ file'[fds[q][c]].flag = file[fds[q][c]].flag
 <2>1. fds[q][c] \in Files  BY <1>1, <1>21, Consts
 <2> QED  BY <1>8, <1>9, <2>1
<1>22. \A g \in Files : file[g].count > 0 /\ file[g].ino # i => file'[g].off = file[g].off
  BY <1>8, <1>9
<1> QED
  BY <1>1, <1>2, <1>3, <1>4, <1>10, <1>11, <1>12, <1>16, <1>17, <1>18, <1>19, <1>20, <1>21, <1>22, Assemble
\* The last descriptor of a File whose inode has other references
LastButOne(f) == file[f].count = 1 /\ inode[file[f].ino].count # 1
OneLess(s, i) == s \in InoRec /\ s.count = inode[i].count - 1 /\ s.lock = FALSE /\ s.size = inode[i].size

LEMMA CloseOne ==
  ASSUME IndInv, NEW p, NEW d, NEW f, Closing(p, d, f), NEW i, i = file[f].ino,
         LastButOne(f),
         NEW r \in URec, r.pc \in {"user", "exit"}, r.pc = "user" => ~r.dying,
         fds' = [fds EXCEPT ![p][d] = 0],
         file' = [file EXCEPT ![f] = NoFile],
         NEW s, OneLess(s, i), inode' = [inode EXCEPT ![i] = s],
         u' = [Woken(Ends(f) \cup Waiters(i)) EXCEPT ![p] = r],
         cpu' \in Procs \cup {NoProc}, hist' \in [Inos -> HistRec], UNCHANGED <<sig, faults>>
  PROVE  IndInv'
<1>1. /\ p \in Procs /\ d \in Fds /\ f \in Files /\ f # 0 /\ i \in Inos /\ fds[p][d] = f
      /\ file \in [Files -> FileRec] /\ inode \in [Inos -> InoRec] /\ f \in FilesOf(i)
      /\ inode[i].count \in Nat /\ inode[i].count >= 2
      /\ u \in [Procs -> URec] /\ fds \in [Procs -> [Fds -> 0 .. NFile]] /\ u[p].pc \notin BusyPCs
  BY ClosingFacts DEF Closing, LastButOne
<1>2. PICK W : W = Ends(f) \cup Waiters(i)  OBVIOUS
<1>3. W \in SUBSET Procs /\ \A q \in W : u[q].pc \in SleepPCs  BY <1>1, <1>2, EndsIn, Sleepers
<1>4. u' \in [Procs -> URec] /\ u'[p] = r /\ After(p, W)  BY <1>1, <1>2, <1>3, WokenStep
<1>5. u'[p].pc \in {"user", "exit"} /\ u'[p].pc \notin BusyPCs  BY <1>4, Classes
<1>6. /\ file' \in [Files -> FileRec] /\ file'[f].count = 0 /\ \A g \in Files \ {f} : file'[g] = file[g]
 <2>1. NoFile \in FileRec /\ NoFile.count = 0  BY Consts DEF NoFile, FileRec
 <2> QED  BY <1>1, <2>1
<1>7. PICK n : n = inode[i].count - 1  OBVIOUS
<1>8. n \in Nat /\ n >= 1 /\ n < inode[i].count  BY <1>1, <1>7
<1>10. s \in InoRec /\ s.count = n /\ s.lock = FALSE /\ s.size = inode[i].size  BY <1>7 DEF OneLess
<1>11. inode' \in [Inos -> InoRec] /\ inode'[i] = s /\ \A j \in Inos \ {i} : inode'[j] = inode[j]
  BY <1>1, <1>10
<1>12. /\ fds' \in [Procs -> [Fds -> 0 .. NFile]]
       /\ \A q \in Procs \ {p} : fds'[q] = fds[q]
       /\ <<p, d>> \in Refs(f) /\ Refs(f)' = Refs(f) \ {<<p, d>>}
       /\ \A g \in Files \ {f} : Refs(g)' = Refs(g)
 <2>1. /\ p \in Procs /\ d \in Fds /\ f \in Files /\ fds[p][d] = f
       /\ fds \in [Procs -> [Fds -> 0 .. NFile]]
   BY <1>1
 <2> QED  BY <2>1, OneRefLess
<1>13. Refs(f) = {<<p, d>>} /\ Closers(f) = {}  BY <1>1, Held DEF IndInv, LastButOne
<1>14. TypeOK'  BY <1>4, <1>6, <1>11, <1>12, Types, TypeStep DEF IndInv
<1>15. \A g \in Files : Closers(g)' = Closers(g)
 <2>1. ASSUME NEW g \in Files PROVE Closers(g)' = Closers(g)
  <3>1. p \notin Closers(g)' /\ p \notin Closers(g)  BY <1>1, <1>5, Classes DEF Closers, BusyPCs
  <3>2. Closers(g)' \ {p} = Closers(g) \ {p}  BY <1>1, <1>3, <1>4, Putters
  <3> QED  BY <3>1, <3>2, SameWithout
 <2> QED  BY <2>1
<1>16. \A j \in Inos : Losers(j)' = Losers(j)
 <2>1. ASSUME NEW j \in Inos PROVE Losers(j)' = Losers(j)
  <3>1. p \notin Losers(j)' /\ p \notin Losers(j)  BY <1>1, <1>5, Classes DEF Losers, BusyPCs
  <3>2. Losers(j)' \ {p} = Losers(j) \ {p}  BY <1>1, <1>3, <1>4, Putters
  <3> QED  BY <3>1, <3>2, SameWithout
 <2> QED  BY <2>1
<1>17. FilesOf(i)' = FilesOf(i) \ {f}  BY <1>1, <1>6 DEF FilesOf
<1>18. \A j \in Inos \ {i} : FilesOf(j)' = FilesOf(j)
 <2>1. \A j \in Inos \ {i}, g \in Files : (file'[g].count > 0 /\ file'[g].ino = j)
                                             <=> (file[g].count > 0 /\ file[g].ino = j)
   BY <1>1, <1>6
 <2> QED  BY <2>1 DEF FilesOf
<1>19. Counts'
 <2>1. file'[f].count = Cardinality(Refs(f)') + Cardinality(Closers(f)')
  <3>1. Refs(f)' = {} /\ Closers(f)' = {}  BY <1>1, <1>12, <1>13, <1>15
  <3> QED  BY <1>6, <3>1, FS_EmptySet
 <2>2. ASSUME NEW g \in Files
       PROVE  file'[g].count = Cardinality(Refs(g)') + Cardinality(Closers(g)')
  <3>1. CASE g = f  BY <2>1, <3>1
  <3>2. CASE g # f  BY <1>6, <1>12, <1>15, <3>2 DEF IndInv, Counts
  <3> QED  BY <3>1, <3>2
 <2>3. inode'[i].count = Cardinality(FilesOf(i)') + Cardinality(Losers(i)')
  <3>1. PICK a, b : a = Cardinality(FilesOf(i)) /\ b = Cardinality(Losers(i))  OBVIOUS
  <3>2. IsFiniteSet(FilesOf(i)) /\ IsFiniteSet(Losers(i))  BY <1>1, Finite
  <3>3. a \in Nat /\ b \in Nat /\ Cardinality(FilesOf(i) \ {f}) = a - 1
    BY <1>1, <3>1, <3>2, Numbers
  <3>4. inode[i].count = a + b  BY <1>1, <3>1 DEF IndInv, Counts
  <3>5. Cardinality(FilesOf(i)') = a - 1 /\ Cardinality(Losers(i)') = b
    BY <1>1, <1>16, <1>17, <3>1, <3>3
  <3> QED  BY <1>7, <1>10, <1>11, <3>3, <3>4, <3>5
 <2>4. ASSUME NEW j \in Inos
       PROVE  inode'[j].count = Cardinality(FilesOf(j)') + Cardinality(Losers(j)')
  <3>1. CASE j = i  BY <2>3, <3>1
  <3>2. CASE j # i  BY <1>11, <1>16, <1>18, <3>2 DEF IndInv, Counts
  <3> QED  BY <3>1, <3>2
 <2> QED  BY <2>2, <2>4 DEF Counts
<1>20. FileInv'
 <2>1. \A g \in Files : file'[g].count > 0 =>
          file[g].count > 0 /\ file'[g].ino = file[g].ino /\ file'[g].flag = file[g].flag
   BY <1>6
 <2> QED  BY <2>1, FileKept
<1>21. ProcOK(p)'  BY <1>1, <1>4, <1>5, UserOK
<1>22. InoOK(i)'
 <2>1. ASSUME NEW q \in Procs, u'[q].pc \in LockPCs \cup {"rsleep", "wsleep"}, u'[q].ino = i
       PROVE  FALSE
  <3>1. q # p  BY <1>5, <2>1, Classes
  <3>2. u'[q].pc = u[q].pc /\ q \notin W /\ u'[q].ino = u[q].ino
   <4>1. u'[q].pc \in SleepPCs  BY <2>1, Classes
   <4>2. q \in Procs \ {p}  BY <3>1
   <4>3. p \in Procs /\ W \in SUBSET Procs /\ After(p, W) /\ \A x \in W : u[x].pc \in SleepPCs
     BY <1>1, <1>3, <1>4
   <4>4. /\ SameCall(u'[q], u[q])
         /\ u'[q].pc \in SleepPCs => u'[q].pc = u[q].pc /\ q \notin W
     BY <4>2, <4>3, OtherPc
   <4> QED  BY <4>1, <4>4 DEF SameCall
  <3>3. CASE u[q].pc \in LockPCs
   <4>1. inode[i].want  BY <1>1, <2>1, <3>2, <3>3 DEF IndInv, InoInv, InoOK, LockOK
   <4>2. q \in Waiters(i)  BY <2>1, <3>2, <3>3, <4>1 DEF Waiters, Locking, LockPCs
   <4> QED  BY <1>2, <3>2, <4>2
  <3>4. CASE u[q].pc \in {"rsleep", "wsleep"}  BY <1>2, <2>1, <3>2, <3>4, EndsIn
  <3> QED  BY <2>1, <3>2, <3>3, <3>4
 <2>2. LockOK(i)' /\ ReadersOK(i)' /\ WritersOK(i)'
   BY <1>10, <1>11, <2>1 DEF LockOK, ReadersOK, WritersOK
 <2>3. i \in Pipes => inode[i].count <= 2 /\ inode[i].size <= PipSiz
   BY <1>1 DEF IndInv, InoInv, InoOK, SizeOK
 <2>4. AloneOK(i)' /\ SizeOK(i)'  BY <1>1, <1>8, <1>10, <1>11, <2>3 DEF AloneOK, SizeOK
 <2> QED  BY <2>2, <2>4 DEF InoOK
<1>23. ASSUME NEW q \in Procs \ {p}, u[q].pc = "iput"
       PROVE  /\ inode'[u[q].ino].count = 1
              /\ u[q].f # 0 => file'[u[q].f].count = 1 /\ file'[u[q].f].ino = file[u[q].f].ino
 <2>1. u[q].ino \in Inos /\ inode[u[q].ino].count = 1 /\ u[q].ino # i  BY <1>1, <1>23, PutAlone
 <2>2. ASSUME u[q].f # 0 PROVE u[q].f \in Files /\ u[q].f # f /\ file[u[q].f].count = 1
   BY <1>1, <1>23, <2>2, PutAlone
 <2>3. inode'[u[q].ino].count = 1  BY <1>11, <2>1
 <2> QED  BY <1>6, <2>2, <2>3
<1>24. ASSUME NEW q \in Procs \ {p}, NEW c \in Fds, fds[q][c] # 0
       PROVE  /\ file'[fds[q][c]].ino = file[fds[q][c]].ino
              /\ file'[fds[q][c]].flag = file[fds[q][c]].flag
 <2>1. fds[q][c] \in Files  BY <1>1, <1>24, Consts
 <2>2. <<q, c>> \in Refs(fds[q][c]) /\ <<q, c>> # <<p, d>>  BY InRefs
 <2>3. fds[q][c] # f  BY <1>13, <2>2
 <2> QED  BY <1>6, <2>1, <2>3
<1>25. \A g \in Files : file[g].count > 0 /\ file[g].ino # i => file'[g].off = file[g].off  BY <1>6
<1> QED
  BY <1>1, <1>3, <1>4, <1>5, <1>11, <1>12, <1>14, <1>19, <1>20, <1>21, <1>22, <1>23, <1>24, <1>25, Assemble
\* The last descriptor of the only File of an inode
LastOfAll(f) == file[f].count = 1 /\ inode[file[f].ino].count = 1

LEMMA OnlyCloser ==
  ASSUME IndInv, NEW p, NEW d, NEW f, Closing(p, d, f), NEW i, i = file[f].ino, LastOfAll(f)
  PROVE  /\ Refs(f) = {<<p, d>>} /\ Closers(f) = {} /\ FilesOf(i) = {f} /\ Losers(i) = {}
         /\ \A q \in Procs : ~(u[q].pc \in BusyPCs /\ u[q].ino = i)
         /\ \A q \in Procs : u[q].pc = "iput" => u[q].f # f /\ u[q].ino # i
<1>1. /\ p \in Procs /\ d \in Fds /\ f \in Files /\ f # 0 /\ i \in Inos /\ fds[p][d] = f
      /\ file[f].count = 1 /\ inode[i].count = 1 /\ u[p].pc \notin BusyPCs
  BY ClosingFacts DEF Closing, LastOfAll
<1>2. Refs(f) = {<<p, d>>} /\ Closers(f) = {} /\ FilesOf(i) = {f} /\ Losers(i) = {}
  BY <1>1, Held, Linked DEF IndInv
<1>3. ASSUME NEW q \in Procs, u[q].pc \in CallPCs, u[q].ino = i PROVE FALSE
 <2>1. u[q].f \in FilesOf(i)  BY <1>3, CallFile DEF FilesOf
 <2>2. PICK c \in Fds : fds[q][c] = f  BY <1>2, <1>3, <2>1 DEF IndInv, ProcInv, ProcOK, CallOK
 <2>3. <<q, c>> \in Refs(f)  BY <2>2, InRefs
 <2>4. q = p  BY <1>2, <2>3
 <2> QED  BY <1>1, <1>3, <2>4, Classes
<1>4. ASSUME NEW q \in Procs, u[q].pc = "iput", u[q].f = f PROVE FALSE
 <2>1. p = q  BY <1>1, <1>4, PutAlone
 <2> QED  BY <1>1, <1>4, <2>1 DEF BusyPCs
<1>5. ASSUME NEW q \in Procs, u[q].pc = "iput", u[q].ino = i PROVE FALSE
 <2>1. CASE u[q].f = 0  BY <1>2, <1>5, <2>1, PutAlone
 <2>2. CASE u[q].f # 0
  <3>1. FilesOf(i) = {u[q].f}  BY <1>5, <2>2, PutAlone
  <3>2. u[q].f = f  BY <1>2, <3>1
  <3> QED  BY <1>4, <1>5, <3>2
 <2> QED  BY <2>1, <2>2
<1> QED  BY <1>2, <1>3, <1>4, <1>5 DEF BusyPCs

LEMMA CloseLast ==
  ASSUME IndInv, NEW p, NEW d, NEW f, Closing(p, d, f), NEW i, i = file[f].ino, LastOfAll(f),
         NEW v \in URec, v.pc = "iput", v.f = f, v.ino = i,
         \/ fds' = [fds EXCEPT ![p][d] = 0] /\ v.dying = FALSE
         \/ fds' = fds /\ v.dying = TRUE /\ v.fd = d,
         NEW s \in InoRec, s.count = inode[i].count, s.size = inode[i].size,
         inode' = [inode EXCEPT ![i] = s],
         u' = [u EXCEPT ![p] = v],
         cpu' \in Procs \cup {NoProc}, UNCHANGED <<file, hist, sig, faults>>
  PROVE  IndInv'
<1>1. /\ p \in Procs /\ d \in Fds /\ f \in Files /\ f # 0 /\ i \in Inos /\ fds[p][d] = f
      /\ file[f].count = 1 /\ inode[i].count = 1
      /\ u \in [Procs -> URec] /\ fds \in [Procs -> [Fds -> 0 .. NFile]] /\ u[p].pc \notin BusyPCs
  BY ClosingFacts DEF Closing, LastOfAll
<1>2. /\ Refs(f) = {<<p, d>>} /\ Closers(f) = {} /\ FilesOf(i) = {f} /\ Losers(i) = {}
      /\ \A q \in Procs : ~(u[q].pc \in BusyPCs /\ u[q].ino = i)
      /\ \A q \in Procs : u[q].pc = "iput" => u[q].f # f /\ u[q].ino # i
  BY OnlyCloser
<1>3. u' \in [Procs -> URec] /\ u'[p] = v /\ After(p, {})  BY <1>1, PlainStep
<1>4. /\ inode' \in [Inos -> InoRec] /\ inode'[i] = s /\ \A j \in Inos \ {i} : inode'[j] = inode[j]
      /\ inode'[i].count = 1 /\ inode'[i].size = inode[i].size
 <2>1. inode \in [Inos -> InoRec]  BY ClosingFacts
 <2> QED  BY <1>1, <2>1
<1>5. fds' \in [Procs -> [Fds -> 0 .. NFile]] /\ \A q \in Procs \ {p} : fds'[q] = fds[q]
  BY <1>1, Consts
<1>6. TypeOK'  BY <1>3, <1>4, <1>5, Types, TypeStep DEF IndInv
<1>7. /\ \A g \in Files \ {f} : Refs(g)' = Refs(g)
      /\ \/ Refs(f)' = {} /\ Closers(f)' = {p}
         \/ Refs(f)' = {<<p, d>>} /\ Closers(f)' = {}
 <2>1. Closers(f)' \ {p} = {}  BY <1>1, <1>2, <1>3, Putters
 <2>2. p \in Closers(f)' <=> ~v.dying  BY <1>1, <1>3 DEF Closers
 <2>3. CASE fds' = [fds EXCEPT ![p][d] = 0] /\ v.dying = FALSE
  <3>1. Closers(f)' = {p}  BY <2>1, <2>2, <2>3
  <3>2. Refs(f)' = Refs(f) \ {<<p, d>>} /\ \A g \in Files \ {f} : Refs(g)' = Refs(g)
    BY <1>1, <2>3, OneRefLess
  <3> QED  BY <1>2, <3>1, <3>2
 <2>4. CASE fds' = fds /\ v.dying = TRUE
  <3>1. Closers(f)' = {}  BY <2>1, <2>2, <2>4
  <3>2. \A g \in Files : Refs(g)' = Refs(g)  BY <2>4 DEF Refs
  <3> QED  BY <1>1, <1>2, <3>1, <3>2
 <2> QED  BY <2>3, <2>4
<1>8. \A g \in Files \ {f} : Closers(g)' = Closers(g)
 <2>1. ASSUME NEW g \in Files \ {f} PROVE Closers(g)' = Closers(g)
  <3>1. p \notin Closers(g)' /\ p \notin Closers(g)  BY <1>1, <1>3, Classes DEF Closers, BusyPCs
  <3>2. Closers(g)' \ {p} = Closers(g) \ {p}  BY <1>1, <1>3, Putters
  <3> QED  BY <3>1, <3>2, SameWithout
 <2> QED  BY <2>1
<1>9. \A j \in Inos : Losers(j)' = Losers(j) /\ FilesOf(j)' = FilesOf(j)
 <2>1. ASSUME NEW j \in Inos PROVE Losers(j)' = Losers(j)
  <3>1. p \notin Losers(j)' /\ p \notin Losers(j)  BY <1>1, <1>3, Classes DEF Losers, BusyPCs
  <3>2. Losers(j)' \ {p} = Losers(j) \ {p}  BY <1>1, <1>3, Putters
  <3> QED  BY <3>1, <3>2, SameWithout
 <2>2. \A j \in Inos : FilesOf(j)' = FilesOf(j)  BY DEF FilesOf
 <2> QED  BY <2>1, <2>2
<1>10. Counts'
 <2>1. file'[f].count = Cardinality(Refs(f)') + Cardinality(Closers(f)')
  <3>1. /\ Cardinality({}) = 0 /\ Cardinality({p}) = 1 /\ Cardinality({<<p, d>>}) = 1
    BY FS_EmptySet, FS_Singleton
  <3>2. file'[f].count = 1  BY <1>1
  <3>3. CASE Refs(f)' = {} /\ Closers(f)' = {p}  BY <3>1, <3>2, <3>3
  <3>4. CASE Refs(f)' = {<<p, d>>} /\ Closers(f)' = {}  BY <3>1, <3>2, <3>4
  <3> QED  BY <1>7, <3>3, <3>4
 <2>2. ASSUME NEW g \in Files
       PROVE  file'[g].count = Cardinality(Refs(g)') + Cardinality(Closers(g)')
  <3>1. CASE g = f  BY <2>1, <3>1
  <3>2. CASE g # f  BY <1>7, <1>8, <3>2 DEF IndInv, Counts
  <3> QED  BY <3>1, <3>2
 <2>3. ASSUME NEW j \in Inos
       PROVE  inode'[j].count = Cardinality(FilesOf(j)') + Cardinality(Losers(j)')
  <3>1. inode'[j].count = inode[j].count  BY <1>1, <1>4
  <3> QED  BY <1>9, <3>1 DEF IndInv, Counts
 <2> QED  BY <2>2, <2>3 DEF Counts
<1>11. FileInv'  BY FileKept
<1>12. ProcOK(p)'
 <2>1. PutOK(p)'  BY <1>1, <1>3, <1>4 DEF PutOK
 <2> QED
   BY <1>3, <2>1 DEF ProcOK, CallOK, MoveOK, GoneOK, CallPCs, ReadPCs, WritePCs, FilePCs, MovePCs
<1>13. InoOK(i)'
 <2>1. SizeOK(i)'  BY <1>1, <1>4 DEF IndInv, InoInv, InoOK, SizeOK
 <2>2. u'[p].pc \notin CallPCs  BY <1>3, Classes
 <2> QED  BY <1>1, <1>2, <1>3, <1>4, <2>1, <2>2, NobodyElse
<1>14. ASSUME NEW q \in Procs \ {p}, u[q].pc = "iput"
       PROVE  /\ inode'[u[q].ino].count = 1
              /\ u[q].f # 0 => file'[u[q].f].count = 1 /\ file'[u[q].f].ino = file[u[q].f].ino
 <2>1. u[q].ino \in Inos /\ inode[u[q].ino].count = 1 /\ u[q].ino # i  BY <1>2, <1>14, PutAlone
 <2>2. u[q].f # 0 => file[u[q].f].count = 1  BY <1>14, PutAlone
 <2> QED  BY <1>4, <2>1, <2>2
<1> QED  BY <1>1, <1>3, <1>4, <1>5, <1>6, <1>10, <1>11, <1>12, <1>13, <1>14, Assemble
LEMMA BrokenType ==
  ASSUME hist \in [Inos -> HistRec], NEW i \in Inos, NEW b,
         hist' = [hist EXCEPT ![i].broken = @ \/ b]
  PROVE  hist' \in [Inos -> HistRec]
<1>1. hist[i] \in HistRec  OBVIOUS
<1>2. PICK c \in BOOLEAN : c <=> (hist[i].broken \/ b)
 <2>1. CASE hist[i].broken \/ b  BY <2>1
 <2>2. CASE ~(hist[i].broken \/ b)  BY <2>2
 <2> QED  BY <2>1, <2>2
<1>3. (hist[i].broken \/ b) \in BOOLEAN  BY Zenon
<1>4. [hist[i] EXCEPT !.broken = hist[i].broken \/ b] \in HistRec  BY <1>1, <1>3 DEF HistRec
<1> QED  BY <1>4

\* The three ways a close goes
AllGone(p, f, r) ==
    LET i == file[f].ino IN
    /\ inode' = [inode EXCEPT ![i] = [Told(f) EXCEPT !.lock = TRUE]]
    /\ u' = [Woken(Ends(f)) EXCEPT ![p] = [r EXCEPT !.pc = "iput", !.f = f, !.ino = i]]
    /\ cpu' \in {p, NoProc} /\ UNCHANGED <<file, hist>>
FileGone(p, f, r, next) ==
    LET i == file[f].ino IN
    /\ inode' = [inode EXCEPT ![i] = [Freed(Told(f)) EXCEPT !.count = Told(f).count - 1]]
    /\ file' = [file EXCEPT ![f] = NoFile]
    /\ u' = [Woken(Ends(f) \cup Waiters(i)) EXCEPT ![p] = r] /\ cpu' = next
NoneGone(p, f, r, next) ==
    LET i == file[f].ino IN
    /\ inode' = [inode EXCEPT ![i] = Told(f)]
    /\ file' = [file EXCEPT ![f] = [@ EXCEPT !.count = file[f].count - 1]]
    /\ u' = [Woken(Ends(f)) EXCEPT ![p] = r] /\ cpu' = next
HistGone(i) == hist' = hist \/ \E b : hist' = [hist EXCEPT ![i].broken = @ \/ b]

LEMMA CloseCases ==
  ASSUME NEW p, NEW f, NEW r, NEW next, CloseF(p, f, r, next)
  PROVE  /\ file[f].count <= 1 /\ inode[file[f].ino].count = 1 => AllGone(p, f, r)
         /\ file[f].count <= 1 /\ inode[file[f].ino].count # 1 => FileGone(p, f, r, next)
         /\ ~(file[f].count <= 1) => NoneGone(p, f, r, next)
         /\ HistGone(file[f].ino)
<1>1. Ends(f) \cup {} = Ends(f)  OBVIOUS
<1>2. file[f].count <= 1 /\ inode[file[f].ino].count = 1 => AllGone(p, f, r)
  BY Zenon DEF CloseF, Told, Ends, AllGone
<1>3. file[f].count <= 1 /\ inode[file[f].ino].count # 1 => FileGone(p, f, r, next)
  BY Zenon DEF CloseF, Told, Ends, FileGone
<1>4. ~(file[f].count <= 1) => NoneGone(p, f, r, next)
  BY <1>1, Zenon DEF CloseF, Told, Ends, NoneGone
<1>5. HistGone(file[f].ino)  BY Zenon DEF CloseF, HistGone
<1> QED  BY <1>2, <1>3, <1>4, <1>5

LEMMA CloseFStep ==
  ASSUME IndInv, NEW p, NEW d, NEW f, Closing(p, d, f),
         NEW r \in URec, r.pc \in {"user", "exit"}, r.pc = "user" => ~r.dying,
         r.dying \in BOOLEAN, r.dying => r.fd = d,
         NEW next \in Procs \cup {NoProc}, CloseF(p, f, r, next),
         fds' = IF u'[p].pc = "iput" /\ r.dying THEN fds ELSE [fds EXCEPT ![p][d] = 0],
         UNCHANGED <<sig, faults>>
  PROVE  IndInv'
<1>1. PICK i : i = file[f].ino  OBVIOUS
<1>2. /\ p \in Procs /\ f \in Files /\ f # 0 /\ i \in Inos
      /\ file[f].count \in Nat /\ file[f].count >= 1
      /\ u \in [Procs -> URec] /\ hist \in [Inos -> HistRec]
  BY <1>1, ClosingFacts
<1>3. /\ Ends(f) \in SUBSET Procs /\ \A q \in Ends(f) : u[q].pc \in SleepPCs
      /\ inode[i].count # 2 => Ends(f) = {}
  BY <1>1, EndsIn
<1>4. PICK t : t = Told(f)  OBVIOUS
<1>5. t \in InoRec /\ t.count = inode[i].count /\ t.size = inode[i].size  BY <1>1, <1>4, ToldType
<1>6. PICK E : E = Ends(f)  OBVIOUS
<1>10. hist' \in [Inos -> HistRec]
 <2>1. hist' = hist \/ \E b : hist' = [hist EXCEPT ![i].broken = @ \/ b]
  <3>1. HistGone(i)  BY <1>1, CloseCases
  <3> QED  BY <3>1 DEF HistGone
 <2> QED  BY <1>2, <2>1, BrokenType
<1>7. CASE file[f].count <= 1 /\ inode[i].count = 1
 <2>1. /\ inode' = [inode EXCEPT ![i] = [t EXCEPT !.lock = TRUE]]
       /\ u' = [Woken(E) EXCEPT ![p] = [r EXCEPT !.pc = "iput", !.f = f, !.ino = i]]
       /\ cpu' \in {p, NoProc} /\ UNCHANGED <<file, hist>>
  <3>1. AllGone(p, f, r)  BY <1>1, <1>7, CloseCases
  <3> QED  BY <1>1, <1>4, <1>6, <3>1 DEF AllGone
 <2>2. PICK v : v = [r EXCEPT !.pc = "iput", !.f = f, !.ino = i]  OBVIOUS
 <2>3. /\ v \in URec /\ v.pc = "iput" /\ v.f = f /\ v.ino = i /\ v.dying = r.dying /\ v.fd = r.fd
  <3>1. "iput" \in PCs /\ f \in 0 .. NFile  BY <1>2, Consts DEF PCs
  <3> QED  BY <1>2, <2>2, <3>1 DEF URec
 <2>4. u' = [u EXCEPT ![p] = v]
  <3>1. Woken(E) = u  BY <1>2, <1>3, <1>6, <1>7, WokenNone
  <3> QED  BY <2>1, <2>2, <3>1
 <2>5. u'[p].pc = "iput"  BY <1>2, <2>3, <2>4
 <2>6. PICK s : s = [t EXCEPT !.lock = TRUE]  OBVIOUS
 <2>7. s \in InoRec /\ s.count = inode[i].count /\ s.size = inode[i].size  BY <1>5, <2>6 DEF InoRec
 <2>8. inode' = [inode EXCEPT ![i] = s]  BY <2>1, <2>6
 <2>9. LastOfAll(f)  BY <1>1, <1>2, <1>7 DEF LastOfAll
 <2>10. \/ fds' = [fds EXCEPT ![p][d] = 0] /\ v.dying = FALSE
        \/ fds' = fds /\ v.dying = TRUE /\ v.fd = d
   BY <2>3, <2>5
 <2>11. cpu' \in Procs \cup {NoProc} /\ UNCHANGED <<file, hist>>  BY <1>2, <2>1
 <2> QED  BY <1>1, <2>3, <2>4, <2>7, <2>8, <2>9, <2>10, <2>11, CloseLast
<1>8. CASE file[f].count <= 1 /\ inode[i].count # 1
 <2>1. /\ inode' = [inode EXCEPT ![i] = [Freed(t) EXCEPT !.count = t.count - 1]]
       /\ file' = [file EXCEPT ![f] = NoFile]
       /\ u' = [Woken(E \cup Waiters(i)) EXCEPT ![p] = r] /\ cpu' = next
  <3>1. FileGone(p, f, r, next)  BY <1>1, <1>8, CloseCases
  <3> QED  BY <1>1, <1>4, <1>6, <3>1 DEF FileGone
 <2>2. PICK n : n = t.count - 1  OBVIOUS
 <2>3. n \in Nat
  <3>1. inode[i].count \in Nat /\ inode[i].count >= 1  BY <1>1, ClosingFacts
  <3> QED  BY <1>5, <2>2, <3>1
 <2>4. PICK s : s = [Freed(t) EXCEPT !.count = n]  OBVIOUS
 <2>5. s \in InoRec /\ s.count = n /\ s.lock = FALSE /\ s.size = t.size
  <3>1. PICK v : v = Freed(t)  OBVIOUS
  <3>2. v \in InoRec /\ v.lock = FALSE /\ v.size = t.size  BY <1>5, <3>1 DEF Freed, InoRec
  <3>3. /\ [v EXCEPT !.count = n] \in InoRec /\ [v EXCEPT !.count = n].count = n
        /\ [v EXCEPT !.count = n].lock = v.lock /\ [v EXCEPT !.count = n].size = v.size
    BY <2>3, <3>2 DEF InoRec
  <3> QED  BY <2>4, <3>1, <3>2, <3>3
 <2>6. inode' = [inode EXCEPT ![i] = s]  BY <2>1, <2>2, <2>4
 <2>7. LastButOne(f)  BY <1>1, <1>2, <1>8 DEF LastButOne
 <2>8. OneLess(s, i)  BY <1>5, <2>2, <2>5 DEF OneLess
 <2>9. file' = [file EXCEPT ![f] = NoFile]  BY <2>1
 <2>10. fds' = [fds EXCEPT ![p][d] = 0]
  <3>1. u'[p] = r  BY <1>2, <2>1 DEF Woken
  <3> QED  BY <3>1
 <2>11. u' = [Woken(Ends(f) \cup Waiters(i)) EXCEPT ![p] = r] /\ cpu' \in Procs \cup {NoProc}
   BY <1>6, <2>1
 <2> QED  BY <1>1, <1>10, <2>6, <2>7, <2>8, <2>9, <2>10, <2>11, CloseOne
<1>9. CASE file[f].count > 1
 <2>1. /\ inode' = [inode EXCEPT ![i] = t]
       /\ file' = [file EXCEPT ![f] = [@ EXCEPT !.count = file[f].count - 1]]
       /\ u' = [Woken(E) EXCEPT ![p] = r] /\ cpu' = next
  <3>1. ~(file[f].count <= 1)  BY <1>2, <1>9
  <3>2. NoneGone(p, f, r, next)  BY <3>1, CloseCases
  <3> QED  BY <1>1, <1>4, <1>6, <3>2 DEF NoneGone
 <2>3. u' = [Woken(Ends(f)) EXCEPT ![p] = r] /\ cpu' \in Procs \cup {NoProc}  BY <1>6, <2>1
 <2>2. PICK n : n = file[f].count - 1  OBVIOUS
 <2>7. PICK s : s = [file[f] EXCEPT !.count = n]  OBVIOUS
 <2>8. file' = [file EXCEPT ![f] = s]  BY <2>1, <2>2, <2>7
 <2>4. OneFewer(s, f)
  <3>1. n \in Nat /\ n # 0  BY <1>2, <1>9, <2>2
  <3>2. file[f] \in FileRec  BY <1>2, ClosingFacts
  <3> QED  BY <2>2, <2>7, <3>1, <3>2, WithCount DEF OneFewer
 <2>5. fds' = [fds EXCEPT ![p][d] = 0]
  <3>1. u'[p] = r  BY <1>2, <2>3 DEF Woken
  <3> QED  BY <3>1
 <2>6. inode' = [inode EXCEPT ![i] = Told(f)]  BY <1>4, <2>1
 <2> QED  BY <1>1, <1>10, <2>3, <2>4, <2>5, <2>6, <2>8, CloseShared
<1> QED  BY <1>2, <1>7, <1>8, <1>9

LEMMA CloseStep ==
  ASSUME IndInv, NEW p \in Procs, NEW d \in Asked, Sys_Close(p, d), faults' = faults
  PROVE  IndInv'
<1>1. PICK f : f = GetF(p, d)  OBVIOUS
<1>2. CASE f = 0
 <2>1. Done(p, "EBADF", u) /\ CanCall(p) /\ UNCHANGED <<fds, file, inode, hist, sig, faults>>
   BY <1>1, <1>2 DEF Sys_Close
 <2>2. "EBADF" \in Errors  BY DEF Errors
 <2> QED  BY <2>1, <2>2, Refused
<1>3. CASE f # 0
 <2>1. /\ CanCall(p) /\ fds' = [fds EXCEPT ![p][d] = 0] /\ CloseF(p, f, Back("none"), NoProc)
       /\ UNCHANGED <<sig, faults>>
   BY <1>1, <1>3 DEF Sys_Close
 <2>2. f \in Files /\ d \in Fds /\ fds[p][d] = f /\ u[p].pc = "user"
   BY <1>1, <1>3, <2>1, GetFType DEF CanCall
 <2>3. Closing(p, d, f)  BY <2>2 DEF Closing
 <2>4. PICK r : r = Back("none")  OBVIOUS
 <2>5. r \in URec /\ r.pc = "user" /\ r.dying = FALSE
  <3>1. "none" \in Errors  BY DEF Errors
  <3>2. r \in URec /\ r.pc = "user" /\ ~r.dying  BY <2>4, <3>1, BackType
  <3> QED  BY <3>2 DEF URec
 <2>6. CloseF(p, f, r, NoProc)  BY <2>1, <2>4
 <2> QED  BY <2>1, <2>3, <2>5, <2>6, CloseFStep
<1> QED  BY <1>2, <1>3

LEMMA ExitCloseStep ==
  ASSUME IndInv, NEW p \in Procs, ExitClose(p)
  PROVE  IndInv'
<1>1. PICK d \in Fds :
        /\ u[p].pc = "exit" /\ fds[p][d] # 0
        /\ CloseF(p, fds[p][d], [Dying EXCEPT !.fd = d], p)
        /\ fds' = IF u'[p].pc = "iput" THEN fds ELSE [fds EXCEPT ![p][d] = 0]
        /\ UNCHANGED <<sig, faults>>
  BY DEF ExitClose
<1>2. PICK f : f = fds[p][d]  OBVIOUS
<1>3. f \in Files
 <2>1. fds \in [Procs -> [Fds -> 0 .. NFile]]  BY Types DEF IndInv
 <2> QED  BY <1>1, <1>2, <2>1, Consts
<1>4. Closing(p, d, f)  BY <1>1, <1>2, <1>3 DEF Closing
<1>5. PICK r : r = [Dying EXCEPT !.fd = d]  OBVIOUS
<1>6. r \in URec /\ r.pc = "exit" /\ r.dying = TRUE /\ r.fd = d
 <2>1. d \in Nat  BY Consts
 <2>2. Dying.dying = TRUE  BY DyingType DEF URec
 <2> QED  BY <1>5, <2>1, <2>2, DyingType DEF URec
<1>7. CloseF(p, f, r, p)  BY <1>1, <1>2, <1>5
<1> QED  BY <1>1, <1>4, <1>6, <1>7, CloseFStep
\* The inode that is put is not in use any more
LEMMA GoneType ==
  ASSUME IndInv, NEW p \in Procs, u[p].pc = "iput", NEW i, i = u[p].ino
  PROVE  \E s \in InoRec :
            /\ s = IF i \in Pipes THEN Empty ELSE [Freed(inode[i]) EXCEPT !.count = @ - 1]
            /\ s.count = 0 /\ s.lock = FALSE /\ (i \in Pipes => s.size = 0)
<1>1. CASE i \in Pipes  BY <1>1, EmptyType DEF Empty
<1>2. CASE i \notin Pipes
 <2>1. inode[i] \in InoRec /\ inode[i].count = 1
  <3>1. i \in Inos /\ inode[i].count = 1  BY PutAlone
  <3>2. inode \in [Inos -> InoRec]  BY Types DEF IndInv
  <3> QED  BY <3>1, <3>2
 <2>2. PICK v : v = Freed(inode[i])  OBVIOUS
 <2>3. v \in InoRec /\ v.lock = FALSE /\ v.count = 1  BY <2>1, <2>2 DEF Freed, InoRec
 <2>4. PICK n : n = v.count - 1  OBVIOUS
 <2>5. n = 0  BY <2>3, <2>4
 <2>6. PICK s : s = [v EXCEPT !.count = n]  OBVIOUS
 <2>7. s \in InoRec /\ s.count = 0 /\ s.lock = FALSE  BY <2>3, <2>5, <2>6 DEF InoRec
 <2>8. s = IF i \in Pipes THEN Empty ELSE [Freed(inode[i]) EXCEPT !.count = @ - 1]
   BY <1>2, <2>2, <2>4, <2>6
 <2> QED  BY <1>2, <2>7, <2>8
<1> QED  BY <1>1, <1>2

\* What p refers to is gone with its File
LEMMA PutRefs ==
  ASSUME IndInv, NEW p \in Procs, u[p].pc = "iput", NEW f, f = u[p].f, NEW i, i = u[p].ino,
         fds' = IF u[p].dying THEN [fds EXCEPT ![p][u[p].fd] = 0] ELSE fds
  PROVE  /\ fds' \in [Procs -> [Fds -> 0 .. NFile]]
         /\ \A q \in Procs \ {p} : fds'[q] = fds[q]
         /\ f # 0 => Refs(f)' = {}
         /\ \A g \in Files : g # f => Refs(g)' = Refs(g)
         /\ f # 0 => \A q \in Procs \ {p}, c \in Fds : fds[q][c] # f
<1>1. fds \in [Procs -> [Fds -> 0 .. NFile]]  BY Types DEF IndInv
<1>2. f # 0 =>
          /\ f \in Files
          /\ \A q \in Procs, d \in Fds : fds[q][d] = f => q = p /\ u[p].dying /\ d = u[p].fd
  BY PutAlone
<1>3. CASE ~u[p].dying
 <2>1. fds' = fds  BY <1>3
 <2>2. f # 0 => \A q \in Procs, c \in Fds : fds[q][c] # f  BY <1>2, <1>3
 <2>3. \A g \in Files : Refs(g)' = Refs(g)  BY <2>1 DEF Refs
 <2>4. f # 0 => Refs(f) = {}  BY <2>2 DEF Refs
 <2> QED  BY <1>1, <1>2, <2>1, <2>2, <2>3, <2>4
<1>4. CASE u[p].dying
 <2>1. PICK d : d = u[p].fd  OBVIOUS
 <2>2. f # 0 /\ d \in Fds /\ fds[p][d] = f  BY <1>4, <2>1 DEF IndInv, ProcInv, ProcOK, PutOK
 <2>3. f \in Files /\ \A q \in Procs, c \in Fds : fds[q][c] = f => q = p /\ c = d
   BY <1>2, <2>1, <2>2
 <2>4. fds' = [fds EXCEPT ![p][d] = 0]  BY <1>4, <2>1
 <2>5. /\ fds' \in [Procs -> [Fds -> 0 .. NFile]]
       /\ \A q \in Procs \ {p} : fds'[q] = fds[q]
       /\ Refs(f)' = Refs(f) \ {<<p, d>>}
       /\ \A g \in Files \ {f} : Refs(g)' = Refs(g)
   BY <1>1, <2>2, <2>3, <2>4, OneRefLess
 <2>6. Refs(f) \subseteq {<<p, d>>}
  <3>1. ASSUME NEW x \in Refs(f) PROVE x = <<p, d>>
   <4>1. x[1] \in Procs /\ x[2] \in Fds /\ x = <<x[1], x[2]>> /\ fds[x[1]][x[2]] = f  BY DEF Refs
   <4> QED  BY <2>3, <4>1
  <3> QED  BY <3>1
 <2> QED  BY <2>3, <2>5, <2>6
<1> QED  BY <1>3, <1>4

LEMMA IPutStep ==
  ASSUME IndInv, NEW p \in Procs, IPut(p)
  PROVE  IndInv'
<1>1. PICK i, f : i = u[p].ino /\ f = u[p].f  OBVIOUS
<1>2. /\ u[p].pc = "iput"
      /\ inode' = [inode EXCEPT ![i] = IF i \in Pipes THEN Empty
                                       ELSE [Freed(inode[i]) EXCEPT !.count = @ - 1]]
      /\ file' = IF f = 0 THEN file ELSE [file EXCEPT ![f] = NoFile]
      /\ fds' = IF u[p].dying THEN [fds EXCEPT ![p][u[p].fd] = 0] ELSE fds
      /\ u' = [Woken(Waiters(i)) EXCEPT ![p] = IF u[p].dying THEN Dying ELSE Back(u[p].err)]
      /\ cpu' = IF u[p].dying THEN p ELSE NoProc
      /\ UNCHANGED <<sig, faults, hist>>
  BY <1>1 DEF IPut
<1>3. /\ u \in [Procs -> URec] /\ file \in [Files -> FileRec] /\ inode \in [Inos -> InoRec]
  BY Types DEF IndInv
<1>4. /\ i \in Inos /\ inode[i].count = 1
      /\ f # 0 => /\ f \in Files /\ file[f].count = 1 /\ file[f].ino = i
                  /\ \A q \in Procs : u[q].pc = "iput" /\ u[q].f = f => q = p
                  /\ FilesOf(i) = {f} /\ Losers(i) = {}
      /\ f = 0 => FilesOf(i) = {} /\ Losers(i) = {p}
  BY <1>1, <1>2, PutAlone
<1>5. \A q \in Procs \ {p} : ~(u[q].pc \in BusyPCs /\ u[q].ino = i)  BY <1>1, <1>2, OnlyPutter
<1>6. PICK s \in InoRec :
          /\ s = IF i \in Pipes THEN Empty ELSE [Freed(inode[i]) EXCEPT !.count = @ - 1]
          /\ s.count = 0 /\ s.lock = FALSE /\ (i \in Pipes => s.size = 0)
  BY <1>1, <1>2, GoneType
<1>7. /\ inode' \in [Inos -> InoRec] /\ inode'[i] = s /\ \A j \in Inos \ {i} : inode'[j] = inode[j]
 <2>1. inode' = [inode EXCEPT ![i] = s]  BY <1>2, <1>6
 <2> QED  BY <1>3, <1>4, <2>1
<1>8. /\ file' \in [Files -> FileRec] /\ (f # 0 => file'[f].count = 0)
      /\ \A g \in Files : g # f => file'[g] = file[g]
 <2>1. NoFile \in FileRec /\ NoFile.count = 0  BY Consts DEF NoFile, FileRec
 <2>2. CASE f = 0  BY <1>2, <1>3, <2>2
 <2>3. CASE f # 0
  <3>1. file' = [file EXCEPT ![f] = NoFile]  BY <1>2, <2>3
  <3> QED  BY <1>3, <1>4, <2>1, <2>3, <3>1
 <2> QED  BY <2>2, <2>3
<1>9. /\ fds' \in [Procs -> [Fds -> 0 .. NFile]]
      /\ \A q \in Procs \ {p} : fds'[q] = fds[q]
      /\ f # 0 => Refs(f)' = {}
      /\ \A g \in Files : g # f => Refs(g)' = Refs(g)
      /\ f # 0 => \A q \in Procs \ {p}, c \in Fds : fds[q][c] # f
  BY <1>1, <1>2, PutRefs
<1>10. PICK r : r = IF u[p].dying THEN Dying ELSE Back(u[p].err)  OBVIOUS
<1>11. r \in URec /\ r.pc \in {"user", "exit"} /\ (r.pc = "user" => ~r.dying)
 <2>1. u[p].err \in Errors  BY <1>3 DEF URec
 <2> QED  BY <1>10, <2>1, DyingType, BackType
<1>12. u' \in [Procs -> URec] /\ u'[p] = r /\ After(p, {})
 <2>1. Waiters(i) = {}
  <3>1. ASSUME NEW q \in Waiters(i) PROVE FALSE
   <4>1. q \in Procs /\ u[q].pc \in SleepPCs /\ u[q].ino = i  BY <1>4, <3>1, Sleepers
   <4>2. u[q].pc \in BusyPCs /\ q # p  BY <1>2, <4>1, Classes
   <4> QED  BY <1>5, <4>1, <4>2
  <3> QED  BY <3>1
 <2>2. u' = [u EXCEPT ![p] = r]  BY <1>2, <1>3, <1>10, <2>1, WokenNone
 <2> QED  BY <1>3, <1>11, <2>2, PlainStep
<1>13. cpu' \in Procs \cup {NoProc}  BY <1>2
<1>14. TypeOK'  BY <1>2, <1>7, <1>8, <1>9, <1>12, <1>13, Types, TypeStep DEF IndInv
<1>15. /\ \A g \in Files : g # f => Closers(g)' = Closers(g)
       /\ f # 0 => Closers(f)' = {}
 <2>1. \A g : Closers(g)' \ {p} = Closers(g) \ {p} /\ p \notin Closers(g)'
   BY <1>11, <1>12, Putters DEF Closers
 <2>2. \A g : g # f => p \notin Closers(g)  BY <1>1 DEF Closers
 <2>3. \A g : g # f => Closers(g)' = Closers(g)  BY <2>1, <2>2, SameWithout
 <2>4. f # 0 => Closers(f) \ {p} = {}  BY <1>4 DEF Closers
 <2> QED  BY <2>1, <2>3, <2>4
<1>16. /\ \A j \in Inos \ {i} : Losers(j)' = Losers(j) /\ FilesOf(j)' = FilesOf(j)
       /\ Losers(i)' = {} /\ FilesOf(i)' = {}
 <2>1. \A j : Losers(j)' \ {p} = Losers(j) \ {p} /\ p \notin Losers(j)'
   BY <1>11, <1>12, Putters DEF Losers
 <2>2. \A j : j # i => p \notin Losers(j)  BY <1>1 DEF Losers
 <2>3. \A j \in Inos \ {i} : Losers(j)' = Losers(j)  BY <2>1, <2>2, SameWithout
 <2>4. Losers(i)' = {}  BY <1>4, <2>1
 <2>5. ASSUME NEW j \in Inos \ {i} PROVE FilesOf(j)' = FilesOf(j)
  <3>1. \A g \in Files : file'[g].count > 0 /\ file'[g].ino = j <=> file[g].count > 0 /\ file[g].ino = j
   <4>1. CASE f = 0  BY <1>8, <4>1, Consts
   <4>2. CASE f # 0  BY <1>4, <1>8, <4>2
   <4> QED  BY <4>1, <4>2
  <3> QED  BY <3>1 DEF FilesOf
 <2>6. FilesOf(i)' = {}
  <3>1. ASSUME NEW g \in Files, file'[g].count > 0, file'[g].ino = i PROVE FALSE
   <4>1. f # 0 => g # f  BY <1>8, <3>1
   <4>2. g # f  BY <4>1, Consts
   <4>3. file[g].count > 0 /\ file[g].ino = i  BY <1>8, <3>1, <4>2
   <4>4. g \in FilesOf(i)  BY <4>3 DEF FilesOf
   <4> QED  BY <1>4, <4>2, <4>4
  <3> QED  BY <3>1 DEF FilesOf
 <2> QED  BY <2>3, <2>4, <2>5, <2>6
<1>17. Counts'
 <2>1. ASSUME NEW g \in Files
       PROVE  file'[g].count = Cardinality(Refs(g)') + Cardinality(Closers(g)')
  <3>1. CASE g = f
   <4>1. f # 0  BY <3>1, Consts
   <4>2. Cardinality(Refs(f)') = 0 /\ Cardinality(Closers(f)') = 0
     BY <1>9, <1>15, <4>1, FS_EmptySet
   <4>3. file'[f].count = Cardinality(Refs(f)') + Cardinality(Closers(f)')  BY <1>8, <4>1, <4>2
   <4> QED  BY <3>1, <4>3
  <3>2. CASE g # f  BY <1>8, <1>9, <1>15, <3>2 DEF IndInv, Counts
  <3> QED  BY <3>1, <3>2
 <2>2. inode'[i].count = Cardinality(FilesOf(i)') + Cardinality(Losers(i)')
  <3>1. Cardinality(FilesOf(i)') = 0 /\ Cardinality(Losers(i)') = 0  BY <1>16, FS_EmptySet
  <3> QED  BY <1>6, <1>7, <3>1
 <2>3. ASSUME NEW j \in Inos
       PROVE  inode'[j].count = Cardinality(FilesOf(j)') + Cardinality(Losers(j)')
  <3>1. CASE j = i  BY <2>2, <3>1
  <3>2. CASE j # i  BY <1>7, <1>16, <3>2 DEF IndInv, Counts
  <3> QED  BY <3>1, <3>2
 <2> QED  BY <2>1, <2>3 DEF Counts
<1>18. FileInv'
 <2>1. ASSUME NEW g \in Files, file'[g].count > 0
       PROVE  file[g].count > 0 /\ file'[g].ino = file[g].ino /\ file'[g].flag = file[g].flag
  <3>1. g # f  BY <1>8, <2>1, Consts
  <3> QED  BY <1>8, <2>1, <3>1
 <2> QED  BY <2>1, FileKept
<1>19. ProcOK(p)'  BY <1>11, <1>12, UserOK
<1>20. u'[p].pc \notin BusyPCs  BY <1>11, <1>12, Classes
<1>21. InoOK(i)'
 <2>1. SizeOK(i)'  BY <1>6, <1>7, Consts DEF SizeOK
 <2>2. u'[p].pc \notin CallPCs /\ u'[p].pc # "iput"  BY <1>11, <1>12, Classes
 <2> QED  BY <1>4, <1>5, <1>6, <1>7, <1>12, <2>1, <2>2, NobodyElse
<1>22. ASSUME NEW q \in Procs \ {p}, u[q].pc = "iput"
       PROVE  /\ inode'[u[q].ino].count = 1
              /\ u[q].f # 0 => file'[u[q].f].count = 1 /\ file'[u[q].f].ino = file[u[q].f].ino
 <2>1. u[q].ino \in Inos /\ inode[u[q].ino].count = 1  BY <1>22, PutAlone
 <2>2. u[q].ino # i  BY <1>5, <1>22 DEF BusyPCs
 <2>3. ASSUME u[q].f # 0 PROVE u[q].f \in Files /\ u[q].f # f /\ file[u[q].f].count = 1
   BY <1>4, <1>22, <2>3, PutAlone
 <2>4. inode'[u[q].ino].count = 1  BY <1>7, <2>1, <2>2
 <2> QED  BY <1>8, <2>3, <2>4
<1>23. ASSUME NEW q \in Procs \ {p}, NEW c \in Fds, fds[q][c] # 0
       PROVE  /\ file'[fds[q][c]].ino = file[fds[q][c]].ino
              /\ file'[fds[q][c]].flag = file[fds[q][c]].flag
 <2>1. fds[q][c] \in Files
  <3>1. fds \in [Procs -> [Fds -> 0 .. NFile]]  BY Types DEF IndInv
  <3> QED  BY <1>23, <3>1, Consts
 <2>2. fds[q][c] # f  BY <1>9, <1>23
 <2> QED  BY <1>8, <2>1, <2>2
<1>24. \A g \in Files : file[g].count > 0 /\ file[g].ino # i => file'[g].off = file[g].off
  BY <1>4, <1>8, Consts
<1>25. u[p].pc \in BusyPCs => u[p].ino = i  BY <1>1
<1> QED
  BY <1>4, <1>7, <1>9, <1>12, <1>14, <1>17, <1>18, <1>19, <1>20, <1>21, <1>22, <1>23, <1>24, <1>25, Assemble
-----------------------------------------------------------------------------
(* The theorems.                                                           *)

LEMMA InitTypes ==
  ASSUME Init
  PROVE  /\ TypeOK
         /\ \A i \in Inos : /\ inode[i].count = IF i \in Given THEN 1 ELSE 0
                            /\ inode[i].lock = FALSE
                            /\ i \in Pipes => inode[i].size = 0
         /\ \A f \in Files : /\ file[f].count = IF f \in {1, 2} THEN 1 ELSE 0
                             /\ f = 1 => file[f].ino = Input /\ file[f].flag = {"r"}
                             /\ f = 2 => file[f].ino = Output /\ file[f].flag = {"w"}
         /\ \A p \in Procs : u[p].pc = (IF p = First THEN "user" ELSE "none") /\ ~u[p].dying
         /\ \A p \in Procs, d \in Fds : fds[p][d] = IF p = First /\ d < 2 THEN d + 1 ELSE 0
<1>1. /\ fds \in [Procs -> [Fds -> 0 .. NFile]]
      /\ \A p \in Procs, d \in Fds : fds[p][d] = IF p = First /\ d < 2 THEN d + 1 ELSE 0
 <2>1. fds = [p \in Procs |-> [d \in Fds |-> IF p = First /\ d < 2 THEN d + 1 ELSE 0]]  BY DEF Init
 <2>2. ASSUME NEW p \in Procs, NEW d \in Fds
       PROVE  (IF p = First /\ d < 2 THEN d + 1 ELSE 0) \in 0 .. NFile
  <3>1. d \in Nat /\ NFile \in Nat /\ NFile >= 2  BY <2>2, Consts
  <3> QED  BY <3>1
 <2>3. \A p \in Procs, d \in Fds : fds[p][d] = IF p = First /\ d < 2 THEN d + 1 ELSE 0  BY <2>1
 <2>4. fds \in [Procs -> [Fds -> 0 .. NFile]]  BY <2>1, <2>2
 <2> QED  BY <2>3, <2>4
<1>2. PICK x, y : /\ x = [count |-> 1, flag |-> {"r"}, ino |-> Input, off |-> 0]
                  /\ y = [count |-> 1, flag |-> {"w"}, ino |-> Output, off |-> 0]
  OBVIOUS
<1>3. /\ NoFile \in FileRec /\ NoFile.count = 0
      /\ x \in FileRec /\ x.count = 1 /\ x.ino = Input /\ x.flag = {"r"}
      /\ y \in FileRec /\ y.count = 1 /\ y.ino = Output /\ y.flag = {"w"}
  BY <1>2, Consts DEF NoFile, FileRec
<1>4. file = [f \in Files |-> IF f = 1 THEN x ELSE IF f = 2 THEN y ELSE NoFile]  BY <1>2 DEF Init
<1>5. /\ file \in [Files -> FileRec]
      /\ \A f \in Files : /\ file[f].count = IF f \in {1, 2} THEN 1 ELSE 0
                          /\ f = 1 => file[f].ino = Input /\ file[f].flag = {"r"}
                          /\ f = 2 => file[f].ino = Output /\ file[f].flag = {"w"}
  BY <1>3, <1>4
<1>6. PICK a, b : /\ a = [Empty EXCEPT !.count = 1, !.size = Blocks,
                                       !.data = [k \in 0 .. Blocks - 1 |-> k + 1]]
                  /\ b = [Empty EXCEPT !.count = 1]
  OBVIOUS
<1>7. /\ a \in InoRec /\ a.count = 1 /\ a.lock = FALSE
      /\ b \in InoRec /\ b.count = 1 /\ b.lock = FALSE
      /\ Empty \in InoRec /\ Empty.count = 0 /\ Empty.lock = FALSE /\ Empty.size = 0
 <2>1. Empty \in InoRec /\ Empty.count = 0 /\ Empty.lock = FALSE /\ Empty.size = 0
   BY EmptyType DEF Empty
 <2>2. PICK d : d = [k \in 0 .. Blocks - 1 |-> k + 1]  OBVIOUS
 <2>3. d \in [0 .. Blocks - 1 -> Nat] /\ Blocks \in 0 .. Blocks  BY <2>2, Consts
 <2>4. a = [Empty EXCEPT !.count = 1, !.size = Blocks, !.data = d]  BY <1>6, <2>2
 <2>5. PICK m : m = Empty  OBVIOUS
 <2>6. PICK v : v = [m EXCEPT !.count = 1, !.size = Blocks, !.data = d]  OBVIOUS
 <2>7. v \in InoRec /\ v.count = 1 /\ v.lock = FALSE  BY <2>1, <2>3, <2>5, <2>6 DEF InoRec
 <2>8. b \in InoRec /\ b.count = 1 /\ b.lock = FALSE  BY <1>6, EmptyType
 <2> QED  BY <2>1, <2>4, <2>5, <2>6, <2>7, <2>8
<1>8. inode = [i \in Inos |-> IF i = Input THEN a ELSE IF i = Output THEN b ELSE Empty]
  BY <1>6 DEF Init
<1>9. /\ inode \in [Inos -> InoRec]
      /\ \A i \in Inos : /\ inode[i].count = IF i \in Given THEN 1 ELSE 0
                         /\ inode[i].lock = FALSE
                         /\ i \in Pipes => inode[i].size = 0
  BY <1>7, <1>8, Consts DEF Given
<1>10. PICK r, n : r = [Idle EXCEPT !.pc = "user"] /\ n = Idle  OBVIOUS
<1>11. r \in URec /\ r.pc = "user" /\ ~r.dying /\ n \in URec /\ n.pc = "none" /\ ~n.dying
 <2>1. n \in URec /\ n.pc = "none" /\ ~n.dying /\ "user" \in PCs  BY <1>10, IdleType DEF PCs
 <2>2. r = [n EXCEPT !.pc = "user"]  BY <1>10
 <2>3. r \in URec /\ r.pc = "user" /\ SameCall(r, n)  BY <2>1, <2>2, WithPc
 <2> QED  BY <2>1, <2>3 DEF SameCall
<1>12. u = [p \in Procs |-> IF p = First THEN r ELSE n]  BY <1>10 DEF Init
<1>13. /\ u \in [Procs -> URec]
       /\ \A p \in Procs : u[p].pc = (IF p = First THEN "user" ELSE "none") /\ ~u[p].dying
  BY <1>11, <1>12
<1>14. hist \in [Inos -> HistRec]
 <2>1. PICK c, e : c = [Clean EXCEPT !.sent = Blocks] /\ e = Clean  OBVIOUS
 <2>2. c \in HistRec /\ e \in HistRec
  <3>1. <<>> \in Seq(Nat) /\ Blocks \in Nat  BY Consts
  <3>2. PICK g : g = <<>>  OBVIOUS
  <3>3. e = [got |-> g, sent |-> 0, sought |-> FALSE, broken |-> FALSE]  BY <2>1, <3>2 DEF Clean
  <3>4. PICK m : m = Blocks  OBVIOUS
  <3>5. c = [e EXCEPT !.sent = m]  BY <2>1, <3>4
  <3>6. g \in Seq(Nat) /\ m \in Nat  BY <3>1, <3>2, <3>4
  <3>7. e \in HistRec  BY <3>3, <3>6 DEF HistRec
  <3>8. c \in HistRec  BY <3>5, <3>6, <3>7 DEF HistRec
  <3> QED  BY <3>7, <3>8
 <2>3. hist = [i \in Inos |-> IF i = Input THEN c ELSE e]  BY <2>1 DEF Init
 <2> QED  BY <2>2, <2>3
<1>15. sig \subseteq Procs /\ cpu \in Procs \cup {NoProc} /\ faults \in 0 .. MaxFaults
 <2>1. sig = {} /\ cpu = NoProc /\ faults = 0  BY DEF Init
 <2> QED  BY <2>1, Consts
<1>16. TypeOK  BY <1>1, <1>5, <1>9, <1>13, <1>14, <1>15, Types
<1> QED  BY <1>1, <1>5, <1>9, <1>13, <1>16

LEMMA InitInv == Init => IndInv
<1> SUFFICES ASSUME Init PROVE IndInv  OBVIOUS
<1>1. /\ TypeOK
      /\ \A i \in Inos : /\ inode[i].count = IF i \in Given THEN 1 ELSE 0
                         /\ inode[i].lock = FALSE
                         /\ i \in Pipes => inode[i].size = 0
      /\ \A f \in Files : /\ file[f].count = IF f \in {1, 2} THEN 1 ELSE 0
                          /\ f = 1 => file[f].ino = Input /\ file[f].flag = {"r"}
                          /\ f = 2 => file[f].ino = Output /\ file[f].flag = {"w"}
      /\ \A p \in Procs : u[p].pc = (IF p = First THEN "user" ELSE "none") /\ ~u[p].dying
      /\ \A p \in Procs, d \in Fds : fds[p][d] = IF p = First /\ d < 2 THEN d + 1 ELSE 0
  BY InitTypes
<1>2. 1 \in Files /\ 2 \in Files  BY Consts
<1>3. \A p \in Procs : u[p].pc \notin BusyPCs /\ u[p].pc \in {"user", "none"}  BY <1>1, Classes
<1>4. Counts
 <2>1. \A f \in Files : Closers(f) = {}  BY <1>3 DEF Closers
 <2>2. \A i \in Inos : Losers(i) = {}  BY <1>3 DEF Losers
 <2>3. ASSUME NEW f \in {1, 2} PROVE Refs(f) = {<<First, f - 1>>}
  <3>1. f - 1 \in Fds /\ fds[First][f - 1] = f /\ First \in Procs  BY <1>1, Consts
  <3>2. <<First, f - 1>> \in Refs(f)  BY <3>1 DEF Refs
  <3>3. ASSUME NEW x \in Refs(f) PROVE x = <<First, f - 1>>
   <4>1. x[1] \in Procs /\ x[2] \in Fds /\ x = <<x[1], x[2]>> /\ fds[x[1]][x[2]] = f  BY DEF Refs
   <4>2. x[2] \in Nat  BY <4>1, Consts
   <4>3. x[1] = First /\ x[2] < 2 /\ x[2] + 1 = f  BY <1>1, <4>1
   <4> QED  BY <4>1, <4>2, <4>3
  <3> QED  BY <3>2, <3>3
 <2>4. ASSUME NEW f \in Files, f \notin {1, 2} PROVE Refs(f) = {}
  <3>1. ASSUME NEW x \in Refs(f) PROVE FALSE
   <4>1. x[1] \in Procs /\ x[2] \in Fds /\ fds[x[1]][x[2]] = f  BY DEF Refs
   <4>2. x[2] \in Nat /\ f # 0 /\ f \in Nat  BY <4>1, Consts
   <4>3. x[2] < 2 /\ x[2] + 1 = f  BY <1>1, <4>1, <4>2
   <4> QED  BY <2>4, <4>2, <4>3
  <3> QED  BY <3>1
 <2>5. FilesOf(Input) = {1} /\ FilesOf(Output) = {2}
  <3>1. \A f \in Files : file[f].count > 0 => f \in {1, 2}  BY <1>1
  <3>2. file[1].count > 0 /\ file[1].ino = Input /\ file[2].count > 0 /\ file[2].ino = Output
    BY <1>1, <1>2
  <3> QED  BY <1>2, <3>1, <3>2, Consts DEF FilesOf
 <2>6. ASSUME NEW i \in Inos, i \notin Given PROVE FilesOf(i) = {}
  <3>1. \A f \in Files : file[f].count > 0 => file[f].ino \in Given  BY <1>1 DEF Given
  <3> QED  BY <2>6, <3>1 DEF FilesOf
 <2>7. Cardinality({}) = 0 /\ \A x : Cardinality({x}) = 1  BY FS_EmptySet, FS_Singleton
 <2>8. ASSUME NEW f \in Files PROVE file[f].count = Cardinality(Refs(f)) + Cardinality(Closers(f))
  <3>1. Cardinality(Closers(f)) = 0  BY <2>1, <2>7
  <3>2. CASE f \in {1, 2}
   <4>1. Cardinality(Refs(f)) = 1  BY <2>3, <2>7, <3>2
   <4>2. file[f].count = 1  BY <1>1, <3>2
   <4> QED  BY <3>1, <4>1, <4>2
  <3>3. CASE f \notin {1, 2}
   <4>1. Cardinality(Refs(f)) = 0  BY <2>4, <2>7, <3>3
   <4>2. file[f].count = 0  BY <1>1, <3>3
   <4> QED  BY <3>1, <4>1, <4>2
  <3> QED  BY <3>2, <3>3
 <2>9. ASSUME NEW i \in Inos PROVE inode[i].count = Cardinality(FilesOf(i)) + Cardinality(Losers(i))
  <3>1. Cardinality(Losers(i)) = 0  BY <2>2, <2>7
  <3>2. CASE i \in Given
   <4>1. Cardinality(FilesOf(i)) = 1  BY <2>5, <2>7, <3>2 DEF Given
   <4>2. inode[i].count = 1  BY <1>1, <3>2
   <4> QED  BY <3>1, <4>1, <4>2
  <3>3. CASE i \notin Given
   <4>1. Cardinality(FilesOf(i)) = 0  BY <2>6, <2>7, <3>3
   <4>2. inode[i].count = 0  BY <1>1, <3>3
   <4> QED  BY <3>1, <4>1, <4>2
  <3> QED  BY <3>2, <3>3
 <2> QED  BY <2>8, <2>9 DEF Counts
<1>5. ProcInv
 <2>1. ASSUME NEW p \in Procs PROVE ProcOK(p)
  <3>1. CallOK(p) /\ MoveOK(p) /\ PutOK(p)
    BY <1>3 DEF CallOK, MoveOK, PutOK, CallPCs, ReadPCs, WritePCs, FilePCs, MovePCs
  <3>2. GoneOK(p)  BY <1>1 DEF GoneOK
  <3> QED  BY <3>1, <3>2 DEF ProcOK
 <2> QED  BY <2>1 DEF ProcInv
<1>6. FileInv
 <2>1. ASSUME NEW f \in Files, file[f].count > 0 PROVE ~IsPipe(f) /\ file[f].ino \notin Pipes
  <3>1. f \in {1, 2}  BY <1>1, <2>1
  <3> QED  BY <1>1, <3>1, Consts DEF IsPipe
 <2> QED  BY <2>1 DEF FileInv
<1>7. InoInv
 <2>1. ASSUME NEW i \in Inos PROVE InoOK(i)
  <3>1. LockOK(i) /\ ReadersOK(i) /\ WritersOK(i)
    BY <1>1, <1>3 DEF LockOK, ReadersOK, WritersOK, LockPCs
  <3>2. AloneOK(i)  BY <1>1 DEF AloneOK
  <3>3. SizeOK(i)  BY <1>1, Consts DEF SizeOK
  <3> QED  BY <3>1, <3>2, <3>3 DEF InoOK
 <2> QED  BY <2>1 DEF InoInv
<1> QED  BY <1>1, <1>4, <1>5, <1>6, <1>7 DEF IndInv

LEMMA NextInv == IndInv /\ [Next]_vars => IndInv'
<1>1. ASSUME IndInv, NEW p \in Procs, Call(p) PROVE IndInv'
 <2>1. faults' = faults  BY <1>1 DEF Call
 <2>2. ASSUME NEW d \in Asked, NEW k \in Sizes, Sys_Read(p, d, k) PROVE IndInv'
  <3>1. Rdwr(p, "r", d, k)  BY <2>2 DEF Sys_Read
  <3> QED  BY <1>1, <2>1, <3>1, RdwrStep
 <2>3. ASSUME NEW d \in Asked, NEW k \in Sizes, Sys_Write(p, d, k) PROVE IndInv'
  <3>1. Rdwr(p, "w", d, k)  BY <2>3 DEF Sys_Write
  <3> QED  BY <1>1, <2>1, <3>1, RdwrStep
 <2>4. ASSUME NEW d \in Asked, NEW k \in 0 .. Blocks, NEW whence \in 0 .. 2, Sys_Seek(p, d, k, whence)
       PROVE  IndInv'
   BY <1>1, <2>1, <2>4, SeekStep
 <2>5. ASSUME NEW d \in Asked, Sys_Dup(p, d) PROVE IndInv'  BY <1>1, <2>1, <2>5, DupStep
 <2>6. ASSUME NEW d \in Asked, Sys_Close(p, d) PROVE IndInv'  BY <1>1, <2>1, <2>6, CloseStep
 <2>7. ASSUME NEW q \in Procs, Sys_Fork(p, q) PROVE IndInv'  BY <1>1, <2>1, <2>7, ForkStep
 <2>8. ASSUME NEW q \in Procs, Sys_Kill(p, q) PROVE IndInv'  BY <1>1, <2>1, <2>8, KillStep
 <2>9. CASE Sys_Pipe(p)  BY <1>1, <2>1, <2>9, PipeStep
 <2>10. CASE Sys_Rexit(p)  BY <1>1, <2>1, <2>10, RexitStep
 <2> QED  BY <1>1, <2>2, <2>3, <2>4, <2>5, <2>6, <2>7, <2>8, <2>9, <2>10 DEF Call
<1>2. ASSUME IndInv, NEW p \in Procs, Step(p) PROVE IndInv'
 <2>1. CASE Plock(p)  BY <1>2, <2>1, PlockStep
 <2>2. CASE ReadP(p)  BY <1>2, <2>2, ReadPStep
 <2>3. CASE WriteP(p)  BY <1>2, <2>3, WritePStep
 <2>4. CASE NFlock(p)  BY <1>2, <2>4, NFlockStep
 <2>5. CASE IoStart(p)  BY <1>2, <2>5, IoStartStep
 <2>6. CASE IoMove(p)  BY <1>2, <2>6, IoMoveStep
 <2>7. CASE IoFull(p)  BY <1>2, <2>7, IoFullStep
 <2>8. CASE IoEnd(p)  BY <1>2, <2>8, IoEndStep
 <2>9. CASE IPut(p)  BY <1>2, <2>9, IPutStep
 <2>10. CASE Signal(p)  BY <1>2, <2>10, SignalStep
 <2>11. CASE ExitClose(p)  BY <1>2, <2>11, ExitCloseStep
 <2>12. CASE ExitEnd(p)  BY <1>2, <2>12, ExitEndStep
 <2> QED
   BY <1>2, <2>1, <2>2, <2>3, <2>4, <2>5, <2>6, <2>7, <2>8, <2>9, <2>10, <2>11, <2>12 DEF Step
<1>3. ASSUME IndInv, UNCHANGED vars PROVE IndInv'
 <2>1. UNCHANGED <<fds, file, inode, u, sig, cpu, faults, hist>>  BY <1>3 DEF vars
 <2>2. TypeOK'  BY <1>3, <2>1 DEF IndInv, TypeOK
 <2>5. \A f \in Files : Refs(f)' = Refs(f) /\ Closers(f)' = Closers(f)  BY <2>1 DEF Refs, Closers
 <2>6. \A i \in Inos : FilesOf(i)' = FilesOf(i) /\ Losers(i)' = Losers(i)
   BY <2>1 DEF FilesOf, Losers
 <2>7. Counts'  BY <1>3, <2>1, <2>5, <2>6 DEF IndInv, Counts
 <2>3. ProcInv' /\ FileInv'
   BY <1>3, <2>1 DEF IndInv, ProcInv, ProcOK, CallOK, MoveOK, PutOK, GoneOK, FileInv, IsPipe
 <2>4. InoInv'
   BY <1>3, <2>1 DEF IndInv, InoInv, InoOK, LockOK, AloneOK, ReadersOK, WritersOK, SizeOK
 <2> QED  BY <2>2, <2>3, <2>4, <2>7 DEF IndInv
<1> QED  BY <1>1, <1>2, <1>3 DEF Next

\* The invariant with all its parts holds in every state: Files and inodes are
\* counted, a call has its File open, a lock has a holder, and who sleeps in a
\* pipe sleeps for a reason.
THEOREM Invariance == Spec => []IndInv
<1>1. Init => IndInv  BY InitInv
<1>2. IndInv /\ [Next]_vars => IndInv'  BY NextInv
<1> QED  BY <1>1, <1>2, PTL DEF Spec

\* f_count is the number of descriptors that lead to a File, and i_count that of
\* the Files of an inode, whatever is closed, duplicated, inherited or given back
\* half way (CloseF, Dup, NewProc, Exit and the failures of Pipe).
THEOREM CountsAreExact == Spec => []CountsExact
<1>1. IndInv => CountsExact  BY DEF IndInv, Counts, CountsExact
<1> QED  BY <1>1, Invariance, PTL

\* Nobody sleeps for what has already come: in a pipe (ReadP and WriteP, whose
\* sleepers are woken by IREAD and IWRITE) or for the lock of an inode (Plock and
\* NFlock, by IWANT).
THEOREM NobodyIsStranded == Spec => []NobodyStranded
<1>1. IndInv => NobodyStranded
 <2> SUFFICES ASSUME IndInv, NEW p \in Procs, NEW i, i = u[p].ino
              PROVE  /\ u[p].pc = "rsleep" =>
                          /\ inode[i].rd /\ inode[i].count = 2
                          /\ file[u[p].f].off = inode[i].size \/ Inside(i) # {}
                     /\ u[p].pc = "wsleep" =>
                          inode[i].wr /\ inode[i].count = 2 /\ inode[i].size = PipSiz
                     /\ p \in Locking(i) => inode[i].lock /\ inode[i].want /\ Holders(i) # {}
   BY DEF NobodyStranded
 <2>1. i \in Inos  BY DEF IndInv, TypeOK
 <2>2. LockOK(i) /\ ReadersOK(i) /\ WritersOK(i)  BY <2>1 DEF IndInv, InoInv, InoOK
 <2>3. u[p].pc = "rsleep" =>
         /\ inode[i].rd /\ inode[i].count = 2
         /\ file[u[p].f].off = inode[i].size \/ Inside(i) # {}
   BY <2>2 DEF ReadersOK, Inside, MovePCs
 <2>4. u[p].pc = "wsleep" => inode[i].wr /\ inode[i].count = 2 /\ inode[i].size = PipSiz
   BY <2>2 DEF WritersOK
 <2>5. p \in Locking(i) => inode[i].lock /\ inode[i].want /\ Holders(i) # {}
   BY <2>2 DEF LockOK, Locking, LockPCs, Holders, HoldPCs
 <2> QED  BY <2>3, <2>4, <2>5
<1> QED  BY <1>1, Invariance, PTL

\* A pipe with both its ends is locked by one process at a time, holds at most
\* PIPSIZ, and every transfer in it stays below: no close has broken its lock.
THEOREM PipesAreExclusive ==
    Spec => [](\A i \in Pipes : inode[i].count = 2 =>
                  /\ inode[i].size <= PipSiz
                  /\ \A p, q \in Holders(i) : p = q /\ inode[i].lock)
<1>1. IndInv => \A i \in Pipes : inode[i].count = 2 =>
                   /\ inode[i].size <= PipSiz
                   /\ \A p, q \in Holders(i) : p = q /\ inode[i].lock
 <2> SUFFICES ASSUME IndInv, NEW i \in Pipes, inode[i].count = 2
              PROVE  /\ inode[i].size <= PipSiz
                     /\ \A p, q \in Holders(i) : p = q /\ inode[i].lock
   OBVIOUS
 <2>1. i \in Inos  BY Consts
 <2>2. AloneOK(i) /\ SizeOK(i)  BY <2>1 DEF IndInv, InoInv, InoOK
 <2>3. ASSUME NEW p \in Holders(i), NEW q \in Holders(i) PROVE p = q /\ inode[i].lock
  <3>1. p \in Procs /\ q \in Procs /\ u[p].pc \in HoldPCs /\ u[q].pc \in HoldPCs
        /\ u[p].ino = i /\ u[q].ino = i
    BY DEF Holders, HoldPCs
  <3> QED  BY <2>2, <3>1 DEF AloneOK
 <2> QED  BY <2>2, <2>3 DEF SizeOK
<1> QED  BY <1>1, Invariance, PTL
-----------------------------------------------------------------------------
(* What is read is what was written.  Unless a close has broken the lock of *)
(* an inode, one process at a time is between its lock and its unlock; and  *)
(* unless somebody has sought, the units that have been read and those from *)
(* the cursor to the end are all that were written.  The cursor is the      *)
(* offset of whoever reads or, between reads, of the File to read.          *)

Got(h) == \A k \in 1 .. Len(h.got) : h.got[k] = k
\* r, h: an inode and its history.  From c to its end are the units not yet read
Rest(r, h, c) ==
    /\ c <= r.size /\ h.sent = Len(h.got) + r.size - c
    /\ \A k \in c .. r.size - 1 : r.data[k] = Len(h.got) + (k - c) + 1
\* v: a process in the transfer, through the File g
MoverOK(r, h, v, g) ==
    /\ v.mode = "r" => Rest(r, h, v.off) /\ (v.pc = "move" => v.off < r.size)
    /\ v.mode = "w" => v.off = r.size
    /\ "pipe" \notin g.flag => v.off = g.off + v.count - v.left

\* Who has a lock, who is in the transfer, and who reads in it
At(p, i) == u[p].pc \in HoldPCs /\ u[p].ino = i
In(p, i) == u[p].pc \in MovePCs /\ u[p].ino = i
Reads(i) == \E p \in Procs : In(p, i) /\ u[p].mode = "r"
Alone(i) == \A p, q \in Procs : At(p, i) /\ At(q, i) => p = q /\ inode[i].lock

\* The File to read has the cursor between reads, that to write, not of a pipe, the end
OffsetOK(i, f) ==
    /\ "r" \in file[f].flag /\ ~Reads(i) => Rest(inode[i], hist[i], file[f].off)
    /\ "w" \in file[f].flag /\ "pipe" \notin file[f].flag /\ (\A p \in Procs : ~In(p, i))
         => file[f].off = inode[i].size
Whole(i) ==
    /\ Got(hist[i]) /\ (i = Output => Rest(inode[i], hist[i], 0))
    /\ \A p \in Procs : In(p, i) => MoverOK(inode[i], hist[i], u[p], file[u[p].f])
    /\ \A f \in FilesOf(i) : OffsetOK(i, f)
Flow(i) == ~hist[i].broken => Alone(i) /\ (~hist[i].sought => Whole(i))

\* The two files keep the one File each that First was given
GivenOK == \A f \in Files : file[f].count > 0 =>
    /\ file[f].ino = Input => f = 1 /\ file[f].flag = {"r"}
    /\ file[f].ino = Output => f = 2 /\ file[f].flag = {"w"}
\* Who waits for the lock of a file has not moved anything
Fresh == \A p \in Procs : u[p].pc \in FilePCs => u[p].left = u[p].count
FlowInv == GivenOK /\ Fresh /\ \A i \in Inos : Flow(i)

\* A step of p leaves every other process where it is in the transfer, but for a
\* child that starts
Beside(p) == \A q \in Procs \ {p} :
    \/ /\ SameCall(u'[q], u[q])
       /\ u'[q].pc \in HoldPCs <=> u[q].pc \in HoldPCs
       /\ u'[q].pc \in MovePCs <=> u[q].pc \in MovePCs
       /\ u'[q].pc \in FilePCs <=> u[q].pc \in FilePCs
       /\ u'[q].pc = "move" <=> u[q].pc = "move"
    \/ u[q].pc \notin HoldPCs /\ u'[q].pc \notin HoldPCs \cup FilePCs
\* It leaves what an inode holds, and its Files
SameData(i) == /\ inode'[i].size = inode[i].size /\ inode'[i].data = inode[i].data
               /\ hist'[i].got = hist[i].got /\ hist'[i].sent = hist[i].sent
SameFiles(i) == \A f \in Files : file'[f].count > 0 /\ file'[f].ino = i =>
    /\ file[f].count > 0 /\ file[f].ino = i
    /\ file'[f].flag = file[f].flag /\ file'[f].off = file[f].off
Undisturbed(i) == ~hist'[i].broken =>
    /\ ~hist[i].broken /\ inode'[i].lock = inode[i].lock
    /\ ~hist'[i].sought => ~hist[i].sought /\ SameData(i) /\ SameFiles(i)
\* No File is opened but those of pipes
NoNew == \A f \in Files : file'[f].count > 0 =>
    \/ file[f].count > 0 /\ file'[f].ino = file[f].ino /\ file'[f].flag = file[f].flag
    \/ file'[f].ino \in Pipes

LEMMA BesideAfter ==
  ASSUME NEW p \in Procs, NEW W \in SUBSET Procs, \A q \in W : u[q].pc \in SleepPCs, After(p, W)
  PROVE  Beside(p)
<1>1. ASSUME NEW q \in Procs \ {p}
      PROVE  /\ SameCall(u'[q], u[q])
             /\ u'[q].pc \in HoldPCs <=> u[q].pc \in HoldPCs
             /\ u'[q].pc \in MovePCs <=> u[q].pc \in MovePCs
             /\ u'[q].pc \in FilePCs <=> u[q].pc \in FilePCs
             /\ u'[q].pc = "move" <=> u[q].pc = "move"
 <2>1. SameCall(u'[q], u[q]) /\ (u'[q].pc \in FilePCs <=> u[q].pc \in FilePCs)  BY OtherPc
 <2>2. \A S \in {HoldPCs, MovePCs, {"iput"}, {"none"}, {"user"}, {"move"}} : u'[q].pc \in S <=> u[q].pc \in S
   BY OtherPc
 <2> QED  BY <2>1, <2>2
<1> QED  BY <1>1 DEF Beside

LEMMA RestSame ==
  ASSUME NEW r, NEW s, NEW g, NEW h, NEW c,
         s.size = r.size, s.data = r.data, h.got = g.got, h.sent = g.sent
  PROVE  Rest(s, h, c) <=> Rest(r, g, c)
  BY DEF Rest

\* What was left is left, and the new unit with it
LEMMA RestGrows ==
  ASSUME NEW r \in InoRec, NEW h \in HistRec, NEW s \in InoRec, NEW g \in HistRec, NEW c \in Nat,
         Rest(r, h, c), s.size = r.size + 1, g.got = h.got, g.sent = h.sent + 1,
         s.data[r.size] = h.sent + 1, \A k \in 0 .. r.size - 1 : s.data[k] = r.data[k]
  PROVE  Rest(s, g, c)
<1>1. PICK n : n = Len(h.got)  OBVIOUS
<1>2. n \in Nat /\ Len(g.got) = n  BY <1>1 DEF HistRec
<1>3. r.size \in Nat /\ h.sent \in Nat  BY Consts DEF InoRec, HistRec
<1>4. /\ c <= r.size /\ h.sent = n + r.size - c
      /\ \A k \in c .. r.size - 1 : r.data[k] = n + (k - c) + 1
  BY <1>1 DEF Rest
<1>5. c <= s.size /\ g.sent = n + s.size - c  BY <1>2, <1>3, <1>4
<1>6. ASSUME NEW k \in c .. s.size - 1 PROVE s.data[k] = n + (k - c) + 1
 <2>1. CASE k = r.size  BY <1>3, <1>4, <2>1
 <2>2. CASE k # r.size
  <3>1. k \in c .. r.size - 1 /\ k \in 0 .. r.size - 1  BY <1>3, <2>2
  <3> QED  BY <1>4, <3>1
 <2> QED  BY <2>1, <2>2
<1> QED  BY <1>2, <1>5, <1>6 DEF Rest

\* The first of what was left has been read
LEMMA RestShrinks ==
  ASSUME NEW r \in InoRec, NEW h \in HistRec, NEW g \in HistRec, NEW c \in Nat,
         Rest(r, h, c), c < r.size, Got(h), g.got = Append(h.got, r.data[c]), g.sent = h.sent
  PROVE  Rest(r, g, c + 1) /\ Got(g)
<1>1. PICK n : n = Len(h.got)  OBVIOUS
<1>2. PICK x : x = r.data[c]  OBVIOUS
<1>3. r.size \in Nat /\ h.sent \in Nat /\ h.got \in Seq(Nat) /\ n \in Nat
  BY <1>1, Consts DEF InoRec, HistRec
<1>4. /\ c <= r.size /\ h.sent = n + r.size - c
      /\ \A k \in c .. r.size - 1 : r.data[k] = n + (k - c) + 1
  BY <1>1 DEF Rest
<1>5. x = n + 1  BY <1>2, <1>3, <1>4
<1>6. /\ Len(g.got) = n + 1 /\ g.got[n + 1] = x
      /\ \A k \in 1 .. n : g.got[k] = h.got[k]
 <2>1. x \in Nat  BY <1>3, <1>5
 <2>2. g.got = Append(h.got, x)  BY <1>2
 <2> QED  BY ONLY <1>1, <1>3, <2>1, <2>2
<1>7. Got(g)
 <2>1. ASSUME NEW k \in 1 .. n + 1 PROVE g.got[k] = k
  <3>1. k = n + 1 \/ k \in 1 .. n  BY <1>3
  <3>2. \A l \in 1 .. n : h.got[l] = l  BY <1>1 DEF Got
  <3> QED  BY <1>5, <1>6, <3>1, <3>2
 <2> QED  BY <1>6, <2>1 DEF Got
<1>8. c + 1 <= r.size /\ g.sent = (n + 1) + r.size - (c + 1)  BY <1>3, <1>4
<1>9. ASSUME NEW k \in c + 1 .. r.size - 1 PROVE r.data[k] = (n + 1) + (k - (c + 1)) + 1
  BY <1>3, <1>4
<1> QED  BY <1>6, <1>7, <1>8, <1>9 DEF Rest

\* All is read, and the pipe starts again at 0
LEMMA RestEmpty ==
  ASSUME NEW r \in InoRec, NEW h \in HistRec, NEW s, NEW g,
         Rest(r, h, r.size), s.size = 0, g.got = h.got, g.sent = h.sent
  PROVE  Rest(s, g, 0)
<1>1. PICK n : n = Len(h.got)  OBVIOUS
<1>2. n \in Nat /\ r.size \in Nat /\ h.sent \in Nat  BY <1>1, Consts DEF InoRec, HistRec
<1>3. h.sent = n + r.size - r.size  BY <1>1 DEF Rest
<1>4. g.sent = n + s.size - 0 /\ 0 <= s.size /\ 0 .. s.size - 1 = {}  BY <1>2, <1>3
<1> QED  BY <1>1, <1>4 DEF Rest

\* Who is in the transfer has its File open
MoversOpen == \A p \in Procs : u[p].pc \in MovePCs =>
    /\ u[p].f \in Files /\ file[u[p].f].count > 0 /\ file[u[p].f].ino = u[p].ino
    /\ u[p].ino \in Inos

LEMMA MoverFile == IndInv => MoversOpen
<1>1. ASSUME IndInv, NEW p \in Procs, u[p].pc \in MovePCs
      PROVE  /\ u[p].f \in Files /\ file[u[p].f].count > 0 /\ file[u[p].f].ino = u[p].ino
             /\ u[p].ino \in Inos
  BY <1>1, Classes, CallFile
<1> QED  BY <1>1 DEF MoversOpen

LEMMA MoverFileAfter ==
  ASSUME IndInv', NEW p \in Procs, u'[p].pc \in MovePCs
  PROVE  /\ u'[p].f \in Files /\ file'[u'[p].f].count > 0 /\ file'[u'[p].f].ino = u'[p].ino
<1>1. IndInv' => MoversOpen'  BY MoverFile, PTL
<1> QED  BY <1>1 DEF MoversOpen

\* Who has a lock that no close has broken is alone, and before a lock that is
\* free nobody is
LEMMA Sole ==
  ASSUME FlowInv, NEW i \in Inos, ~hist[i].broken, NEW p \in Procs,
         At(p, i) \/ ~inode[i].lock
  PROVE  /\ \A q \in Procs \ {p} : ~At(q, i) /\ ~In(q, i)
         /\ In(p, i) => At(p, i)
<1>1. Alone(i)  BY DEF FlowInv, Flow
<1>2. \A q \in Procs : In(q, i) => At(q, i)  BY Classes DEF In, At
<1> QED  BY <1>1, <1>2 DEF Alone

\* Who is beside a step is inside the same inode before and after
LEMMA BesideAt ==
  ASSUME NEW p, Beside(p), NEW q \in Procs \ {p}, NEW i
  PROVE  /\ At(q, i)' <=> At(q, i)
         /\ In(q, i)' <=> In(q, i)
         /\ In(q, i) => SameCall(u'[q], u[q]) /\ (u'[q].pc = "move" <=> u[q].pc = "move")
  BY Classes DEF Beside, At, In, SameCall

\* An inode that the step does not touch
LEMMA Elsewhere ==
  ASSUME IndInv', FlowInv, NEW p \in Procs, Beside(p), NEW i \in Inos,
         ~At(p, i), ~At(p, i)', Undisturbed(i)
  PROVE  Flow(i)'
<1> SUFFICES ASSUME ~hist'[i].broken PROVE Alone(i)' /\ (~hist'[i].sought => Whole(i)')  BY DEF Flow
<1>1. ~hist[i].broken /\ inode'[i].lock = inode[i].lock  BY DEF Undisturbed
<1>2. Alone(i) /\ (~hist[i].sought => Whole(i))  BY <1>1 DEF FlowInv, Flow
<1>3. ~In(p, i) /\ ~In(p, i)'  BY Classes DEF In, At
<1>4. \A q \in Procs : (At(q, i)' <=> At(q, i)) /\ (In(q, i)' <=> In(q, i))  BY <1>3, BesideAt
<1>5. Alone(i)'  BY <1>1, <1>2, <1>4 DEF Alone
<1>6. ASSUME ~hist'[i].sought PROVE Whole(i)'
 <2>1. Whole(i) /\ SameData(i) /\ SameFiles(i)  BY <1>2, <1>6 DEF Undisturbed
 <2>2. \A c : Rest(inode'[i], hist'[i], c) <=> Rest(inode[i], hist[i], c)
   BY <2>1, RestSame DEF SameData
 <2>3. Got(hist'[i]) /\ (i = Output => Rest(inode'[i], hist'[i], 0))
   BY <2>1, <2>2 DEF Whole, Got, SameData
 <2>4. ASSUME NEW q \in Procs, In(q, i)' PROVE MoverOK(inode'[i], hist'[i], u'[q], file'[u'[q].f])
  <3>1. q # p /\ In(q, i)  BY <1>3, <1>4, <2>4
  <3>2. SameCall(u'[q], u[q]) /\ (u'[q].pc = "move" <=> u[q].pc = "move")  BY <3>1, BesideAt
  <3>3. MoverOK(inode[i], hist[i], u[q], file[u[q].f])  BY <2>1, <3>1 DEF Whole
  <3>4. u'[q].f \in Files /\ file'[u'[q].f].count > 0 /\ file'[u'[q].f].ino = i
    BY <2>4, MoverFileAfter DEF In
  <3>5. u'[q].f = u[q].f /\ file'[u[q].f].flag = file[u[q].f].flag /\ file'[u[q].f].off = file[u[q].f].off
    BY <2>1, <3>2, <3>4 DEF SameFiles, SameCall
  <3> QED  BY <2>1, <2>2, <3>2, <3>3, <3>5 DEF MoverOK, SameCall, SameData
 <2>5. ASSUME NEW f \in FilesOf(i)' PROVE OffsetOK(i, f)'
  <3>1. f \in Files /\ file'[f].count > 0 /\ file'[f].ino = i  BY <2>5 DEF FilesOf
  <3>2. f \in FilesOf(i) /\ file'[f].flag = file[f].flag /\ file'[f].off = file[f].off
    BY <2>1, <3>1 DEF SameFiles, FilesOf
  <3>3. OffsetOK(i, f)  BY <2>1, <3>2 DEF Whole
  <3>4. Reads(i) => Reads(i)'  BY <1>3, <1>4, BesideAt DEF Reads, SameCall
  <3> QED  BY <1>4, <2>1, <2>2, <3>2, <3>3, <3>4 DEF OffsetOK, SameData
 <2> QED  BY <2>3, <2>4, <2>5 DEF Whole
<1> QED  BY <1>5, <1>6

\* The same of an inode with nobody else in the transfer than p
View(p, i) ==
    /\ Got(hist[i]) /\ (i = Output => Rest(inode[i], hist[i], 0))
    /\ In(p, i) => MoverOK(inode[i], hist[i], u[p], file[u[p].f])
    /\ \A f \in Files : file[f].count > 0 /\ file[f].ino = i =>
          /\ "r" \in file[f].flag /\ ~(In(p, i) /\ u[p].mode = "r")
               => Rest(inode[i], hist[i], file[f].off)
          /\ "w" \in file[f].flag /\ "pipe" \notin file[f].flag /\ ~In(p, i)
               => file[f].off = inode[i].size

LEMMA ViewIs ==
  ASSUME NEW p \in Procs, NEW i, Whole(i), \A q \in Procs \ {p} : ~In(q, i)
  PROVE  View(p, i)
<1>1. Reads(i) => In(p, i) /\ u[p].mode = "r"  BY DEF Reads
<1>2. \A f \in Files : file[f].count > 0 /\ file[f].ino = i => OffsetOK(i, f)  BY DEF Whole, FilesOf
<1> QED  BY <1>1, <1>2 DEF Whole, View, OffsetOK

\* The inode that a step works on, as its process alone leaves it
LEMMA FlowHere ==
  ASSUME NEW p \in Procs, Beside(p), NEW i \in Inos,
         \A q \in Procs \ {p} : ~At(q, i) /\ ~In(q, i),
         At(p, i)' => inode'[i].lock, ~hist'[i].sought => View(p, i)'
  PROVE  Flow(i)'
<1>1. \A q \in Procs \ {p} : ~At(q, i)' /\ ~In(q, i)'  BY BesideAt
<1>2. Alone(i)'  BY <1>1 DEF Alone
<1>3. ASSUME ~hist'[i].sought PROVE Whole(i)'
 <2>1. View(p, i)'  BY <1>3
 <2>2. Got(hist'[i]) /\ (i = Output => Rest(inode'[i], hist'[i], 0))  BY <2>1 DEF View
 <2>3. \A q \in Procs : In(q, i)' => MoverOK(inode'[i], hist'[i], u'[q], file'[u'[q].f])
   BY <1>1, <2>1 DEF View
 <2>4. ASSUME NEW f \in FilesOf(i)' PROVE OffsetOK(i, f)'
  <3>1. f \in Files /\ file'[f].count > 0 /\ file'[f].ino = i  BY <2>4 DEF FilesOf
  <3>2. ~Reads(i)' => ~(In(p, i)' /\ u'[p].mode = "r")  BY DEF Reads
  <3> QED  BY <2>1, <3>1, <3>2 DEF View, OffsetOK
 <2> QED  BY <2>2, <2>3, <2>4 DEF Whole
<1> QED  BY <1>2, <1>3 DEF Flow

\* The three parts together
LEMMA FlowParts ==
  ASSUME FlowInv, NEW p \in Procs, Beside(p), NoNew,
         u'[p].pc \in FilePCs => u'[p].left = u'[p].count,
         \A i \in Inos : Flow(i)'
  PROVE  FlowInv'
<1>1. GivenOK'  BY Consts DEF FlowInv, GivenOK, NoNew
<1>2. Fresh'  BY DEF FlowInv, Fresh, Beside, SameCall
<1> QED  BY <1>1, <1>2 DEF FlowInv

\* A step of a process that has no lock before or after
LEMMA FlowOutside ==
  ASSUME IndInv', FlowInv, NEW p \in Procs, Beside(p), NoNew,
         u'[p].pc \in FilePCs => u'[p].left = u'[p].count,
         u[p].pc \notin HoldPCs, u'[p].pc \notin HoldPCs, \A i \in Inos : Undisturbed(i)
  PROVE  FlowInv'
<1>1. \A i \in Inos : ~At(p, i) /\ ~At(p, i)'  BY DEF At
<1>2. \A i \in Inos : Flow(i)'  BY <1>1, Elsewhere
<1> QED  BY <1>2, FlowParts

\* A step of a process that works on inode i
LEMMA FlowInside ==
  ASSUME IndInv', FlowInv, NEW p \in Procs, Beside(p), NoNew,
         u'[p].pc \in FilePCs => u'[p].left = u'[p].count,
         NEW i \in Inos, u[p].pc \in HoldPCs => u[p].ino = i, u'[p].pc \in HoldPCs => u'[p].ino = i,
         \A j \in Inos \ {i} : Undisturbed(j), Flow(i)'
  PROVE  FlowInv'
<1>1. \A j \in Inos \ {i} : ~At(p, j) /\ ~At(p, j)'  BY DEF At
<1>2. \A j \in Inos \ {i} : Flow(j)'  BY <1>1, Elsewhere
<1> QED  BY <1>2, FlowParts

\* An inode of which a step changes neither the data nor the Files
LEMMA Untouched ==
  ASSUME NEW i, inode'[i] = inode[i], hist'[i] = hist[i],
         \A f \in Files : (file[f].count > 0 /\ file[f].ino = i) \/ file'[f].ino = i => file'[f] = file[f]
  PROVE  Undisturbed(i)
  BY DEF Undisturbed, SameData, SameFiles

\* A step of a process that has the lock of i, or takes it when it is free
LEMMA FlowAt ==
  ASSUME IndInv', FlowInv, NEW p \in Procs, NEW W \in SUBSET Procs,
         \A q \in W : u[q].pc \in SleepPCs, After(p, W), NEW i \in Inos,
         u[p].pc \in HoldPCs => u[p].ino = i, u'[p].pc \in HoldPCs => u'[p].ino = i,
         u'[p].pc \notin FilePCs,
         At(p, i) \/ ~inode[i].lock, At(p, i)' /\ ~hist[i].broken => inode'[i].lock,
         \A j \in Inos \ {i} : inode'[j] = inode[j] /\ hist'[j] = hist[j],
         \A g \in Files : /\ file'[g].count = file[g].count /\ file'[g].ino = file[g].ino
                          /\ file'[g].flag = file[g].flag
                          /\ file[g].ino # i => file'[g].off = file[g].off,
         hist'[i].broken <=> hist[i].broken, hist'[i].sought <=> hist[i].sought,
         View(p, i) => View(p, i)'
  PROVE  FlowInv'
<1>1. Beside(p)  BY BesideAfter
<1>2. NoNew  BY DEF NoNew
<1>3. \A j \in Inos \ {i} : Undisturbed(j)  BY DEF Undisturbed, SameData, SameFiles
<1>4. CASE hist[i].broken
 <2>1. Flow(i)'  BY <1>4 DEF Flow
 <2> QED  BY <1>1, <1>2, <1>3, <2>1, FlowInside
<1>5. CASE ~hist[i].broken
 <2>1. \A q \in Procs \ {p} : ~At(q, i) /\ ~In(q, i)  BY <1>5, Sole
 <2>2. ~hist[i].sought => Whole(i)  BY <1>5 DEF FlowInv, Flow
 <2>3. ~hist'[i].sought => View(p, i)'  BY <2>1, <2>2, ViewIs
 <2>4. Flow(i)'  BY <1>1, <1>5, <2>1, <2>3, FlowHere
 <2> QED  BY <1>1, <1>2, <1>3, <2>4, FlowInside
<1> QED  BY <1>4, <1>5

\* Neither the data nor an offset changes
LEMMA ViewKeeps ==
  ASSUME NEW p \in Procs, NEW i, View(p, i), SameData(i), SameFiles(i),
         In(p, i)' => MoverOK(inode'[i], hist'[i], u'[p], file'[u'[p].f]),
         In(p, i) /\ u[p].mode = "r" => In(p, i)' /\ u'[p].mode = "r",
         In(p, i) /\ ~In(p, i)' => \A f \in Files : file[f].count > 0 /\ file[f].ino = i
                                                     => "pipe" \in file[f].flag
  PROVE  View(p, i)'
<1>1. \A c : Rest(inode'[i], hist'[i], c) <=> Rest(inode[i], hist[i], c)  BY RestSame DEF SameData
<1>2. Got(hist'[i]) /\ (i = Output => Rest(inode'[i], hist'[i], 0))  BY <1>1 DEF View, Got, SameData
<1>3. ASSUME NEW f \in Files, file'[f].count > 0, file'[f].ino = i
      PROVE  /\ "r" \in file'[f].flag /\ ~(In(p, i)' /\ u'[p].mode = "r")
                  => Rest(inode'[i], hist'[i], file'[f].off)
             /\ "w" \in file'[f].flag /\ "pipe" \notin file'[f].flag /\ ~In(p, i)'
                  => file'[f].off = inode'[i].size
 <2>1. /\ file[f].count > 0 /\ file[f].ino = i
       /\ file'[f].flag = file[f].flag /\ file'[f].off = file[f].off
   BY <1>3 DEF SameFiles
 <2>2. /\ "r" \in file[f].flag /\ ~(In(p, i) /\ u[p].mode = "r") => Rest(inode[i], hist[i], file[f].off)
       /\ "w" \in file[f].flag /\ "pipe" \notin file[f].flag /\ ~In(p, i)
            => file[f].off = inode[i].size
   BY <2>1 DEF View
 <2> QED  BY <1>1, <2>1, <2>2 DEF SameData
<1> QED  BY <1>2, <1>3 DEF View

\* A step that has nothing to do with any lock and moves no offset
LEMMA FlowQuiet ==
  ASSUME IndInv', FlowInv, NEW p \in Procs, Beside(p), inode' = inode, hist' = hist,
         \A f \in Files : /\ file'[f].count > 0 => file[f].count > 0
                          /\ file'[f].ino = file[f].ino /\ file'[f].flag = file[f].flag
                          /\ file'[f].off = file[f].off,
         u'[p].pc \in FilePCs => u'[p].left = u'[p].count,
         u[p].pc \notin HoldPCs, u'[p].pc \notin HoldPCs
  PROVE  FlowInv'
<1>1. NoNew  BY DEF NoNew
<1>2. \A i \in Inos : Undisturbed(i)  BY DEF Undisturbed, SameData, SameFiles
<1> QED  BY <1>1, <1>2, FlowOutside

LEMMA NoLocks ==
  /\ {"user", "exit", "none", "rlock", "wlock", "flock", "rwoken", "wwoken"} \cap HoldPCs = {}
  /\ SleepPCs \cap HoldPCs = {}
  /\ {"user", "exit", "none", "rlock", "wlock", "rwoken", "wwoken"} \cap FilePCs = {}
  BY DEF HoldPCs, FilePCs, SleepPCs

LEMMA RefusedFlow ==
  ASSUME IndInv, IndInv', FlowInv, NEW p \in Procs, NEW err \in Errors, Done(p, err, u),
         u[p].pc \notin HoldPCs, UNCHANGED <<file, inode, hist>>
  PROVE  FlowInv'
<1>1. u \in [Procs -> URec]  BY Types DEF IndInv
<1>2. After(p, {}) /\ u'[p].pc = "user"  BY <1>1, WokenNone, DoneStep
<1> QED  BY <1>2, BesideAfter, NoLocks, FlowQuiet

LEMMA RdwrFlow ==
  ASSUME IndInv, IndInv', FlowInv, NEW p \in Procs, NEW mode \in {"r", "w"}, NEW d \in Asked,
         NEW k \in Sizes, Rdwr(p, mode, d, k)
  PROVE  FlowInv'
<1>1. PICK f : f = GetF(p, d)  OBVIOUS
<1>2. u[p].pc = "user" /\ u[p].pc \notin HoldPCs /\ UNCHANGED <<file, inode, hist>>
  BY NoLocks DEF Rdwr, CanCall
<1>3. CASE f = 0 \/ mode \notin file[f].flag
 <2>1. PICK err \in {"EBADF", "EACCES"} : Done(p, err, u)  BY <1>1, <1>3 DEF Rdwr
 <2>2. err \in Errors  BY DEF Errors
 <2> QED  BY <1>2, <2>1, <2>2, RefusedFlow
<1>4. CASE f # 0 /\ mode \in file[f].flag
 <2>1. PICK pc : pc = IF ~IsPipe(f) THEN "flock" ELSE IF mode = "r" THEN "rlock" ELSE "wlock"
   OBVIOUS
 <2>2. PICK r : r = [u[p] EXCEPT !.pc = pc, !.f = f, !.ino = file[f].ino, !.mode = mode,
                                 !.count = k, !.left = k, !.err = "none"]
   OBVIOUS
 <2>3. u' = [u EXCEPT ![p] = r]  BY <1>1, <1>4, <2>1, <2>2 DEF Rdwr
 <2>4. u \in [Procs -> URec] /\ u[p] \in URec  BY Types DEF IndInv
 <2>5. r.pc = pc /\ r.count = r.left  BY <2>2, <2>4 DEF URec
 <2>6. u'[p] = r /\ \A q \in Procs \ {p} : u'[q] = u[q]  BY <2>3, <2>4
 <2>7. After(p, {})  BY <2>6 DEF After, SameCall
 <2>8. pc \notin HoldPCs  BY <2>1, NoLocks
 <2> QED  BY <1>2, <2>5, <2>6, <2>7, <2>8, BesideAfter, FlowQuiet
<1> QED  BY <1>3, <1>4

LEMMA SeekFlow ==
  ASSUME IndInv, IndInv', FlowInv, NEW p \in Procs, NEW d \in Asked, NEW k \in 0 .. Blocks,
         NEW whence \in 0 .. 2, Sys_Seek(p, d, k, whence)
  PROVE  FlowInv'
<1>1. PICK f : f = GetF(p, d)  OBVIOUS
<1>2. u[p].pc = "user" /\ u[p].pc \notin HoldPCs /\ inode' = inode  BY NoLocks DEF Sys_Seek, CanCall
<1>3. CASE f = 0 \/ IsPipe(f)
 <2>1. PICK err \in {"EBADF", "ESPIPE"} : Done(p, err, u) /\ file' = file /\ hist' = hist
   BY <1>1, <1>3 DEF Sys_Seek
 <2>2. err \in Errors  BY DEF Errors
 <2> QED  BY <1>2, <2>1, <2>2, RefusedFlow
<1>4. CASE f # 0 /\ ~IsPipe(f)
 <2>1. PICK i, to : /\ i = file[f].ino
                    /\ to = k + (IF whence = 1 THEN file[f].off ELSE IF whence = 2 THEN inode[i].size ELSE 0)
   OBVIOUS
 <2>2. /\ file' = [file EXCEPT ![f].off = to]
       /\ hist' = [hist EXCEPT ![i].sought = TRUE]
       /\ Done(p, "none", u)
   BY <1>1, <1>4, <2>1 DEF Sys_Seek
 <2>3. /\ f \in Files /\ i \in Inos
       /\ u \in [Procs -> URec] /\ file \in [Files -> FileRec] /\ hist \in [Inos -> HistRec]
   BY <1>1, <1>4, <2>1, GetFType, Types DEF IndInv
 <2>4. /\ \A g \in Files : /\ file'[g].count = file[g].count /\ file'[g].ino = file[g].ino
                           /\ file'[g].flag = file[g].flag
                           /\ file[g].ino # i => file'[g].off = file[g].off
  <3>1. PICK g : g = [file[f] EXCEPT !.off = to]  OBVIOUS
  <3>2. g.count = file[f].count /\ g.ino = i /\ g.flag = file[f].flag
    BY <2>1, <2>3, <3>1 DEF FileRec
  <3>3. file' = [file EXCEPT ![f] = g]  BY <2>2, <3>1
  <3> QED  BY <2>1, <2>3, <3>2, <3>3
 <2>5. /\ hist'[i].sought /\ hist'[i].broken = hist[i].broken
       /\ \A j \in Inos \ {i} : hist'[j] = hist[j]
  <3>1. PICK h : h = [hist[i] EXCEPT !.sought = TRUE]  OBVIOUS
  <3>2. h.sought /\ h.broken = hist[i].broken  BY <2>3, <3>1 DEF HistRec
  <3>3. hist' = [hist EXCEPT ![i] = h]  BY <2>2, <3>1
  <3> QED  BY <2>3, <3>2, <3>3
 <2>6. After(p, {}) /\ u'[p].pc = "user"  BY <2>2, <2>3, WokenNone, DoneStep DEF Errors
 <2>7. NoNew  BY <2>4 DEF NoNew
 <2>8. \A j \in Inos : Undisturbed(j)  BY <1>2, <2>4, <2>5 DEF Undisturbed, SameData, SameFiles
 <2> QED  BY <1>2, <2>6, <2>7, <2>8, BesideAfter, NoLocks, FlowOutside
<1> QED  BY <1>3, <1>4

LEMMA DupFlow ==
  ASSUME IndInv, IndInv', FlowInv, NEW p \in Procs, NEW d \in Asked, Sys_Dup(p, d)
  PROVE  FlowInv'
<1>1. PICK f : f = GetF(p, d)  OBVIOUS
<1>2. /\ u[p].pc = "user" /\ u[p].pc \notin HoldPCs /\ inode' = inode /\ hist' = hist
      /\ u \in [Procs -> URec] /\ file \in [Files -> FileRec]
  BY NoLocks, Types DEF Sys_Dup, CanCall, IndInv
<1>3. PICK err \in {"EBADF", "EMFILE", "none"} : Done(p, err, u)  BY DEF Sys_Dup
<1>4. err \in Errors  BY DEF Errors
<1>5. After(p, {}) /\ u'[p].pc = "user"  BY <1>2, <1>3, <1>4, WokenNone, DoneStep
<1>6. \A g \in Files : /\ file'[g].count > 0 => file[g].count > 0
                       /\ file'[g].ino = file[g].ino /\ file'[g].flag = file[g].flag
                       /\ file'[g].off = file[g].off
 <2>1. CASE file' = file  BY <2>1
 <2>2. CASE f # 0 /\ file' = [file EXCEPT ![f].count = @ + 1]
  <3>1. f \in Files /\ file[f].count \in Nat /\ file[f].count >= 1  BY <1>1, <2>2, GetFType
  <3>2. PICK g : g = [file[f] EXCEPT !.count = file[f].count + 1]  OBVIOUS
  <3>3. g.ino = file[f].ino /\ g.flag = file[f].flag /\ g.off = file[f].off
    BY <1>2, <3>1, <3>2 DEF FileRec
  <3>4. file' = [file EXCEPT ![f] = g]  BY <2>2, <3>2
  <3> QED  BY <1>2, <3>1, <3>3, <3>4
 <2> QED  BY <1>1, <2>1, <2>2 DEF Sys_Dup
<1> QED  BY <1>2, <1>5, <1>6, BesideAfter, NoLocks, FlowQuiet

LEMMA ForkFlow ==
  ASSUME IndInv, IndInv', FlowInv, NEW p \in Procs, NEW q \in Procs, Sys_Fork(p, q)
  PROVE  FlowInv'
<1>1. /\ u[p].pc = "user" /\ u[p].pc \notin HoldPCs /\ inode' = inode /\ hist' = hist
      /\ u \in [Procs -> URec] /\ file \in [Files -> FileRec]
  BY NoLocks, Types DEF Sys_Fork, CanCall, IndInv
<1>2. CASE \A r \in Procs : u[r].pc # "none"
 <2>1. Done(p, "EAGAIN", u) /\ file' = file /\ "EAGAIN" \in Errors  BY <1>2 DEF Sys_Fork, Errors
 <2> QED  BY <1>1, <2>1, RefusedFlow
<1>3. CASE \E r \in Procs : u[r].pc = "none"
 <2>1. /\ u[q].pc = "none"
       /\ file' = [f \in Files |->
                     [file[f] EXCEPT !.count = @ + Cardinality({d \in Fds : fds[p][d] = f})]]
       /\ u' = [[u EXCEPT ![q] = Back("none")] EXCEPT ![p] = Back("none")]
   BY <1>3 DEF Sys_Fork, Done
 <2>2. Back("none").pc = "user"  BY BackType DEF Errors
 <2>3. \A r \in Procs : u'[r] = IF r \in {p, q} THEN Back("none") ELSE u[r]  BY <1>1, <2>1
 <2>4. Beside(p) /\ u'[p].pc = "user"  BY <2>1, <2>2, <2>3, NoLocks DEF Beside, SameCall
 <2>5. ASSUME NEW f \in Files
       PROVE  /\ file'[f].ino = file[f].ino /\ file'[f].flag = file[f].flag
              /\ file'[f].off = file[f].off
  <3>1. PICK n : n = file[f].count + Cardinality({d \in Fds : fds[p][d] = f})  OBVIOUS
  <3>2. file'[f] = [file[f] EXCEPT !.count = n]  BY <2>1, <3>1
  <3> QED  BY <1>1, <3>2 DEF FileRec
 <2>6. ASSUME NEW f \in Files, file'[f].count > 0 PROVE file[f].count > 0
  <3>1. file[f] \in FileRec /\ file[f].count \in Nat  BY <1>1 DEF FileRec
  <3>2. CASE \E d \in Fds : fds[p][d] = f  BY <3>1, <3>2, Held DEF IndInv
  <3>3. CASE ~ \E d \in Fds : fds[p][d] = f
   <4>1. Cardinality({d \in Fds : fds[p][d] = f}) = 0
    <5>1. {d \in Fds : fds[p][d] = f} = {}  BY <3>3
    <5> QED  BY <5>1, FS_EmptySet
   <4>2. PICK n : n = file[f].count + Cardinality({d \in Fds : fds[p][d] = f})  OBVIOUS
   <4>3. n = file[f].count  BY <3>1, <4>1, <4>2
   <4>4. file'[f] = [file[f] EXCEPT !.count = n]  BY <2>1, <4>2
   <4> QED  BY <2>6, <3>1, <4>3, <4>4 DEF FileRec
  <3> QED  BY <3>2, <3>3
 <2> QED  BY <1>1, <2>4, <2>5, <2>6, NoLocks, FlowQuiet
<1> QED  BY <1>2, <1>3

LEMMA KillFlow ==
  ASSUME IndInv, IndInv', FlowInv, NEW p \in Procs, NEW q \in Procs, Sys_Kill(p, q)
  PROVE  FlowInv'
<1>1. PICK W : W = IF u[q].pc \in Breakable THEN {q} ELSE {}  OBVIOUS
<1>2. /\ u[p].pc = "user" /\ u' = [Woken(W) EXCEPT ![p] = Back("none")]
      /\ UNCHANGED <<file, inode, hist>>
  BY <1>1 DEF Sys_Kill, CanCall
<1>3. W \in SUBSET Procs /\ \A r \in W : u[r].pc \in SleepPCs  BY <1>1 DEF Breakable, SleepPCs
<1>4. u \in [Procs -> URec] /\ "none" \in Errors  BY Types DEF IndInv, Errors
<1>5. After(p, W) /\ u'[p].pc = "user"  BY <1>2, <1>3, <1>4, BackType, WokenStep
<1> QED  BY <1>2, <1>3, <1>5, BesideAfter, NoLocks, FlowQuiet

\* A process starts to exit, is gone or runs a handler
LEMMA ExitFlow ==
  ASSUME IndInv, IndInv', FlowInv, NEW p \in Procs, Signal(p) \/ Sys_Rexit(p) \/ ExitEnd(p)
  PROVE  FlowInv'
<1>1. /\ u[p].pc \in {"user", "exit"} /\ UNCHANGED <<file, inode, hist>>
      /\ u' = [u EXCEPT ![p] = Dying] \/ u' = u \/ u' = [u EXCEPT ![p] = Idle]
  BY DEF Signal, Sys_Rexit, ExitEnd, CanCall
<1>2. u \in [Procs -> URec]  BY Types DEF IndInv
<1>3. After(p, {}) /\ u'[p].pc \in {"user", "exit", "none"}
 <2>1. Dying.pc = "exit" /\ Idle.pc = "none"  BY DyingType, IdleType
 <2> QED  BY <1>1, <1>2, <2>1 DEF After, SameCall
<1> QED  BY <1>1, <1>3, BesideAfter, NoLocks, FlowQuiet

\* What a close leaves of the inode: all of its data, and its lock as the case is
LEMMA ToldData ==
  ASSUME IndInv, NEW p, NEW d, NEW f, Closing(p, d, f), NEW i, i = file[f].ino
  PROVE  /\ Told(f) \in InoRec /\ (Told(f).lock <=> inode[i].lock)
         /\ Told(f).size = inode[i].size /\ Told(f).data = inode[i].data
<1>1. inode[i] \in InoRec  BY ClosingFacts
<1>2. PICK x : x = [inode[i] EXCEPT !.rd = FALSE, !.wr = FALSE]  OBVIOUS
<1>3. x \in InoRec /\ x.lock = inode[i].lock /\ x.size = inode[i].size /\ x.data = inode[i].data
  BY <1>1, <1>2 DEF InoRec
<1>4. Told(f) = x \/ Told(f) = inode[i]  BY <1>2 DEF Told
<1> QED  BY <1>1, <1>3, <1>4

LEMMA CloseHist ==
  ASSUME IndInv, NEW p, NEW d, NEW f, Closing(p, d, f), NEW i, i = file[f].ino,
         NEW r, NEW next, CloseF(p, f, r, next), ~(file[f].count <= 1 /\ inode[i].count = 1)
  PROVE  /\ \A j \in Inos \ {i} : hist'[j] = hist[j]
         /\ hist'[i].got = hist[i].got /\ hist'[i].sent = hist[i].sent
         /\ hist'[i].sought <=> hist[i].sought
         /\ hist[i].broken \/ (file[f].count <= 1 /\ inode[i].lock) => hist'[i].broken
         /\ hist'[i].broken => hist[i].broken \/ (file[f].count <= 1 /\ inode[i].lock)
<1>1. hist \in [Inos -> HistRec] /\ i \in Inos  BY ClosingFacts
<1>2. PICK b : b = (hist[i].broken \/ (file[f].count <= 1 /\ inode[i].lock))  OBVIOUS
<1>3. hist' = [hist EXCEPT ![i].broken = b]  BY <1>2, Zenon DEF CloseF
<1>4. PICK h : h = [hist[i] EXCEPT !.broken = b]  OBVIOUS
<1>5. h.got = hist[i].got /\ h.sent = hist[i].sent /\ h.sought = hist[i].sought /\ h.broken = b
  BY <1>1, <1>4 DEF HistRec
<1>6. hist'[i] = h /\ \A j \in Inos \ {i} : hist'[j] = hist[j]  BY <1>1, <1>3, <1>4
<1> QED  BY <1>2, <1>5, <1>6

LEMMA CloseFFlow ==
  ASSUME IndInv, IndInv', FlowInv, NEW p, NEW d, NEW f, Closing(p, d, f),
         NEW r \in URec, r.pc \in {"user", "exit"}, NEW next, CloseF(p, f, r, next)
  PROVE  FlowInv'
<1>1. PICK i : i = file[f].ino  OBVIOUS
<1>2. /\ p \in Procs /\ f \in Files /\ i \in Inos /\ u[p].pc \notin BusyPCs
      /\ file[f].count \in Nat /\ file[f].count >= 1
      /\ file \in [Files -> FileRec] /\ inode \in [Inos -> InoRec] /\ u \in [Procs -> URec]
  BY <1>1, ClosingFacts
<1>3. Ends(f) \in SUBSET Procs /\ (\A q \in Ends(f) : u[q].pc \in SleepPCs)
      /\ u[p].pc \notin HoldPCs
  BY <1>1, <1>2, EndsIn, Classes
<1>4. CASE file[f].count <= 1 /\ inode[i].count = 1
 <2>1. /\ inode' = [inode EXCEPT ![i] = [Told(f) EXCEPT !.lock = TRUE]]
       /\ u' = [Woken(Ends(f)) EXCEPT ![p] = [r EXCEPT !.pc = "iput", !.f = f, !.ino = i]]
       /\ file' = file /\ hist' = hist
  <3>1. AllGone(p, f, r)  BY <1>1, <1>4, CloseCases
  <3> QED  BY <1>1, <3>1 DEF AllGone
 <2>2. PICK s : s = [r EXCEPT !.pc = "iput", !.f = f, !.ino = i]  OBVIOUS
 <2>3. s \in URec /\ s.pc = "iput" /\ s.ino = i
  <3>1. "iput" \in PCs /\ f \in 0 .. NFile  BY <1>2, Consts DEF PCs
  <3> QED  BY <1>2, <2>2, <3>1 DEF URec
 <2>4. u'[p] = s /\ After(p, Ends(f))  BY <1>2, <1>3, <2>1, <2>2, <2>3, WokenStep
 <2>5. Beside(p)  BY <1>2, <1>3, <2>4, BesideAfter
 <2>6. LastOfAll(f)  BY <1>1, <1>2, <1>4 DEF LastOfAll
 <2>7. \A q \in Procs : ~At(q, i) /\ ~In(q, i)
  <3>1. \A q \in Procs : ~(u[q].pc \in BusyPCs /\ u[q].ino = i)  BY <1>1, <2>6, OnlyCloser
  <3> QED  BY <3>1, Classes DEF At, In
 <2>8. /\ inode'[i].lock = TRUE /\ inode'[i].size = inode[i].size /\ inode'[i].data = inode[i].data
       /\ \A j \in Inos \ {i} : inode'[j] = inode[j]
  <3>1. PICK x : x = [Told(f) EXCEPT !.lock = TRUE]  OBVIOUS
  <3>2. x.size = inode[i].size /\ x.data = inode[i].data /\ x.lock = TRUE
   <4>1. PICK t : t = Told(f)  OBVIOUS
   <4>2. t \in InoRec /\ (t.lock <=> inode[i].lock) /\ t.size = inode[i].size /\ t.data = inode[i].data
     BY <1>1, <4>1, ToldData
   <4>3. x = [t EXCEPT !.lock = TRUE]  BY <3>1, <4>1
   <4> QED  BY <4>2, <4>3 DEF InoRec, Freed
  <3>3. inode' = [inode EXCEPT ![i] = x]  BY <2>1, <3>1
  <3> QED  BY <1>2, <3>2, <3>3
 <2>9. ~In(p, i)'  BY <2>3, <2>4 DEF In, MovePCs
 <2>10. Flow(i)'
  <3>1. CASE hist[i].broken  BY <2>1, <3>1 DEF Flow
  <3>2. CASE ~hist[i].broken
   <4>1. ~hist[i].sought => Whole(i)  BY <1>2, <3>2 DEF FlowInv, Flow
   <4>2. SameData(i) /\ SameFiles(i)  BY <2>1, <2>8 DEF SameData, SameFiles
   <4>3. ~hist'[i].sought => View(p, i)'  BY <1>2, <2>1, <2>7, <2>9, <4>1, <4>2, ViewIs, ViewKeeps
   <4> QED  BY <1>2, <2>5, <2>7, <2>8, <4>3, FlowHere
  <3> QED  BY <3>1, <3>2
 <2>11. \A j \in Inos \ {i} : Undisturbed(j)  BY <2>1, <2>8, Untouched
 <2>12. NoNew  BY <2>1 DEF NoNew
 <2>13. u'[p].pc \notin FilePCs /\ u'[p].ino = i  BY <2>3, <2>4 DEF FilePCs
 <2> QED  BY <1>2, <1>3, <2>5, <2>10, <2>11, <2>12, <2>13, FlowInside
<1>5. CASE ~(file[f].count <= 1 /\ inode[i].count = 1)
 <2>1. \E W \in SUBSET Procs : (\A q \in W : u[q].pc \in SleepPCs) /\ u' = [Woken(W) EXCEPT ![p] = r]
  <3>1. Waiters(i) \subseteq Procs /\ \A q \in Waiters(i) : u[q].pc \in SleepPCs  BY <1>2, Sleepers
  <3>2. \/ u' = [Woken(Ends(f)) EXCEPT ![p] = r]
        \/ u' = [Woken(Ends(f) \cup Waiters(i)) EXCEPT ![p] = r]
   <4>1. FileGone(p, f, r, next) \/ NoneGone(p, f, r, next)  BY <1>1, <1>5, CloseCases
   <4> QED  BY <1>1, <4>1 DEF FileGone, NoneGone
  <3> QED  BY <1>3, <3>1, <3>2
 <2>2. Beside(p) /\ u'[p] = r
  <3>1. PICK W \in SUBSET Procs : (\A q \in W : u[q].pc \in SleepPCs) /\ u' = [Woken(W) EXCEPT ![p] = r]
    BY <2>1
  <3>2. After(p, W) /\ u'[p] = r  BY <1>2, <3>1, WokenStep
  <3> QED  BY <1>2, <3>1, <3>2, BesideAfter
 <2>3. /\ inode'[i].size = inode[i].size /\ inode'[i].data = inode[i].data
       /\ inode'[i].lock = IF file[f].count <= 1 THEN FALSE ELSE inode[i].lock
       /\ \A j \in Inos \ {i} : inode'[j] = inode[j]
  <3>1. CASE file[f].count <= 1
   <4>1. inode' = [inode EXCEPT ![i] = [Freed(Told(f)) EXCEPT !.count = Told(f).count - 1]]
    <5>1. FileGone(p, f, r, next)  BY <1>1, <1>5, <3>1, CloseCases
    <5> QED  BY <1>1, <5>1 DEF FileGone
   <4>2. PICK x : x = [Freed(Told(f)) EXCEPT !.count = Told(f).count - 1]  OBVIOUS
   <4>3. x.size = inode[i].size /\ x.data = inode[i].data /\ x.lock = FALSE
    <5>1. PICK t : t = Told(f)  OBVIOUS
    <5>2. t \in InoRec /\ (t.lock <=> inode[i].lock) /\ t.size = inode[i].size /\ t.data = inode[i].data
      BY <1>1, <5>1, ToldData
    <5>3. x = [Freed(t) EXCEPT !.count = t.count - 1]  BY <4>2, <5>1
    <5> QED  BY <5>2, <5>3 DEF InoRec, Freed
   <4>4. inode' = [inode EXCEPT ![i] = x]  BY <4>1, <4>2
   <4> QED  BY <1>2, <3>1, <4>3, <4>4
  <3>2. CASE ~(file[f].count <= 1)
   <4>1. inode' = [inode EXCEPT ![i] = Told(f)]
    <5>1. NoneGone(p, f, r, next)  BY <1>1, <1>5, <3>2, CloseCases
    <5> QED  BY <1>1, <5>1 DEF NoneGone
   <4>2. PICK x : x = Told(f)  OBVIOUS
   <4>3. x.size = inode[i].size /\ x.data = inode[i].data /\ x.lock = inode[i].lock
    <5>1. PICK t : t = Told(f)  OBVIOUS
    <5>2. t \in InoRec /\ (t.lock <=> inode[i].lock) /\ t.size = inode[i].size /\ t.data = inode[i].data
      BY <1>1, <5>1, ToldData
    <5>3. x = t  BY <4>2, <5>1
    <5> QED  BY <1>2, <5>2, <5>3 DEF InoRec
   <4>4. inode' = [inode EXCEPT ![i] = x]  BY <4>1, <4>2
   <4> QED  BY <1>2, <3>2, <4>3, <4>4
  <3> QED  BY <3>1, <3>2
 <2>4. \A g \in Files : file'[g].count > 0 =>
         /\ file[g].count > 0 /\ file'[g].ino = file[g].ino
         /\ file'[g].flag = file[g].flag /\ file'[g].off = file[g].off
  <3>1. CASE file[f].count <= 1
   <4>1. file' = [file EXCEPT ![f] = NoFile] /\ NoFile.count = 0
    <5>1. FileGone(p, f, r, next)  BY <1>1, <1>5, <3>1, CloseCases
    <5> QED  BY <5>1 DEF FileGone, NoFile
   <4> QED  BY <1>2, <4>1
  <3>2. CASE ~(file[f].count <= 1)
   <4>1. PICK g : g = [file[f] EXCEPT !.count = file[f].count - 1]  OBVIOUS
   <4>2. file' = [file EXCEPT ![f] = g]
    <5>1. NoneGone(p, f, r, next)  BY <1>1, <1>5, <3>2, CloseCases
    <5> QED  BY <4>1, <5>1 DEF NoneGone
   <4>3. g.ino = file[f].ino /\ g.flag = file[f].flag /\ g.off = file[f].off
     BY <1>2, <4>1 DEF FileRec
   <4> QED  BY <1>2, <4>2, <4>3
  <3> QED  BY <3>1, <3>2
 <2>5. NoNew  BY <2>4 DEF NoNew
 <2>6. Undisturbed(i)
  <3>1. inode[i].lock \in BOOLEAN  BY <1>2 DEF InoRec
  <3>2. ASSUME ~hist'[i].broken PROVE ~hist[i].broken /\ inode'[i].lock = inode[i].lock
    BY <1>1, <1>5, <2>3, <3>1, <3>2, CloseHist
  <3>3. SameData(i) /\ SameFiles(i) /\ (~hist'[i].sought => ~hist[i].sought)
    BY <1>1, <1>5, <2>3, <2>4, CloseHist DEF SameData, SameFiles
  <3> QED  BY <3>2, <3>3 DEF Undisturbed
 <2>7. \A j \in Inos \ {i} : Undisturbed(j)
  <3>1. \A j \in Inos \ {i} : hist'[j] = hist[j]  BY <1>1, <1>5, CloseHist
  <3> QED  BY <2>3, <2>4, <3>1 DEF Undisturbed, SameData, SameFiles
 <2>8. u'[p].pc \notin HoldPCs /\ u'[p].pc \notin FilePCs  BY <2>2, NoLocks
 <2> QED  BY <1>2, <1>3, <2>2, <2>5, <2>6, <2>7, <2>8, FlowOutside
<1> QED  BY <1>4, <1>5

LEMMA CloseFlow ==
  ASSUME IndInv, IndInv', FlowInv, NEW p \in Procs, NEW d \in Asked, Sys_Close(p, d)
  PROVE  FlowInv'
<1>1. PICK f : f = GetF(p, d)  OBVIOUS
<1>2. u[p].pc = "user" /\ u[p].pc \notin HoldPCs  BY NoLocks DEF Sys_Close, CanCall
<1>3. CASE f = 0
 <2>1. Done(p, "EBADF", u) /\ UNCHANGED <<file, inode, hist>> /\ "EBADF" \in Errors
   BY <1>1, <1>3 DEF Sys_Close, Errors
 <2> QED  BY <1>2, <2>1, RefusedFlow
<1>4. CASE f # 0
 <2>1. CloseF(p, f, Back("none"), NoProc)  BY <1>1, <1>4 DEF Sys_Close
 <2>2. Closing(p, d, f)  BY <1>1, <1>2, <1>4, GetFType DEF Closing
 <2>3. Back("none") \in URec /\ Back("none").pc = "user"  BY BackType DEF Errors
 <2> QED  BY <2>1, <2>2, <2>3, CloseFFlow
<1> QED  BY <1>3, <1>4

LEMMA ExitCloseFlow ==
  ASSUME IndInv, IndInv', FlowInv, NEW p \in Procs, ExitClose(p)
  PROVE  FlowInv'
<1>1. PICK d \in Fds :
        u[p].pc = "exit" /\ fds[p][d] # 0 /\ CloseF(p, fds[p][d], [Dying EXCEPT !.fd = d], p)
  BY DEF ExitClose
<1>2. PICK f : f = fds[p][d]  OBVIOUS
<1>3. f \in Files
 <2>1. fds \in [Procs -> [Fds -> 0 .. NFile]]  BY Types DEF IndInv
 <2> QED  BY <1>1, <1>2, <2>1, Consts
<1>4. Closing(p, d, f)  BY <1>1, <1>2, <1>3 DEF Closing
<1>5. PICK r : r = [Dying EXCEPT !.fd = d]  OBVIOUS
<1>6. r \in URec /\ r.pc = "exit"  BY <1>5, Consts, DyingType DEF URec
<1> QED  BY <1>1, <1>2, <1>4, <1>5, <1>6, CloseFFlow

\* Who finds the lock taken waits
LEMMA WaitsFlow ==
  ASSUME IndInv, IndInv', FlowInv, NEW p \in Procs, After(p, {}), NEW i \in Inos,
         inode' = [inode EXCEPT ![i].want = TRUE], file' = file, hist' = hist,
         u[p].pc \notin HoldPCs, u'[p].pc \notin HoldPCs,
         u'[p].pc \in FilePCs => u'[p].left = u'[p].count
  PROVE  FlowInv'
<1>1. Beside(p)  BY BesideAfter
<1>2. /\ inode'[i].lock = inode[i].lock /\ inode'[i].size = inode[i].size /\ inode'[i].data = inode[i].data
      /\ \A j \in Inos \ {i} : inode'[j] = inode[j]
 <2>1. inode \in [Inos -> InoRec] /\ inode[i] \in InoRec  BY Types DEF IndInv
 <2>2. PICK s : s = [inode[i] EXCEPT !.want = TRUE]  OBVIOUS
 <2>3. s.lock = inode[i].lock /\ s.size = inode[i].size /\ s.data = inode[i].data
   BY <2>1, <2>2 DEF InoRec
 <2>4. inode' = [inode EXCEPT ![i] = s]  BY <2>2
 <2> QED  BY <2>1, <2>3, <2>4
<1>3. \A j \in Inos : Undisturbed(j)  BY <1>2 DEF Undisturbed, SameData, SameFiles
<1>4. NoNew  BY DEF NoNew
<1> QED  BY <1>1, <1>3, <1>4, FlowOutside

\* The inode with its lock taken
LEMMA LockTaken ==
  ASSUME inode \in [Inos -> InoRec], NEW i \in Inos, inode' = [inode EXCEPT ![i].lock = TRUE]
  PROVE  /\ inode'[i].lock /\ inode'[i].size = inode[i].size /\ inode'[i].data = inode[i].data
         /\ \A j \in Inos \ {i} : inode'[j] = inode[j]
<1>1. PICK s : s = [inode[i] EXCEPT !.lock = TRUE]  OBVIOUS
<1>2. s.lock /\ s.size = inode[i].size /\ s.data = inode[i].data  BY <1>1 DEF InoRec
<1>3. inode' = [inode EXCEPT ![i] = s]  BY <1>1
<1> QED  BY <1>2, <1>3

LEMMA PlockFlow ==
  ASSUME IndInv, IndInv', FlowInv, NEW p \in Procs, Plock(p)
  PROVE  FlowInv'
<1>1. PICK i : i = u[p].ino  OBVIOUS
<1>2. /\ u[p].pc \in {"rlock", "rwoken", "wlock", "wwoken"} /\ u[p].pc \in CallPCs
      /\ u[p].pc \notin HoldPCs /\ file' = file /\ hist' = hist
  BY ThePcs, NoLocks DEF Plock
<1>3. u \in [Procs -> URec] /\ inode \in [Inos -> InoRec] /\ i \in Inos
  BY <1>1, <1>2, Types, CallFile DEF IndInv
<1>4. CASE u[p].pc \in {"rwoken", "wwoken"} /\ p \in sig
 <2>1. Done(p, "EINTR", u) /\ inode' = inode /\ "EINTR" \in Errors  BY <1>4 DEF Plock, Errors
 <2> QED  BY <1>2, <2>1, RefusedFlow
<1>5. CASE ~(u[p].pc \in {"rwoken", "wwoken"} /\ p \in sig) /\ inode[i].lock
 <2>1. PICK pc : pc = IF u[p].mode = "r" THEN "rlockw" ELSE "wlockw"  OBVIOUS
 <2>2. inode' = [inode EXCEPT ![i].want = TRUE] /\ Sleep(p, pc, u) /\ pc \in PCs
   BY <1>1, <1>5, <2>1, ThePcs DEF Plock, Locked
 <2>3. After(p, {}) /\ u'[p].pc \in {"user", "rlockw", "wlockw"}
   BY <1>3, <2>1, <2>2, WokenNone, SleepStep
 <2>4. u'[p].pc \notin HoldPCs /\ u'[p].pc \notin FilePCs  BY <2>3 DEF HoldPCs, FilePCs
 <2> QED  BY <1>2, <1>3, <2>2, <2>3, <2>4, WaitsFlow
<1>6. CASE ~(u[p].pc \in {"rwoken", "wwoken"} /\ p \in sig) /\ ~inode[i].lock
 <2>1. PICK pc : pc = IF u[p].mode = "r" THEN "readp" ELSE "writep"  OBVIOUS
 <2>2. /\ inode' = [inode EXCEPT ![i].lock = TRUE]
       /\ u' = [u EXCEPT ![p] = [u[p] EXCEPT !.pc = pc]] /\ pc \in PCs
   BY <1>1, <1>6, <2>1, ThePcs DEF Plock, Locked
 <2>3. After(p, {}) /\ u'[p].pc = pc /\ SameCall(u'[p], u[p])  BY <1>3, <2>2, WokenNone, GoesStep
 <2>4. u'[p].ino = i /\ u'[p].pc \notin MovePCs /\ u'[p].pc \notin FilePCs
   BY <1>1, <2>1, <2>3 DEF SameCall, MovePCs, FilePCs
 <2>5. /\ inode'[i].lock /\ SameData(i) /\ SameFiles(i)
       /\ \A j \in Inos \ {i} : inode'[j] = inode[j]
   BY <1>2, <1>3, <2>2, LockTaken DEF SameData, SameFiles
 <2>6. View(p, i) => View(p, i)'
  <3>1. ~In(p, i) /\ ~In(p, i)'  BY <1>2, <2>4, Classes DEF In
  <3> QED  BY <2>5, <3>1, ViewKeeps
 <2> QED  BY <1>2, <1>3, <1>6, <2>3, <2>4, <2>5, <2>6, FlowAt
<1> QED  BY <1>4, <1>5, <1>6

\* The File to read of an inode is one, and what is not a pipe has one File
LEMMA OneReader ==
  ASSUME IndInv, FlowInv, NEW f \in Files, NEW g \in Files, file[f].count > 0, file[g].count > 0,
         file[f].ino = file[g].ino, "r" \in file[f].flag, "r" \in file[g].flag
  PROVE  f = g
<1>1. file[f].ino \in Inos /\ (IsPipe(f) <=> file[f].ino \in Pipes)
  BY Types DEF IndInv, FileInv, FileRec
<1>2. CASE IsPipe(f)  BY <1>2 DEF IndInv, FileInv
<1>3. CASE ~IsPipe(f)
 <2>1. file[f].ino \in {Input, Output}  BY <1>1, <1>3 DEF Inos, Given
 <2> QED  BY <2>1 DEF FlowInv, GivenOK
<1> QED  BY <1>2, <1>3

LEMMA OneGiven ==
  ASSUME IndInv, FlowInv, NEW f \in Files, file[f].count > 0, ~IsPipe(f)
  PROVE  /\ \/ file[f].ino = Input /\ file[f].flag = {"r"}
            \/ file[f].ino = Output /\ file[f].flag = {"w"}
         /\ \A g \in Files : file[g].count > 0 /\ file[g].ino = file[f].ino => g = f
<1>1. file[f].ino \in Inos /\ (IsPipe(f) <=> file[f].ino \in Pipes)
  BY Types DEF IndInv, FileInv, FileRec
<1>2. file[f].ino \in {Input, Output}  BY <1>1 DEF Inos, Given
<1> QED  BY <1>2 DEF FlowInv, GivenOK

LEMMA NFlockFlow ==
  ASSUME IndInv, IndInv', FlowInv, NEW p \in Procs, NFlock(p)
  PROVE  FlowInv'
<1>1. PICK i, f : i = u[p].ino /\ f = u[p].f  OBVIOUS
<1>2. /\ u[p].pc = "flock" /\ u[p].pc \in FilePCs /\ u[p].pc \in CallPCs
      /\ u[p].pc \notin HoldPCs /\ file' = file /\ hist' = hist
  BY ThePcs, NoLocks DEF NFlock, FilePCs
<1>3. /\ u \in [Procs -> URec] /\ u[p] \in URec /\ inode \in [Inos -> InoRec] /\ i \in Inos
      /\ f \in Files /\ file[f] \in FileRec /\ file[f].count > 0 /\ file[f].ino = i /\ ~IsPipe(f)
      /\ u[p].mode \in file[f].flag /\ u[p].mode \in {"r", "w"}
 <2>1. /\ f \in Files /\ file[f].count > 0 /\ file[f].ino = i /\ i \in Inos /\ ~IsPipe(f)
       /\ u[p].mode \in file[f].flag /\ u[p].mode \in {"r", "w"}
   BY <1>1, <1>2, CallFile
 <2> QED  BY <2>1, Types DEF IndInv
<1>4. u[p].left = u[p].count  BY <1>2 DEF FlowInv, Fresh
<1>5. CASE inode[i].lock
 <2>1. inode' = [inode EXCEPT ![i].want = TRUE] /\ u' = [u EXCEPT ![p] = [u[p] EXCEPT !.pc = "flockw"]]
   BY <1>1, <1>5 DEF NFlock, Locked
 <2>2. After(p, {}) /\ u'[p].pc = "flockw" /\ SameCall(u'[p], u[p])
  <3>1. "flockw" \in PCs  BY DEF PCs
  <3> QED  BY <1>3, <2>1, <3>1, WokenNone, GoesStep
 <2>3. u'[p].pc \notin HoldPCs /\ u'[p].left = u'[p].count  BY <1>4, <2>2 DEF HoldPCs, SameCall
 <2> QED  BY <1>2, <1>3, <2>1, <2>2, <2>3, WaitsFlow
<1>6. CASE ~inode[i].lock
 <2>1. PICK r : r = [u[p] EXCEPT !.pc = "io", !.off = file[f].off]  OBVIOUS
 <2>2. inode' = [inode EXCEPT ![i].lock = TRUE] /\ u' = [u EXCEPT ![p] = r]
   BY <1>1, <1>6, <2>1 DEF NFlock, Locked
 <2>3. /\ r \in URec /\ r.pc = "io" /\ r.ino = i /\ r.f = f /\ r.mode = u[p].mode
       /\ r.off = file[f].off /\ r.count = u[p].count /\ r.left = u[p].left
  <3>1. file[f].off \in Nat /\ "io" \in PCs  BY <1>3 DEF FileRec, PCs
  <3> QED  BY <1>1, <1>3, <2>1, <3>1 DEF URec
 <2>4. After(p, {}) /\ u'[p] = r  BY <1>3, <2>2, <2>3, PlainStep
 <2>5. /\ inode'[i].lock /\ SameData(i) /\ SameFiles(i)
       /\ \A j \in Inos \ {i} : inode'[j] = inode[j]
   BY <1>2, <1>3, <2>2, LockTaken DEF SameData, SameFiles
 <2>6. ASSUME View(p, i) PROVE View(p, i)'
  <3>1. ~In(p, i) /\ In(p, i)'  BY <1>2, <2>3, <2>4, Classes DEF In, MovePCs
  <3>2. MoverOK(inode'[i], hist'[i], r, file[f])
   <4>1. u[p].mode = "r" => Rest(inode[i], hist[i], file[f].off)  BY <1>3, <2>6, <3>1 DEF View
   <4>2. u[p].mode = "w" => file[f].off = inode[i].size  BY <1>3, <2>6, <3>1 DEF View, IsPipe
   <4>3. r.mode = "r" => Rest(inode'[i], hist'[i], r.off)
     BY <1>2, <2>3, <2>5, <4>1, RestSame DEF SameData
   <4>4. r.off = file[f].off + r.count - r.left
    <5>1. file[f].off \in Nat /\ u[p].count \in Nat  BY <1>3 DEF FileRec, URec
    <5> QED  BY <1>4, <2>3, <5>1
   <4> QED  BY <2>3, <2>5, <4>2, <4>3, <4>4 DEF MoverOK, SameData
  <3>3. MoverOK(inode'[i], hist'[i], u'[p], file'[u'[p].f])  BY <1>2, <2>3, <2>4, <3>2
  <3> QED  BY <2>5, <2>6, <3>1, <3>3, ViewKeeps
 <2>7. u'[p].pc \notin FilePCs /\ u'[p].ino = i  BY <2>3, <2>4 DEF FilePCs
 <2> QED  BY <1>2, <1>3, <1>6, <2>4, <2>5, <2>6, <2>7, FlowAt
<1> QED  BY <1>5, <1>6

LEMMA ReadPFlow ==
  ASSUME IndInv, IndInv', FlowInv, NEW p \in Procs, ReadP(p)
  PROVE  FlowInv'
<1>1. PICK i, f : i = u[p].ino /\ f = u[p].f  OBVIOUS
<1>2. /\ u[p].pc = "readp" /\ u[p].pc \in CallPCs /\ u[p].pc \in HoldPCs /\ u[p].pc \notin MovePCs
      /\ hist' = hist
  BY ThePcs DEF ReadP, HoldPCs, MovePCs
<1>3. /\ u \in [Procs -> URec] /\ u[p] \in URec /\ inode \in [Inos -> InoRec] /\ file \in [Files -> FileRec]
      /\ i \in Inos /\ f \in Files /\ i \in Pipes /\ inode[i] \in InoRec /\ file[f] \in FileRec
      /\ hist \in [Inos -> HistRec]
      /\ file[f].count > 0 /\ file[f].ino = i /\ u[p].mode = "r" /\ IsPipe(f)
      /\ "r" \in file[f].flag
  BY <1>1, <1>2, Types, CallFile, ThePcs DEF IndInv
<1>4. At(p, i) /\ ~In(p, i)  BY <1>1, <1>2 DEF At, In
<1>5. PICK empty \in BOOLEAN : empty = (file[f].off = inode[i].size)  OBVIOUS
<1>6. CASE ~empty
 <2>1. PICK r : r = [u[p] EXCEPT !.pc = "io", !.off = file[f].off]  OBVIOUS
 <2>2. u' = [u EXCEPT ![p] = r] /\ file' = file /\ inode' = inode
   BY <1>1, <1>3, <1>5, <1>6, <2>1 DEF ReadP
 <2>3. r \in URec /\ r.pc = "io" /\ r.f = f /\ r.ino = i /\ r.mode = "r" /\ r.off = file[f].off
  <3>1. file[f].off \in Nat /\ "io" \in PCs  BY <1>3 DEF FileRec, PCs
  <3> QED  BY <1>1, <1>3, <2>1, <3>1 DEF URec
 <2>4. u'[p] = r /\ After(p, {})  BY <1>3, <2>2, <2>3, PlainStep
 <2>5. ASSUME View(p, i) PROVE View(p, i)'
  <3>1. Rest(inode[i], hist[i], file[f].off)  BY <1>3, <1>4, <2>5 DEF View
  <3>2. MoverOK(inode'[i], hist'[i], u'[p], file'[u'[p].f])
    BY <1>2, <1>3, <2>2, <2>3, <2>4, <3>1 DEF MoverOK, IsPipe
  <3>3. SameData(i) /\ SameFiles(i)  BY <1>2, <2>2 DEF SameData, SameFiles
  <3> QED  BY <1>4, <2>5, <3>2, <3>3, ViewKeeps
 <2>6. u'[p].pc \notin FilePCs /\ u'[p].ino = i  BY <2>3, <2>4 DEF FilePCs
 <2>7. ~hist[i].broken => inode[i].lock  BY <1>3, <1>4 DEF FlowInv, Flow, Alone
 <2>8. At(p, i)' /\ ~hist[i].broken => inode'[i].lock  BY <2>2, <2>7
 <2> QED  BY <1>1, <1>2, <1>3, <1>4, <2>2, <2>4, <2>5, <2>6, <2>8, FlowAt
<1>7. CASE empty
 <2>1. PICK drained \in BOOLEAN : drained = (file[f].off = inode[i].size /\ file[f].off # 0)
   OBVIOUS
 <2>2. PICK W : W = Waiters(i) \cup (IF drained /\ inode[i].wr THEN Writing(i) ELSE {})  OBVIOUS
 <2>3. PICK reset : reset = IF drained THEN [Freed(inode[i]) EXCEPT !.size = 0, !.wr = FALSE]
                            ELSE Freed(inode[i])
   OBVIOUS
 <2>4. PICK r : r = IF inode[i].count >= 2 THEN [reset EXCEPT !.rd = TRUE] ELSE reset  OBVIOUS
 <2>5. /\ file' = (IF drained THEN [file EXCEPT ![f].off = 0] ELSE file)
       /\ inode' = [inode EXCEPT ![i] = r]
       /\ Sleep(p, "rsleep", Woken(W)) \/ Done(p, "none", Woken(W))
   BY <1>1, <1>5, <1>7, <2>1, <2>2, <2>3, <2>4 DEF ReadP
 <2>6. W \in SUBSET Procs /\ \A q \in W : u[q].pc \in SleepPCs  BY <1>3, <2>2, Sleepers
 <2>7. After(p, W) /\ u'[p].pc \in {"user", "rsleep"}
  <3>1. "rsleep" \in PCs /\ "none" \in Errors  BY DEF PCs, Errors
  <3>2. CASE Sleep(p, "rsleep", Woken(W))  BY <2>6, <3>1, <3>2, SleepStep
  <3>3. CASE Done(p, "none", Woken(W))  BY <2>6, <3>1, <3>3, DoneStep
  <3> QED  BY <2>5, <3>2, <3>3
 <2>8. u'[p].pc \notin HoldPCs /\ u'[p].pc \notin FilePCs /\ ~At(p, i)' /\ ~In(p, i)'
   BY <2>7 DEF HoldPCs, MovePCs, FilePCs, At, In
 <2>9. /\ inode'[i].size = (IF drained THEN 0 ELSE inode[i].size) /\ inode'[i].data = inode[i].data
       /\ \A j \in Inos \ {i} : inode'[j] = inode[j]
  <3>1. PICK s : s = Freed(inode[i])  OBVIOUS
  <3>2. s \in InoRec /\ s.size = inode[i].size /\ s.data = inode[i].data
    BY <1>3, <3>1 DEF Freed, InoRec
  <3>3. reset = IF drained THEN [s EXCEPT !.size = 0, !.wr = FALSE] ELSE s  BY <2>3, <3>1
  <3>4. /\ reset \in InoRec /\ reset.size = (IF drained THEN 0 ELSE inode[i].size)
        /\ reset.data = inode[i].data
   <4>1. 0 \in 0 .. Blocks  BY Consts
   <4> QED  BY <3>2, <3>3, <4>1 DEF InoRec
  <3>5. r.size = reset.size /\ r.data = reset.data  BY <2>4, <3>4 DEF InoRec
  <3> QED  BY <1>3, <2>5, <3>4, <3>5
 <2>10. \A g \in Files :
          /\ file'[g].count = file[g].count /\ file'[g].ino = file[g].ino
          /\ file'[g].flag = file[g].flag
          /\ file'[g].off = IF drained /\ g = f THEN 0 ELSE file[g].off
  <3>1. CASE drained
   <4>1. PICK s : s = [file[f] EXCEPT !.off = 0]  OBVIOUS
   <4>2. file' = [file EXCEPT ![f] = s]  BY <2>5, <3>1, <4>1
   <4>3. s.count = file[f].count /\ s.ino = i /\ s.flag = file[f].flag /\ s.off = 0
     BY <1>3, <4>1 DEF FileRec
   <4> QED  BY <1>3, <3>1, <4>2, <4>3
  <3>2. CASE ~drained  BY <2>5, <3>2
  <3> QED  BY <3>1, <3>2
 <2>11. ASSUME View(p, i) PROVE View(p, i)'
  <3>1. CASE ~drained
   <4>1. SameData(i) /\ SameFiles(i)  BY <1>2, <2>9, <2>10, <3>1 DEF SameData, SameFiles
   <4> QED  BY <1>4, <2>8, <2>11, <4>1, ViewKeeps
  <3>2. CASE drained
   <4>1. Rest(inode[i], hist[i], inode[i].size)  BY <1>3, <1>4, <2>1, <2>11, <3>2 DEF View
   <4>2. Rest(inode'[i], hist'[i], 0)  BY <1>2, <1>3, <2>9, <3>2, <4>1, RestEmpty
   <4>3. Got(hist'[i])  BY <1>2, <2>11 DEF View
   <4>4. ASSUME NEW g \in Files, file'[g].count > 0, file'[g].ino = i
         PROVE  /\ "r" \in file'[g].flag => Rest(inode'[i], hist'[i], file'[g].off)
                /\ "pipe" \in file'[g].flag
    <5>1. file[g].count > 0 /\ file[g].ino = i  BY <2>10, <4>4
    <5>2. "r" \in file[g].flag => g = f  BY <1>3, <5>1, OneReader
    <5>3. IsPipe(g)  BY <1>3, <5>1 DEF IndInv, FileInv
    <5> QED  BY <2>10, <3>2, <4>2, <5>2, <5>3 DEF IsPipe
   <4> QED  BY <1>3, <2>8, <4>2, <4>3, <4>4 DEF View
  <3> QED  BY <3>1, <3>2
 <2> QED  BY <1>1, <1>2, <1>3, <1>4, <2>6, <2>7, <2>8, <2>9, <2>10, <2>11, FlowAt
<1> QED  BY <1>6, <1>7

\* The lock is given back, and nothing else changes that the bytes depend on
LEMMA GivesBack ==
  ASSUME IndInv, IndInv', FlowInv, NEW p \in Procs, NEW i, i = u[p].ino, i \in Pipes,
         u[p].pc = "writep", NEW r, inode' = [inode EXCEPT ![i] = r],
         r.size = inode[i].size, r.data = inode[i].data, file' = file, hist' = hist,
         NEW W \in SUBSET Procs, \A q \in W : u[q].pc \in SleepPCs, After(p, W),
         u'[p].pc \in {"user", "wsleep"}
  PROVE  FlowInv'
<1>1. i \in Inos /\ inode \in [Inos -> InoRec]  BY Consts, Types DEF IndInv
<1>2. At(p, i) /\ ~In(p, i)  BY DEF At, In, HoldPCs, MovePCs
<1>3. u'[p].pc \notin HoldPCs /\ u'[p].pc \notin FilePCs /\ ~At(p, i)' /\ ~In(p, i)'
  BY DEF HoldPCs, MovePCs, FilePCs, At, In
<1>4. /\ inode'[i].size = inode[i].size /\ inode'[i].data = inode[i].data
      /\ \A j \in Inos \ {i} : inode'[j] = inode[j]
  BY <1>1
<1>5. SameData(i) /\ SameFiles(i)  BY <1>4 DEF SameData, SameFiles
<1>6. View(p, i) => View(p, i)'  BY <1>2, <1>3, <1>5, ViewKeeps
<1> QED  BY <1>1, <1>2, <1>3, <1>4, <1>6, FlowAt

LEMMA WritePFlow ==
  ASSUME IndInv, IndInv', FlowInv, NEW p \in Procs, WriteP(p)
  PROVE  FlowInv'
<1>1. PICK i : i = u[p].ino  OBVIOUS
<1>2. /\ u[p].pc = "writep" /\ u[p].pc \in CallPCs /\ u[p].pc \in HoldPCs /\ u[p].pc \notin MovePCs
      /\ file' = file /\ hist' = hist
  BY ThePcs DEF WriteP, HoldPCs, MovePCs
<1>3. /\ u \in [Procs -> URec] /\ u[p] \in URec /\ inode \in [Inos -> InoRec]
      /\ i \in Inos /\ i \in Pipes /\ inode[i] \in InoRec /\ u[p].mode = "w" /\ IsPipe(u[p].f)
  BY <1>1, <1>2, Types, CallFile, ThePcs DEF IndInv
<1>4. Waiters(i) \in SUBSET Procs /\ \A q \in Waiters(i) : u[q].pc \in SleepPCs  BY <1>3, Sleepers
<1>5. PICK r : r = Freed(inode[i])  OBVIOUS
<1>6. r \in InoRec /\ r.size = inode[i].size /\ r.data = inode[i].data
  BY <1>3, <1>5 DEF Freed, InoRec
<1>7. PICK room : room = PipSiz - inode[i].size  OBVIOUS
<1>8. CASE u[p].count = 0 \/ inode[i].count < 2
 <2>1. PICK err \in {u[p].err, "EPIPE"} :
          inode' = [inode EXCEPT ![i] = r] /\ Done(p, err, Woken(Waiters(i)))
   BY <1>1, <1>5, <1>8 DEF WriteP
 <2>2. err \in Errors  BY <1>3 DEF URec, Errors
 <2>3. After(p, Waiters(i)) /\ u'[p].pc = "user"  BY <1>4, <2>1, <2>2, DoneStep
 <2> QED  BY <1>1, <1>2, <1>3, <1>4, <1>6, <2>1, <2>3, GivesBack
<1>9. CASE ~(u[p].count = 0 \/ inode[i].count < 2) /\ room = 0
 <2>1. PICK s : s = [r EXCEPT !.wr = TRUE]  OBVIOUS
 <2>2. s.size = inode[i].size /\ s.data = inode[i].data  BY <1>6, <2>1 DEF InoRec
 <2>3. inode' = [inode EXCEPT ![i] = s] /\ Sleep(p, "wsleep", Woken(Waiters(i)))
  <3>1. /\ inode' = [[inode EXCEPT ![i] = Freed(@)] EXCEPT ![i].wr = TRUE]
        /\ Sleep(p, "wsleep", Woken(Waiters(i)))
    BY <1>1, <1>7, <1>9 DEF WriteP
  <3>2. [inode EXCEPT ![i] = Freed(@)] = [inode EXCEPT ![i] = r]  BY <1>5
  <3>3. [[inode EXCEPT ![i] = r] EXCEPT ![i].wr = TRUE] = [inode EXCEPT ![i] = s]  BY <1>3, <2>1
  <3> QED  BY <3>1, <3>2, <3>3
 <2>4. After(p, Waiters(i)) /\ u'[p].pc \in {"user", "wsleep"}  BY <1>4, <2>3, ThePcs, SleepStep
 <2> QED  BY <1>1, <1>2, <1>3, <1>4, <2>2, <2>3, <2>4, GivesBack
<1>10. CASE ~(u[p].count = 0 \/ inode[i].count < 2) /\ room # 0
 <2>1. PICK piece : piece = IF u[p].count <= room THEN u[p].count ELSE room  OBVIOUS
 <2>2. PICK v : v = [u[p] EXCEPT !.pc = "io", !.off = inode[i].size, !.left = piece,
                                 !.count = u[p].count - piece]
   OBVIOUS
 <2>3. u' = [u EXCEPT ![p] = v] /\ inode' = inode  BY <1>1, <1>7, <1>10, <2>1, <2>2 DEF WriteP
 <2>4. v.pc = "io" /\ v.f = u[p].f /\ v.ino = i /\ v.mode = "w" /\ v.off = inode[i].size
   BY <1>1, <1>3, <2>2 DEF URec
 <2>5. u'[p] = v /\ After(p, {})
  <3>1. \A q \in Procs \ {p} : u'[q] = u[q]  BY <1>3, <2>3
  <3> QED  BY <1>3, <2>3, <3>1 DEF After, SameCall
 <2>6. ASSUME View(p, i) PROVE View(p, i)'
  <3>1. MoverOK(inode'[i], hist'[i], u'[p], file'[u'[p].f])
    BY <1>2, <1>3, <2>3, <2>4, <2>5 DEF MoverOK, IsPipe
  <3>2. SameData(i) /\ SameFiles(i)  BY <1>2, <2>3 DEF SameData, SameFiles
  <3>3. ~In(p, i)  BY <1>2 DEF In
  <3> QED  BY <2>6, <3>1, <3>2, <3>3, ViewKeeps
 <2>7. u'[p].pc \notin FilePCs /\ u'[p].ino = i /\ At(p, i)
   BY <1>1, <1>2, <2>4, <2>5 DEF FilePCs, At
 <2>8. ~hist[i].broken => inode'[i].lock  BY <1>3, <2>3, <2>7 DEF FlowInv, Flow, Alone
 <2> QED  BY <1>1, <1>2, <1>3, <2>3, <2>5, <2>6, <2>7, <2>8, FlowAt
<1> QED  BY <1>8, <1>9, <1>10

LEMMA HasLock ==
  ASSUME FlowInv, NEW p \in Procs, NEW i \in Inos, At(p, i), ~hist[i].broken
  PROVE  inode[i].lock
  BY DEF FlowInv, Flow, Alone

\* Who moves is inside its inode, with the lock
LEMMA Mover ==
  ASSUME IndInv, NEW p \in Procs, u[p].pc \in MovePCs, NEW i, NEW f, i = u[p].ino, f = u[p].f
  PROVE  /\ i \in Inos /\ At(p, i) /\ In(p, i)
         /\ f \in Files /\ file[f].count > 0 /\ file[f].ino = i
         /\ u[p].mode \in {"r", "w"} /\ u[p].mode \in file[f].flag /\ (IsPipe(f) <=> i \in Pipes)
<1>1. u[p].pc \in CallPCs /\ u[p].pc \in HoldPCs  BY Transfer
<1> QED  BY <1>1, CallFile DEF At, In

\* A step of the transfer that moves nothing
LEMMA StillMoving ==
  ASSUME IndInv, IndInv', FlowInv, NEW p \in Procs, u[p].pc \in MovePCs, After(p, {}),
         u'[p].pc \in MovePCs, u'[p].f = u[p].f, u'[p].ino = u[p].ino, u'[p].mode = u[p].mode,
         u'[p].off = u[p].off, u'[p].left = u[p].left, u'[p].count = u[p].count,
         file' = file, inode' = inode, hist' = hist,
         u'[p].pc = "move" /\ u[p].mode = "r" => u[p].off < inode[u[p].ino].size
  PROVE  FlowInv'
<1>1. PICK i, f : i = u[p].ino /\ f = u[p].f  OBVIOUS
<1>2. i \in Inos /\ At(p, i) /\ In(p, i) /\ f \in Files  BY <1>1, Mover
<1>3. In(p, i)' /\ u'[p].pc \notin FilePCs  BY <1>1 DEF In, FilePCs, MovePCs
<1>4. ~hist[i].broken => inode'[i].lock  BY <1>2, HasLock
<1>5. ASSUME View(p, i) PROVE View(p, i)'
 <2>1. MoverOK(inode[i], hist[i], u[p], file[f])  BY <1>1, <1>2, <1>5 DEF View
 <2>2. MoverOK(inode'[i], hist'[i], u'[p], file'[u'[p].f])  BY <1>1, <2>1 DEF MoverOK
 <2>3. SameData(i) /\ SameFiles(i)  BY DEF SameData, SameFiles
 <2> QED  BY <1>2, <1>3, <1>5, <2>2, <2>3, ViewKeeps
<1> QED  BY <1>1, <1>2, <1>3, <1>4, <1>5, FlowAt

LEMMA IoStartFlow ==
  ASSUME IndInv, IndInv', FlowInv, NEW p \in Procs, IoStart(p)
  PROVE  FlowInv'
<1>1. /\ u[p].pc = "io" /\ u[p].pc \in MovePCs /\ UNCHANGED <<file, inode, hist>>
      /\ u[p].mode = "r" => ~AtEnd(p)
  BY ThePcs DEF IoStart
<1>2. u'[p].pc = "move" /\ SameCall(u'[p], u[p]) /\ After(p, {}) /\ u'[p].pc \in MovePCs
 <2>1. u \in [Procs -> URec]  BY Types DEF IndInv
 <2>2. u' = [u EXCEPT ![p] = [u[p] EXCEPT !.pc = "move"]] /\ "move" \in PCs  BY DEF IoStart, PCs
 <2> QED  BY <2>1, <2>2, WokenNone, GoesStep, ThePcs
<1>3. u[p].mode = "r" => u[p].off < inode[u[p].ino].size
 <2>1. inode[u[p].ino].size \in 0 .. Blocks /\ u[p].off \in Nat  BY <1>1, Transfer
 <2>2. AtEnd(p) <=> (u[p].off >= inode[u[p].ino].size \/ Block(p) = 0)  BY DEF AtEnd
 <2> QED  BY <1>1, <2>1, <2>2, Consts
<1> QED  BY <1>1, <1>2, <1>3, StillMoving DEF SameCall

LEMMA IoFullFlow ==
  ASSUME IndInv, IndInv', FlowInv, NEW p \in Procs, IoFull(p)
  PROVE  FlowInv'
<1>1. /\ u[p].pc = "io" /\ u[p].pc \in MovePCs /\ UNCHANGED <<file, inode, hist>>
      /\ u' = [u EXCEPT ![p].err = "ENOSPC"]
  BY ThePcs DEF IoFull
<1>2. u \in [Procs -> URec] /\ u[p] \in URec  BY Types DEF IndInv
<1>3. PICK r : r = [u[p] EXCEPT !.err = "ENOSPC"]  OBVIOUS
<1>4. /\ r \in URec /\ r.pc = "io" /\ r.f = u[p].f /\ r.ino = u[p].ino /\ r.mode = u[p].mode
      /\ r.left = u[p].left /\ r.count = u[p].count /\ r.off = u[p].off
  BY <1>1, <1>2, <1>3 DEF URec, Errors
<1>5. u'[p] = r /\ After(p, {})
 <2>1. u' = [u EXCEPT ![p] = r]  BY <1>1, <1>3
 <2> QED  BY <1>2, <1>4, <2>1, PlainStep
<1> QED  BY <1>1, <1>4, <1>5, StillMoving

\* A unit is moved
LEMMA IoMoveFlow ==
  ASSUME IndInv, IndInv', FlowInv, NEW p \in Procs, IoMove(p)
  PROVE  FlowInv'
<1>1. PICK i, f, k : i = u[p].ino /\ f = u[p].f /\ k = u[p].off  OBVIOUS
<1>2. /\ u[p].pc = "move" /\ u[p].pc \in MovePCs /\ file' = file
      /\ u' = [u EXCEPT ![p] = [u[p] EXCEPT !.pc = "io", !.off = k + 1, !.left = u[p].left - 1]]
  BY <1>1, ThePcs DEF IoMove
<1>3. u \in [Procs -> URec] /\ inode \in [Inos -> InoRec] /\ hist \in [Inos -> HistRec]
      /\ file \in [Files -> FileRec] /\ hist' \in [Inos -> HistRec] /\ inode' \in [Inos -> InoRec]
 <2>1. TypeOK'  BY DEF IndInv
 <2>2. hist' \in [Inos -> HistRec] /\ inode' \in [Inos -> InoRec]
   BY <2>1 DEF TypeOK, HistRec, InoRec
 <2> QED  BY <2>2, Types DEF IndInv
<1>4. /\ i \in Inos /\ At(p, i) /\ In(p, i) /\ f \in Files /\ file[f].count > 0 /\ file[f].ino = i
      /\ u[p].mode \in {"r", "w"} /\ u[p].mode \in file[f].flag
  BY <1>1, <1>2, Mover
<1>5. /\ inode[i] \in InoRec /\ hist[i] \in HistRec /\ u[p] \in URec /\ file[f].off \in Nat
      /\ k \in Nat /\ k < Blocks /\ u[p].left \in Nat /\ u[p].left > 0 /\ u[p].count \in Nat
      /\ inode[i].size \in Nat
 <2>1. file[f] \in FileRec /\ inode[i].size \in 0 .. Blocks  BY <1>1, <1>2, <1>3, <1>4, Transfer
 <2>2. file[f].off \in Nat  BY <2>1 DEF FileRec
 <2> QED  BY <1>1, <1>2, <2>1, <2>2, Transfer
<1>6. PICK r : r = [u[p] EXCEPT !.pc = "io", !.off = k + 1, !.left = u[p].left - 1]  OBVIOUS
<1>7. /\ r \in URec /\ r.pc = "io" /\ r.f = f /\ r.ino = i /\ r.mode = u[p].mode
      /\ r.left = u[p].left - 1 /\ r.count = u[p].count /\ r.off = k + 1
 <2>1. k + 1 \in Nat /\ u[p].left - 1 \in Nat /\ "io" \in PCs  BY <1>5 DEF PCs
 <2> QED  BY <1>1, <1>5, <1>6, <2>1 DEF URec
<1>8. u'[p] = r /\ After(p, {}) /\ In(p, i)' /\ u'[p].pc \notin FilePCs /\ u'[p].ino = i
 <2>1. u'[p] = r /\ After(p, {})  BY <1>2, <1>3, <1>6, <1>7, PlainStep
 <2> QED  BY <1>7, <2>1 DEF In, MovePCs, FilePCs
<1>9. "pipe" \notin file[f].flag /\ k = file[f].off + u[p].count - u[p].left
        => k + 1 = file[f].off + r.count - r.left
  BY <1>5, <1>7
<1>10. ~hist[i].broken => inode[i].lock  BY <1>4, HasLock
<1>11. CASE u[p].mode = "r"
 <2>1. /\ hist' = [hist EXCEPT ![i].got = Append(@, inode[i].data[k])]
       /\ inode' = inode
   BY <1>1, <1>11 DEF IoMove
 <2>2. /\ hist'[i] \in HistRec /\ hist'[i].got = Append(hist[i].got, inode[i].data[k])
       /\ hist'[i].sent = hist[i].sent /\ hist'[i].sought = hist[i].sought
       /\ hist'[i].broken = hist[i].broken
       /\ \A j \in Inos \ {i} : hist'[j] = hist[j]
  <3>1. PICK h : h = [hist[i] EXCEPT !.got = Append(hist[i].got, inode[i].data[k])]  OBVIOUS
  <3>2. /\ h.got = Append(hist[i].got, inode[i].data[k])
        /\ h.sent = hist[i].sent /\ h.sought = hist[i].sought /\ h.broken = hist[i].broken
    BY <1>5, <3>1 DEF HistRec
  <3>3. hist' = [hist EXCEPT ![i] = h]  BY <2>1, <3>1
  <3> QED  BY <1>3, <1>4, <3>2, <3>3
 <2>3. i # Output  BY <1>4, <1>11 DEF FlowInv, GivenOK
 <2>4. ASSUME View(p, i) PROVE View(p, i)'
  <3>1. MoverOK(inode[i], hist[i], u[p], file[f])  BY <1>1, <1>4, <2>4 DEF View
  <3>2. Rest(inode[i], hist[i], k) /\ k < inode[i].size /\ Got(hist[i])
    BY <1>1, <1>2, <1>11, <2>4, <3>1 DEF MoverOK, View
  <3>3. Rest(inode[i], hist'[i], k + 1) /\ Got(hist'[i])  BY <1>5, <2>2, <3>2, RestShrinks
  <3>4. MoverOK(inode'[i], hist'[i], u'[p], file'[u'[p].f])
   <4>1. "pipe" \notin file[f].flag => k = file[f].off + u[p].count - u[p].left
     BY <1>1, <3>1 DEF MoverOK
   <4> QED  BY <1>2, <1>7, <1>8, <1>9, <1>11, <2>1, <3>3, <4>1 DEF MoverOK
  <3> QED  BY <1>7, <1>8, <1>11, <2>3, <3>3, <3>4 DEF View
 <2> QED  BY <1>1, <1>2, <1>4, <1>8, <1>10, <2>1, <2>2, <2>4, FlowAt
<1>12. CASE u[p].mode = "w"
 <2>1. PICK size : size = IF inode[i].size < k + 1 THEN k + 1 ELSE inode[i].size  OBVIOUS
 <2>2. PICK s : s = [inode[i] EXCEPT !.data[k] = hist[i].sent + 1, !.size = size]  OBVIOUS
 <2>3. /\ inode' = [inode EXCEPT ![i] = s]
       /\ hist' = [hist EXCEPT ![i].sent = @ + 1]
   BY <1>1, <1>3, <1>4, <1>12, <2>1, <2>2 DEF IoMove
 <2>4. /\ s.lock = inode[i].lock /\ s.size = size /\ s.data[k] = hist[i].sent + 1
       /\ \A l \in 0 .. Blocks - 1 : l # k => s.data[l] = inode[i].data[l]
  <3>1. PICK d : d = [inode[i].data EXCEPT ![k] = hist[i].sent + 1]  OBVIOUS
  <3>2. d[k] = hist[i].sent + 1 /\ \A l \in 0 .. Blocks - 1 : l # k => d[l] = inode[i].data[l]
   <4>1. k \in 0 .. Blocks - 1  BY <1>5, Consts
   <4> QED  BY <1>5, <3>1, <4>1 DEF InoRec
  <3>3. s = [inode[i] EXCEPT !.data = d, !.size = size]  BY <2>2, <3>1
  <3>4. s.lock = inode[i].lock /\ s.size = size /\ s.data = d  BY <1>5, <3>3 DEF InoRec
  <3> QED  BY <3>2, <3>4
 <2>5. inode'[i] = s /\ s \in InoRec /\ \A j \in Inos \ {i} : inode'[j] = inode[j]
   BY <1>3, <1>4, <2>3
 <2>6. /\ hist'[i] \in HistRec /\ hist'[i].got = hist[i].got
       /\ hist'[i].sent = hist[i].sent + 1 /\ hist'[i].sought = hist[i].sought
       /\ hist'[i].broken = hist[i].broken
       /\ \A j \in Inos \ {i} : hist'[j] = hist[j]
  <3>1. PICK h : h = [hist[i] EXCEPT !.sent = hist[i].sent + 1]  OBVIOUS
  <3>2. /\ h.got = hist[i].got /\ h.sent = hist[i].sent + 1
        /\ h.sought = hist[i].sought /\ h.broken = hist[i].broken
    BY <1>5, <3>1 DEF HistRec
  <3>3. hist' = [hist EXCEPT ![i] = h]  BY <2>3, <3>1
  <3> QED  BY <1>3, <1>4, <3>2, <3>3
 <2>7. ASSUME View(p, i) PROVE View(p, i)'
  <3>1. MoverOK(inode[i], hist[i], u[p], file[f])  BY <1>1, <1>4, <2>7 DEF View
  <3>2. k = inode[i].size  BY <1>1, <1>12, <3>1 DEF MoverOK
  <3>3. s.size = inode[i].size + 1 /\ s.data[inode[i].size] = hist[i].sent + 1
    BY <1>5, <2>1, <2>4, <3>2
  <3>4. \A l \in 0 .. inode[i].size - 1 : s.data[l] = inode[i].data[l]  BY <1>5, <2>4, <3>2, Consts
  <3>5. ASSUME NEW c \in Nat, Rest(inode[i], hist[i], c) PROVE Rest(inode'[i], hist'[i], c)
    BY <1>5, <2>5, <2>6, <3>3, <3>4, <3>5, RestGrows
  <3>6. Got(hist'[i]) /\ (i = Output => Rest(inode'[i], hist'[i], 0))
    BY <2>6, <2>7, <3>5 DEF View, Got
  <3>7. MoverOK(inode'[i], hist'[i], u'[p], file'[u'[p].f])
   <4>1. "pipe" \notin file[f].flag => k = file[f].off + u[p].count - u[p].left
     BY <1>1, <3>1 DEF MoverOK
   <4> QED  BY <1>2, <1>7, <1>8, <1>9, <1>12, <2>5, <3>2, <3>3, <4>1 DEF MoverOK
  <3>8. ASSUME NEW g \in Files, file'[g].count > 0, file'[g].ino = i, "r" \in file'[g].flag
        PROVE  Rest(inode'[i], hist'[i], file'[g].off)
   <4>1. Rest(inode[i], hist[i], file[g].off)  BY <1>2, <1>12, <2>7, <3>8 DEF View
   <4>2. file[g].off \in Nat  BY <1>3 DEF FileRec
   <4> QED  BY <1>2, <3>5, <4>1, <4>2
  <3> QED  BY <1>8, <3>6, <3>7, <3>8 DEF View
 <2>8. ~hist[i].broken => inode'[i].lock  BY <1>10, <2>4, <2>5
 <2> QED  BY <1>1, <1>2, <1>4, <1>8, <2>5, <2>6, <2>7, <2>8, FlowAt
<1> QED  BY <1>4, <1>11, <1>12

\* The transfer ends: the File takes the offset, but for a write to a pipe
LEMMA IoEndFlow ==
  ASSUME IndInv, IndInv', FlowInv, NEW p \in Procs, IoEnd(p)
  PROVE  FlowInv'
<1>1. PICK i, f : i = u[p].ino /\ f = u[p].f  OBVIOUS
<1>2. u[p].pc = "io" /\ u[p].pc \in MovePCs /\ hist' = hist  BY ThePcs DEF IoEnd
<1>3. u \in [Procs -> URec] /\ inode \in [Inos -> InoRec] /\ file \in [Files -> FileRec]
  BY Types DEF IndInv
<1>4. /\ i \in Inos /\ At(p, i) /\ In(p, i) /\ f \in Files /\ file[f].count > 0 /\ file[f].ino = i
      /\ u[p].mode \in {"r", "w"} /\ u[p].mode \in file[f].flag /\ (IsPipe(f) <=> i \in Pipes)
  BY <1>1, <1>2, Mover
<1>5. inode[i] \in InoRec /\ file[f] \in FileRec /\ u[p] \in URec  BY <1>3, <1>4
<1>6. PICK h \in BOOLEAN : h <=> Heard(p)
 <2>1. CASE Heard(p)  BY <2>1
 <2>2. CASE ~Heard(p)  BY <2>2
 <2> QED  BY <2>1, <2>2
<1>7. PICK W : W = Waiters(i) \cup (IF h THEN Reading(i) ELSE {})  OBVIOUS
<1>8. W \in SUBSET Procs /\ \A q \in W : u[q].pc \in SleepPCs  BY <1>4, <1>7, Sleepers
<1>9. PICK s : s = Freed(inode[i])  OBVIOUS
<1>10. PICK r : r = IF h THEN [s EXCEPT !.rd = FALSE] ELSE s  OBVIOUS
<1>11. r.size = inode[i].size /\ r.data = inode[i].data
 <2>1. s \in InoRec /\ s.size = inode[i].size /\ s.data = inode[i].data
   BY <1>5, <1>9 DEF Freed, InoRec
 <2> QED  BY <1>10, <2>1 DEF InoRec
<1>12. inode' = [inode EXCEPT ![i] = r]  BY <1>1, <1>6, <1>9, <1>10 DEF IoEnd
<1>13. /\ inode'[i].size = inode[i].size /\ inode'[i].data = inode[i].data
       /\ \A j \in Inos \ {i} : inode'[j] = inode[j]
  BY <1>3, <1>4, <1>11, <1>12
<1>14. CASE u[p].mode = "w" /\ IsPipe(f)
 <2>1. u' = [Woken(W) EXCEPT ![p] = [u[p] EXCEPT !.pc = "wlock"]] /\ file' = file
   BY <1>1, <1>6, <1>7, <1>14 DEF IoEnd
 <2>2. After(p, W) /\ u'[p].pc = "wlock"
  <3>1. "wlock" \in PCs  BY DEF PCs
  <3> QED  BY <1>8, <2>1, <3>1, GoesStep
 <2>3. u'[p].pc \notin HoldPCs /\ u'[p].pc \notin FilePCs /\ ~At(p, i)' /\ ~In(p, i)'
   BY <2>2 DEF HoldPCs, MovePCs, FilePCs, At, In
 <2>4. SameData(i) /\ SameFiles(i)  BY <1>2, <1>13, <2>1 DEF SameData, SameFiles
 <2>5. \A g \in Files : file[g].count > 0 /\ file[g].ino = i => "pipe" \in file[g].flag
   BY <1>4, <1>14 DEF IndInv, FileInv, IsPipe
 <2>6. View(p, i) => View(p, i)'  BY <1>14, <2>3, <2>4, <2>5, ViewKeeps
 <2> QED  BY <1>1, <1>2, <1>4, <1>8, <1>13, <2>1, <2>2, <2>3, <2>6, FlowAt
<1>15. CASE ~(u[p].mode = "w" /\ IsPipe(f))
 <2>1. PICK to : to = IF IsPipe(f) THEN u[p].off ELSE file[f].off + u[p].count - u[p].left  OBVIOUS
 <2>2. file' = [file EXCEPT ![f].off = to] /\ Done(p, u[p].err, Woken(W))
   BY <1>1, <1>6, <1>7, <1>15, <2>1 DEF IoEnd
 <2>3. After(p, W) /\ u'[p].pc = "user"
  <3>1. u[p].err \in Errors  BY <1>5 DEF URec
  <3> QED  BY <1>8, <2>2, <3>1, DoneStep
 <2>4. u'[p].pc \notin HoldPCs /\ u'[p].pc \notin FilePCs /\ ~At(p, i)' /\ ~In(p, i)'
   BY <2>3 DEF HoldPCs, MovePCs, FilePCs, At, In
 <2>5. \A g \in Files :
         /\ file'[g].count = file[g].count /\ file'[g].ino = file[g].ino
         /\ file'[g].flag = file[g].flag
         /\ file'[g].off = IF g = f THEN to ELSE file[g].off
  <3>1. PICK g : g = [file[f] EXCEPT !.off = to]  OBVIOUS
  <3>2. g.count = file[f].count /\ g.ino = i /\ g.flag = file[f].flag /\ g.off = to
    BY <1>4, <1>5, <3>1 DEF FileRec
  <3>3. file' = [file EXCEPT ![f] = g]  BY <2>2, <3>1
  <3> QED  BY <1>3, <1>4, <3>2, <3>3
 <2>6. ASSUME View(p, i) PROVE View(p, i)'
  <3>1. MoverOK(inode[i], hist[i], u[p], file[f])  BY <1>1, <1>4, <2>6 DEF View
  <3>2. to = u[p].off  BY <2>1, <3>1 DEF MoverOK, IsPipe
  <3>3. \A c : Rest(inode'[i], hist'[i], c) <=> Rest(inode[i], hist[i], c)  BY <1>2, <1>13, RestSame
  <3>4. Got(hist'[i]) /\ (i = Output => Rest(inode'[i], hist'[i], 0))  BY <1>2, <2>6, <3>3 DEF View
  <3>5. ASSUME NEW g \in Files, file'[g].count > 0, file'[g].ino = i, "r" \in file'[g].flag
        PROVE  Rest(inode'[i], hist'[i], file'[g].off)
   <4>1. file[g].count > 0 /\ file[g].ino = i /\ "r" \in file[g].flag  BY <2>5, <3>5
   <4>2. CASE u[p].mode = "r"
    <5>1. g = f  BY <1>4, <4>1, <4>2, OneReader
    <5> QED  BY <2>5, <3>1, <3>2, <3>3, <4>2, <5>1 DEF MoverOK
   <4>3. CASE u[p].mode = "w"
    <5>1. ~IsPipe(f) /\ "w" \in file[f].flag  BY <1>4, <1>15, <4>3
    <5>2. g = f /\ file[f].flag \in {{"r"}, {"w"}}  BY <1>4, <4>1, <5>1, OneGiven
    <5> QED  BY <4>1, <5>1, <5>2
   <4> QED  BY <1>4, <4>2, <4>3
  <3>6. ASSUME NEW g \in Files, file'[g].count > 0, file'[g].ino = i, "w" \in file'[g].flag,
               "pipe" \notin file'[g].flag
        PROVE  file'[g].off = inode'[i].size
   <4>1. file[g].count > 0 /\ file[g].ino = i /\ "w" \in file[g].flag /\ ~IsPipe(g)
     BY <2>5, <3>6 DEF IsPipe
   <4>2. f = g /\ file[g].flag \in {{"r"}, {"w"}}  BY <1>4, <4>1, OneGiven
   <4>3. u[p].mode = "w"  BY <1>4, <4>1, <4>2
   <4> QED  BY <1>13, <2>5, <3>1, <3>2, <4>2, <4>3 DEF MoverOK
  <3> QED  BY <2>4, <3>4, <3>5, <3>6 DEF View
 <2> QED  BY <1>1, <1>2, <1>4, <1>8, <1>13, <2>3, <2>4, <2>5, <2>6, FlowAt
<1> QED  BY <1>14, <1>15

\* An inode that no File leads to any more, or not yet
LEMMA FlowUnused ==
  ASSUME NEW p \in Procs, Beside(p), NEW i \in Inos,
         \A q \in Procs \ {p} : ~(u[q].pc \in BusyPCs /\ u[q].ino = i),
         At(p, i)' => inode'[i].lock, ~In(p, i)',
         \A g \in Files : ~(file'[g].count > 0 /\ file'[g].ino = i),
         ~hist'[i].sought => Got(hist'[i]) /\ (i = Output => Rest(inode'[i], hist'[i], 0))
  PROVE  Flow(i)'
<1>1. \A q \in Procs \ {p} : ~At(q, i) /\ ~In(q, i)  BY Classes DEF At, In
<1>2. ~hist'[i].sought => View(p, i)'  BY DEF View
<1> QED  BY <1>1, <1>2, FlowHere

LEMMA IPutFlow ==
  ASSUME IndInv, IndInv', FlowInv, NEW p \in Procs, IPut(p)
  PROVE  FlowInv'
<1>1. PICK i, f : i = u[p].ino /\ f = u[p].f  OBVIOUS
<1>2. /\ u[p].pc = "iput"
      /\ inode' = [inode EXCEPT ![i] = IF i \in Pipes THEN Empty
                                       ELSE [Freed(inode[i]) EXCEPT !.count = @ - 1]]
      /\ file' = IF f = 0 THEN file ELSE [file EXCEPT ![f] = NoFile]
      /\ u' = [Woken(Waiters(i)) EXCEPT ![p] = IF u[p].dying THEN Dying ELSE Back(u[p].err)]
      /\ hist' = hist
  BY <1>1 DEF IPut
<1>3. /\ u \in [Procs -> URec] /\ file \in [Files -> FileRec] /\ inode \in [Inos -> InoRec]
  BY Types DEF IndInv
<1>4. /\ i \in Inos
      /\ f # 0 => f \in Files /\ file[f].count = 1 /\ file[f].ino = i /\ FilesOf(i) = {f}
      /\ f = 0 => FilesOf(i) = {}
  BY <1>1, <1>2, PutAlone
<1>5. \A q \in Procs \ {p} : ~(u[q].pc \in BusyPCs /\ u[q].ino = i)  BY <1>1, <1>2, OnlyPutter
<1>6. PICK s : s = IF i \in Pipes THEN Empty ELSE [Freed(inode[i]) EXCEPT !.count = @ - 1]  OBVIOUS
<1>7. inode'[i] = s /\ \A j \in Inos \ {i} : inode'[j] = inode[j]
 <2>1. inode' = [inode EXCEPT ![i] = s]  BY <1>2, <1>6
 <2> QED  BY <1>3, <1>4, <2>1
<1>8. i = Output => s.size = inode[i].size /\ s.data = inode[i].data
 <2>1. PICK v : v = Freed(inode[i])  OBVIOUS
 <2>2. v \in InoRec /\ v.size = inode[i].size /\ v.data = inode[i].data
   BY <1>3, <1>4, <2>1 DEF Freed, InoRec
 <2>3. PICK n : n = v.count - 1  OBVIOUS
 <2>4. i \notin Pipes => s = [v EXCEPT !.count = n]  BY <1>6, <2>1, <2>3
 <2> QED  BY <2>2, <2>4, Consts DEF InoRec
<1>9. /\ f # 0 => file'[f].count = 0
      /\ \A g \in Files : g # f => file'[g] = file[g]
 <2>1. NoFile.count = 0  BY DEF NoFile
 <2>2. CASE f = 0  BY <1>2, <2>2
 <2>3. CASE f # 0
  <3>1. file' = [file EXCEPT ![f] = NoFile]  BY <1>2, <2>3
  <3> QED  BY <1>3, <1>4, <2>1, <2>3, <3>1
 <2> QED  BY <2>2, <2>3
<1>10. \A g \in Files : file'[g].count > 0 => g # f /\ file'[g] = file[g]  BY <1>9, Consts
<1>11. u'[p].pc \in {"user", "exit"} /\ Beside(p)
 <2>1. PICK r : r = IF u[p].dying THEN Dying ELSE Back(u[p].err)  OBVIOUS
 <2>2. r \in URec /\ r.pc \in {"user", "exit"}
  <3>1. u[p].err \in Errors  BY <1>3 DEF URec
  <3> QED  BY <2>1, <3>1, DyingType, BackType
 <2>3. Waiters(i) \in SUBSET Procs /\ \A q \in Waiters(i) : u[q].pc \in SleepPCs  BY <1>4, Sleepers
 <2>4. u'[p] = r /\ After(p, Waiters(i))  BY <1>2, <1>3, <2>1, <2>2, <2>3, WokenStep
 <2> QED  BY <2>2, <2>3, <2>4, BesideAfter
<1>12. u'[p].pc \notin HoldPCs /\ u'[p].pc \notin FilePCs /\ ~At(p, i)' /\ ~In(p, i)'
  BY <1>11, NoLocks, Classes DEF At, In
<1>13. \A g \in Files : ~(file'[g].count > 0 /\ file'[g].ino = i)
 <2>1. ASSUME NEW g \in Files, file'[g].count > 0, file'[g].ino = i PROVE FALSE
  <3>1. g # f /\ g \in FilesOf(i)  BY <1>10, <2>1 DEF FilesOf
  <3> QED  BY <1>4, <3>1
 <2> QED  BY <2>1
<1>14. ~hist[i].broken => Flow(i)'
 <2> SUFFICES ASSUME ~hist[i].broken PROVE Flow(i)'  OBVIOUS
 <2>1. ~hist[i].sought => Whole(i)  BY <1>4 DEF FlowInv, Flow
 <2>2. ~hist'[i].sought => Got(hist'[i])  BY <1>2, <2>1 DEF Whole
 <2>3. ASSUME ~hist'[i].sought, i = Output PROVE Rest(inode'[i], hist'[i], 0)
  <3>1. Rest(inode[i], hist[i], 0)  BY <1>2, <2>1, <2>3 DEF Whole
  <3> QED  BY <1>2, <1>7, <1>8, <2>3, <3>1, RestSame
 <2> QED  BY <1>4, <1>5, <1>11, <1>12, <1>13, <2>2, <2>3, FlowUnused
<1>15. Flow(i)'
 <2>1. hist[i].broken => Flow(i)'  BY <1>2 DEF Flow
 <2> QED  BY <1>14, <2>1
<1>16. \A j \in Inos \ {i} : Undisturbed(j)
 <2>1. ASSUME NEW j \in Inos \ {i} PROVE Undisturbed(j)
  <3>1. \A g \in Files : file'[g].count > 0 /\ file'[g].ino = j =>
          /\ file[g].count > 0 /\ file[g].ino = j
          /\ file'[g].flag = file[g].flag /\ file'[g].off = file[g].off
    BY <1>10
  <3> QED  BY <1>2, <1>7, <3>1 DEF Undisturbed, SameData, SameFiles
 <2> QED  BY <2>1
<1>17. NoNew  BY <1>10 DEF NoNew
<1> QED  BY <1>1, <1>4, <1>11, <1>12, <1>15, <1>16, <1>17, FlowInside

LEMMA RestStart ==
  ASSUME NEW s, NEW h, s.size = 0, h.got = <<>>, h.sent = 0
  PROVE  Got(h) /\ Rest(s, h, 0)
<1>1. PICK n : n = Len(h.got)  OBVIOUS
<1>2. n = 0  BY <1>1
<1>3. 0 <= s.size /\ h.sent = n + s.size - 0 /\ 0 .. s.size - 1 = {} /\ 1 .. n = {}  BY <1>2
<1> QED  BY <1>1, <1>3 DEF Got, Rest

LEMMA PipeMadeFlow ==
  ASSUME IndInv, IndInv', FlowInv, NEW p \in Procs, NEW i \in Pipes, NEW r \in Files, NEW w \in Files,
         u[p].pc = "user", inode[i].count = 0, file[r].count = 0, file[w].count = 0, r # w,
         file' = [file EXCEPT ![r] = [count |-> 1, flag |-> {"r", "pipe"}, ino |-> i, off |-> 0],
                              ![w] = [count |-> 1, flag |-> {"w", "pipe"}, ino |-> i, off |-> 0]],
         inode' = [inode EXCEPT ![i] = [Empty EXCEPT !.count = 2]],
         hist' = [hist EXCEPT ![i] = Clean], Done(p, "none", u)
  PROVE  FlowInv'
<1>1. /\ u \in [Procs -> URec] /\ file \in [Files -> FileRec]
      /\ inode \in [Inos -> InoRec] /\ hist \in [Inos -> HistRec] /\ i \in Inos
  BY Types, Consts DEF IndInv
<1>2. Beside(p) /\ u'[p].pc = "user"
 <2>1. After(p, {}) /\ u'[p].pc = "user"  BY <1>1, WokenNone, DoneStep DEF Errors
 <2> QED  BY <2>1, BesideAfter
<1>3. /\ file'[r].ino = i /\ file'[r].flag = {"r", "pipe"} /\ file'[r].off = 0
      /\ file'[w].ino = i /\ file'[w].flag = {"w", "pipe"}
      /\ \A g \in Files \ {r, w} : file'[g] = file[g]
 <2>1. PICK x : x = [count |-> 1, flag |-> {"r", "pipe"}, ino |-> i, off |-> 0]  OBVIOUS
 <2>2. PICK y : y = [count |-> 1, flag |-> {"w", "pipe"}, ino |-> i, off |-> 0]  OBVIOUS
 <2>3. x.ino = i /\ x.flag = {"r", "pipe"} /\ x.off = 0 /\ y.ino = i /\ y.flag = {"w", "pipe"}
   BY <2>1, <2>2
 <2>4. PICK h : h = [file EXCEPT ![r] = x]  OBVIOUS
 <2>5. h \in [Files -> FileRec \cup {x}] /\ h[r] = x /\ \A g \in Files \ {r} : h[g] = file[g]
   BY <1>1, <2>4
 <2>6. file' = [h EXCEPT ![w] = y]  BY <2>1, <2>2, <2>4
 <2>7. file'[w] = y /\ \A g \in Files \ {w} : file'[g] = h[g]  BY <2>5, <2>6
 <2>8. r \in Files \ {w} /\ \A g \in Files \ {r, w} : g \in Files \ {w} /\ g \in Files \ {r}
   OBVIOUS
 <2>9. file'[r] = x /\ \A g \in Files \ {r, w} : file'[g] = file[g]  BY <2>5, <2>7, <2>8
 <2> QED  BY <2>3, <2>7, <2>9
<1>4. inode'[i].size = 0 /\ \A j \in Inos \ {i} : inode'[j] = inode[j]  BY <1>1, EmptyType
<1>5. hist'[i] = Clean /\ \A j \in Inos \ {i} : hist'[j] = hist[j]  BY <1>1
<1>6. \A q \in Procs : ~(u[q].pc \in BusyPCs /\ u[q].ino = i)  BY <1>1, NobodyAt
<1>7. \A g \in Files : file[g].count > 0 => file[g].ino # i /\ g \notin {r, w}  BY <1>1, Unused
<1>8. u'[p].pc \notin HoldPCs /\ u'[p].pc \notin FilePCs /\ u[p].pc \notin HoldPCs  BY <1>2, NoLocks
<1>9. NoNew
 <2>1. ASSUME NEW g \in Files, file'[g].count > 0
       PROVE  \/ file[g].count > 0 /\ file'[g].ino = file[g].ino /\ file'[g].flag = file[g].flag
              \/ file'[g].ino \in Pipes
  <3>1. CASE g \in {r, w}  BY <1>3, <3>1
  <3>2. CASE g \notin {r, w}  BY <1>3, <2>1, <3>2
  <3> QED  BY <3>1, <3>2
 <2> QED  BY <2>1 DEF NoNew
<1>10. Flow(i)'
 <2>1. \A q \in Procs : ~At(q, i) /\ ~In(q, i)  BY <1>6, Classes DEF At, In
 <2>2. ~At(p, i)' /\ ~In(p, i)'  BY <1>8, Classes DEF At, In
 <2>3. hist'[i].got = <<>> /\ hist'[i].sent = 0  BY <1>5 DEF Clean
 <2>4. Got(hist'[i]) /\ Rest(inode'[i], hist'[i], 0)  BY <1>4, <2>3, RestStart
 <2>5. ASSUME NEW g \in Files, file'[g].count > 0, file'[g].ino = i
       PROVE  "pipe" \in file'[g].flag /\ ("r" \in file'[g].flag => file'[g].off = 0)
  <3>1. g \in {r, w}  BY <1>3, <1>7, <2>5
  <3>2. CASE g = r  BY <1>3, <3>2
  <3>3. CASE g = w
   <4>1. "r" \notin {"w", "pipe"}  OBVIOUS
   <4> QED  BY <1>3, <3>3, <4>1
  <3> QED  BY <3>1, <3>2, <3>3
 <2>6. View(p, i)'  BY <2>2, <2>4, <2>5 DEF View
 <2> QED  BY <1>1, <1>2, <2>1, <2>2, <2>6, FlowHere
<1>11. \A j \in Inos \ {i} : Undisturbed(j)
 <2>1. ASSUME NEW j \in Inos \ {i} PROVE Undisturbed(j)
  <3>1. \A g \in Files : file'[g].ino = j => file'[g] = file[g]  BY <1>3
  <3> QED  BY <1>4, <1>5, <3>1 DEF Undisturbed, SameData, SameFiles
 <2> QED  BY <2>1
<1> QED  BY <1>1, <1>2, <1>8, <1>9, <1>10, <1>11, FlowInside

LEMMA PipeFailedFlow ==
  ASSUME IndInv, IndInv', FlowInv, NEW p \in Procs, NEW i \in Pipes, NEW err \in Errors,
         u[p].pc = "user", inode[i].count = 0,
         inode' = [inode EXCEPT ![i] = [Empty EXCEPT !.count = 1, !.lock = TRUE]],
         u' = [u EXCEPT ![p] = [@ EXCEPT !.pc = "iput", !.f = 0, !.ino = i, !.err = err]],
         UNCHANGED <<file, hist>>
  PROVE  FlowInv'
<1>1. u \in [Procs -> URec] /\ inode \in [Inos -> InoRec] /\ i \in Inos  BY Types, Consts DEF IndInv
<1>2. PICK s : s = [u[p] EXCEPT !.pc = "iput", !.f = 0, !.ino = i, !.err = err]  OBVIOUS
<1>3. s \in URec /\ s.pc = "iput" /\ s.ino = i
 <2>1. u[p] \in URec /\ "iput" \in PCs /\ 0 \in 0 .. NFile  BY <1>1, Consts DEF PCs
 <2> QED  BY <1>1, <1>2, <2>1 DEF URec
<1>4. u'[p] = s /\ Beside(p)
 <2>1. u' = [u EXCEPT ![p] = s]  BY <1>2
 <2>2. u'[p] = s /\ After(p, {})  BY <1>1, <1>3, <2>1, PlainStep
 <2> QED  BY <2>2, BesideAfter
<1>5. inode'[i].lock /\ \A j \in Inos \ {i} : inode'[j] = inode[j]  BY <1>1, EmptyType
<1>6. \A q \in Procs : ~(u[q].pc \in BusyPCs /\ u[q].ino = i)  BY <1>1, NobodyAt
<1>7. \A g \in Files : file[g].count > 0 => file[g].ino # i  BY <1>1, Unused
<1>8. u[p].pc \notin HoldPCs /\ u'[p].pc \notin FilePCs /\ u'[p].ino = i /\ ~In(p, i)'
  BY <1>3, <1>4, NoLocks DEF FilePCs, In, MovePCs
<1>9. ASSUME ~hist[i].broken PROVE Flow(i)'
 <2>1. ~hist'[i].sought => Got(hist'[i])  BY <1>1, <1>9 DEF FlowInv, Flow, Whole
 <2> QED  BY <1>1, <1>4, <1>5, <1>6, <1>7, <1>8, <2>1, Consts, FlowUnused
<1>10. Flow(i)'
 <2>1. hist[i].broken => Flow(i)'  BY DEF Flow
 <2> QED  BY <1>9, <2>1
<1>11. \A j \in Inos \ {i} : Undisturbed(j)  BY <1>5, Untouched
<1>12. NoNew  BY DEF NoNew
<1> QED  BY <1>1, <1>4, <1>8, <1>10, <1>11, <1>12, FlowInside

LEMMA PipeFlow ==
  ASSUME IndInv, IndInv', FlowInv, NEW p \in Procs, Sys_Pipe(p)
  PROVE  FlowInv'
<1>1. u[p].pc = "user" /\ u[p].pc \notin HoldPCs  BY NoLocks DEF Sys_Pipe, CanCall
<1>2. CASE UNCHANGED <<fds, file, inode, hist>> /\ Done(p, "ENFILE", u)
 <2>1. "ENFILE" \in Errors  BY DEF Errors
 <2> QED  BY <1>1, <1>2, <2>1, RefusedFlow
<1>3. CASE ~(UNCHANGED <<fds, file, inode, hist>> /\ Done(p, "ENFILE", u))
 <2>1. PICK d : d = Least(FreeFds(p))  OBVIOUS
 <2>2. PICK r, w : r = Least(FreeFiles) /\ w = Least(FreeFiles \ {r})  OBVIOUS
 <2>3. PICK err : err = IF FreeFds(p) = {} \/ (FreeFds(p) # {} /\ FreeFiles # {} /\ FreeFds(p) = {d})
                        THEN "EMFILE" ELSE "ENFILE"
   OBVIOUS
 <2>4. err \in Errors  BY <2>3 DEF Errors
 <2>5. PICK i \in Pipes :
         /\ inode[i].count = 0
         /\ IF FreeFds(p) # {} /\ FreeFiles # {} /\ FreeFds(p) # {d} /\ FreeFiles # {r}
            THEN /\ file' = [file EXCEPT
                       ![r] = [count |-> 1, flag |-> {"r", "pipe"}, ino |-> i, off |-> 0],
                       ![w] = [count |-> 1, flag |-> {"w", "pipe"}, ino |-> i, off |-> 0]]
                 /\ inode' = [inode EXCEPT ![i] = [Empty EXCEPT !.count = 2]]
                 /\ hist' = [hist EXCEPT ![i] = Clean]
                 /\ Done(p, "none", u)
            ELSE /\ inode' = [inode EXCEPT ![i] = [Empty EXCEPT !.count = 1, !.lock = TRUE]]
                 /\ u' = [u EXCEPT ![p] = [@ EXCEPT !.pc = "iput", !.f = 0, !.ino = i, !.err = err]]
                 /\ UNCHANGED <<file, hist>>
   BY <1>3, <2>1, <2>2, <2>3 DEF Sys_Pipe
 <2>6. CASE FreeFds(p) # {} /\ FreeFiles # {} /\ FreeFds(p) # {d} /\ FreeFiles # {r}
  <3>1. r \in FreeFiles  BY <2>2, <2>6, FreeTypes, LeastIn
  <3>2. w \in FreeFiles \ {r}
   <4>1. FreeFiles \ {r} # {} /\ FreeFiles \ {r} \subseteq Nat  BY <2>6, <3>1, FreeTypes
   <4> QED  BY <2>2, <4>1, LeastIn
  <3>3. r \in Files /\ w \in Files /\ r # w /\ file[r].count = 0 /\ file[w].count = 0
    BY <3>1, <3>2 DEF FreeFiles
  <3> QED  BY <1>1, <2>5, <2>6, <3>3, PipeMadeFlow
 <2>7. CASE ~(FreeFds(p) # {} /\ FreeFiles # {} /\ FreeFds(p) # {d} /\ FreeFiles # {r})
   BY <1>1, <2>4, <2>5, <2>7, PipeFailedFlow
 <2> QED  BY <2>6, <2>7
<1> QED  BY <1>2, <1>3

LEMMA FlowStart == Init => FlowInv
<1> SUFFICES ASSUME Init PROVE FlowInv  OBVIOUS
<1>1. /\ TypeOK
      /\ \A f \in Files : /\ file[f].count = IF f \in {1, 2} THEN 1 ELSE 0
                          /\ f = 1 => file[f].ino = Input /\ file[f].flag = {"r"}
                          /\ f = 2 => file[f].ino = Output /\ file[f].flag = {"w"}
      /\ \A p \in Procs : u[p].pc = (IF p = First THEN "user" ELSE "none") /\ ~u[p].dying
  BY InitTypes
<1>2. \A p \in Procs, i \in Inos : ~At(p, i) /\ ~In(p, i) /\ u[p].pc \notin FilePCs
  BY <1>1, NoLocks, Classes DEF At, In
<1>3. \A f \in {1, 2} : file[f].off = 0
 <2>1. PICK x, y : /\ x = [count |-> 1, flag |-> {"r"}, ino |-> Input, off |-> 0]
                   /\ y = [count |-> 1, flag |-> {"w"}, ino |-> Output, off |-> 0]
   OBVIOUS
 <2>2. file = [f \in Files |-> IF f = 1 THEN x ELSE IF f = 2 THEN y ELSE NoFile]  BY <2>1 DEF Init
 <2>3. 1 \in Files /\ 2 \in Files  BY Consts
 <2> QED  BY <2>1, <2>2, <2>3
<1>4. /\ inode[Input].size = Blocks /\ (\A k \in 0 .. Blocks - 1 : inode[Input].data[k] = k + 1)
      /\ inode[Output].size = 0
 <2>1. PICK d : d = [k \in 0 .. Blocks - 1 |-> k + 1]  OBVIOUS
 <2>2. PICK a, b : /\ a = [Empty EXCEPT !.count = 1, !.size = Blocks, !.data = d]
                   /\ b = [Empty EXCEPT !.count = 1]
   OBVIOUS
 <2>3. a.size = Blocks /\ a.data = d /\ b.size = 0
  <3>1. PICK m : m = Empty  OBVIOUS
  <3>2. a = [m EXCEPT !.count = 1, !.size = Blocks, !.data = d] /\ m \in InoRec
    BY <2>2, <3>1, EmptyType
  <3>3. a.size = Blocks /\ a.data = d  BY <3>2 DEF InoRec
  <3> QED  BY <2>2, <3>3, EmptyType
 <2>4. inode = [i \in Inos |-> IF i = Input THEN a ELSE IF i = Output THEN b ELSE Empty]
   BY <2>1, <2>2 DEF Init
 <2>5. inode[Input] = a /\ inode[Output] = b  BY <2>4, Consts
 <2>6. \A k \in 0 .. Blocks - 1 : d[k] = k + 1  BY <2>1
 <2> QED  BY <2>3, <2>5, <2>6
<1>5. \A i \in Inos : hist[i].got = <<>> /\ hist[i].sent = IF i = Input THEN Blocks ELSE 0
 <2>1. PICK g, m : g = <<>> /\ m = Blocks  OBVIOUS
 <2>2. PICK e : e = [got |-> g, sent |-> 0, sought |-> FALSE, broken |-> FALSE]  OBVIOUS
 <2>3. PICK c : c = [e EXCEPT !.sent = m]  OBVIOUS
 <2>4. e.got = g /\ e.sent = 0 /\ c.got = g /\ c.sent = m  BY <2>2, <2>3
 <2>5. hist = [i \in Inos |-> IF i = Input THEN c ELSE e]  BY <2>1, <2>2, <2>3 DEF Init, Clean
 <2> QED  BY <2>1, <2>4, <2>5
<1>6. GivenOK  BY <1>1, Consts DEF GivenOK
<1>7. Fresh  BY <1>2, Consts DEF Fresh
<1>8. ASSUME NEW i \in Inos PROVE Flow(i)
 <2>1. Alone(i)  BY <1>2 DEF Alone
 <2>2. Got(hist[i])
  <3>1. Len(hist[i].got) = 0  BY <1>5
  <3>2. 1 .. 0 = {}  OBVIOUS
  <3> QED  BY <3>1, <3>2 DEF Got
 <2>3. i = Output => Rest(inode[i], hist[i], 0)  BY <1>4, <1>5, Consts, RestStart
 <2>4. i = Input => Rest(inode[i], hist[i], 0)
  <3>1. PICK n : n = Len(hist[i].got)  OBVIOUS
  <3>2. n = 0  BY <1>5, <3>1
  <3>3. i = Input => /\ 0 <= inode[i].size /\ hist[i].sent = n + inode[i].size - 0
                     /\ \A k \in 0 .. inode[i].size - 1 : inode[i].data[k] = n + (k - 0) + 1
    BY <1>4, <1>5, <3>2, Consts
  <3> QED  BY <3>1, <3>3 DEF Rest
 <2>5. ASSUME NEW f \in FilesOf(i) PROVE OffsetOK(i, f)
  <3>1. f \in {1, 2} /\ f \in Files /\ file[f].ino = i  BY <1>1 DEF FilesOf
  <3>2. CASE f = 1
   <4>1. i = Input /\ file[f].flag = {"r"} /\ file[f].off = 0  BY <1>1, <1>3, <3>1, <3>2
   <4> QED  BY <2>4, <4>1 DEF OffsetOK
  <3>3. CASE f = 2
   <4>1. i = Output /\ file[f].flag = {"w"} /\ file[f].off = 0  BY <1>1, <1>3, <3>1, <3>3
   <4> QED  BY <1>4, <4>1 DEF OffsetOK
  <3> QED  BY <3>1, <3>2, <3>3
 <2>6. Whole(i)  BY <1>2, <2>2, <2>3, <2>5 DEF Whole
 <2> QED  BY <2>1, <2>6 DEF Flow
<1> QED  BY <1>6, <1>7, <1>8 DEF FlowInv

LEMMA FlowStep == IndInv /\ IndInv' /\ FlowInv /\ [Next]_vars => FlowInv'
<1>1. ASSUME IndInv, IndInv', FlowInv, NEW p \in Procs, Call(p) PROVE FlowInv'
 <2>1. ASSUME NEW d \in Asked, NEW k \in Sizes, Sys_Read(p, d, k) \/ Sys_Write(p, d, k)
       PROVE  FlowInv'
  <3>1. Rdwr(p, "r", d, k) \/ Rdwr(p, "w", d, k)  BY <2>1 DEF Sys_Read, Sys_Write
  <3> QED  BY <1>1, <3>1, RdwrFlow
 <2>2. ASSUME NEW d \in Asked, NEW k \in 0 .. Blocks, NEW whence \in 0 .. 2, Sys_Seek(p, d, k, whence)
       PROVE  FlowInv'
   BY <1>1, <2>2, SeekFlow
 <2>3. ASSUME NEW d \in Asked, Sys_Dup(p, d) PROVE FlowInv'  BY <1>1, <2>3, DupFlow
 <2>4. ASSUME NEW d \in Asked, Sys_Close(p, d) PROVE FlowInv'  BY <1>1, <2>4, CloseFlow
 <2>5. ASSUME NEW q \in Procs, Sys_Fork(p, q) PROVE FlowInv'  BY <1>1, <2>5, ForkFlow
 <2>6. ASSUME NEW q \in Procs, Sys_Kill(p, q) PROVE FlowInv'  BY <1>1, <2>6, KillFlow
 <2>7. CASE Sys_Pipe(p)  BY <1>1, <2>7, PipeFlow
 <2>8. CASE Sys_Rexit(p)  BY <1>1, <2>8, ExitFlow
 <2> QED  BY <1>1, <2>1, <2>2, <2>3, <2>4, <2>5, <2>6, <2>7, <2>8 DEF Call
<1>2. ASSUME IndInv, IndInv', FlowInv, NEW p \in Procs, Step(p) PROVE FlowInv'
 <2>1. CASE Plock(p)  BY <1>2, <2>1, PlockFlow
 <2>2. CASE ReadP(p)  BY <1>2, <2>2, ReadPFlow
 <2>3. CASE WriteP(p)  BY <1>2, <2>3, WritePFlow
 <2>4. CASE NFlock(p)  BY <1>2, <2>4, NFlockFlow
 <2>5. CASE IoStart(p)  BY <1>2, <2>5, IoStartFlow
 <2>6. CASE IoMove(p)  BY <1>2, <2>6, IoMoveFlow
 <2>7. CASE IoFull(p)  BY <1>2, <2>7, IoFullFlow
 <2>8. CASE IoEnd(p)  BY <1>2, <2>8, IoEndFlow
 <2>9. CASE IPut(p)  BY <1>2, <2>9, IPutFlow
 <2>10. CASE Signal(p) \/ ExitEnd(p)  BY <1>2, <2>10, ExitFlow
 <2>11. CASE ExitClose(p)  BY <1>2, <2>11, ExitCloseFlow
 <2> QED  BY <1>2, <2>1, <2>2, <2>3, <2>4, <2>5, <2>6, <2>7, <2>8, <2>9, <2>10, <2>11 DEF Step
<1>3. ASSUME FlowInv, UNCHANGED vars PROVE FlowInv'
 <2>1. file' = file /\ inode' = inode /\ u' = u /\ hist' = hist  BY <1>3 DEF vars
 <2>2. GivenOK' /\ Fresh'  BY <1>3, <2>1 DEF FlowInv, GivenOK, Fresh
 <2>3. ASSUME NEW i \in Inos PROVE Flow(i)'
  <3>1. Flow(i) /\ FilesOf(i)' = FilesOf(i)  BY <1>3, <2>1 DEF FlowInv, FilesOf
  <3> QED  BY <2>1, <3>1 DEF Flow, Alone, At, Whole, In, OffsetOK, Reads
 <2> QED  BY <2>2, <2>3 DEF FlowInv
<1> QED  BY <1>1, <1>2, <1>3 DEF Next

\* The elements of two sequences one after the other
LEMMA ConcatAt ==
  ASSUME NEW g \in Seq(Nat), NEW t \in Seq(Nat)
  PROVE  /\ g \o t \in Seq(Nat) /\ Len(g \o t) = Len(g) + Len(t)
         /\ \A k \in 1 .. Len(g) : (g \o t)[k] = g[k]
         /\ \A k \in Len(g) + 1 .. Len(g) + Len(t) : (g \o t)[k] = t[k - Len(g)]
  OBVIOUS

\* What has been read and what is left, one after the other
LEMMA RestSeq ==
  ASSUME NEW r \in InoRec, NEW h \in HistRec, NEW c \in Nat, Got(h), Rest(r, h, c)
  PROVE  h.got \o [k \in 1 .. r.size - c |-> r.data[c + k - 1]] = [k \in 1 .. h.sent |-> k]
<1>1. PICK n, m : n = Len(h.got) /\ m = r.size - c  OBVIOUS
<1>2. h.got \in Seq(Nat) /\ n \in Nat /\ r.size \in Nat /\ h.sent \in Nat
  BY <1>1, Consts DEF InoRec, HistRec
<1>3. /\ c <= r.size /\ h.sent = n + r.size - c
      /\ \A k \in c .. r.size - 1 : r.data[k] = n + (k - c) + 1
  BY <1>1 DEF Rest
<1>4. m \in Nat /\ h.sent = n + m  BY <1>1, <1>2, <1>3
<1>5. [k \in 1 .. r.size - c |-> r.data[c + k - 1]] = [k \in 1 .. m |-> n + k]
 <2>1. ASSUME NEW k \in 1 .. m PROVE r.data[c + k - 1] = n + k
  <3>1. PICK l : l = c + k - 1  OBVIOUS
  <3>2. k \in Nat /\ k >= 1 /\ k <= m  BY <1>4, <2>1
  <3>3. PICK z \in Nat : z = r.size /\ m = z - c  BY <1>1, <1>2
  <3>4. l \in c .. z - 1 /\ n + (l - c) + 1 = n + k
   <4>1. n \in Nat  BY <1>2
   <4> QED  BY ONLY <3>1, <3>2, <3>3, <4>1, c \in Nat
  <3> QED  BY <1>3, <3>1, <3>3, <3>4
 <2> QED  BY <1>1, <2>1
<1>6. PICK t : t = [k \in 1 .. m |-> n + k]  OBVIOUS
<1>7. t \in Seq(Nat) /\ Len(t) = m /\ \A k \in 1 .. m : t[k] = n + k
 <2>1. t \in [1 .. m -> Nat]  BY <1>2, <1>4, <1>6
 <2> QED  BY <1>4, <1>6, <2>1
<1>8. PICK s, g : g = h.got /\ s = g \o t  OBVIOUS
<1>9. g \in Seq(Nat) /\ Len(g) = n /\ \A k \in 1 .. n : g[k] = k  BY <1>1, <1>2, <1>8 DEF Got
<1>10. /\ s \in Seq(Nat) /\ Len(s) = n + m
       /\ \A k \in 1 .. n : s[k] = g[k]
       /\ \A k \in n + 1 .. n + m : s[k] = t[k - n]
 <2>1. g \in Seq(Nat) /\ t \in Seq(Nat)  BY <1>7, <1>9
 <2>2. n = Len(g) /\ m = Len(t) /\ s = g \o t  BY <1>7, <1>8, <1>9
 <2>3. /\ g \o t \in Seq(Nat) /\ Len(g \o t) = Len(g) + Len(t)
       /\ \A k \in 1 .. Len(g) : (g \o t)[k] = g[k]
       /\ \A k \in Len(g) + 1 .. Len(g) + Len(t) : (g \o t)[k] = t[k - Len(g)]
   BY ONLY <2>1, ConcatAt, Zenon
 <2> QED  BY ONLY <2>2, <2>3, Zenon
<1>11. ASSUME NEW k \in 1 .. n + m PROVE s[k] = k
 <2>1. CASE k \in 1 .. n
  <3>1. s[k] = g[k]  BY ONLY <1>8, <1>10, <2>1
  <3> QED  BY <1>9, <2>1, <3>1
 <2>2. CASE k \notin 1 .. n
  <3>1. k \in n + 1 .. n + m /\ k - n \in 1 .. m  BY <1>2, <1>4, <2>2
  <3>2. s[k] = t[k - n]  BY ONLY <1>8, <1>10, <3>1
  <3> QED  BY <1>2, <1>4, <1>7, <3>1, <3>2
 <2> QED  BY <2>1, <2>2
<1>12. s = [k \in 1 .. n + m |-> k]  BY <1>10, <1>11
<1> QED  BY <1>4, <1>5, <1>6, <1>8, <1>12

LEMMA FlowOrder == IndInv /\ FlowInv => InOrder
<1> SUFFICES ASSUME IndInv, FlowInv, NEW i \in Inos, ~hist[i].broken, ~hist[i].sought,
                    inode[i].count > 0
             PROVE  /\ \A k \in DOMAIN hist[i].got : hist[i].got[k] = k
                    /\ Reader(i) # {} \/ i \in Given =>
                         hist[i].got \o Unread(i) = [k \in 1 .. hist[i].sent |-> k]
  BY DEF InOrder
<1>1. Whole(i)  BY DEF FlowInv, Flow
<1>2. /\ inode[i] \in InoRec /\ hist[i] \in HistRec /\ file \in [Files -> FileRec]
      /\ u \in [Procs -> URec]
  BY Types DEF IndInv
<1>3. Got(hist[i])  BY <1>1 DEF Whole
<1>4. \A k \in DOMAIN hist[i].got : hist[i].got[k] = k
 <2>1. hist[i].got \in Seq(Nat)  BY <1>2 DEF HistRec
 <2>2. DOMAIN hist[i].got = 1 .. Len(hist[i].got)  BY <2>1
 <2> QED  BY <1>3, <2>2 DEF Got
<1>5. \A p \in Procs : p \in Inside(i) <=> In(p, i)  BY DEF Inside, In, MovePCs
<1>6. ASSUME Reader(i) # {} \/ i \in Given
      PROVE  Cursor(i) \in Nat /\ Rest(inode[i], hist[i], Cursor(i))
 <2>1. CASE \E p \in Inside(i) : u[p].mode = "r"
  <3>1. PICK q : q = CHOOSE p \in Inside(i) : u[p].mode = "r"  OBVIOUS
  <3>2. q \in Inside(i) /\ u[q].mode = "r" /\ Cursor(i) = u[q].off  BY <2>1, <3>1 DEF Cursor
  <3>3. q \in Procs  BY <3>2 DEF Inside
  <3>4. MoverOK(inode[i], hist[i], u[q], file[u[q].f])  BY <1>1, <1>5, <3>2, <3>3 DEF Whole
  <3>5. u[q].off \in Nat  BY <1>2, <3>3 DEF URec
  <3> QED  BY <3>2, <3>4, <3>5 DEF MoverOK
 <2>2. CASE ~(\E p \in Inside(i) : u[p].mode = "r") /\ Reader(i) # {}
  <3>1. PICK f : f = CHOOSE g \in Reader(i) : TRUE  OBVIOUS
  <3>2. f \in Reader(i) /\ Cursor(i) = file[f].off  BY <2>2, <3>1 DEF Cursor
  <3>3. f \in Files /\ f \in FilesOf(i) /\ "r" \in file[f].flag  BY <3>2 DEF Reader, FilesOf
  <3>4. ~Reads(i)  BY <1>5, <2>2 DEF Reads
  <3>5. Rest(inode[i], hist[i], file[f].off)  BY <1>1, <3>3, <3>4 DEF Whole, OffsetOK
  <3>6. file[f].off \in Nat  BY <1>2, <3>3 DEF FileRec
  <3> QED  BY <3>2, <3>5, <3>6
 <2>3. CASE ~(\E p \in Inside(i) : u[p].mode = "r") /\ Reader(i) = {}
  <3>1. Cursor(i) = 0 /\ i \in {Input, Output}  BY <1>6, <2>3 DEF Cursor, Given
  <3>2. i # Input
   <4> SUFFICES ASSUME i = Input PROVE FALSE  OBVIOUS
   <4>1. Losers(i) = {}
    <5>1. \A p \in Procs : ~(u[p].pc = "iput" /\ u[p].f = 0 /\ u[p].ino = i)  BY Consts, PutAlone
    <5> QED  BY <5>1 DEF Losers
   <4>2. FilesOf(i) # {}
    <5>1. FilesOf(i) = {} => inode[i].count = 0
     <6>1. inode[i].count = Cardinality(FilesOf(i)) + Cardinality(Losers(i))  BY DEF IndInv, Counts
     <6>2. Cardinality({}) = 0  BY FS_EmptySet
     <6> QED  BY <4>1, <6>1, <6>2
    <5> QED  BY <5>1
   <4>3. PICK f \in Files : file[f].count > 0 /\ file[f].ino = i  BY <4>2 DEF FilesOf
   <4>4. "r" \in file[f].flag  BY <4>3 DEF FlowInv, GivenOK
   <4> QED  BY <2>3, <4>3, <4>4 DEF Reader
  <3> QED  BY <1>1, <3>1, <3>2 DEF Whole
 <2> QED  BY <2>1, <2>2, <2>3
<1>7. ASSUME Reader(i) # {} \/ i \in Given
      PROVE  hist[i].got \o Unread(i) = [k \in 1 .. hist[i].sent |-> k]
  BY <1>2, <1>3, <1>6, <1>7, RestSeq DEF Unread
<1> QED  BY <1>4, <1>7

\* What is read from a pipe or a file is what was written to it, once each and in
\* the order it was written, and what nobody has read yet is still there, at the
\* cursor: however many processes share the File, wait for each other in Plock or
\* NFlock, are interrupted in Sleep or find the disk full half way (ReadP, WriteP,
\* Rdwr).  Only a Seek, or a CloseF that gives back another's lock, undoes it.
THEOREM BytesStayInOrder == Spec => []InOrder
<1>1. Init => FlowInv  BY FlowStart
<1>2. IndInv /\ IndInv' /\ FlowInv /\ [Next]_vars => FlowInv'  BY FlowStep
<1>3. IndInv /\ FlowInv => InOrder  BY FlowOrder
<1>4. Spec => []IndInv  BY Invariance
<1> QED  BY <1>1, <1>2, <1>3, <1>4, PTL DEF Spec
=============================================================================
