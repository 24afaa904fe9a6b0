-------------------------------- MODULE Shell --------------------------------
(* The shell (shell/CommandTree.c, ExecuteCommand.c): a line of tokens      *)
(* becomes a tree of commands, and the tree system calls, which run on the *)
(* kernel of OpenFiles.  Redirections are parsed; the lines that are run    *)
(* have none, so that every descriptor is a pipe's or one the shell has.   *)
(* Every word is a program: cd, which ExecuteTCOM does itself without a    *)
(* fork, a redirection or a wait, is left out.                             *)
EXTENDS OpenFiles, SequencesExt

CONSTANTS
    Lines,     \* the commands that may be typed and run
    Typed,     \* more commands, that are only parsed
    Garbage,   \* what the array of a pipe() that failed may hold
    MaxCalls   \* bound: system calls of the programs of each line, but exits

Separators == {"&", ";"}
Marks == Separators \cup {"|", "(", ")", "<", ">"}

VARIABLES
    sh,    \* of each process: what is left of its script, its arrays of pipes, its command
    made,  \* of each inode: the bar for which it was made a pipe
    typed, \* the command that was typed
    calls  \* system calls of the programs so far

shvars == <<vars, sh, made, typed, calls>>
-----------------------------------------------------------------------------
(* What is typed: words with their redirections, pipelines, lists and      *)
(* brackets, in tokens.  A pipeline or a list goes on to the right.        *)

Nothing == [op |-> "nothing"]
Command(op, l, r, fin, fout, cat) ==
    [op |-> op, l |-> l, r |-> r, fin |-> fin, fout |-> fout, cat |-> cat]
Word == Command("word", Nothing, Nothing, "", "", FALSE)
Par(l) == Command("()", l, Nothing, "", "", FALSE)
Two(l, op, r) == Command(op, l, r, "", "", FALSE)

RECURSIVE Tokens(_)
Tokens(t) ==
    LET files == (IF t.fin = "" THEN <<>> ELSE <<"<", t.fin>>)
                 \o (IF t.fout = "" THEN <<>> ELSE IF t.cat THEN <<">", ">", t.fout>> ELSE <<">", t.fout>>)
    IN  CASE t.op = "nothing" -> <<>>
          [] t.op = "word" -> <<"word">> \o files
          [] t.op = "()" -> <<"(">> \o Tokens(t.l) \o <<")">> \o files
          [] OTHER -> Tokens(t.l) \o <<t.op>> \o Tokens(t.r)

\* Its meaning: each word and bracket, at its token, with the bars it reads from
\* and writes to (0 for none), its files, and whether the shell goes on at once
RECURSIVE Meant(_, _, _, _, _)
Meant(t, at, in, out, bg) ==
    LET mid == at + Len(Tokens(t.l)) IN
    CASE t.op = "nothing" -> {}
      [] t.op = "word" -> {<<at, in, out, t.fin, t.fout, t.cat, bg>>}
      [] t.op = "()" -> {<<at, in, out, t.fin, t.fout, t.cat, FALSE>>} \cup Meant(t.l, at + 1, in, out, FALSE)
      [] t.op = "|" -> Meant(t.l, at, in, mid, FALSE) \cup Meant(t.r, mid + 1, mid, out, bg)
      [] OTHER -> Meant(t.l, at, in, out, t.op = "&") \cup Meant(t.r, mid + 1, in, out, FALSE)

\* Which words have to end before which begin: a word and all behind its semicolon
RECURSIVE Before(_, _)
Before(t, at) ==
    LET mid == at + Len(Tokens(t.l)) IN
    CASE t.op \in {"nothing", "word"} -> {}
      [] t.op = "()" -> Before(t.l, at + 1)
      [] OTHER -> Before(t.l, at) \cup Before(t.r, mid + 1) \cup
                  (IF t.op = ";" /\ t.l.op = "word"
                   THEN {at} \X {w[1] : w \in Meant(t.r, mid + 1, 0, 0, FALSE)} ELSE {})
-----------------------------------------------------------------------------
(* CommandTree.c.  A node has its kind, the flags FAND and FPAR it was      *)
(* given, where its mark or its first token is, its redirections and sons. *)

NoNode == [type |-> "none"]
Node(type, ps, at, fin, fout, left, right) ==
    [type |-> type, params |-> ps, at |-> at, fin |-> fin, fout |-> fout, left |-> left, right |-> right]
Token(line, k) == IF k \in DOMAIN line THEN line[k] ELSE "stale"

\* The brackets that are open before k
Open(line, from, k) ==
    Cardinality({i \in from .. k - 1 : line[i] = "("}) - Cardinality({i \in from .. k - 1 : line[i] = ")"})
\* Mutant: what stands in brackets divides the line, too.
OutsideOrIn(line, from, to, marks) == {k \in from .. to : line[k] \in marks}
Outside(line, from, to, marks) == {k \in from .. to : line[k] \in marks /\ Open(line, from, k) = 0}
LeastOf(S) == CHOOSE x \in S : \A y \in S : x <= y

\* The redirections of CreateSimpleNode: after a '>' with two tokens behind it
\* only '> >' is looked at, so that '> f x' takes f for an argument
RECURSIVE Redirections(_, _, _, _)
Redirections(line, k, to, r) ==
    IF k > to THEN r
    ELSE IF line[k] = "<" /\ k < to /\ r.fin = ""
    THEN Redirections(line, k + 2, to, [r EXCEPT !.fin = line[k + 1]])
    ELSE IF line[k] = ">" /\ k + 2 <= to /\ r.fout = ""
    THEN IF line[k + 1] = ">"
         THEN Redirections(line, k + 3, to, [r EXCEPT !.fout = line[k + 2], !.cat = TRUE])
         ELSE Redirections(line, k + 1, to, r)
    ELSE IF line[k] = ">" /\ k < to /\ r.fout = ""
    THEN Redirections(line, k + 2, to, [r EXCEPT !.fout = line[k + 1]])
    ELSE IF line[k] \in {"<", ">"} THEN Redirections(line, k + 1, to, r)
    ELSE Redirections(line, k + 1, to, [r EXCEPT !.args = Append(@, line[k])])

CreateSimpleNode(line, from, to, ps) ==
    LET r == Redirections(line, from + 1, to, [fin |-> "", fout |-> "", cat |-> FALSE, args |-> <<>>])
    IN  [Node("TCOM", ps \cup (IF r.cat THEN {"FCAT"} ELSE {}), from, r.fin, r.fout, NoNode, NoNode)
         EXCEPT !.left = <<Token(line, from)>> \o r.args]

\* Redirections behind the bracket; the flags of the line are not kept
CreateCurveNode(line, from, to) ==
    LET close == CHOOSE k \in from .. to : line[k] = ")" /\ \A j \in k + 1 .. to : line[j] # ")"
        ins == {k \in close + 1 .. to - 1 : line[k] = "<"}
        outs == {k \in close + 1 .. to - 1 : line[k] = ">" /\ (k + 2 <= to => line[k + 1] = ">")}
        first == LeastOf(outs)
    IN  [body |-> <<from + 1, close - 1>>,
         node |-> Node("TPAR", IF \E k \in outs : k + 2 <= to THEN {"FCAT"} ELSE {}, from,
                       IF ins = {} THEN "" ELSE line[LeastOf(ins) + 1],
                       IF outs = {} THEN "" ELSE IF first + 2 <= to THEN line[first + 2] ELSE line[first + 1],
                       NoNode, NoNode)]

\* AnalizeCommand with CreateTableNode and CreatePipeNode: the first & or ; and
\* else the first | outside brackets divides the line.  After leading marks
\* nothing may be left: then the token behind the line is taken for a command.
RECURSIVE AnalizeCommand(_, _, _, _)
AnalizeCommand(line, from, to, ps) ==
    IF from > to THEN NoNode
    ELSE LET st == LeastOf({k \in from .. to + 1 : k > to \/ line[k] \notin Separators \cup {"|"}})
             seps == Outside(line, st, to, Separators)
             bars == Outside(line, st, to, {"|"})
             sep == LeastOf(seps)
             bar == LeastOf(bars)
         IN  IF seps # {}
             THEN LET all == ps \cup (IF line[sep] = "&" THEN {"FAND"} ELSE {})
                  IN  Node("TLST", {}, sep, "", "", AnalizeCommand(line, st, sep - 1, all),
                           AnalizeCommand(line, sep + 1, to, all \ {"FAND"}))
             ELSE IF bars # {}
             THEN Node("TFIL", {}, bar, "", "", AnalizeCommand(line, st, bar - 1, {}),
                       AnalizeCommand(line, bar + 1, to, ps))
             ELSE IF st <= to /\ line[st] = "(" /\ Open(line, st, to + 1) = 0
             THEN LET c == CreateCurveNode(line, st, to)
                  IN  [c.node EXCEPT !.left = AnalizeCommand(line, c.body[1], c.body[2], {"FPAR"})]
             ELSE CreateSimpleNode(line, st, to, ps)
-----------------------------------------------------------------------------
(* ExecuteCommand.c, as the script of system calls that a tree is.  arr is  *)
(* the bar whose array is passed as pipes, 0 for none; ps are the flags     *)
(* that ExecuteTFIL adds to a node.                                        *)

\* at is a bar and end 1 or 2 for the ends of its pipe, or for 0 and 1
Op(op, at, end, body) == [op |-> op, at |-> at, end |-> end, body |-> body]
Do(op) == <<Op(op, 0, 0, <<>>)>>

\* The lowest free descriptor is the one that was closed.  Mutant: it is closed
\* after the dup.
ReplacedLate(end, arr) == <<Op("dup", arr, end, <<>>), Op("close", 0, end, <<>>), Op("drop", arr, end, <<>>)>>
Replaced(end, arr) == <<Op("close", 0, end, <<>>), Op("dup", arr, end, <<>>), Op("drop", arr, end, <<>>)>>

\* OutputRedirect, but for files.  An end that was not wanted stays in the array
OutputRedirect(ps, arr) ==
    (IF "FPIN" \in ps THEN Replaced(1, arr) ELSE <<>>) \o
    (IF "FPOU" \in ps THEN Replaced(2, arr) ELSE <<>>) \o
    (IF arr = 0 THEN <<>> ELSE <<Op("rest", arr, 1, <<>>), Op("rest", arr, 2, <<>>)>>)

RECURSIVE ExecuteCommand(_, _, _)
ExecuteCommand(node, ps, arr) ==
    LET all == node.params \cup ps IN
    CASE node.type = "none" -> <<>>
      [] node.type = "TLST" -> ExecuteCommand(node.left, {}, arr) \o ExecuteCommand(node.right, {}, arr)
      [] node.type = "TFIL" ->
            <<Op("pipe", node.at, IF "FPIN" \in all THEN arr ELSE 0, <<>>)>>
            \o ExecuteCommand(node.left,
                              IF "FPIN" \in all THEN {"FPOU", "FPIN", "FAND"} ELSE {"FPOU"},
                              IF "FPIN" \in all THEN arr ELSE node.at)
            \o ExecuteCommand(node.right, {"FPIN", "FAND"}, node.at)
      [] node.type = "TPAR" ->
            IF node.left.type = "none" THEN <<>>
            ELSE <<Op("fork", 0, 0, OutputRedirect(all, arr) \o ExecuteCommand(node.left, {}, arr) \o Do("exit"))>>
                 \o Do("wait")
      [] node.type = "TCOM" ->
            <<Op("fork", 0, 0, OutputRedirect(all, arr) \o <<Op("exec", node.at, 0, node.left)>>)>>
            \o (IF "FAND" \in all THEN <<>> ELSE Do("await"))
-----------------------------------------------------------------------------
(* The shell, its children before exec, and the programs.                  *)

Bars == UNION {DOMAIN Tokens(t) : t \in Lines}
NoEnds == <<-1, -1>>
\* A process that is not there; a parent keeps the slot until wait
Blank == [code |-> <<>>, arr |-> [b \in Bars |-> NoEnds], cmd |-> "none", parent |-> NoProc,
          kid |-> NoProc, word |-> 0, lost |-> FALSE]
ShInit ==
    /\ Init
    /\ sh = [p \in Procs |-> IF p = First THEN [Blank EXCEPT !.cmd = "shell"] ELSE Blank]
    /\ made = [i \in Inos |-> 0]
    /\ typed = Nothing
    /\ calls = 0

Now(p) == Head(sh[p].code)
Running(p, ops) == sh[p].cmd = "shell" /\ CanCall(p) /\ sh[p].code # <<>> /\ Now(p).op \in ops
Popped(p) == [sh[p] EXCEPT !.code = Tail(@)]
End(p) == LET d == sh[p].arr[Now(p).at][Now(p).end] IN IF d < 0 THEN NOfile ELSE d

\* main1: a line is read, parsed and run; one line is enough
Parse(t) == AnalizeCommand(Tokens(t), 1, Len(Tokens(t)), {})
ReadLine == \E t \in Lines :
    /\ typed = Nothing /\ CanCall(First) /\ sh[First].cmd = "shell"
    /\ typed' = t
    /\ sh' = [sh EXCEPT ![First].code = ExecuteCommand(Parse(t), {}, 0)]
    /\ UNCHANGED <<vars, made, calls>>

\* ExecuteTFIL: the result of pipe() is not looked at
MakePipe(p) ==
    LET bar == Now(p).at
        to == Now(p).end
        d == Least(FreeFds(p))
        e == Least(FreeFds(p) \ {d})
        got == fds'[p] # fds[p]
    IN
    /\ Running(p, {"pipe"})
    /\ Sys_Pipe(p)
    /\ \E ends \in IF got THEN {<<d, e>>} ELSE Garbage \X Garbage :
          sh' = [sh EXCEPT ![p] = [Popped(p) EXCEPT
                   !.arr = [b \in Bars |-> IF b = bar THEN ends
                                           ELSE IF b = to THEN <<@[b][1], ends[2]>> ELSE @[b]],
                   !.lost = @ \/ ~got]]
    /\ made' = IF got THEN [made EXCEPT ![file'[fds'[p][d]].ino] = bar] ELSE made
    /\ UNCHANGED <<faults, typed, calls>>

\* fork() in ExecuteTPAR and ExecuteTCOM
Free(q) == u[q].pc = "none" /\ sh[q].parent = NoProc
ForkChild(p) ==
    /\ Running(p, {"fork"})
    /\ \/ \E q \in Procs :
          /\ Free(q) /\ Sys_Fork(p, q)
          /\ sh' = [sh EXCEPT ![p] = [Popped(p) EXCEPT !.kid = q],
                             ![q] = [sh[p] EXCEPT !.code = Now(p).body, !.parent = p, !.kid = NoProc]]
       \/ /\ \A q \in Procs : ~Free(q)
          /\ Done(p, "EAGAIN", u)
          /\ sh' = [sh EXCEPT ![p] = [Popped(p) EXCEPT !.kid = NoProc]]
          /\ UNCHANGED <<fds, file, inode, sig, hist>>
    /\ UNCHANGED <<faults, made, typed, calls>>

\* wait(&state), once in ExecuteTPAR, until it is the child in ExecuteTCOM
Kids(p) == {q \in Procs : sh[q].parent = p}
\* Mutant: ExecuteTCOM, too, is content with any child.
SoughtAny(p, q) == TRUE
Sought(p, q) == Now(p).op = "wait" \/ q = sh[p].kid
WaitChild(p) ==
    /\ Running(p, {"wait", "await"})
    /\ \/ /\ Kids(p) = {}
          /\ sh' = [sh EXCEPT ![p] = Popped(p)]
       \/ \E q \in Kids(p) :
          /\ u[q].pc = "none"
          /\ sh' = [sh EXCEPT ![q] = Blank,
                             ![p] = IF Sought(p, q) THEN Popped(p) ELSE @]
    /\ UNCHANGED <<vars, made, typed, calls>>

\* The calls of OutputRedirect
Redirect(p) ==
    /\ Running(p, {"close", "dup", "drop", "rest"})
    /\ CASE Now(p).op = "close" -> Sys_Close(p, Now(p).end - 1)
         [] Now(p).op = "dup" -> Sys_Dup(p, End(p))
         [] Now(p).op = "drop" -> Sys_Close(p, End(p))
         [] Now(p).op = "rest" -> IF sh[p].arr[Now(p).at][Now(p).end] >= 0
                                  THEN Sys_Close(p, End(p)) ELSE UNCHANGED vars
    /\ sh' = [sh EXCEPT ![p] = IF Now(p).op = "drop"
                               THEN [Popped(p) EXCEPT !.arr[Now(p).at][Now(p).end] = -1] ELSE Popped(p)]
    /\ UNCHANGED <<faults, made, typed, calls>>

\* execv: the program runs, or there is none and the child ends
Exec(p) ==
    /\ Running(p, {"exec"})
    /\ sh' = [sh EXCEPT ![p] = [Blank EXCEPT !.cmd = "program", !.parent = sh[p].parent,
                                             !.word = Now(p).at]]
    /\ UNCHANGED <<vars, made, typed, calls>>
Leave(p) ==
    /\ Running(p, {"exec", "exit"})
    /\ Sys_Rexit(p)
    /\ UNCHANGED <<faults, sh, made, typed, calls>>

\* A program does what it likes; a child of its own is one more program
Program(p) ==
    /\ sh[p].cmd = "program"
    /\ Call(p)
    /\ calls' = calls + (IF u'[p].dying THEN 0 ELSE 1)
    /\ calls' <= MaxCalls[typed]
    /\ sh' = [q \in Procs |-> IF u[q].pc = "none" /\ u'[q].pc = "user"
                              THEN [Blank EXCEPT !.cmd = "program"] ELSE sh[q]]
    /\ \A q \in Procs : u[q].pc = "none" /\ u'[q].pc = "user" => Free(q)
    /\ made' = [i \in Inos |-> IF inode[i].count = 0 THEN 0 ELSE made[i]]
    /\ UNCHANGED typed

\* The kernel goes on with a call; who is gone leaves its children to process 1
Kernel(p) ==
    /\ Step(p)
    /\ sh' = [q \in Procs |->
                 LET orphan == sh[q].parent \in Procs /\ u'[sh[q].parent].pc = "none"
                     parent == IF orphan THEN NoProc ELSE sh[q].parent
                 IN  IF u'[q].pc = "none" THEN [Blank EXCEPT !.parent = parent]
                     ELSE [sh[q] EXCEPT !.parent = parent]]
    /\ UNCHANGED <<made, typed, calls>>

ShNext ==
    \/ ReadLine
    \/ \E p \in Procs : \/ MakePipe(p) \/ ForkChild(p) \/ WaitChild(p) \/ Redirect(p)
                        \/ Exec(p) \/ Leave(p) \/ Program(p) \/ Kernel(p)
ShSpec == ShInit /\ [][ShNext]_shvars
-----------------------------------------------------------------------------
(* What has to hold.                                                       *)

\* The tree of a line means what was typed: every word and bracket is in it with
\* its files, between the bars that stand around it in the line, and only what
\* stands before an & is not waited for.
RECURSIVE Wires(_, _, _)
Wires(node, in, out) ==
    LET files == <<node.at, in, out, node.fin, node.fout, "FCAT" \in node.params, "FAND" \in node.params>>
    IN  CASE node.type = "none" -> {}
          [] node.type = "TLST" -> Wires(node.left, in, out) \cup Wires(node.right, in, out)
          [] node.type = "TFIL" -> Wires(node.left, in, node.at) \cup Wires(node.right, node.at, out)
          [] node.type = "TPAR" -> {files} \cup Wires(node.left, in, out)
          [] node.type = "TCOM" -> {files}
ParsedRight == typed = Nothing => \A t \in Lines \cup Typed : Wires(Parse(t), 0, 0) = Meant(t, 1, 0, 0, FALSE)

\* Each program of a line starts with the ends of the right pipes as its input and
\* output, whatever else is open, was inherited or is closed twice; unless a
\* pipe() above it failed.
Has(p, d, bar, mode, given) ==
    LET f == fds[p][d] IN
    /\ f # 0 /\ mode \in file[f].flag
    /\ IF bar = 0 THEN file[f].ino = given ELSE made[file[f].ino] = bar
Wired ==
    \A p \in Procs : Running(p, {"exec"}) /\ ~sh[p].lost =>
        \E w \in Meant(typed, 1, 0, 0, FALSE) :
            w[1] = Now(p).at /\ Has(p, 0, w[2], "r", Input) /\ Has(p, 1, w[3], "w", Output)

\* A word before a semicolon has ended when one behind it is about to start,
\* though wait() also returns for children in the background.
Doing(p) == IF sh[p].code # <<>> /\ Last(sh[p].code).op = "exec" THEN Last(sh[p].code).at ELSE sh[p].word
InTurn ==
    \A p \in Procs : Running(p, {"exec"}) =>
        \A q \in Procs : u[q].pc # "none" => <<Doing(q), Now(p).at>> \notin Before(typed, 1)
===============================================================================
