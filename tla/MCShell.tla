------------------------------- MODULE MCShell -------------------------------
(* Lines of two to four words over a small file table, and all lines of   *)
(* up to three words with brackets and files for the parser.               *)
EXTENDS Shell
CONSTANTS p1, p2, p3, p4, i1, i2, i3, kbd, scr
MCLines == {Two(Word, "|", Word), Two(Word, "|", Two(Word, "|", Word)),
            Two(Par(Two(Word, ";", Word)), "|", Word), Two(Word, "|", Par(Two(Word, "&", Word))),
            Two(Word, "&", Two(Word, ";", Word)),
            Two(Word, "|", Two(Word, "|", Two(Word, "|", Word)))}
MCCalls == [t \in MCLines |-> CASE t = Two(Word, "|", Word) -> 3
                             [] t.op = "|" /\ t.r.op = "|" /\ t.r.r.op = "|" -> 0
                             [] OTHER -> 2]

\* Words and brackets with files, pipelines, lists: what the grammar allows
Filed(S) == {[t EXCEPT !.fin = i, !.fout = o, !.cat = c] :
               t \in S, i \in {"", "i"}, o \in {"", "o"}, c \in BOOLEAN} \ 
            {[t EXCEPT !.fin = i, !.cat = TRUE] : t \in S, i \in {"", "i"}}
Piped(S, T) == {Two(l, "|", r) : l \in S, r \in T}
Listed(S, T) == {Two(l, op, r) : l \in S, op \in {"&", ";"}, r \in T}
Ones == Filed({Word})
Pipes2 == Piped(Ones, Ones)
Lists2 == Listed(Ones \cup Pipes2, Ones \cup {Nothing})
Brackets == Filed({Par(t) : t \in {Word} \cup Piped({Word}, {Word}) \cup Listed({Word}, {Word, Nothing})})
MCTyped == Ones \cup Pipes2 \cup Lists2 \cup Brackets
           \cup Piped(Brackets, {Word}) \cup Piped({Word}, Brackets)
           \cup Listed(Brackets, {Word, Nothing}) \cup Listed({Word}, Brackets \cup Listed({Word}, {Word}))
MCGarbage == {-1, 1}
Symmetry == Permutations({p2, p3, p4}) \cup Permutations({i1, i2, i3})
==============================================================================
